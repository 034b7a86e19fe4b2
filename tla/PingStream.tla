------------------------------ MODULE PingStream ------------------------------
(***************************************************************************)
(* A continuous ping: the dialog of the dashboard, a WebSocket, its        *)
(* PingCustomerStream handler with a reader goroutine, and the pump of     *)
(* StreamPing between the router's replies and the handler.  The page has  *)
(* one dialog, but opens a new WebSocket for every ping, whose events and  *)
(* those of its predecessors arrive in the same functions.                 *)
(***************************************************************************)
EXTENDS Integers, Sequences, FiniteSets

CONSTANTS
  Pings,       \* the WebSockets that the page opens, numbered in their order
  MaxReplies,  \* bound on the replies taken from the router in the first ping;
               \* in each later one it is one less
  None         \* no socket, no reply, no summary

\* What the router may reply: an answer; a timeout; running totals without a
\* seq; and a reply with a seq that only the handler takes for an answer, that is,
\* a timeout with the running total "received", or one that has neither a status
\* nor a time nor a size.
Replies == {"echo", "timeout", "totals", "disputed"}

HasSeq(reply) == reply # "totals"

ASSUME PingStreamAssumption ==
  /\ Pings \subseteq Nat \ {0}
  /\ MaxReplies \in Nat \ {0}
  /\ None \notin Pings /\ None \notin Replies

VARIABLES
  pingWs,     \* the page: the socket of the dialog
  isPinging,  \* whether it shows a running ping and its button stops it
  lines,      \* clientStats: replies shown and replies it takes for answers
  summary,    \* the statistics it shows
  sock,       \* each WebSocket as the browser sees it
  inbox,      \* messages on their way to the browser
  broken,     \* sockets whose TCP connection broke
  handler,    \* where each handler is
  reader,     \* handlers whose reader goroutine runs
  pump,       \* where each pump is
  carried,    \* the reply that a pump sends
  resp,       \* the reply that a handler writes
  cancelled,  \* contexts that are cancelled
  stats,      \* the handler's sent and received
  taken,      \* replies taken from the router
  abandoned,  \* history: pumps whose handler has left its loop on a write error
  excused     \* history: what makes a summary disagree with the lines

pageVars   == <<pingWs, isPinging, lines, summary>>
netVars    == <<sock, inbox, broken>>
serverVars == <<handler, reader, pump, carried, resp, cancelled, stats,
                taken, abandoned>>
vars == <<pageVars, netVars, serverVars, excused>>

Stats == [sent : 0 .. MaxReplies, received : 0 .. MaxReplies]
NoStats == [sent |-> 0, received |-> 0]

\* What the handler tells the page.
Update(reply)  == [type |-> "update", data |-> reply]
Error          == [type |-> "error"]
Summary(count) == [type |-> "summary", summary |-> count]
Messages ==
  {Error} \cup {Update(reply) : reply \in Replies}
          \cup {Summary(count) : count \in Stats}

TypeOK ==
  /\ pingWs \in Pings \cup {None}
  /\ isPinging \in BOOLEAN
  /\ lines \in Stats
  /\ summary \in Stats \cup {None}
  /\ sock \in [Pings -> {"new", "open", "closing", "closed"}]
  /\ inbox \in [Pings -> Seq(Messages)]
  /\ broken \subseteq Pings /\ reader \subseteq Pings
  /\ handler \in [Pings -> {"none", "lookup", "listen", "range", "write",
                            "done"}]
  /\ pump \in [Pings -> {"none", "select", "send", "exited"}]
  /\ carried \in [Pings -> Replies \cup {None}]
  /\ resp \in [Pings -> Replies \cup {None}]
  /\ cancelled \subseteq Pings
  /\ stats \in [Pings -> Stats]
  /\ taken \in [Pings -> 0 .. MaxReplies]
  /\ abandoned \subseteq Pings
  /\ excused \subseteq {"late close", "disputed"}

Init ==
  /\ pingWs = None /\ isPinging = FALSE
  /\ lines = NoStats /\ summary = None
  /\ sock = [p \in Pings |-> "new"]
  /\ inbox = [p \in Pings |-> <<>>]
  /\ broken = {} /\ reader = {} /\ cancelled = {} /\ abandoned = {}
  /\ handler = [p \in Pings |-> "none"]
  /\ pump = [p \in Pings |-> "none"]
  /\ carried = [p \in Pings |-> None] /\ resp = [p \in Pings |-> None]
  /\ stats = [p \in Pings |-> NoStats]
  /\ taken = [p \in Pings |-> 0]
  /\ excused = {}

GoTo(p, from, to) ==
  /\ handler[p] = from
  /\ handler' = [handler EXCEPT ![p] = to]

PumpTo(p, from, to) ==
  /\ pump[p] = from
  /\ pump' = [pump EXCEPT ![p] = to]

\* What the page or the handler counts when it sees a reply, given the replies
\* it takes for an answer.
Counted(count, reply, answers) ==
  [sent     |-> count.sent + (IF HasSeq(reply) THEN 1 ELSE 0),
   received |-> count.received + (IF reply \in answers THEN 1 ELSE 0)]

\* The rule of the handler, and that of appendPingLine.
HandlerCounts(count, reply) == Counted(count, reply, {"echo", "disputed"})
PageCounts(count, reply)    == Counted(count, reply, {"echo"})

(***************************************************************************)
(* The page.                                                               *)
(***************************************************************************)

\* close() of the dialog's socket, if there is one and it is not closed yet; the
\* browser drops what still arrives.
CloseDialogSocket ==
  LET closing == {p \in Pings : p = pingWs /\ sock[p] = "open"} IN
  /\ sock' = [p \in Pings |-> IF p \in closing THEN "closing" ELSE sock[p]]
  /\ inbox' = [p \in Pings |-> IF p \in closing THEN <<>> ELSE inbox[p]]

\* Mutant of OpenPingModal: clientStats goes on from the previous ping.
OpenPingModalOnly(p) ==
  /\ isPinging' = TRUE /\ summary' = None
  /\ pingWs' = p
  /\ UNCHANGED lines

\* pingCustomer: the dialog is opened, shows a running ping and counts anew.
OpenPingModal(p) ==
  /\ isPinging' = TRUE /\ lines' = NoStats /\ summary' = None
  /\ pingWs' = p

\* The next socket that the page opens.
IsNext(p) == sock[p] = "new" /\ \A q \in Pings : q < p => sock[q] # "new"

\* Mutant of StartPing: the previous socket is left open.
StartPingOnly(p) ==
  /\ IsNext(p)
  /\ OpenPingModal(p)
  /\ sock' = [sock EXCEPT ![p] = "open"]
  /\ handler' = [handler EXCEPT ![p] = "lookup"]
  /\ UNCHANGED <<inbox, broken, reader, pump, carried, resp, cancelled, stats,
                 taken, abandoned, excused>>

\* startPingWs closes the previous socket and connects; the request is
\* upgraded by its handler.
StartPing(p) ==
  /\ IsNext(p)
  /\ OpenPingModal(p)
  /\ sock' = [q \in Pings |-> IF q = p THEN "open"
                            ELSE IF q = pingWs /\ sock[q] = "open" THEN "closing"
                            ELSE sock[q]]
  /\ inbox' = [q \in Pings |-> IF q = pingWs THEN <<>> ELSE inbox[q]]
  /\ handler' = [handler EXCEPT ![p] = "lookup"]
  /\ UNCHANGED <<broken, reader, pump, carried, resp, cancelled, stats, taken, abandoned,
                 excused>>

\* The button while a ping is shown as running.
TogglePing ==
  /\ isPinging
  /\ CloseDialogSocket
  /\ UNCHANGED <<pageVars, broken, serverVars, excused>>

\* The button after that, or the dialog's cross at any time.
ClosePingModal ==
  /\ pingWs # None
  /\ CloseDialogSocket
  /\ pingWs' = None
  /\ isPinging' = FALSE
  /\ UNCHANGED <<lines, summary, broken, serverVars, excused>>

\* onmessage.
Message(p) ==
  /\ inbox[p] # <<>>
  /\ inbox' = [inbox EXCEPT ![p] = Tail(@)]
  /\ LET msg == Head(inbox[p]) IN
       \/ /\ msg.type = "update"
          /\ lines' = PageCounts(lines, msg.data)
          /\ UNCHANGED <<isPinging, summary>>
       \/ /\ msg.type # "update"
          /\ isPinging' = FALSE
          /\ summary' = IF msg.type = "summary" THEN msg.summary ELSE summary
          /\ UNCHANGED lines
  /\ UNCHANGED <<pingWs, sock, broken, serverVars, excused>>

\* A socket is closed when the browser closes it (without waiting for the server
\* for ever), when its connection broke, or after the handler's last message.
Gone(p) ==
  \/ sock[p] = "closing"
  \/ sock[p] = "open" /\ p \in broken
  \/ sock[p] = "open" /\ handler[p] = "done" /\ inbox[p] = <<>>

\* Mutant of OnClose: the page's own counts replace a summary that is shown.
OnCloseOverwrites(p) ==
  /\ Gone(p)
  /\ sock' = [sock EXCEPT ![p] = "closed"]
  /\ inbox' = [inbox EXCEPT ![p] = <<>>]
  /\ broken' = broken \ {p}
  /\ isPinging' = FALSE
  /\ summary' = lines
  /\ excused' = IF isPinging /\ p # pingWs THEN excused \cup {"late close"}
                                           ELSE excused
  /\ UNCHANGED <<pingWs, lines, serverVars>>

\* onclose, of whichever socket: a ping that is shown as running is stopped,
\* and the page shows its own counts.
OnClose(p) ==
  /\ Gone(p)
  /\ sock' = [sock EXCEPT ![p] = "closed"]
  /\ inbox' = [inbox EXCEPT ![p] = <<>>]
  /\ broken' = broken \ {p}
  /\ isPinging' = FALSE
  /\ summary' = IF isPinging THEN lines ELSE summary
  /\ excused' = IF isPinging /\ p # pingWs THEN excused \cup {"late close"}
                                           ELSE excused
  /\ UNCHANGED <<pingWs, lines, serverVars>>

Break(p) ==
  /\ sock[p] = "open"
  /\ broken' = broken \cup {p}
  /\ UNCHANGED <<pageVars, sock, inbox, serverVars, excused>>

(***************************************************************************)
(* PingCustomerStream.                                                     *)
(***************************************************************************)

\* WriteJSON: what is written to a broken connection, or to one that the browser
\* is closing, is lost.
Tell(p, msg) ==
  inbox' = IF sock[p] = "open" /\ p \notin broken
           THEN [inbox EXCEPT ![p] = Append(@, msg)] ELSE inbox

\* The customer and its address; the reader is started.
Lookup(p) ==
  /\ GoTo(p, "lookup", "listen")
  /\ reader' = reader \cup {p}
  /\ UNCHANGED <<pageVars, netVars, pump, carried, resp, cancelled, stats,
                 taken, abandoned, excused>>

\* No such customer, no address; or StreamPing fails, after its one attempt
\* to reconnect.  The deferred cancel and Close follow.
Refuse(p) ==
  /\ handler[p] \in {"lookup", "listen"}
  /\ handler' = [handler EXCEPT ![p] = "done"]
  /\ Tell(p, Error)
  /\ cancelled' = IF handler[p] = "listen" THEN cancelled \cup {p} ELSE cancelled
  /\ UNCHANGED <<pageVars, sock, broken, reader, pump, carried, resp, stats,
                 taken, abandoned, excused>>

\* StreamPing: the command is sent and the pump started.
Listen(p) ==
  /\ GoTo(p, "listen", "range")
  /\ PumpTo(p, "none", "select")
  /\ UNCHANGED <<pageVars, netVars, reader, carried, resp, cancelled, stats,
                 taken, abandoned, excused>>

\* for resp := range ptStream meets out <- ...; the reply is counted.
Receive(p) ==
  /\ GoTo(p, "range", "write")
  /\ PumpTo(p, "send", "select")
  /\ stats' = [stats EXCEPT ![p] = HandlerCounts(@, carried[p])]
  /\ excused' = IF carried[p] = "disputed"
                THEN excused \cup {"disputed"} ELSE excused
  /\ resp' = [resp EXCEPT ![p] = carried[p]]
  /\ carried' = [carried EXCEPT ![p] = None]
  /\ UNCHANGED <<pageVars, netVars, reader, cancelled, taken, abandoned>>

\* A broken connection may take the write and lose it.
Write(p) ==
  /\ GoTo(p, "write", "range")
  /\ Tell(p, Update(resp[p]))
  /\ resp' = [resp EXCEPT ![p] = None]
  /\ UNCHANGED <<pageVars, sock, broken, reader, pump, carried, cancelled, stats,
                 taken, abandoned, excused>>

\* What follows the loop: the summary, and the deferred cancel and Close.
Summarise(p) ==
  /\ Tell(p, Summary(stats[p]))
  /\ cancelled' = cancelled \cup {p}
  /\ stats' = [stats EXCEPT ![p] = NoStats]
  /\ resp' = [resp EXCEPT ![p] = None]
  /\ UNCHANGED <<pageVars, sock, broken, reader, pump, carried, taken, excused>>

\* The handler leaves its loop, and the pump alone.
WriteFails(p) ==
  /\ p \in broken \/ sock[p] = "closed"
  /\ GoTo(p, "write", "done")
  /\ Summarise(p)
  /\ abandoned' = abandoned \cup {p}

RangeEnds(p) ==
  /\ pump[p] = "exited"
  /\ GoTo(p, "range", "done")
  /\ Summarise(p)
  /\ UNCHANGED abandoned

\* Mutant of ReadFails: only a close frame cancels, not an error.
ReadFailsUnseen(p) ==
  /\ p \in reader
  /\ sock[p] # "open" \/ p \in broken \/ handler[p] = "done"
  /\ reader' = reader \ {p}
  /\ cancelled' = IF sock[p] = "closing" THEN cancelled \cup {p} ELSE cancelled
  /\ UNCHANGED <<pageVars, netVars, handler, pump, carried, resp, stats, taken, abandoned,
                 excused>>

\* ReadMessage returns an error: a close frame, a broken connection, or the
\* handler has closed it.
ReadFails(p) ==
  /\ p \in reader
  /\ sock[p] # "open" \/ p \in broken \/ handler[p] = "done"
  /\ reader' = reader \ {p}
  /\ cancelled' = cancelled \cup {p}
  /\ UNCHANGED <<pageVars, netVars, handler, pump, carried, resp, stats, taken, abandoned,
                 excused>>

(***************************************************************************)
(* The pump of StreamPing, and the router.                                 *)
(***************************************************************************)
Take(p) ==
  /\ taken[p] + p <= MaxReplies
  /\ PumpTo(p, "select", "send")
  /\ \E reply \in Replies : carried' = [carried EXCEPT ![p] = reply]
  /\ taken' = [taken EXCEPT ![p] = @ + 1]
  /\ UNCHANGED <<pageVars, netVars, handler, reader, resp, cancelled, stats,
                 abandoned, excused>>

\* ctx.Done is ready.
PumpExits(p) ==
  /\ p \in cancelled
  /\ PumpTo(p, "select", "exited")
  /\ UNCHANGED <<pageVars, netVars, handler, reader, carried, resp, cancelled, stats,
                 taken, abandoned, excused>>

\* The reply channel is closed: the ping has ended on the router, or the shared
\* connection died.
ListenEnds(p) ==
  /\ PumpTo(p, "select", "exited")
  /\ UNCHANGED <<pageVars, netVars, handler, reader, carried, resp, cancelled, stats,
                 taken, abandoned, excused>>

-----------------------------------------------------------------------------

Page(p)    == StartPing(p) \/ Message(p) \/ OnClose(p)
Handler(p) ==
  \/ Lookup(p) \/ Refuse(p) \/ Listen(p) \/ Receive(p)
  \/ Write(p) \/ WriteFails(p) \/ RangeEnds(p)
Pump(p)    == Take(p) \/ PumpExits(p) \/ ListenEnds(p)

Finished == \A p \in Pings : sock[p] = "closed" /\ handler[p] = "done"

Next ==
  \/ \E p \in Pings :
       Page(p) \/ Break(p) \/ Handler(p) \/ ReadFails(p) \/ Pump(p)
  \/ TogglePing \/ ClosePingModal
  \/ Finished /\ UNCHANGED vars

Spec == Init /\ [][Next]_vars

-----------------------------------------------------------------------------
(***************************************************************************)
(* Safety.                                                                 *)
(***************************************************************************)

\* No ping goes on behind the user's back: an open socket is that of the
\* dialog, and while its handler can still send replies the button stops it,
\* unless the close event of an earlier ping has ended the display.
PingCanBeStopped ==
  \A p \in Pings : sock[p] = "open" =>
    /\ p = pingWs
    /\ isPinging \/ handler[p] = "done" \/ "late close" \in excused

\* The statistics shown are those of the lines shown, whether the page or the
\* handler has counted them, and whatever ended the ping; but a timeout that
\* carries the total "received" counts as an answer in the handler only.
SummaryMatchesLines ==
  "late close" \notin excused /\ summary # None =>
    /\ summary.sent = lines.sent
    /\ "disputed" \notin excused => summary.received = lines.received

\* Statistics that are shown are final: no reply, error or close event that comes
\* later changes them or the lines they are about; only a new ping clears them.
StatisticsAreFinal ==
  [][summary # None /\ summary' # None /\ "late close" \notin excused'
       => UNCHANGED <<summary, lines>>]_vars

-----------------------------------------------------------------------------
(***************************************************************************)
(* Liveness.  Goroutines go on, and a pump whose context is cancelled sees *)
(* it among the replies in the end (a select picks among ready cases at    *)
(* random); the page, the network and the router need not do anything.     *)
(***************************************************************************)
FairSpec ==
  /\ Spec
  /\ \A p \in Pings :
       WF_vars(Handler(p)) /\ WF_vars(ReadFails(p)) /\ SF_vars(PumpExits(p))

\* A ping whose browser has gone ends, also when no reply ever comes: unlike
\* the traffic handler, this one has a reader that cancels.  Its pump ends, too,
\* unless the handler has left its loop on a write error: then the pump may have
\* a reply to send, which nobody receives.
DeparturesEndPings ==
  \A p \in Pings :
    sock[p] \in {"closing", "closed"} \/ p \in broken ~>
      handler[p] = "done" /\ (pump[p] \in {"none", "exited"} \/ p \in abandoned)
=============================================================================
