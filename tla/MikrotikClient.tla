---------------------------- MODULE MikrotikClient ----------------------------
(***************************************************************************)
(* The connection to the router.  One mikrotik.Client is shared by every   *)
(* goroutine, and nothing locks its pointer to the current connection:     *)
(* Run, MonitorTraffic and StreamPing replace it when a command fails on   *)
(* a broken connection, and then send the command once more.  The secret   *)
(* commands and the one-shot ping call RunArgs of the connection itself    *)
(* and never reconnect.                                                    *)
(*                                                                         *)
(* A caller is one call.  A connection may break at any time; commands     *)
(* that are on the wire then may still be executed, without an answer.     *)
(* Close of a connection is what makes commands of others fail on it.      *)
(***************************************************************************)
EXTENDS Integers, FiniteSets

CONSTANTS
  Runners,    \* calls of Client.Run: sent again after a reconnect
  Listeners,  \* calls of ListenArgsContext by MonitorTraffic and StreamPing
  Plain       \* calls of the embedded client's RunArgs

Retriers == Runners \cup Listeners
Callers  == Retriers \cup Plain

ASSUME MikrotikClientAssumption ==
  /\ IsFiniteSet(Callers)
  /\ Runners \cap Listeners = {} /\ Retriers \cap Plain = {}

\* Connections in the order of their dials: a call dials once at most.
Conns == 1 .. Cardinality(Retriers) + 1

VARIABLES
  current,  \* c.Client, the connection new commands go to
  dialled,  \* number of connections dialled so far
  link,     \* the state of each connection
  wire,     \* commands written to a connection and not yet executed, other
            \* than those of listeners
  pc,       \* where each call is
  on,       \* the connection its last command was written to
  fresh,    \* the connection it has dialled
  tries,    \* how often it has sent its command
  verdict,  \* what the router did with the last one
  effects,  \* history: how often the router has executed it
  raced,    \* history: calls that were reconnecting when another call stored
            \* its connection
  excused   \* history: a break; a setback, which a retry need not survive

linkVars == <<current, dialled, link>>
callVars == <<pc, on, fresh, tries>>
vars == <<linkVars, wire, callVars, verdict, effects, raced, excused>>

Returned == {"answered", "refused", "failed", "streaming", "ended"}

TypeOK ==
  /\ current \in Conns
  /\ dialled \in Conns
  /\ link \in [Conns -> {"none", "open", "broken", "closed"}]
  /\ wire \subseteq Callers \X Conns
  /\ pc \in [Callers -> {"idle", "sent", "close", "dial", "store", "resend"}
                        \cup Returned]
  /\ on \in [Callers -> Conns \cup {0}]
  /\ fresh \in [Callers -> Conns \cup {0}]
  /\ tries \in [Callers -> 0 .. 2]
  /\ verdict \in [Callers -> {"none", "done", "refused"}]
  /\ effects \in [Callers -> 0 .. 2]
  /\ raced \subseteq Callers
  /\ excused \subseteq {"break", "setback"}

\* NewClient has connected, or the program would not run.
Init ==
  /\ current = 1 /\ dialled = 1
  /\ link = [k \in Conns |-> IF k = 1 THEN "open" ELSE "none"]
  /\ wire = {}
  /\ pc = [r \in Callers |-> "idle"]
  /\ on = [r \in Callers |-> 0]
  /\ fresh = [r \in Callers |-> 0]
  /\ tries = [r \in Callers |-> 0]
  /\ verdict = [r \in Callers |-> "none"]
  /\ effects = [r \in Callers |-> 0]
  /\ raced = {}
  /\ excused = {}

GoTo(r, from, to) ==
  /\ pc[r] = from
  /\ pc' = [pc EXCEPT ![r] = to]

Excuse(why) == excused' = excused \cup {why}

\* Calls between the Close and the assignment of a Reconnect.
Reconnecting == {r \in Callers : pc[r] \in {"dial", "store"}}

(***************************************************************************)
(* A command, the first time and after a reconnect.                        *)
(***************************************************************************)

\* Mutant of Send: the command is sent again on the connection it failed on.
SendOnOld(r) ==
  /\ pc[r] \in {"idle", "resend"}
  /\ pc' = [pc EXCEPT ![r] = "sent"]
  /\ on' = [on EXCEPT ![r] = IF pc[r] = "idle" THEN current ELSE @]
  /\ tries' = [tries EXCEPT ![r] = @ + 1]
  /\ verdict' = [verdict EXCEPT ![r] = "none"]
  /\ UNCHANGED <<linkVars, wire, fresh, effects, raced, excused>>

\* c.Client is read, and the command written to what it points to.
Send(r) ==
  /\ pc[r] \in {"idle", "resend"}
  /\ pc' = [pc EXCEPT ![r] = "sent"]
  /\ on' = [on EXCEPT ![r] = current]
  /\ tries' = [tries EXCEPT ![r] = @ + 1]
  /\ verdict' = [verdict EXCEPT ![r] = "none"]
  /\ wire' = IF r \in Listeners \/ link[current] = "closed" THEN wire
             ELSE wire \cup {<<r, current>>}
  /\ UNCHANGED <<linkVars, fresh, effects, raced, excused>>

\* Listening does not wait for the router: it returns when the command is
\* written, to an open connection or to one not yet known to be broken.
Listen(r) ==
  /\ r \in Listeners
  /\ GoTo(r, "sent", "streaming")
  /\ link[on[r]] \in {"open", "broken"}
  /\ UNCHANGED <<linkVars, wire, on, fresh, tries, verdict, effects, raced, excused>>

Reply(r) ==
  /\ r \notin Listeners
  /\ verdict[r] # "none"
  /\ GoTo(r, "sent", IF verdict[r] = "done" THEN "answered" ELSE "refused")
  /\ link[on[r]] = "open"
  /\ UNCHANGED <<linkVars, wire, on, fresh, tries, verdict, effects, raced, excused>>

\* Mutants of Fails: the secret commands reconnect, too; a connection closed by
\* another call is not noticed.
FailsAlike(r) ==
  /\ GoTo(r, "sent", IF tries[r] = 1 THEN "close" ELSE "failed")
  /\ link[on[r]] # "open"
  /\ UNCHANGED <<linkVars, wire, on, fresh, tries, verdict, effects, raced, excused>>

FailsWhenBroken(r) ==
  /\ GoTo(r, "sent", IF r \in Retriers /\ tries[r] = 1 THEN "close" ELSE "failed")
  /\ link[on[r]] = "broken"
  /\ UNCHANGED <<linkVars, wire, on, fresh, tries, verdict, effects, raced, excused>>

\* The call returns with an error.  isConnectionError knows the errors of a
\* connection that was closed here, and most of one that broke, but not for
\* instance a reset; only the first error of Run and of the two listening
\* functions leads to a reconnect.
Fails(r) ==
  /\ pc[r] = "sent"
  /\ link[on[r]] # "open"
  /\ \/ /\ r \in Retriers /\ tries[r] = 1
        /\ GoTo(r, "sent", "close")
        /\ UNCHANGED excused
     \/ /\ r \in Retriers => tries[r] = 2
        /\ GoTo(r, "sent", "failed")
        /\ UNCHANGED excused
     \/ /\ r \in Retriers /\ tries[r] = 1 /\ link[on[r]] = "broken"
        /\ GoTo(r, "sent", "failed")
        /\ Excuse("setback")
  /\ UNCHANGED <<linkVars, wire, on, fresh, tries, verdict, effects, raced>>

(***************************************************************************)
(* Reconnect.                                                              *)
(***************************************************************************)

\* Mutant of CloseOld: the old connection is left to the router.
CloseNothing(r) ==
  /\ GoTo(r, "close", "dial")
  /\ UNCHANGED <<linkVars, wire, on, fresh, tries, verdict, effects, raced, excused>>

\* c.Client.Close(): of whatever connection is the current one by now.
CloseOld(r) ==
  /\ GoTo(r, "close", "dial")
  /\ link' = [link EXCEPT ![current] = "closed"]
  /\ IF link[current] = "open" THEN Excuse("setback") ELSE UNCHANGED excused
  /\ UNCHANGED <<current, dialled, wire, on, fresh, tries, verdict, effects, raced>>

Dial(r) ==
  /\ GoTo(r, "dial", "store")
  /\ dialled' = dialled + 1
  /\ link' = [link EXCEPT ![dialled + 1] = "open"]
  /\ fresh' = [fresh EXCEPT ![r] = dialled + 1]
  /\ UNCHANGED <<current, wire, on, tries, verdict, effects, raced, excused>>

\* The router refuses or does not answer within the timeout: the call returns
\* its first error, and c.Client stays a closed connection.
DialFails(r) ==
  /\ GoTo(r, "dial", "failed")
  /\ Excuse("setback")
  /\ UNCHANGED <<linkVars, wire, on, fresh, tries, verdict, effects, raced>>

\* c.Client = conn; the command is sent again after it.
Store(r) ==
  /\ GoTo(r, "store", "resend")
  /\ current' = fresh[r]
  /\ fresh' = [fresh EXCEPT ![r] = 0]
  /\ raced' = raced \cup (Reconnecting \ {r})
  /\ UNCHANGED <<dialled, link, wire, on, tries, verdict, effects, excused>>

(***************************************************************************)
(* A stream that has been started, the router and the network.             *)
(***************************************************************************)

\* The context is cancelled, or the connection dies and the library closes
\* the reply channel.
StreamEnds(r) ==
  /\ GoTo(r, "streaming", "ended")
  /\ UNCHANGED <<linkVars, wire, on, fresh, tries, verdict, effects, raced, excused>>

\* The router executes a command or refuses it, also when nobody will hear of
\* it.
Execute(r, k) ==
  /\ <<r, k>> \in wire
  /\ wire' = wire \ {<<r, k>>}
  /\ \E what \in {"done", "refused"} :
       /\ effects' = IF what = "done" THEN [effects EXCEPT ![r] = @ + 1]
                                      ELSE effects
       /\ verdict' = IF pc[r] = "sent" /\ on[r] = k
                     THEN [verdict EXCEPT ![r] = what] ELSE verdict
  /\ UNCHANGED <<linkVars, callVars, raced, excused>>

Break(k) ==
  /\ link[k] = "open"
  /\ link' = [link EXCEPT ![k] = "broken"]
  /\ Excuse(IF "break" \in excused THEN "setback" ELSE "break")
  /\ UNCHANGED <<current, dialled, wire, callVars, verdict, effects, raced>>

-----------------------------------------------------------------------------

Call(r) ==
  \/ Listen(r) \/ Reply(r) \/ Fails(r)
  \/ CloseOld(r) \/ Dial(r) \/ DialFails(r) \/ Store(r)
  \/ pc[r] = "resend" /\ Send(r)

AllReturned == \A r \in Callers : pc[r] \in Returned

Next ==
  \/ \E r \in Callers : Send(r) \/ Call(r) \/ StreamEnds(r)
  \/ \E r \in Callers, k \in Conns : Execute(r, k)
  \/ \E k \in Conns : Break(k)
  \/ AllReturned /\ UNCHANGED vars

Spec == Init /\ [][Next]_vars

-----------------------------------------------------------------------------
(***************************************************************************)
(* Safety.                                                                 *)
(***************************************************************************)

\* Open connections that nobody will ever close or use: not the current one, nor
\* one that a call has dialled and is about to make current.
Forgotten ==
  {k \in Conns : link[k] = "open" /\ k # current /\
                 ~\E r \in Callers : pc[r] = "store" /\ fresh[r] = k}

\* Nothing locks a reconnect, so two of them may harm each other, but nothing
\* else harms a healthy connection: it is closed only by a call that has failed
\* on another one, and forgotten only when a call stores its own connection
\* although another call has stored one since it closed the old one.
HarmIsOverlap ==
  [][/\ \A k \in Conns :
          link[k] = "open" /\ link'[k] = "closed" =>
            \E r \in Retriers : pc[r] = "close" /\ pc'[r] = "dial" /\ on[r] # k
     /\ ~(Forgotten' \subseteq Forgotten) =>
          \E r \in raced : pc[r] = "store" /\ pc'[r] = "resend"]_vars

\* A reconnect helps: when a connection has broken once, the dials succeed, the
\* error is one that isConnectionError knows, and no late reconnect closes a
\* healthy connection, then no call that retries fails, and the program has a
\* closed connection only while a call is about to replace it, so that the
\* plain commands, which cannot, work again.
ReconnectHelps ==
  "setback" \notin excused =>
    /\ \A r \in Retriers : pc[r] # "failed"
    /\ link[current] = "closed" => Reconnecting # {}

(***************************************************************************)
(* What CustomerSync and the others build on.                              *)
(***************************************************************************)
outcome ==
  [r \in Runners \cup Plain |->
     CASE pc[r] = "answered" -> "ok"
       [] pc[r] \in {"failed", "refused"} -> "error"
       [] OTHER -> "none"]

Calls == INSTANCE RouterCalls WITH
  Commands   <- Runners \cup Plain,
  Repeatable <- Runners,
  effects    <- [r \in Runners \cup Plain |-> effects[r]]

\* Commands are executed at most as often as RouterCalls says, and a call that
\* succeeds has been executed.
ImplementsRouterCalls == Calls!Spec

-----------------------------------------------------------------------------
(***************************************************************************)
(* Liveness.  Calls go on; the router answers on a connection that stays   *)
(* open.  Nothing is assumed of Send, Break and StreamEnds.                *)
(***************************************************************************)
FairSpec ==
  /\ Spec
  /\ \A r \in Callers : WF_vars(Call(r))
  /\ \A r \in Callers, k \in Conns :
       WF_vars(link[k] = "open" /\ Execute(r, k))

\* Every call returns, or has its stream: reconnects do not go round in
\* circles, however many calls meet the same broken connection.
CallsReturn ==
  \A r \in Callers : pc[r] = "sent" ~> pc[r] \in Returned
=============================================================================
