------------------------------ MODULE EventFeed ------------------------------
(***************************************************************************)
(* What /ws promises to the browsers, whatever goroutines, locks and slow  *)
(* or broken connections it takes: there is one log of events; a member    *)
(* is sent each event once, while it is the last of the log; and no event  *)
(* follows before every member has the last one, but for members that      *)
(* joined after it, which may have it or not.                              *)
(***************************************************************************)
EXTENDS Integers, Sequences

CONSTANTS Conns, Events

VARIABLES
  log,      \* the events broadcast
  members,  \* the connections that are served
  seen,     \* what each connection has been sent
  since     \* the length of the log when it joined

vars == <<log, members, seen, since>>

Init ==
  /\ log = <<>>
  /\ members = {}
  /\ seen = [c \in Conns |-> <<>>]
  /\ since = [c \in Conns |-> 0]

\* Events are numbered, so the last one that c has been sent tells its place.
HasLast(c) == seen[c] # <<>> /\ log # <<>> /\ seen[c][Len(seen[c])] = log[Len(log)]

Broadcast(e) ==
  /\ \A i \in 1 .. Len(log) : log[i] < e
  /\ \A c \in members : HasLast(c) \/ since[c] = Len(log)
  /\ log' = Append(log, e)
  /\ UNCHANGED <<members, seen, since>>

Deliver(c) ==
  /\ c \in members
  /\ log # <<>>
  /\ ~HasLast(c)
  /\ seen' = [seen EXCEPT ![c] = Append(@, log[Len(log)])]
  /\ UNCHANGED <<log, members, since>>

Join(c) ==
  /\ c \notin members
  /\ seen[c] = <<>>
  /\ members' = members \cup {c}
  /\ since' = [since EXCEPT ![c] = Len(log)]
  /\ UNCHANGED <<log, seen>>

Leave(c) ==
  /\ c \in members
  /\ members' = members \ {c}
  /\ UNCHANGED <<log, seen, since>>

Next ==
  \/ \E e \in Events : Broadcast(e)
  \/ \E c \in Conns : Deliver(c) \/ Join(c) \/ Leave(c)

Spec == Init /\ [][Next]_vars
=============================================================================
