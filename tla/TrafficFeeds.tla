---------------------------- MODULE TrafficFeeds ----------------------------
(***************************************************************************)
(* What on-demand monitoring promises to those who subscribe, whatever     *)
(* goroutines, locks and restarts it takes: each customer's monitoring is  *)
(* on or off, a sample reaches every open feed of the customer that has    *)
(* room and no feed of anybody else, and switching the monitoring off ends *)
(* all the customer's feeds in the same step, so that no reader is left    *)
(* waiting on a feed that nobody will ever write to or end.                *)
(***************************************************************************)
EXTENDS Integers

CONSTANTS Customers, Sessions, CustomerOf, BufCap

VARIABLES
  running,   \* is the customer's traffic being monitored?
  feed,      \* each session's feed: none yet, open or closed
  buffered   \* samples in it that its reader has not taken

vars == <<running, feed, buffered>>

Init ==
  /\ running = [c \in Customers |-> FALSE]
  /\ feed = [s \in Sessions |-> "none"]
  /\ buffered = [s \in Sessions |-> 0]

OpenFeeds(c) == {s \in Sessions : CustomerOf[s] = c /\ feed[s] = "open"}

\* A sample for every feed of S; a full one misses it.
Offer(S) ==
  buffered' = [s \in Sessions |-> IF s \in S /\ buffered[s] < BufCap
                                    THEN buffered[s] + 1 ELSE buffered[s]]

Start(c) ==
  /\ ~running[c]
  /\ running' = [running EXCEPT ![c] = TRUE]
  /\ UNCHANGED <<feed, buffered>>

Subscribe(s) ==
  /\ running[CustomerOf[s]]
  /\ feed[s] = "none"
  /\ feed' = [feed EXCEPT ![s] = "open"]
  /\ UNCHANGED <<running, buffered>>

Publish(c) ==
  /\ running[c]
  /\ Offer(OpenFeeds(c))
  /\ UNCHANGED <<running, feed>>

Take(s) ==
  /\ buffered[s] > 0
  /\ buffered' = [buffered EXCEPT ![s] = @ - 1]
  /\ UNCHANGED <<running, feed>>

Leave(s) ==
  /\ running[CustomerOf[s]]
  /\ feed[s] = "open"
  /\ feed' = [feed EXCEPT ![s] = "closed"]
  /\ UNCHANGED <<running, buffered>>

\* With a last sample, which tells the readers of the end, or without.
Stop(c) ==
  /\ running[c]
  /\ running' = [running EXCEPT ![c] = FALSE]
  /\ feed' = [s \in Sessions |-> IF s \in OpenFeeds(c) THEN "closed"
                                                       ELSE feed[s]]
  /\ Offer(OpenFeeds(c)) \/ UNCHANGED buffered

Next ==
  \/ \E c \in Customers : Start(c) \/ Publish(c) \/ Stop(c)
  \/ \E s \in Sessions : Subscribe(s) \/ Take(s) \/ Leave(s)

Spec == Init /\ [][Next]_vars
=============================================================================
