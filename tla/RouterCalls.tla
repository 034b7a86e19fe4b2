----------------------------- MODULE RouterCalls -----------------------------
(***************************************************************************)
(* What the rest of the program may expect of a command that it sends to   *)
(* the router: success means that the router has executed it, failure      *)
(* means nothing, not even that it will not be executed later; and only    *)
(* commands that may be repeated are ever executed twice.                  *)
(***************************************************************************)
EXTENDS Integers

CONSTANTS
  Commands,   \* commands for which an answer is awaited
  Repeatable  \* those of them that client.Run may send a second time

VARIABLES
  outcome,  \* what the caller has been told
  effects   \* how often the router has executed the command

vars == <<outcome, effects>>

MaxEffects(r) == IF r \in Repeatable THEN 2 ELSE 1

Init ==
  /\ outcome = [r \in Commands |-> "none"]
  /\ effects = [r \in Commands |-> 0]

\* The router executes the command, perhaps after the caller has given up.
Effect(r) ==
  /\ effects[r] < MaxEffects(r)
  /\ effects' = [effects EXCEPT ![r] = @ + 1]
  /\ UNCHANGED outcome

Succeed(r) ==
  /\ outcome[r] = "none"
  /\ effects[r] > 0
  /\ outcome' = [outcome EXCEPT ![r] = "ok"]
  /\ UNCHANGED effects

Fail(r) ==
  /\ outcome[r] = "none"
  /\ outcome' = [outcome EXCEPT ![r] = "error"]
  /\ UNCHANGED effects

Next == \E r \in Commands : Effect(r) \/ Succeed(r) \/ Fail(r)

Spec == Init /\ [][Next]_vars
=============================================================================
