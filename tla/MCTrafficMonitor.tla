-------------------------- MODULE MCTrafficMonitor --------------------------
(* Instances of TrafficMonitor for TLC. *)
EXTENDS TrafficMonitor, TLC

CONSTANTS s1, s2, s3, c1, c2

\* All requests are for one customer.
AllSame == [s \in Sessions |-> c1]

\* s3 asks for another customer than the others.
OneApart == [s \in Sessions |-> IF s = s3 THEN c2 ELSE c1]

PairSymmetry == Permutations({s1, s2})
=============================================================================
