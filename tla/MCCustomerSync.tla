--------------------------- MODULE MCCustomerSync ---------------------------
(* Instances of CustomerSync for TLC. *)
EXTENDS CustomerSync, TLC

SyncSymmetry ==
  Permutations(Customers) \cup Permutations(Requests) \cup Permutations(Names)
=============================================================================
