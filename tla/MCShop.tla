------------------------------- MODULE MCShop -------------------------------
(* Small instances of Shop for TLC. *)
EXTENDS Shop, TLC

\* One server process, and one process per worker.
OneProcess == [w \in Workers |-> "api"]
ProcessPerWorker == [w \in Workers |-> w]

\* Orders, attempts and workers are interchangeable (safety runs only).
Symmetry ==
  Permutations(Orders) \cup Permutations(Payments) \cup Permutations(Workers)
=============================================================================
