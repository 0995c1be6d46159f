----------------------------- MODULE MCPayments -----------------------------
(* Small instances of Payments for TLC. *)
EXTENDS Payments, TLC

\* Concurrent requests are interchangeable, and so are concurrent sweeps;
\* for runs without liveness.
ProcSymmetry == Permutations(Callbacks) \cup Permutations(Sweeps)
=============================================================================
