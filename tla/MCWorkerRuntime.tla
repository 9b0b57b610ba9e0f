---------------------------- MODULE MCWorkerRuntime ----------------------------
(* Small instances of WorkerRuntime.                                     *)
EXTENDS WorkerRuntime, TLC

CONSTANTS j1, j2, src, w1, w2

\* Two jobs that compete for one source.
MCSourceOf == (j1 :> src) @@ (j2 :> src)

\* A job that collects the source, and one that cleans up.
MCMixedSourceOf == (j1 :> src) @@ (j2 :> NoSource)

MCBackoff == [n \in 1..MaxAttempts |-> n]

MCSymmetry == Permutations({j1, j2}) \cup Permutations({w1, w2})
===============================================================================
