------------------------------ MODULE MCJobQueue ------------------------------
(* A small instance of JobQueue: two jobs that share one source.         *)
EXTENDS JobQueue, TLC

CONSTANTS j1, j2, src, w1, w2

MCSourceOf == (j1 :> src) @@ (j2 :> src)

\* 30 * 2^(attempt - 1) seconds, scaled to ticks.
MCBackoff == [n \in 1..MaxAttempts |-> n]

\* The two jobs of the source, and the two workers, are interchangeable.
MCSymmetry == Permutations({j1, j2}) \cup Permutations({w1, w2})
===============================================================================
