----------------------------- MODULE MCApiCache -----------------------------
(* ApiCache with two request threads, a report and a quote, and room for one *)
(* of them in memory.                                                        *)
EXTENDS ApiCache, TLC

\* No action and no invariant tells the threads apart.
ThreadSymmetry == Permutations(Threads)
=============================================================================
