----------------------------- MODULE MCEtlLock -----------------------------
(* EtlLock on a small set of pids.  No symmetry: the run checks liveness. *)
EXTENDS EtlLock
=============================================================================
