--------------------------- MODULE MCEtlScheduler ---------------------------
(* EtlScheduler with two source jobs, one derived job and two days. *)
EXTENDS EtlScheduler
=============================================================================
