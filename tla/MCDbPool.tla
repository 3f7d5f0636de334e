------------------------------ MODULE MCDbPool ------------------------------
(* DbPool with three threads and two pool configurations. *)
EXTENDS DbPool
=============================================================================
