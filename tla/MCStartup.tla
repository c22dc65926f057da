------------------------------ MODULE MCStartup ------------------------------
(* Instances of Startup for TLC. *)
EXTENDS Startup

TwoWorkers == {"worker1", "worker2"}
=============================================================================
