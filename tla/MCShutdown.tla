------------------------------ MODULE MCShutdown ------------------------------
(* Small instances of Shutdown; the runs check the properties stated there. *)
EXTENDS Shutdown
=============================================================================
