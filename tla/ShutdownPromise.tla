--------------------------- MODULE ShutdownPromise ---------------------------
(***************************************************************************)
(* What the documentation of core/src/shutdown.rs promises of a Controller:*)
(* a shutdown is triggered once, for one reason that never changes; it     *)
(* completes at most once, after it was triggered, and stays complete.     *)
(***************************************************************************)
CONSTANTS Reasons, NoReason

VARIABLES phase, reason

vars == <<phase, reason>>

Init == phase = "running" /\ reason = NoReason

(* The shutdown begins; with nothing to wait for it is complete at once.   *)
Trigger ==
    /\ phase = "running"
    /\ phase' \in {"triggered", "completed"}
    /\ reason' \in Reasons

Complete ==
    /\ phase = "triggered"
    /\ phase' = "completed"
    /\ UNCHANGED reason

Next == Trigger \/ Complete
Spec == Init /\ [][Next]_vars
=============================================================================
