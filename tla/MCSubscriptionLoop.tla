------------------------- MODULE MCSubscriptionLoop -------------------------
(* Small instances of SubscriptionLoop, and the properties the runs check. *)
EXTENDS SubscriptionLoop

MCAuthorities == <<{1, 2, 3}, {2, 3, 4}, {1, 3, 4}>>
=============================================================================
