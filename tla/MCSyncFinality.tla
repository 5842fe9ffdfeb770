---------------------------- MODULE MCSyncFinality ----------------------------
(* Small instances of SyncFinality, and the properties the runs check.     *)
EXTENDS SyncFinality

MCAuthorities == <<{1, 2, 3}, {2, 3, 4}, {1, 3, 4}>>
=============================================================================
