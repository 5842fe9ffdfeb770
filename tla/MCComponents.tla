------------------------------ MODULE MCComponents ------------------------------
(* The components on small instances; a run explores some of the subjects.   *)
EXTENDS Components

(* A block of two rows and three columns.                                  *)
MCRows == 0 .. 1
MCCols == 0 .. 2
(* The light client draws a cell of the data and one of the extension.     *)
MCSamples == {{<<0, 0>>, <<1, 1>>}}
(* The fat client asks for the data row in two calls.                      *)
MCBatches == <<{<<0, 0>>}, {<<0, 1>>, <<0, 2>>}>>

(* Two keys of a block and one of another.                                 *)
MCBlockOf == [k \in Keys |-> IF k = "k3" THEN 2 ELSE 1]

(* The third event of the blocks cannot be converted to a message.         *)
MCSkipped       == [t \in Topics |-> {}]
MCUnconvertible == [t \in Topics |-> {3}]

(* A light client without P2P, an application with P2P that is outdated,   *)
(* and a client that restarts P2P and itself, while GitHub lists a newer   *)
(* release that is not stable; the other programs as they come.            *)
Release(version, stable) == [version |-> version, stable |-> stable]
MCRuns ==
    {[program |-> "client", options |-> {"sync_finality"}, releases |-> {}],
     [program |-> "client", options |-> {"p2p", "app", "sync"}, releases |-> {Release(2, TRUE)}],
     [program |-> "client", options |-> {"p2p", "p2p_restart", "maintenance_restart"},
      releases |-> {Release(2, TRUE), Release(3, FALSE)}]}
    \cup {[program |-> p, options |-> {}, releases |-> {}] :
             p \in {"fat", "crawler", "bootstrap", "monitor", "load_test", "tests", "web", "latest"}}
=============================================================================
