--------------------------- MODULE MCCoordinator ----------------------------
(* Three calls of one key: x and z have the same input; y may queue up behind them. *)
EXTENDS Coordinator

CONSTANTS x, y, z

MCHash     == [i \in Instances |-> IF i = y THEN "y" ELSE "xz"]
MCReplaces == [i \in Instances |-> IF i = y THEN BOOLEAN ELSE {TRUE}]
=============================================================================
