----------------------------- MODULE MCConntrack -----------------------------
(***************************************************************************)
(* Values for model checking Conntrack: three flows, two of which share    *)
(* their tuple and differ in their zone.                                   *)
(***************************************************************************)
EXTENDS Conntrack

CONSTANTS f, g, h  \* flows

Tuples == [k \in Flows |-> IF k = h THEN 2 ELSE 1]
Zones  == [k \in Flows |-> IF k = g THEN 1 ELSE 0]
=============================================================================
