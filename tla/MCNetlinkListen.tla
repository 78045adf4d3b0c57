--------------------------- MODULE MCNetlinkListen ---------------------------
(* Values of the constants of NetlinkListen for TLC: one route of each family,
   which differ in their round of a dump. *)
EXTENDS NetlinkListen

MCRoutes6 == {"net6"}
MCRoutes4 == {"net4"}
MCOtherPorts == {2}
===============================================================================
