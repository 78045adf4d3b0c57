--------------------------- MODULE MCNetlinkCommand ---------------------------
(* Values of the constants of NetlinkCommand for TLC. *)
EXTENDS NetlinkCommand

MCFilterOk == {0}
MCFilterMayFail == {-1, 0}
===============================================================================
