----------------------------- MODULE MCSideBySide -----------------------------
(* The values of the constants of SideBySide for TLC are those of its parts. *)
EXTENDS SideBySide, MCStateless, MCBestRoutes, MCRoutePrinting, MCKernelSetup
===============================================================================
