------------------------------ MODULE SideBySide ------------------------------
(***************************************************************************)
(* What is beside the netlink engine: the parts that keep no state of the  *)
(* system (Stateless), the table of next hops of rtes.c (BestRoutes), the  *)
(* store and the lines of kdump.c (RoutePrinting), and the set-up of       *)
(* sockets and sysctls (KernelSetup).  They share no state and do not call *)
(* one another, so that a behaviour belongs to one of them and the others  *)
(* stand still: the states are the sum of theirs, not the product.         *)
(***************************************************************************)
EXTENDS Stateless, BestRoutes, RoutePrinting, KernelSetup

VARIABLE side \* what this behaviour belongs to

(* Where the others stand still. *)
Apart ==
  /\ side # "stateless" => part = "rtod"
  /\ side # "setup" => knob = [k \in Knobs |-> 0] /\ ~skip
                        /\ ifname = CHOOSE i \in Ifs : TRUE

InitSides ==
  /\ side \in {"stateless", "rtes", "kdump", "setup"}
  /\ InitParts /\ InitRtes /\ InitPrinting /\ InitSetup
  /\ Apart

NextSides ==
  /\ UNCHANGED side
  /\ \/ /\ side = "stateless" /\ NextParts
        /\ UNCHANGED <<rtesVars, printingVars, setupVars>>
     \/ /\ side = "rtes" /\ NextRtes
        /\ UNCHANGED <<partsVars, printingVars, setupVars>>
     \/ /\ side = "kdump" /\ NextPrinting
        /\ UNCHANGED <<partsVars, rtesVars, setupVars>>
     \/ /\ side = "setup" /\ NextSetup
        /\ UNCHANGED <<partsVars, rtesVars, printingVars>>

sidesVars == <<side, partsVars, rtesVars, printingVars, setupVars>>
SpecSides == InitSides /\ [][NextSides]_sidesVars
===============================================================================
