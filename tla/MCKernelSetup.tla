---------------------------- MODULE MCKernelSetup ----------------------------
(* Values of the constants of KernelSetup for TLC: one sysctl that is wanted
   at 1 and one, rp_filter, at 0 (the four of the code are two of each). *)
EXTENDS KernelSetup

MCSettings == <<[name |-> "forwarding", want |-> 1],
                [name |-> "all/rp_filter", want |-> 0]>>
MCIfs == {"eth0", "wlan0"}
===============================================================================
