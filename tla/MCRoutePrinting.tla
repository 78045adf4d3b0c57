---------------------------- MODULE MCRoutePrinting ----------------------------
(* Values of the constants of RoutePrinting for TLC: prefixes of both families,
   with IPv4 lengths above and below 96, an IPv6 address whose third word
   is 0xFFFF and :: with a length. *)
EXTENDS RoutePrinting

Address(d0, z, w) == [d0 |-> d0, z |-> z, w |-> w]
MCNetworks ==
  {[addr |-> Address("fc", "FFFF", "1"), plen |-> 128],
   [addr |-> Address("0", "0", "0"), plen |-> 7],
   [addr |-> Address("0", "FFFF", "254"), plen |-> 128],
   [addr |-> Address("0", "FFFF", "0"), plen |-> 64]}
===============================================================================
