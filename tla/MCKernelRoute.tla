---------------------------- MODULE MCKernelRoute ----------------------------
(* Values of the constants of KernelRoute for TLC: two IPv6 destinations, one
   of them the default prefix, the IPv4 default prefix, a source-specific
   route, hops whose metric is finite or infinite, and a table that does not
   fit into a byte, whose remainder is a table of others. *)
EXTENDS KernelRoute

MCV4 == {"default4", "any4", "gate4"}
MCDefaults == {"default6", "default4", "any6", "any4"}

Hop(gate, metric) == [gate |-> gate, ifindex |-> 1, metric |-> metric]
Change(dest, src, table, hop, newtable, newhop) ==
  [dest |-> dest, src |-> src, table |-> table, hop |-> hop,
   newtable |-> newtable, newhop |-> newhop]

MCArguments == {
  Change("net6", "any6", 254, Hop("gate6", 5), 254, Hop("gate6", 7)),
  Change("net6", "any6", 254, Hop("gate6", 7), 254, Hop("gate6", 5)),
  Change("net6", "src6", 254, Hop("gate6", 5), 254, Hop("gate6", 9)),
  Change("net6", "any6", 254, Hop("gate6", 5), 10, Hop("gate6", 9)),
  Change("net6", "any6", 510, Hop("gate6", 7), 510, Hop("gate6", 5)),
  Change("net6", "any6", 254, Hop("gate6", 5), 254, Hop("gate4", 5)),
  Change("net6", "any6", 254, Hop("gate6", 5), 254, Hop("gate6", 5)),
  Change("net6", "any6", 254, Hop("gate6", 5), 254, Hop("peer6", 5)),
  Change("default6", "any6", 254, Hop("gate6", 5), 254, Hop("gate6", 9)),
  Change("default4", "any4", 254, Hop("gate4", 5), 254, Hop("gate4", 9)),
  Change("default4", "any4", 254, Hop("gate4", 9), 254, Hop("gate4", 5))
}

MCForeignRoutes == {
  [table |-> 254, dest |-> "net6", src |-> "any", type |-> "unicast",
   metric |-> 7, gate |-> "gate6", ifindex |-> 1, proto |-> "other"]
}
===============================================================================
