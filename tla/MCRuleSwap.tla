------------------------------ MODULE MCRuleSwap ------------------------------
(* Values of the constants of RuleSwap for TLC. *)
EXTENDS RuleSwap

MCPrios == 1 .. 2
MCSrcs == {"src6", "peer6", "src4", "bad4"}
MCTables == {10, 266}
MCByteMod == 256
MCForeign == {[prio |-> 1, src |-> "peer6", table |-> 11],
              [prio |-> 2, src |-> "src6", table |-> 11]}
MCV4 == {"src4", "bad4"}
MCBadPlen == {"bad4"}

(* Everything for one source, in a table that a byte can name and in one that
   becomes the same table in it; for the others, a swap that collides with it,
   one of the other family, and one that is refused by add_rule itself. *)
Swap(new, old, src, table) ==
  [new |-> new, old |-> old, src |-> src, table |-> table]
MCArguments ==
  {Swap(n, o, "src6", t) : n \in MCPrios, o \in MCPrios, t \in MCTables}
  \cup {Swap(1, 2, "peer6", 10), Swap(2, 1, "src4", 10), Swap(1, 2, "bad4", 10)}
===============================================================================
