---------------------------- MODULE MCBestRoutes ----------------------------
(* Values of the constants of BestRoutes for TLC: metrics of which the
   better one has more in its least significant field. *)
EXTENDS BestRoutes

M(metric, ref, cost, add) ==
  [metric |-> metric, ref_metric |-> ref, cost |-> cost, add_metric |-> add]
MCMetrics == {M(1, 0, 0, 2), M(2, 0, 0, 0)}
MCNoMetric == M(0, 0, 0, 0)
===============================================================================
