------------------------------ MODULE BestRoutes ------------------------------
(***************************************************************************)
(* update_rtes of rtes.c: the table of the few next hops kept for each     *)
(* destination, the main one first.  rlookup and rinsert, which hold the   *)
(* entries, and the hook that tell calls are external.                     *)
(*                                                                         *)
(* A next hop (rte_tbls) is router and gateway read as one u32, whose 0    *)
(* means "none"; a metric is four u16 fields compared as one u64, of which *)
(* the field metric is the most significant on a little-endian machine.    *)
(***************************************************************************)
EXTENDS Naturals, FiniteSetsExt

CONSTANTS
  Dests,      \* rte_idx of destinations
  Hops,       \* rte_tbls other than 0
  NoHop,      \* the rte_tbls 0
  Metrics,    \* metrics that are reported
  NoMetric,   \* the metric of an empty slot: all fields 0
  U16,        \* 2^16
  MaxRtes     \* MAX_RTES

Fields == {"metric", "ref_metric", "cost", "add_metric"}

ASSUME RtesAssumption ==
  /\ NoHop \notin Hops
  /\ U16 \in Nat \ {0} /\ MaxRtes \in Nat \ {0}
  /\ Metrics \subseteq [Fields -> 0 .. U16 - 1]
  /\ NoMetric = [f \in Fields |-> 0]

VARIABLES
  table,    \* the rtes of each destination, or Absent
  hook,     \* what the hook saw of the main route when it was last told
  latest    \* history: the last report of each hop, for each destination

rtesVars == <<table, hook, latest>>

Places == 0 .. MaxRtes - 1
Slot == [rid : Hops \cup {NoHop}, metric : Metrics \cup {NoMetric}]
Empty == [rid |-> NoHop, metric |-> NoMetric]
Absent == [i \in {} |-> Empty]
Report == [rid : Hops \cup {NoHop}, metric : Metrics]

RtesTypeOK ==
  /\ table \in [Dests -> [Places -> Slot] \cup {Absent}]
  /\ hook \in [Dests -> Slot]
  /\ latest \in [Dests -> SUBSET Report]

InitRtes ==
  /\ table = [d \in Dests |-> Absent]
  /\ hook = [d \in Dests |-> Empty]
  /\ latest = [d \in Dests |-> {}]

-------------------------------------------------------------------------------
(* The field with the highest address is the most significant. *)
(* Mutant of Value: the first field is. *)
ValueReversed(m) ==
  ((m.add_metric * U16 + m.cost) * U16 + m.ref_metric) * U16 + m.metric
Value(m) ==
  ((m.metric * U16 + m.ref_metric) * U16 + m.cost) * U16 + m.add_metric

(* CMPM(a, b) = 1 *)
WorseThan(a, b) == Value(a) > Value(b)

(* The slot at which the loop stops: the first that has the report's hop or
   none. *)
(* Mutants of StopAt: the loop looks for an empty slot only; it ends after
   the first slot. *)
StopAtEmpty(d, q) == {i \in Places : table[d][i].rid = NoHop}
StopAtFirst(d, q) == {i \in {0} : table[d][i].rid \in {q.rid, NoHop}}
StopAt(d, q) == {i \in Places : table[d][i].rid \in {q.rid, NoHop}}

Known(d) == table[d] # Absent
Hear(d, q) == latest' = [latest EXCEPT ![d] = {r \in @ : r.rid # q.rid} \cup {q}]
(* tell(): the hook may look at the entry, as it is now. *)
Tell(d, q) == hook' = [hook EXCEPT ![d] = q]

(* rinsert: a new entry, with q in its first slot. *)
InsertNew(d, q) ==
  /\ ~Known(d)
  /\ table' = [table EXCEPT ![d] = [i \in Places |-> IF i = 0 THEN q ELSE Empty]]
  /\ Tell(d, q)
  /\ Hear(d, q)

(* The main route got better. *)
(* Mutant of Improve: nobody is told. *)
ImproveSilently(d, q) ==
  /\ Known(d) /\ StopAt(d, q) # {} /\ Min(StopAt(d, q)) = 0
  /\ table[d][0].rid = q.rid /\ WorseThan(table[d][0].metric, q.metric)
  /\ table' = [table EXCEPT ![d][0] = q]
  /\ UNCHANGED hook
  /\ Hear(d, q)
Improve(d, q) ==
  /\ Known(d) /\ StopAt(d, q) # {} /\ Min(StopAt(d, q)) = 0
  /\ table[d][0].rid = q.rid /\ WorseThan(table[d][0].metric, q.metric)
  /\ table' = [table EXCEPT ![d][0] = q]
  /\ Tell(d, q)
  /\ Hear(d, q)

(* The hop has a slot and did not get better, or its slot is not the first:
   nothing is done about it yet. *)
Ignore(d, q) ==
  /\ Known(d) /\ StopAt(d, q) # {}
  /\ LET i == Min(StopAt(d, q))
     IN  /\ table[d][i].rid = q.rid
         /\ i = 0 => ~WorseThan(table[d][i].metric, q.metric)
  /\ UNCHANGED <<table, hook>>
  /\ Hear(d, q)

(* Another hop; only a new main route is told. *)
Add(d, q) ==
  /\ Known(d) /\ StopAt(d, q) # {}
  /\ LET i == Min(StopAt(d, q))
     IN  /\ table[d][i].rid # q.rid
         /\ table' = [table EXCEPT ![d][i] = q]
         /\ IF i = 0 THEN Tell(d, q) ELSE UNCHANGED hook
  /\ Hear(d, q)

(* Every slot has another hop: the report is dropped. *)
Drop(d, q) ==
  /\ Known(d) /\ StopAt(d, q) = {}
  /\ UNCHANGED <<table, hook>>
  /\ Hear(d, q)

update_rtes(d, q) ==
  InsertNew(d, q) \/ Improve(d, q) \/ Ignore(d, q) \/ Add(d, q) \/ Drop(d, q)

NextRtes == \E d \in Dests, q \in Report : update_rtes(d, q)

SpecRtes == InitRtes /\ [][NextRtes]_rtesVars

-------------------------------------------------------------------------------
(* Properties. *)

Used(d) == {i \in DOMAIN table[d] : table[d][i].rid # NoHop}

(* Whatever the order of the reports, a next hop has one slot at most, and no
   slot is empty before one that is used: the loop of update_rtes, which
   stops at the first empty slot, finds every hop that is there, and runs over
   slots that have been written as a whole. *)
OneSlotEach ==
  \A d \in Dests : \A i, j \in Used(d) :
    table[d][i].rid = table[d][j].rid => i = j
NoGap ==
  \A d \in Dests : \A j \in Used(d), i \in Places : i < j => i \in Used(d)
Findable == RtesTypeOK /\ OneSlotEach /\ NoGap

(* Metrics are to be compared field by field: a is better than b. *)
Better(a, b) ==
  \/ a.metric < b.metric
  \/ a.metric = b.metric /\ a.ref_metric < b.ref_metric
  \/ a.metric = b.metric /\ a.ref_metric = b.ref_metric /\ a.cost < b.cost
  \/ /\ a.metric = b.metric /\ a.ref_metric = b.ref_metric /\ a.cost = b.cost
     /\ a.add_metric < b.add_metric

(* The main route takes every improvement of its next hop: what the hop has
   reported last is never better than the metric it stands with, whatever was
   reported in between, and the u64 comparison orders the four fields as
   intended.  (That a hop that got worse keeps its old metric, which the
   FIXMEs of update_rtes leave to be done, is not asked for.) *)
MainTakesImprovements ==
  \A d \in Dests : Known(d) =>
    \A q \in latest[d] :
      q.rid = table[d][0].rid => ~Better(q.metric, table[d][0].metric)

(* The hook has seen the main route as it is: none of its changes is silent. *)
HookIsCurrent == \A d \in Dests : Known(d) => hook[d] = table[d][0]

(* No next hop that was reported is forgotten while there is room for it. *)
KeptWhileRoom ==
  \A d \in Dests : Used(d) # Places =>
    \A q \in latest[d] :
      q.rid # NoHop => \E i \in Used(d) : table[d][i].rid = q.rid
===============================================================================
