--------------------------- MODULE BestRoutesProofs ---------------------------
(***************************************************************************)
(* Theorems about BestRoutes, for any set of destinations, next hops and   *)
(* metrics, any number of slots and any width of a metric's fields.        *)
(***************************************************************************)
EXTENDS BestRoutes, WellFoundedInduction, TLAPS

-------------------------------------------------------------------------------
(* Numbers. *)

(* A nonempty set of numbers has its least element as Min. *)
LEMMA MinOfNaturals ==
  ASSUME NEW S \in SUBSET Nat, S # {}
  PROVE  Min(S) \in S /\ \A i \in S : Min(S) <= i
<1>1. PICK m \in S : \A i \in S : <<i, m>> \notin OpToRel(<, Nat)
  BY NatLessThanWellFounded, WFMin
<1>2. \A i \in S : m <= i
  <2> SUFFICES ASSUME NEW i \in S PROVE m <= i
    OBVIOUS
  <2>1. m \in Nat /\ i \in Nat
    OBVIOUS
  <2>2. ~(i < m)
    BY <1>1, <2>1 DEF OpToRel
  <2> QED BY <2>1, <2>2
<1> QED
  BY <1>2 DEF Min

(* Two digits are compared as the number they write in base u. *)
LEMMA TwoDigits ==
  ASSUME NEW u \in Nat \ {0}, NEW a \in Nat, NEW b \in Nat,
         NEW x \in 0 .. u - 1, NEW y \in 0 .. u - 1
  PROVE  a * u + x < b * u + y <=> a < b \/ (a = b /\ x < y)
<1>1. \A k, l \in Nat : k < l => k * u + u <= l * u
  <2> SUFFICES ASSUME NEW k \in Nat, NEW l \in Nat, k < l
               PROVE  k * u + u <= l * u
    OBVIOUS
  <2>1. PICK n \in Nat : l = k + 1 + n
    <3>1. l - k - 1 \in Nat /\ l = k + 1 + (l - k - 1)
      OBVIOUS
    <3> QED BY <3>1
  <2>2. n * u >= 0
    OBVIOUS
  <2>3. (k + 1 + n) * u = k * u + u + n * u
    OBVIOUS
  <2> QED BY <2>1, <2>2, <2>3
<1>2. a * u \in Nat /\ b * u \in Nat
  OBVIOUS
<1>3. CASE a < b
  BY <1>1, <1>2, <1>3
<1>4. CASE b < a
  BY <1>1, <1>2, <1>4
<1>5. CASE a = b
  BY <1>2, <1>5
<1> QED BY <1>3, <1>4, <1>5

(* The fields of a metric. *)
LEMMA MetricFields ==
  ASSUME NEW m \in Metrics \cup {NoMetric}
  PROVE  /\ m.metric \in 0 .. U16 - 1 /\ m.ref_metric \in 0 .. U16 - 1
         /\ m.cost \in 0 .. U16 - 1 /\ m.add_metric \in 0 .. U16 - 1
<1>1. m \in [Fields -> 0 .. U16 - 1]
  BY RtesAssumption
<1> QED
  BY <1>1 DEF Fields

(* The u64 comparison of CMPM is the comparison field by field. *)
LEMMA ValueOrdersFields ==
  ASSUME NEW a \in Metrics \cup {NoMetric}, NEW b \in Metrics \cup {NoMetric}
  PROVE  WorseThan(a, b) <=> Better(b, a)
<1> DEFINE Two(m) == m.metric * U16 + m.ref_metric
           Three(m) == Two(m) * U16 + m.cost
<1>1. \A m \in {a, b} :
        /\ m.metric \in 0 .. U16 - 1 /\ m.ref_metric \in 0 .. U16 - 1
        /\ m.cost \in 0 .. U16 - 1 /\ m.add_metric \in 0 .. U16 - 1
  BY MetricFields
<1>2. U16 \in Nat \ {0}
  BY RtesAssumption
<1>3. \A k, l \in Nat : k * U16 + l \in Nat
  BY <1>2
<1>4. \A m \in {a, b} : m.metric \in Nat /\ Two(m) \in Nat /\ Three(m) \in Nat
  BY <1>1, <1>2, <1>3
<1>5. \A k, l \in Nat, x, y \in 0 .. U16 - 1 :
        k * U16 + x < l * U16 + y <=> k < l \/ (k = l /\ x < y)
  BY <1>2, TwoDigits
<1>6. \A m, n \in {a, b} : Two(m) < Two(n) <=>
        m.metric < n.metric \/ (m.metric = n.metric /\ m.ref_metric < n.ref_metric)
  BY <1>1, <1>4, <1>5
<1>7. \A m, n \in {a, b} : Three(m) < Three(n) <=>
        Two(m) < Two(n) \/ (Two(m) = Two(n) /\ m.cost < n.cost)
  <2> HIDE DEF Two
  <2> QED
    BY <1>1, <1>4, <1>5
<1>8. \A m, n \in {a, b} :
        Three(m) * U16 + m.add_metric < Three(n) * U16 + n.add_metric <=>
          Three(m) < Three(n) \/ (Three(m) = Three(n) /\ m.add_metric < n.add_metric)
  <2> HIDE DEF Two, Three
  <2> QED
    BY <1>1, <1>4, <1>5
<1>9. Two(a) = Two(b) <=> a.metric = b.metric /\ a.ref_metric = b.ref_metric
  <2>1. Two(a) = Two(b) <=> ~(Two(a) < Two(b)) /\ ~(Two(b) < Two(a))
    BY <1>4
  <2> QED
    BY <1>1, <1>4, <1>6, <2>1
<1>10. Three(a) = Three(b) <=> Two(a) = Two(b) /\ a.cost = b.cost
  <2>1. Three(a) = Three(b) <=> ~(Three(a) < Three(b)) /\ ~(Three(b) < Three(a))
    BY <1>4
  <2> HIDE DEF Two, Three
  <2> QED
    BY <1>1, <1>4, <1>7, <2>1
<1>11. WorseThan(a, b) <=> Three(b) * U16 + b.add_metric < Three(a) * U16 + a.add_metric
  <2>1. Value(a) = Three(a) * U16 + a.add_metric
    BY DEF Value
  <2>2. Value(b) = Three(b) * U16 + b.add_metric
    BY DEF Value
  <2>3. Three(a) * U16 + a.add_metric \in Nat /\ Three(b) * U16 + b.add_metric \in Nat
    BY <1>1, <1>2, <1>3, <1>4
  <2> HIDE DEF Two, Three
  <2> QED
    BY <2>1, <2>2, <2>3 DEF WorseThan
<1> HIDE DEF Two, Three
<1> QED
  BY <1>6, <1>7, <1>8, <1>9, <1>10, <1>11 DEF Better

(* No metric is better than itself. *)
LEMMA BetterIsStrict ==
  ASSUME NEW a \in Metrics \cup {NoMetric}
  PROVE  ~Better(a, a)
<1>1. /\ a.metric \in Int /\ a.ref_metric \in Int
      /\ a.cost \in Int /\ a.add_metric \in Int
  BY MetricFields, RtesAssumption
<1> QED
  BY <1>1 DEF Better

-------------------------------------------------------------------------------
(* The inductive invariant, for one destination: what is to be shown, and
   that nothing has been heard of a destination without an entry. *)
OneSlotEachOf(e) ==
  \A i, j \in Used(e) : table[e][i].rid = table[e][j].rid => i = j
NoGapOf(e) == \A j \in Used(e), i \in Places : i < j => i \in Used(e)
MainOf(e) == Known(e) => \A q \in latest[e] :
  q.rid = table[e][0].rid => ~Better(q.metric, table[e][0].metric)
HookOf(e) == Known(e) => hook[e] = table[e][0]
KeptOf(e) == Used(e) # Places => \A q \in latest[e] :
  q.rid # NoHop => \E i \in Used(e) : table[e][i].rid = q.rid
UnheardOf(e) == ~Known(e) => latest[e] = {}

DestInv(e) ==
  /\ OneSlotEachOf(e) /\ NoGapOf(e)
  /\ MainOf(e) /\ HookOf(e) /\ KeptOf(e) /\ UnheardOf(e)

IInv == RtesTypeOK /\ \A e \in Dests : DestInv(e)

(* What the reports of other destinations leave as it is. *)
Same(e) == table'[e] = table[e] /\ hook'[e] = hook[e] /\ latest'[e] = latest[e]

(* The invariant of a destination is about its entry, hook and reports. *)
LEMMA SameKeeps ==
  ASSUME NEW e, DestInv(e), Same(e)
  PROVE  DestInv(e)'
<1>1. Used(e)' = Used(e) /\ Known(e)' = Known(e)
  BY DEF Same, Used, Known
<1> QED
  BY <1>1 DEF DestInv, Same, OneSlotEachOf, NoGapOf, MainOf, HookOf, KeptOf,
     UnheardOf

(* A table entry is one thing or the other. *)
LEMMA EntryType ==
  ASSUME RtesTypeOK, NEW d \in Dests
  PROVE  /\ Known(d) => table[d] \in [Places -> Slot]
         /\ ~Known(d) => table[d] = Absent
         /\ table[d] \in [Places -> Slot] => Known(d)
<1>1. DOMAIN Absent = {} /\ 0 \in Places
  BY RtesAssumption DEF Absent, Places
<1> QED
  BY <1>1 DEF RtesTypeOK, Known

(* The loop of update_rtes stops at the first slot that has the hop or none. *)
LEMMA LoopStops ==
  ASSUME RtesTypeOK, NEW d \in Dests, NEW q \in Report, Known(d), StopAt(d, q) # {},
         NEW i, i = Min(StopAt(d, q))
  PROVE  /\ i \in Places /\ table[d][i].rid \in {q.rid, NoHop}
         /\ \A j \in Places : j < i => table[d][j].rid \notin {q.rid, NoHop}
<1>1. StopAt(d, q) \in SUBSET Nat
  BY RtesAssumption DEF StopAt, Places
<1>2. i \in StopAt(d, q) /\ \A j \in StopAt(d, q) : i <= j
  BY <1>1, MinOfNaturals
<1>3. i \in Nat /\ \A j \in Places : j \in Nat
  BY <1>1, <1>2, RtesAssumption DEF Places
<1>4. \A j \in Places : j < i => j \notin StopAt(d, q)
  BY <1>2, <1>3
<1> QED
  BY <1>2, <1>4 DEF StopAt

(* The steps that change no entry: Ignore and Drop.  The report is of a hop
   that has a slot, or there is no room, and it does not beat the main
   route. *)
LEMMA HearStep ==
  ASSUME IInv, NEW d \in Dests, NEW q \in Report, Known(d),
         UNCHANGED <<table, hook>>, Hear(d, q),
         q.rid = table[d][0].rid => ~Better(q.metric, table[d][0].metric),
         \/ q.rid = NoHop \/ Used(d) = Places
         \/ \E i \in Used(d) : table[d][i].rid = q.rid
  PROVE  IInv'
<1>1. RtesTypeOK'
  BY DEF IInv, RtesTypeOK, Hear
<1>2. latest'[d] = {r \in latest[d] : r.rid # q.rid} \cup {q} /\ \A e \in Dests \ {d} : latest'[e] = latest[e]
  BY DEF IInv, RtesTypeOK, Hear
<1>3. \A e \in Dests : Used(e)' = Used(e) /\ Known(e)' = Known(e)
  BY DEF Used, Known
<1>4. \A e \in Dests \ {d} : DestInv(e)'
  BY <1>2, SameKeeps DEF Same, IInv
<1>5. DestInv(d)
  BY DEF IInv
<1>6. DestInv(d)'
  BY <1>2, <1>3, <1>5 DEF DestInv, OneSlotEachOf, NoGapOf, MainOf, HookOf,
     KeptOf, UnheardOf
<1> QED
  BY <1>1, <1>4, <1>6 DEF IInv

(* The steps that put the report into slot i of an entry, of which no earlier
   slot has the hop or is empty: Improve and Add.  The hook is told if it is
   the main route, which gets better if it stays with its hop. *)
LEMMA PutStep ==
  ASSUME IInv, NEW d \in Dests, NEW q \in Report, Known(d), NEW i \in Places,
         table' = [table EXCEPT ![d][i] = q],
         IF i = 0 THEN Tell(d, q) ELSE UNCHANGED hook,
         Hear(d, q),
         \A j \in Places : j < i => table[d][j].rid \notin {q.rid, NoHop},
         \/ table[d][i].rid = NoHop /\ q.rid # NoHop
         \/ /\ i = 0 /\ table[d][i].rid = q.rid
            /\ WorseThan(table[d][i].metric, q.metric)
  PROVE  IInv'
<1>1. DestInv(d) /\ RtesTypeOK
  BY DEF IInv
<1>2. q \in Slot /\ 0 \in Places /\ \A j \in Places : j \in Nat
  BY RtesAssumption DEF Report, Slot, Places
<1>3. table[d] \in [Places -> Slot]
  BY <1>1, EntryType
<1>4. /\ table'[d] = [table[d] EXCEPT ![i] = q]
      /\ table'[d] \in [Places -> Slot]
      /\ \A e \in Dests \ {d} : table'[e] = table[e]
  BY <1>1, <1>2, <1>3 DEF RtesTypeOK
<1>5. /\ table'[d][i] = q
      /\ \A j \in Places \ {i} : table'[d][j] = table[d][j]
  BY <1>3, <1>4
<1>6. RtesTypeOK'
  <2>1. table' \in [Dests -> [Places -> Slot] \cup {Absent}]
    BY <1>1, <1>4 DEF RtesTypeOK
  <2>2. hook' \in [Dests -> Slot] /\ latest' \in [Dests -> SUBSET Report]
    BY <1>1, <1>2 DEF RtesTypeOK, Tell, Hear
  <2> QED BY <2>1, <2>2 DEF RtesTypeOK
<1>7. \A e \in Dests \ {d} : DestInv(e)'
  BY <1>1, <1>4, SameKeeps DEF Same, IInv, RtesTypeOK, Tell, Hear
<1>8. Known(d)'
  BY <1>2, <1>4 DEF Known, Absent
<1>9. latest'[d] = {r \in latest[d] : r.rid # q.rid} \cup {q}
  BY <1>1 DEF RtesTypeOK, Hear
<1>10. /\ Used(d) = {j \in Places : table[d][j].rid # NoHop}
       /\ Used(d)' = {j \in Places : table'[d][j].rid # NoHop}
  BY <1>3, <1>4 DEF Used
(* Slots before i are used by other hops; the slots after an empty slot are
   empty. *)
<1>11. \A j \in Places : table[d][j].rid = q.rid /\ q.rid # NoHop => j = i
  BY <1>1, <1>2, <1>3, <1>10 DEF DestInv, NoGapOf, OneSlotEachOf
<1>12. OneSlotEachOf(d)'
  BY <1>1, <1>5, <1>10, <1>11 DEF DestInv, OneSlotEachOf
<1>13. NoGapOf(d)'
  BY <1>1, <1>2, <1>5, <1>10 DEF DestInv, NoGapOf
<1>14. HookOf(d)'
  BY <1>1, <1>2, <1>5 DEF DestInv, HookOf, RtesTypeOK, Tell
<1>15. UnheardOf(d)'
  BY <1>8 DEF UnheardOf
<1>16. KeptOf(d)'
  BY <1>1, <1>2, <1>5, <1>9, <1>10 DEF DestInv, KeptOf, NoGapOf
<1>17. MainOf(d)'
  <2> SUFFICES ASSUME NEW p \in {r \in latest[d] : r.rid # q.rid} \cup {q},
                      p.rid = table'[d][0].rid
               PROVE  ~Better(p.metric, table'[d][0].metric)
    BY <1>9 DEF MainOf
  <2>1. \A m \in latest[d] \cup {q} : m.metric \in Metrics \cup {NoMetric}
    BY <1>1 DEF RtesTypeOK, Report
  <2>2. CASE i # 0
    <3>1. table'[d][0] = table[d][0] /\ table[d][0].rid # q.rid
      BY <1>2, <1>5, <2>2
    <3> QED
      BY <1>1, <3>1 DEF DestInv, MainOf
  <2>3. CASE i = 0 /\ table[d][0].rid = q.rid /\ WorseThan(table[d][0].metric, q.metric)
    <3>1. p = q
      BY <1>5, <2>3
    <3> QED
      BY <1>5, <2>1, <2>3, <3>1, BetterIsStrict
  <2>4. CASE i = 0 /\ table[d][0].rid = NoHop /\ q.rid # NoHop
    <3>1. Used(d) = {}
      BY <1>1, <1>2, <1>10, <2>4 DEF DestInv, NoGapOf
    <3>2. p = q
      BY <1>1, <1>2, <1>5, <2>4, <3>1 DEF DestInv, KeptOf
    <3> QED
      BY <1>5, <2>1, <2>4, <3>2, BetterIsStrict
  <2> QED
    BY <2>2, <2>3, <2>4
<1> QED
  BY <1>1, <1>6, <1>7, <1>12, <1>13, <1>14, <1>15, <1>16, <1>17
     DEF IInv, DestInv

(* InsertNew: the first report of a destination. *)
LEMMA InsertStep ==
  ASSUME IInv, NEW d \in Dests, NEW q \in Report, InsertNew(d, q)
  PROVE  IInv'
<1> DEFINE new == [i \in Places |-> IF i = 0 THEN q ELSE Empty]
<1>1. DestInv(d) /\ RtesTypeOK
  BY DEF IInv
<1>2. q \in Slot /\ Empty \in Slot /\ 0 \in Places /\ \A j \in Places : j \in Nat
  BY RtesAssumption DEF Report, Slot, Places, Empty
<1>3. new \in [Places -> Slot]
  BY <1>2
<1>4. table'[d] = new /\ \A e \in Dests \ {d} : table'[e] = table[e]
  BY <1>1 DEF RtesTypeOK, InsertNew
<1>5. /\ hook'[d] = q /\ latest'[d] = {q}
      /\ \A e \in Dests \ {d} : hook'[e] = hook[e] /\ latest'[e] = latest[e]
  BY <1>1 DEF RtesTypeOK, InsertNew, Tell, Hear, DestInv, UnheardOf
<1>6. RtesTypeOK'
  <2>1. table' \in [Dests -> [Places -> Slot] \cup {Absent}]
    BY <1>1, <1>3 DEF RtesTypeOK, InsertNew
  <2>2. hook' \in [Dests -> Slot] /\ latest' \in [Dests -> SUBSET Report]
    BY <1>1, <1>2 DEF RtesTypeOK, InsertNew, Tell, Hear
  <2> QED BY <2>1, <2>2 DEF RtesTypeOK
<1>7. \A e \in Dests \ {d} : DestInv(e)'
  BY <1>4, <1>5, SameKeeps DEF Same, IInv
<1>8. new[0] = q /\ \A j \in Places \ {0} : new[j].rid = NoHop
  BY <1>2 DEF Empty
<1>9. Used(d)' = IF q.rid = NoHop THEN {} ELSE {0}
  BY <1>2, <1>3, <1>4, <1>8 DEF Used
<1>10. Known(d)'
  <2>1. DOMAIN new = Places /\ DOMAIN Absent = {}
    BY DEF Absent
  <2> QED BY <1>2, <1>4, <2>1 DEF Known
<1>11. q.metric \in Metrics \cup {NoMetric}
  BY DEF Report
<1> HIDE DEF new
<1>12. OneSlotEachOf(d)' /\ NoGapOf(d)'
  BY <1>2, <1>9 DEF OneSlotEachOf, NoGapOf
<1>13. MainOf(d)' /\ HookOf(d)'
  BY <1>4, <1>5, <1>8, <1>11, BetterIsStrict DEF MainOf, HookOf
<1>14. KeptOf(d)' /\ UnheardOf(d)'
  BY <1>4, <1>5, <1>8, <1>9, <1>10 DEF KeptOf, UnheardOf
<1> QED
  BY <1>1, <1>6, <1>7, <1>12, <1>13, <1>14 DEF IInv, DestInv

(* Every report keeps the invariant. *)
LEMMA UpdateStep ==
  ASSUME IInv, NEW d \in Dests, NEW q \in Report, update_rtes(d, q)
  PROVE  IInv'
<1>1. RtesTypeOK /\ DestInv(d)
  BY DEF IInv
<1>2. CASE InsertNew(d, q)
  BY <1>2, InsertStep
<1>3. CASE Improve(d, q)
  <2>1. 0 = Min(StopAt(d, q))
    BY <1>3 DEF Improve
  <2>2. 0 \in Places /\ \A j \in Places : j < 0 => table[d][j].rid \notin {q.rid, NoHop}
    BY <1>1, <1>3, <2>1, LoopStops DEF Improve
  <2> QED
    BY <1>1, <1>3, <2>2, PutStep DEF Improve
<1>4. CASE Add(d, q)
  <2> DEFINE i == Min(StopAt(d, q))
  <2>1. /\ Known(d) /\ StopAt(d, q) # {} /\ Hear(d, q)
        /\ table[d][i].rid # q.rid /\ table' = [table EXCEPT ![d][i] = q]
        /\ IF i = 0 THEN Tell(d, q) ELSE UNCHANGED hook
    BY <1>4 DEF Add
  <2>2. /\ i \in Places /\ table[d][i].rid \in {q.rid, NoHop}
        /\ \A j \in Places : j < i => table[d][j].rid \notin {q.rid, NoHop}
    BY <1>1, <2>1, LoopStops
  <2> HIDE DEF i
  <2>3. table[d][i].rid = NoHop /\ q.rid # NoHop
    BY <2>1, <2>2
  <2> QED
    BY <2>1, <2>2, <2>3, PutStep
<1>5. CASE Ignore(d, q)
  <2> DEFINE i == Min(StopAt(d, q))
  <2>1. /\ Known(d) /\ StopAt(d, q) # {} /\ Hear(d, q) /\ UNCHANGED <<table, hook>>
        /\ table[d][i].rid = q.rid
        /\ i = 0 => ~WorseThan(table[d][i].metric, q.metric)
    BY <1>5 DEF Ignore
  <2>2. /\ i \in Places
        /\ \A j \in Places : j < i => table[d][j].rid \notin {q.rid, NoHop}
    BY <1>1, <2>1, LoopStops
  <2> HIDE DEF i
  <2>3. table[d] \in [Places -> Slot] /\ 0 \in Places /\ i \in Nat
    BY <1>1, <2>1, <2>2, EntryType, RtesAssumption DEF Places
  <2>4. q.rid = table[d][0].rid => ~Better(q.metric, table[d][0].metric)
    <3>1. table[d][0].metric \in Metrics \cup {NoMetric}
          /\ q.metric \in Metrics \cup {NoMetric}
      BY <2>3 DEF Slot, Report
    <3> QED
      BY <2>1, <2>2, <2>3, <3>1, ValueOrdersFields
  <2>5. q.rid = NoHop \/ i \in Used(d)
    BY <2>1, <2>2, <2>3 DEF Used
  <2> QED
    BY <2>1, <2>4, <2>5, HearStep
<1>6. CASE Drop(d, q)
  <2>1. table[d] \in [Places -> Slot] /\ 0 \in Places
    BY <1>1, <1>6, EntryType, RtesAssumption DEF Places, Drop
  <2>2. \A j \in Places : table[d][j].rid \notin {q.rid, NoHop}
    BY <1>6 DEF Drop, StopAt
  <2>3. Used(d) = Places
    BY <2>1, <2>2 DEF Used
  <2> QED
    BY <1>6, <2>1, <2>2, <2>3, HearStep DEF Drop
<1> QED
  BY <1>2, <1>3, <1>4, <1>5, <1>6 DEF update_rtes

-------------------------------------------------------------------------------
(* The invariant holds in every state. *)
THEOREM Invariance == SpecRtes => []IInv
<1>1. InitRtes => IInv
  <2> SUFFICES ASSUME InitRtes PROVE IInv
    OBVIOUS
  <2>1. RtesTypeOK
    BY DEF InitRtes, RtesTypeOK, Slot, Empty
  <2>2. \A e \in Dests : table[e] = Absent /\ latest[e] = {}
    BY DEF InitRtes
  <2>3. \A e \in Dests : Used(e) = {} /\ ~Known(e)
    BY <2>2 DEF Used, Absent, Known
  <2>4. \A e \in Dests : DestInv(e)
    BY <2>2, <2>3 DEF DestInv, OneSlotEachOf, NoGapOf, MainOf, HookOf, KeptOf,
       UnheardOf
  <2> QED BY <2>1, <2>4 DEF IInv
<1>2. IInv /\ [NextRtes]_rtesVars => IInv'
  <2> SUFFICES ASSUME IInv, [NextRtes]_rtesVars PROVE IInv'
    OBVIOUS
  <2>1. CASE NextRtes
    BY <2>1, UpdateStep DEF NextRtes
  <2>2. CASE UNCHANGED rtesVars
    <3>1. RtesTypeOK'
      BY <2>2 DEF rtesVars, IInv, RtesTypeOK
    <3>2. \A e \in Dests : DestInv(e)'
      BY <2>2, SameKeeps DEF rtesVars, IInv, Same
    <3> QED BY <3>1, <3>2 DEF IInv
  <2> QED BY <2>1, <2>2
<1> QED
  BY <1>1, <1>2, PTL DEF SpecRtes

(* The loop of update_rtes finds every hop that is there. *)
THEOREM HopsAreFindable == SpecRtes => []Findable
<1>1. IInv => Findable
  BY DEF IInv, DestInv, OneSlotEachOf, NoGapOf, Findable, OneSlotEach, NoGap
<1> QED
  BY <1>1, Invariance, PTL

(* The main route of a destination takes every improvement that its hop
   reports: update_rtes compares four fields as one number, and what the hop
   reported last is never better than the metric that is kept. *)
THEOREM ImprovementsAreTaken == SpecRtes => []MainTakesImprovements
<1>1. IInv => MainTakesImprovements
  BY DEF IInv, DestInv, MainOf, MainTakesImprovements
<1> QED
  BY <1>1, Invariance, PTL

(* The hook has seen every main route as it is: no branch of update_rtes
   changes one silently. *)
THEOREM HookSeesMainRoute == SpecRtes => []HookIsCurrent
<1>1. IInv => HookIsCurrent
  BY DEF IInv, DestInv, HookOf, HookIsCurrent
<1> QED
  BY <1>1, Invariance, PTL

(* No hop is forgotten while there is room for it. *)
THEOREM HopsAreKept == SpecRtes => []KeptWhileRoom
<1>1. IInv => KeptWhileRoom
  BY DEF IInv, DestInv, KeptOf, KeptWhileRoom
<1> QED
  BY <1>1, Invariance, PTL
===============================================================================
