---------------------------- MODULE StatelessProofs ----------------------------
(***************************************************************************)
(* Theorems about the parts of Stateless, each about the specification of  *)
(* its part and for any values of its constants: sequence numbers of any   *)
(* starts and steps, the messages of any objects of the kernel, the        *)
(* queries of any interfaces, any frequencies and hardware addresses, and  *)
(* command lines of any arguments.  A last theorem takes them together.    *)
(***************************************************************************)
EXTENDS Stateless, FiniteSetTheorems, SequenceTheorems, TLAPS

-------------------------------------------------------------------------------
(* Sequence numbers. *)

(* A count and its number. *)
Stands(s, n) == n \in Int /\ s = n % Mod

(* What every step keeps: a number is the count it stands for, modulo 2^16. *)
SeqnoInv == Stands(s1, n1) /\ Stands(s2, n2)

(* seqno_plus keeps a number the one of its count. *)
LEMMA PlusStands ==
  ASSUME NEW n \in Int, NEW s, Stands(s, n), NEW plus \in Int
  PROVE  Stands(seqno_plus(s, plus), n + plus)
BY SMT DEF Stands, seqno_plus, Mod

(* The numbers stand for their counts in every state. *)
THEOREM SeqnoInvariance == Spec => []SeqnoInv
<1>1. Init => SeqnoInv
  <2> SUFFICES ASSUME Init PROVE SeqnoInv
    OBVIOUS
  <2>1. s1 \in Nat /\ s1 < 65536 /\ s2 \in Nat /\ s2 < 65536
    BY ConstantsAssumption DEF Init
  <2>2. s1 \in Int /\ s1 % Mod = s1
    BY <2>1, SMT DEF Mod
  <2>3. s2 \in Int /\ s2 % Mod = s2
    BY <2>1, SMT DEF Mod
  <2> QED
    BY <2>2, <2>3, Zenon DEF Init, SeqnoInv, Stands
<1>2. SeqnoInv /\ [Next]_vars => SeqnoInv'
  <2> SUFFICES ASSUME SeqnoInv, [Next]_vars PROVE SeqnoInv'
    OBVIOUS
  <2>1. CASE Count1
    <3>1. PICK plus \in Steps : n1' = n1 + plus /\ s1' = seqno_plus(s1, plus)
      BY <2>1 DEF Count1
    <3>2. plus \in Int
      BY ConstantsAssumption
    <3>3. Stands(s1', n1')
      BY <3>1, <3>2, PlusStands DEF SeqnoInv, Stands
    <3> QED
      BY <2>1, <3>3 DEF Count1, SeqnoInv
  <2>2. CASE Count2
    <3>1. PICK plus \in Steps : n2' = n2 + plus /\ s2' = seqno_plus(s2, plus)
      BY <2>2 DEF Count2
    <3>2. plus \in Int
      BY ConstantsAssumption
    <3>3. Stands(s2', n2')
      BY <3>1, <3>2, PlusStands DEF SeqnoInv, Stands
    <3> QED
      BY <2>2, <3>3 DEF Count2, SeqnoInv
  <2>3. CASE UNCHANGED vars
    BY <2>3 DEF vars, SeqnoInv
  <2> QED
    BY <2>1, <2>2, <2>3 DEF Next
<1> QED
  BY <1>1, <1>2, PTL DEF Spec

(* The numbers stay unsigned shorts. *)
THEOREM TypeCorrect == Spec => []TypeOK
<1>1. SeqnoInv => TypeOK
  BY SMT DEF SeqnoInv, Stands, TypeOK, Mod
<1> QED
  BY <1>1, SeqnoInvariance, PTL

(* For every start and every step, seqno_compare orders two numbers as it
   should when their counts are less than half a turn apart. *)
THEOREM CompareCorrect == Spec => []CompareIsOrder
<1>1. SeqnoInv => CompareIsOrder
  <2> SUFFICES ASSUME SeqnoInv, -Half < n1 - n2, n1 - n2 < Half
               PROVE  seqno_compare(s1, s2) = Sign(n1 - n2)
    BY DEF CompareIsOrder
  <2>1. CASE n1 = n2
    BY <2>1, SMT DEF SeqnoInv, Stands, seqno_compare, Sign
  <2>2. CASE n1 > n2
    BY <2>2, SMT DEF SeqnoInv, Stands, seqno_compare, Sign, Mod, Half
  <2>3. CASE n1 < n2
    BY <2>3, SMT DEF SeqnoInv, Stands, seqno_compare, Sign, Mod, Half
  <2> QED
    BY <2>1, <2>2, <2>3, SMT DEF SeqnoInv, Stands
<1> QED
  BY <1>1, SeqnoInvariance, PTL

(* For every start and every step, seqno_minus gives the distance of two
   counts that are at most half a turn apart, and seqno_plus undoes it. *)
THEOREM MinusCorrect == Spec => []MinusIsDistance
<1>1. SeqnoInv => MinusIsDistance
  <2> SUFFICES ASSUME SeqnoInv PROVE MinusIsDistance
    OBVIOUS
  <2>1. ASSUME -Half <= n1 - n2, n1 - n2 < Half
        PROVE  seqno_minus(s1, s2) = n1 - n2
    BY <2>1, SMT DEF SeqnoInv, Stands, seqno_minus, AsShort, Mod, Half
  <2>2. seqno_plus(s2, seqno_minus(s1, s2)) = s1
    BY SMT DEF SeqnoInv, Stands, seqno_plus, seqno_minus, AsShort, Mod, Half
  <2> QED
    BY <2>1, <2>2 DEF MinusIsDistance
<1> QED
  BY <1>1, SeqnoInvariance, PTL

-------------------------------------------------------------------------------
(* Messages. *)

(* What rt_fill_info puts into a message about a route. *)
LEMMA RouteAttributes ==
  ASSUME NEW r, IsRoute(r), NEW m, m = Messages!RtMessage(r), NEW d
  PROVE  /\ m.family = r.family /\ m.protocol = r.protocol /\ m.cloned = r.cloned
         /\ m.dst_len = r.dst.len /\ m.src_len = r.src.len
         /\ Messages!Get(m, "TABLE", d) = r.table
         /\ Messages!Get(m, "OIF", d) = r.oif
         /\ "DST" \in DOMAIN m.attrs <=> r.dst.len > 0
         /\ Messages!Get(m, "DST", d) = IF r.dst.len > 0 THEN r.dst.addr ELSE d
         /\ "SRC" \in DOMAIN m.attrs <=> r.src.len > 0
         /\ Messages!Get(m, "SRC", d) = IF r.src.len > 0 THEN r.src.addr ELSE d
         /\ Messages!Get(m, "GATEWAY", d) =
              IF r.gw # Messages!ZeroAddress(r.family) THEN r.gw ELSE d
         /\ Messages!Get(m, "PRIORITY", 0) = r.metric
<1> DEFINE present ==
      {"OIF", "TABLE"} \cup (IF r.dst.len > 0 THEN {"DST"} ELSE {})
       \cup (IF r.src.len > 0 THEN {"SRC"} ELSE {})
       \cup (IF r.gw # Messages!ZeroAddress(r.family) THEN {"GATEWAY"} ELSE {})
       \cup (IF r.family = "INET" /\ r.metric = 0 THEN {} ELSE {"PRIORITY"})
<1> DEFINE all ==
      [DST |-> r.dst.addr, SRC |-> r.src.addr, GATEWAY |-> r.gw,
      OIF |-> r.oif, PRIORITY |-> r.metric, TABLE |-> r.table]
<1>1. /\ m.family = r.family /\ m.protocol = r.protocol /\ m.cloned = r.cloned
      /\ m.dst_len = r.dst.len /\ m.src_len = r.src.len
      /\ m.attrs = [t \in present |-> all[t]]
  BY DEF Messages!RtMessage, Messages!Attributes
<1>2. /\ all.DST = r.dst.addr /\ all.SRC = r.src.addr /\ all.GATEWAY = r.gw
      /\ all.OIF = r.oif /\ all.PRIORITY = r.metric /\ all.TABLE = r.table
  OBVIOUS
<1> HIDE DEF all
<1>3. \A t, e : Messages!Get(m, t, e) = IF t \in present THEN all[t] ELSE e
  BY <1>1 DEF Messages!Get
<1>4. DOMAIN m.attrs = present
  BY <1>1
<1> QED
  BY <1>1, <1>2, <1>3, <1>4

(* The routes that the filter lets pass: of the unreachable default routes,
   IPv4's. *)
Passes(r) ==
  Messages!Wanted(r) /\ ~(r.family = "INET6" /\ Messages!UnreachableDefault(r))

(* A metric that was a __u32 is compared as an int, and comes out the same. *)
LEMMA MetricAsInt ==
  ASSUME NEW n \in 0 .. IntMod - 1
  PROVE  Messages!Metric(n) = Messages!LeastOf(n, Infinity)
BY MessagesAssumption DEF Messages!Metric, Messages!AsInt, Messages!LeastOf

(* A table that was a __u32 is imported if its number is to be. *)
LEMMA TableAsInt ==
  ASSUME NEW n \in 0 .. IntMod - 1
  PROVE  Messages!AsInt(n) \in ImportTables <=> n \in ImportTables
<1>1. CASE 2 * n >= IntMod
  <2>1. Messages!AsInt(n) = n - IntMod /\ n - IntMod \notin Nat
    BY <1>1, MessagesAssumption DEF Messages!AsInt
  <2> QED
    BY <1>1, <2>1, MessagesAssumption
<1>2. CASE ~(2 * n >= IntMod)
  BY <1>2 DEF Messages!AsInt
<1> QED BY <1>1, <1>2

(* What is read out of a message about a route. *)
LEMMA RouteParsed ==
  ASSUME NEW r, IsRoute(r), NEW q, q = Messages!ParsedRoute(Messages!RtMessage(r))
  PROVE  /\ q.prefix = r.dst.addr
         /\ q.plen = r.dst.len + Messages!Widened(r.family)
         /\ q.src_prefix = r.src.addr
         /\ q.src_plen = IF r.src.len = 0 THEN 0
                         ELSE r.src.len + Messages!Widened(r.family)
         /\ q.gw = r.gw \/ {q.gw, r.gw} \subseteq {Messages!ZeroAddress(f) : f \in {"INET", "INET6"}}
         /\ q.metric = Messages!LeastOf(r.metric, Infinity)
         /\ q.ifindex = r.oif
<1> DEFINE m == Messages!RtMessage(r)
<1>1. /\ r.family \in {"INET", "INET6"} /\ r.metric \in 0 .. IntMod - 1
      /\ r.dst.len \in Nat /\ (r.dst.len = 0 => r.dst.addr = Messages!ZeroAddress(r.family))
      /\ r.src.len \in Nat /\ (r.src.len = 0 => r.src.addr = Messages!ZeroAddress(r.family))
  BY DEF IsRoute, IsPrefixOf
<1>2. \A d :
      /\ m.family = r.family
      /\ m.dst_len = r.dst.len /\ m.src_len = r.src.len
      /\ Messages!Get(m, "OIF", d) = r.oif
      /\ "DST" \in DOMAIN m.attrs <=> r.dst.len > 0
      /\ Messages!Get(m, "DST", d) = IF r.dst.len > 0 THEN r.dst.addr ELSE d
      /\ "SRC" \in DOMAIN m.attrs <=> r.src.len > 0
      /\ Messages!Get(m, "SRC", d) = IF r.src.len > 0 THEN r.src.addr ELSE d
      /\ Messages!Get(m, "GATEWAY", d) =
           IF r.gw # Messages!ZeroAddress(r.family) THEN r.gw ELSE d
      /\ Messages!Get(m, "PRIORITY", 0) = r.metric
  BY RouteAttributes
<1> HIDE DEF m
<1>3. q = Messages!ParsedRoute(m)
  BY DEF m
<1>4. /\ q.prefix = Messages!Get(m, "DST", Messages!ZeroAddress(m.family))
      /\ q.plen = IF "DST" \in DOMAIN m.attrs THEN Messages!Plen(m.dst_len, m.family)
                  ELSE IF m.family = "INET" THEN 96 ELSE 0
      /\ q.src_prefix = Messages!Get(m, "SRC", Messages!ZeroAddress(m.family))
      /\ q.src_plen = IF "SRC" \in DOMAIN m.attrs
                      THEN Messages!Plen(m.src_len, m.family) ELSE 0
      /\ q.gw = Messages!Get(m, "GATEWAY", Messages!ZeroAddress("INET6"))
      /\ q.metric = Messages!Metric(Messages!Get(m, "PRIORITY", 0))
      /\ q.ifindex = Messages!Get(m, "OIF", 0)
  BY <1>3 DEF Messages!ParsedRoute
<1>5. q.prefix = r.dst.addr /\ q.src_prefix = r.src.addr /\ q.ifindex = r.oif
  BY <1>1, <1>2, <1>4
<1>6. q.plen = r.dst.len + Messages!Widened(r.family)
  BY <1>1, <1>2, <1>4 DEF Messages!Plen, Messages!Widened
<1>7. q.src_plen = IF r.src.len = 0 THEN 0
                   ELSE r.src.len + Messages!Widened(r.family)
  BY <1>1, <1>2, <1>4 DEF Messages!Plen, Messages!Widened
<1>8. q.gw = r.gw \/ {q.gw, r.gw} \subseteq {Messages!ZeroAddress(f) : f \in {"INET", "INET6"}}
  <2>1. q.gw = IF r.gw # Messages!ZeroAddress(r.family) THEN r.gw ELSE Messages!ZeroAddress("INET6")
    BY <1>2, <1>4
  <2> QED
    BY <1>1, <2>1
<1>9. q.metric = Messages!LeastOf(r.metric, Infinity)
  BY <1>1, <1>2, <1>4, MetricAsInt
<1> QED
  BY <1>5, <1>6, <1>7, <1>8, <1>9

(* The filter reports the routes that pass. *)
LEMMA RouteReported ==
  ASSUME NEW r, IsRoute(r)
  PROVE  Messages!Reports(r) =
           IF Passes(r) THEN {Messages!ParsedRoute(Messages!RtMessage(r))} ELSE {}
<1> DEFINE m == Messages!RtMessage(r)
           q == Messages!ParsedRoute(m)
<1>1. /\ m.protocol = r.protocol /\ m.cloned = r.cloned
      /\ Messages!Get(m, "TABLE", m.table) = r.table
  BY RouteAttributes
<1>2. /\ q.plen = r.dst.len + Messages!Widened(r.family)
      /\ q.metric = Messages!LeastOf(r.metric, Infinity)
  BY RouteParsed
<1> HIDE DEF m, q
<1>3. Messages!Reports(r) = Messages!RouteReports(m)
  BY DEF Messages!Reports, IsRoute, m
<1>4. Messages!Imported(m) <=> r.table \in ImportTables
  BY <1>1, TableAsInt DEF Messages!Imported, IsRoute
<1>5. q.plen = 0 /\ q.metric >= Infinity
        <=> r.family = "INET6" /\ r.dst.len = 0 /\ r.metric >= Infinity
  <2>1. /\ r.family \in {"INET", "INET6"} /\ r.metric \in Nat /\ r.dst.len \in Nat
        /\ Infinity \in Nat
    BY MessagesAssumption DEF IsRoute, IsPrefixOf
  <2>2. q.plen = 0 <=> r.family = "INET6" /\ r.dst.len = 0
    BY <1>2, <2>1 DEF Messages!Widened
  <2>3. q.metric >= Infinity <=> r.metric >= Infinity
    BY <1>2, <2>1 DEF Messages!LeastOf
  <2> QED
    BY <2>2, <2>3
<1>6. Messages!RouteReports(m) = IF Passes(r) THEN {q} ELSE {}
  BY <1>1, <1>4, <1>5
     DEF Messages!RouteReports, Passes, Messages!Wanted, Messages!UnreachableDefault, q
<1> QED
  BY <1>3, <1>6 DEF m, q

(* An address that is told is the local one. *)
LEMMA AddressReported ==
  ASSUME NEW a, IsAddress(a)
  PROVE  Messages!Reports(a) =
           IF a.family \in {"INET", "INET6"}
           THEN {[addr |-> a.local, ifindex |-> a.index]} ELSE {}
<1> DEFINE m == Messages!AddrMessage(a)
           s == m.attrs
<1>1. /\ m.family = a.family /\ m.index = a.index
      /\ a.family = "INET" =>
           s = <<[type |-> "ADDRESS", value |-> a.address],
                 [type |-> "LOCAL", value |-> a.local]>>
      /\ a.family # "INET" /\ a.local # a.address =>
           s = <<[type |-> "LOCAL", value |-> a.local],
                 [type |-> "ADDRESS", value |-> a.address]>>
      /\ a.family # "INET" /\ a.local = a.address =>
           s = <<[type |-> "ADDRESS", value |-> a.address]>>
  BY DEF Messages!AddrMessage
<1>2. Messages!Reports(a) = Messages!AddrReports(m)
  BY DEF Messages!Reports, IsAddress
<1> HIDE DEF m
<1>3. s[Messages!StopsAt(s)].value = a.local
  <2>1. CASE a.family = "INET"
    <3>1. /\ DOMAIN s = {1, 2} /\ s[1].type = "ADDRESS" /\ s[2].type = "LOCAL"
          /\ s[2].value = a.local
      BY <1>1, <2>1
    <3>2. Messages!Locals(s) = {2}
      BY <3>1 DEF Messages!Locals
    <3>3. Messages!StopsAt(s) = 2
      BY <3>2 DEF Messages!StopsAt
    <3> QED BY <3>1, <3>3
  <2>2. CASE a.family # "INET" /\ a.local # a.address
    <3>1. /\ DOMAIN s = {1, 2} /\ s[1].type = "LOCAL" /\ s[2].type = "ADDRESS"
          /\ s[1].value = a.local
      BY <1>1, <2>2
    <3>2. Messages!Locals(s) = {1}
      BY <3>1 DEF Messages!Locals
    <3>3. Messages!StopsAt(s) = 1
      BY <3>2 DEF Messages!StopsAt
    <3> QED BY <3>1, <3>3
  <2>3. CASE a.family # "INET" /\ a.local = a.address
    <3>1. /\ DOMAIN s = {1} /\ s[1].type = "ADDRESS" /\ s[1].value = a.local
          /\ Len(s) = 1
      BY <1>1, <2>3
    <3>2. Messages!Locals(s) = {}
      BY <3>1 DEF Messages!Locals
    <3>3. Messages!StopsAt(s) = 1
      BY <3>1, <3>2 DEF Messages!StopsAt
    <3> QED BY <3>1, <3>3
  <2> QED BY <2>1, <2>2, <2>3
<1> QED
  BY <1>1, <1>2, <1>3 DEF Messages!AddrReports

(* What fib_nl_fill_rule puts into a message about a rule. *)
LEMMA RuleAttributes ==
  ASSUME NEW r, NEW m, m = Messages!RuleMessage(r), NEW d
  PROVE  /\ m.family = r.family /\ m.src_len = r.src.len
         /\ "TABLE" \in DOMAIN m.attrs
         /\ Messages!Get(m, "TABLE", d) = r.table
         /\ "PRIORITY" \in DOMAIN m.attrs <=> r.priority > 0
         /\ Messages!Get(m, "PRIORITY", d) = IF r.priority > 0 THEN r.priority ELSE d
         /\ "SRC" \in DOMAIN m.attrs <=> r.src.len > 0
         /\ Messages!Get(m, "SRC", d) = IF r.src.len > 0 THEN r.src.addr ELSE d
<1> DEFINE present ==
      {"TABLE"} \cup (IF r.src.len > 0 THEN {"SRC"} ELSE {})
       \cup (IF r.priority > 0 THEN {"PRIORITY"} ELSE {})
<1> DEFINE all == [SRC |-> r.src.addr, PRIORITY |-> r.priority, TABLE |-> r.table]
<1>1. /\ m.family = r.family /\ m.src_len = r.src.len
      /\ m.attrs = [t \in present |-> all[t]]
  BY DEF Messages!RuleMessage, Messages!Attributes
<1>2. all.SRC = r.src.addr /\ all.PRIORITY = r.priority /\ all.TABLE = r.table
  OBVIOUS
<1> HIDE DEF all
<1>3. \A t, e : Messages!Get(m, t, e) = IF t \in present THEN all[t] ELSE e
  BY <1>1 DEF Messages!Get
<1>4. DOMAIN m.attrs = present
  BY <1>1
<1> QED
  BY <1>1, <1>2, <1>3, <1>4

(* A rule that is told has a priority, and both it and the table are the
   kernel's; so are source and length, if there is one. *)
LEMMA RuleReported ==
  ASSUME NEW r, r.kind = "rule"
  PROVE  /\ \A q \in Messages!Reports(r) : q.priority = r.priority /\ q.table = r.table
         /\ r.family \in {"INET", "INET6"} /\ r.priority > 0 /\ r.src.len > 0 =>
              Messages!Reports(r) =
                {[src |-> r.src.addr, src_plen |-> Messages!Plen(r.src.len, r.family),
                  priority |-> r.priority, table |-> r.table]}
<1> DEFINE m == Messages!RuleMessage(r)
<1>1. \A d :
      /\ m.family = r.family /\ m.src_len = r.src.len
      /\ "TABLE" \in DOMAIN m.attrs
      /\ Messages!Get(m, "TABLE", d) = r.table
      /\ "PRIORITY" \in DOMAIN m.attrs <=> r.priority > 0
      /\ Messages!Get(m, "PRIORITY", d) = IF r.priority > 0 THEN r.priority ELSE d
      /\ "SRC" \in DOMAIN m.attrs <=> r.src.len > 0
      /\ Messages!Get(m, "SRC", d) = IF r.src.len > 0 THEN r.src.addr ELSE d
  BY RuleAttributes
<1>2. Messages!Reports(r) = Messages!RuleReports(m)
  BY DEF Messages!Reports
<1> HIDE DEF m
<1>3. /\ Messages!ParsedRule(m).priority = Messages!Get(m, "PRIORITY", Junk)
      /\ Messages!ParsedRule(m).table = Messages!Get(m, "TABLE", m.table)
  BY DEF Messages!ParsedRule
<1>4. Messages!Reports(r) = {} \/ (r.priority > 0 /\ Messages!Reports(r) = {Messages!ParsedRule(m)})
  BY <1>1, <1>2 DEF Messages!RuleReports
<1>5. \A q \in Messages!Reports(r) : q.priority = r.priority /\ q.table = r.table
  BY <1>1, <1>3, <1>4
<1>6. ASSUME r.family \in {"INET", "INET6"}, r.priority > 0, r.src.len > 0
      PROVE  Messages!Reports(r) =
                {[src |-> r.src.addr, src_plen |-> Messages!Plen(r.src.len, r.family),
                  priority |-> r.priority, table |-> r.table]}
  <2>1. Messages!Reports(r) = {Messages!ParsedRule(m)}
    BY <1>1, <1>2, <1>6 DEF Messages!RuleReports
  <2> QED
    BY <1>1, <1>6, <2>1 DEF Messages!ParsedRule
<1> QED
  BY <1>5, <1>6

(* The rule that add_rule has added is reported as it was asked for. *)
LEMMA AddedReported ==
  ASSUME NEW a, IsRuleArgument(a), ~Messages!Refused(a),
         a.table < ByteMod, a.prio > 0, a.plen > Messages!Widened(a.src.family)
  PROVE  Messages!Reports(Messages!AddedRule(a)) =
           {[src |-> a.src, src_plen |-> a.plen, priority |-> a.prio, table |-> a.table]}
<1> DEFINE r == Messages!AddedRule(a)
<1>1. a.src.family \in {"INET", "INET6"} /\ a.plen \in Nat /\ a.table \in Nat
  BY DEF IsRuleArgument
<1>2. a.table % ByteMod = a.table
  BY <1>1, MessagesAssumption
<1>3. /\ r.kind = "rule" /\ r.family = a.src.family /\ r.priority = a.prio
      /\ r.src.addr = a.src /\ r.table = a.table
      /\ r.src.len = IF a.src.family = "INET" THEN a.plen - 96 ELSE a.plen
  BY <1>2 DEF Messages!AddedRule
<1> HIDE DEF r
<1>4. r.src.len > 0 /\ Messages!Plen(r.src.len, r.family) = a.plen
  BY <1>1, <1>3 DEF Messages!Widened, Messages!Plen
<1> QED
  BY <1>1, <1>3, <1>4, RuleReported DEF r

(* What the callbacks are told of an object. *)
Telling(obj, f) ==
  IF obj.kind \in f /\ Messages!Reports(obj) # {}
  THEN [callback |-> obj.kind, report |-> CHOOSE r \in Messages!Reports(obj) : TRUE]
  ELSE Messages!Nothing

(* The inductive invariant: between a message and the next, the callbacks have
   been told what the message says and no more. *)
Objects == Routes \cup Addresses \cup Links \cup Rules
MessagesInv ==
  /\ object # Messages!Nothing =>
       /\ \/ object \in Objects /\ args = Messages!Nothing
          \/ /\ args \in RuleArguments /\ ~Messages!Refused(args)
             /\ object = Messages!AddedRule(args)
       /\ told = Telling(object, filter)
  /\ object = Messages!Nothing => told = Messages!Nothing /\ args = Messages!Nothing

(* The callbacks are told what each message says, and nothing is left of it
   when the next one comes. *)
THEOREM MessagesInvariance == Messages!Spec => []MessagesInv
<1>1. Messages!Init => MessagesInv
  BY DEF Messages!Init, MessagesInv
<1>2. MessagesInv /\ [Messages!Next]_(Messages!vars) => MessagesInv'
  <2> SUFFICES ASSUME MessagesInv, [Messages!Next]_(Messages!vars)
               PROVE  MessagesInv'
    OBVIOUS
  <2>1. ASSUME NEW obj, NEW f, Messages!filter_netlink(obj), filter' = f
        PROVE  told' = Telling(obj, f)
    BY <2>1 DEF Messages!filter_netlink, Telling
  <2>2. ASSUME NEW obj \in Objects, NEW f, Messages!Tell(obj, f)
        PROVE  MessagesInv'
    <3>1. object' = obj /\ args' = Messages!Nothing /\ filter' = f
      BY <2>2 DEF Messages!Tell
    <3>2. told' = Telling(obj, f)
      BY <2>1, <2>2, <3>1 DEF Messages!Tell
    <3>3. obj # Messages!Nothing
      BY MessagesAssumption DEF Messages!Nothing, Objects, IsRoute, IsAddress, IsLink,
         IsRule
    <3> QED
      BY <3>1, <3>2, <3>3 DEF MessagesInv
  <2>3. ASSUME NEW a \in RuleArguments, NEW f, Messages!AddRule(a, f)
        PROVE  MessagesInv'
    <3>1. /\ object' = Messages!AddedRule(a) /\ args' = a /\ filter' = f
          /\ ~Messages!Refused(a)
      BY <2>3 DEF Messages!AddRule
    <3>2. told' = Telling(Messages!AddedRule(a), f)
      BY <2>1, <2>3, <3>1 DEF Messages!AddRule
    <3>3. Messages!AddedRule(a) # Messages!Nothing
      BY DEF Messages!AddedRule, Messages!Nothing
    <3> QED
      BY <3>1, <3>2, <3>3 DEF MessagesInv
  <2>4. CASE Messages!Return
    BY <2>4 DEF Messages!Return, MessagesInv
  <2>5. CASE UNCHANGED Messages!vars
    BY <2>5 DEF Messages!vars, MessagesInv
  <2> QED
    BY <2>2, <2>3, <2>4, <2>5 DEF Messages!Next, Objects
<1> QED
  BY <1>1, <1>2, PTL DEF Messages!Spec

(* A callback that is told something is told a report of the object. *)
LEMMA ToldReport ==
  ASSUME MessagesInv, object # Messages!Nothing
  PROVE  /\ told # Messages!Nothing <=>
              object.kind \in filter /\ Messages!Reports(object) # {}
         /\ told # Messages!Nothing => told.report \in Messages!Reports(object)
BY DEF MessagesInv, Telling, Messages!Nothing

(* What object a message is about, by its kind. *)
LEMMA KindOfObject ==
  ASSUME MessagesInv, object # Messages!Nothing
  PROVE  /\ object.kind = "route" => IsRoute(object)
         /\ object.kind = "addr" => IsAddress(object)
BY MessagesAssumption
   DEF MessagesInv, Objects, IsRoute, IsAddress, IsLink, IsRule, Messages!AddedRule

(* For any routes of the kernel: the callback is told only of the routes of
   others that are in a table to be imported, all 32 bits of its number
   compared, and not of IPv6's unreachable default routes; and of all of them
   that are no unreachable default routes. *)
THEOREM RoutesAreRight == Messages!Spec => []RightRoutes
<1>1. MessagesInv => RightRoutes
  <2> SUFFICES ASSUME MessagesInv, object # Messages!Nothing, object.kind = "route"
               PROVE  told # Messages!Nothing <=> "route" \in filter /\ Passes(object)
    BY DEF RightRoutes, Messages!RightRoutes, Passes
  <2> QED
    BY ToldReport, KindOfObject, RouteReported
<1> QED
  BY <1>1, MessagesInvariance, PTL

(* For any routes of the kernel: prefixes, lengths, gateway and metric come to
   the callback as the kernel has them, also where an attribute is missing or
   the metric is no int. *)
THEOREM RoutesAreAsTheyAre == Messages!Spec => []RouteAsIs
<1>1. MessagesInv => RouteAsIs
  <2> SUFFICES ASSUME MessagesInv, Messages!Told("route"), told # Messages!Nothing
               PROVE  LET r == told.report IN
                 /\ r.prefix = object.dst.addr
                 /\ r.plen = object.dst.len + Messages!Widened(object.family)
                 /\ r.src_prefix = object.src.addr
                 /\ r.src_plen = IF object.src.len = 0 THEN 0
                                 ELSE object.src.len + Messages!Widened(object.family)
                 /\ r.gw = object.gw \/ {r.gw, object.gw} \subseteq
                                          {Messages!ZeroAddress(f) : f \in {"INET", "INET6"}}
                 /\ r.metric = Messages!LeastOf(object.metric, Infinity)
                 /\ r.ifindex = object.oif
    BY DEF RouteAsIs, Messages!RouteAsIs
  <2>1. IsRoute(object) /\ told.report \in Messages!Reports(object)
    BY ToldReport, KindOfObject DEF Messages!Told
  <2>2. told.report = Messages!ParsedRoute(Messages!RtMessage(object))
    BY <2>1, RouteReported
  <2> QED
    BY <2>1, <2>2, RouteParsed
<1> QED
  BY <1>1, MessagesInvariance, PTL

(* For any addresses of the kernel: the address told is the local one, wherever
   the peer's stands. *)
THEOREM AddressesAreLocal == Messages!Spec => []LocalAddress
<1>1. MessagesInv => LocalAddress
  <2> SUFFICES ASSUME MessagesInv, Messages!Told("addr")
               PROVE  IF object.family \in {"INET", "INET6"}
                      THEN told # Messages!Nothing /\ told.report.addr = object.local
                      ELSE told = Messages!Nothing
    BY DEF LocalAddress, Messages!LocalAddress
  <2>1. /\ object # Messages!Nothing /\ object.kind = "addr" /\ "addr" \in filter
        /\ IsAddress(object)
    BY KindOfObject DEF Messages!Told
  <2>2. Messages!Reports(object) =
          IF object.family \in {"INET", "INET6"}
          THEN {[addr |-> object.local, ifindex |-> object.index]} ELSE {}
    BY <2>1, AddressReported
  <2>3. /\ told # Messages!Nothing <=> Messages!Reports(object) # {}
        /\ told # Messages!Nothing => told.report \in Messages!Reports(object)
    BY <2>1, ToldReport
  <2>4. CASE object.family \in {"INET", "INET6"}
    <3>1. told # Messages!Nothing
      BY <2>2, <2>3, <2>4
    <3>2. told.report = [addr |-> object.local, ifindex |-> object.index]
      BY <2>2, <2>3, <2>4, <3>1
    <3> QED
      BY <2>4, <3>1, <3>2
  <2>5. CASE object.family \notin {"INET", "INET6"}
    BY <2>2, <2>3, <2>5
  <2> QED
    BY <2>4, <2>5
<1> QED
  BY <1>1, MessagesInvariance, PTL

(* For any rules of the kernel and any arguments of add_rule: no field of a
   rule that is told is left over, and add_rule's own rules are told as they
   were asked for. *)
THEOREM RulesComeBack == Messages!Spec => []RuleRoundTrip
<1>1. MessagesInv => RuleRoundTrip
  <2> SUFFICES ASSUME MessagesInv, Messages!Told("rule") PROVE RuleRoundTrip
    BY DEF RuleRoundTrip, Messages!RuleRoundTrip
  <2>1. object # Messages!Nothing /\ object.kind = "rule" /\ "rule" \in filter
    BY DEF Messages!Told
  <2>2. ASSUME told # Messages!Nothing
        PROVE  told.report.priority = object.priority /\ told.report.table = object.table
    BY <2>1, <2>2, ToldReport, RuleReported
  <2>3. ASSUME args # Messages!Nothing, args.table \in 1 .. ByteMod - 1, args.prio > 0,
               args.plen > Messages!Widened(args.src.family)
        PROVE  /\ told # Messages!Nothing
               /\ told.report = [src |-> args.src, src_plen |-> args.plen,
                                 priority |-> args.prio, table |-> args.table]
    <3>1. /\ IsRuleArgument(args) /\ ~Messages!Refused(args)
          /\ object = Messages!AddedRule(args)
      BY <2>1, <2>3, MessagesAssumption DEF MessagesInv
    <3>2. args.table < ByteMod
      BY <2>3, MessagesAssumption
    <3> QED
      BY <2>1, <2>3, <3>1, <3>2, ToldReport, AddedReported
  <2> QED
    BY <2>2, <2>3 DEF RuleRoundTrip, Messages!RuleRoundTrip
<1> QED
  BY <1>1, MessagesInvariance, PTL

-------------------------------------------------------------------------------
(* Interface queries. *)

(* What has become of an interface d that alone has had the name since the
   call began: it is no bridge after the probes of isbridge, and no mesh after
   that of isbatman, as far as they can tell; the list of bridges is asked for
   only where sysfs has failed to answer. *)
Judged(d) ==
  /\ pc = "bridge" => sysfs
  /\ pc = "fallback" => failed \/ ~sysfs \/ d = Queries!NoDev
  /\ pc \in {"batman", "wireless"} /\ Queries!Decidable(d) => d.kind # "bridge"
  /\ pc = "wireless" /\ Queries!Decidable(d) => d.kind # "batman"
  /\ pc = "done" /\ Queries!Decidable(d) =>
       result = Queries!Answer[d.kind] \/ (failed /\ result = -1)

(* The inductive invariant.  As long as a call goes on, what has the name now
   has been seen by it, and the caller's index is one of an interface. *)
Known == Queries!Possible \cup {Queries!NoDev}
QueriesInv ==
  /\ {bridges, sysfs, failed} \subseteq BOOLEAN
  /\ dev \in Known /\ seen \subseteq Known
  /\ pc \in {"idle", "name", "bridge", "fallback", "batman", "wireless", "done"}
  /\ pc \notin {"idle", "done"} => dev \in seen /\ ifindex \in Indices
  /\ \A d \in seen : seen = {d} => Judged(d)

(* InterfaceQueries counts as FiniteSets does. *)
LEMMA SameCardinality ==
  ASSUME NEW S PROVE Queries!Cardinality(S) = Cardinality(S)
BY DEF Queries!Cardinality, Cardinality

(* A step of a call, at an interface that nothing has happened to. *)
LEMMA SteadyStep ==
  ASSUME QueriesInv, pc \notin {"idle", "done"}, NEW d \in seen, seen = {d}
  PROVE  /\ d = dev /\ d \in Known /\ Judged(d)
         /\ d.kind = "none" <=> d = Queries!NoDev
         /\ d.kind = "bridge" => bridges
         /\ d # Queries!NoDev => d.index \in Indices /\ d.kind \in Queries!Kinds
BY DEF QueriesInv, Known, Queries!Possible, Queries!Devices, Queries!NoDev,
   Queries!Kinds

(* The list of bridges holds the indices of others, and that of a bridge that
   has the name; one that is not in it was left out for want of room only. *)
LEMMA BridgesListed ==
  ASSUME QueriesInv, dev # Queries!NoDev, dev.index = ifindex,
         NEW indices \in SUBSET Queries!Bridges,
         indices = Queries!Bridges \/ Cardinality(indices) = MaxBridges,
         Cardinality(Others) < MaxBridges
  PROVE  ifindex \in indices <=> dev.kind = "bridge"
<1>1. dev.index \in Indices /\ dev.index \notin Others
  BY QueriesAssumption
     DEF QueriesInv, Known, Queries!Possible, Queries!Devices, Queries!NoDev
<1>2. ASSUME ifindex \in indices PROVE dev.kind = "bridge"
  BY <1>1, <1>2 DEF Queries!Bridges
<1>3. ASSUME dev.kind = "bridge", ifindex \notin indices PROVE FALSE
  <2>1. Queries!Bridges = Others \cup {ifindex}
    BY <1>3 DEF Queries!Bridges
  <2>2. indices \subseteq Others
    BY <1>3, <2>1
  <2>3. /\ IsFiniteSet(indices) /\ Cardinality(indices) <= Cardinality(Others)
        /\ Cardinality(indices) \in Nat /\ Cardinality(Others) \in Nat
    BY <2>2, QueriesAssumption, FS_Subset, FS_CardinalityType
  <2>4. Cardinality(indices) = MaxBridges
    BY <1>3, <2>1
  <2> QED
    BY <2>3, <2>4, QueriesAssumption
<1> QED
  BY <1>2, <1>3

(* What is left to show of a step of a call. *)
LEMMA CallStep ==
  ASSUME QueriesInv, pc \notin {"idle", "done"},
         UNCHANGED <<Queries!kernel, ifindex, seen>>,
         pc' \in {"bridge", "fallback", "batman", "wireless", "done"},
         failed' \in BOOLEAN,
         \A d \in seen : seen = {d} => Judged(d)'
  PROVE  QueriesInv'
BY DEF QueriesInv, Known, Queries!Possible, Queries!kernel

(* A step of a call in which a probe has failed is no answer. *)
LEMMA FaultStep ==
  ASSUME QueriesInv, pc \notin {"idle", "done"},
         UNCHANGED <<Queries!kernel, ifindex, seen>>,
         Queries!Fault, pc' = "fallback" \/ (pc' = "done" /\ result' = -1)
  PROVE  QueriesInv'
<1>1. failed' = TRUE
  BY DEF Queries!Fault
<1>2. \A d \in seen : seen = {d} => Judged(d)'
  BY <1>1 DEF Judged
<1> QED
  BY <1>1, <1>2, CallStep

(* The list of bridges settles the question for an interface that stays. *)
LEMMA FallbackKeeps ==
  ASSUME QueriesInv, Queries!Fallback
  PROVE  QueriesInv'
<1>1. pc = "fallback" /\ UNCHANGED <<Queries!kernel, ifindex, seen>>
  BY DEF Queries!Fallback, Queries!Goto, Queries!Return
<1>2. CASE Queries!Fault /\ Queries!Return(-1)
  BY <1>1, <1>2, FaultStep DEF Queries!Return
<1>3. ASSUME NEW indices \in SUBSET Queries!Bridges, Queries!NoFault,
             indices = Queries!Bridges \/ Cardinality(indices) = MaxBridges,
             IF bridges /\ ifindex \in indices
             THEN Queries!Return(-1) ELSE Queries!Goto("batman")
      PROVE  QueriesInv'
  <2>1. failed' = failed /\ failed \in BOOLEAN
    BY <1>3 DEF Queries!NoFault, QueriesInv
  <2>2. ASSUME NEW d \in seen, seen = {d}
        PROVE  Judged(d)'
    <3>1. /\ d = dev /\ Judged(d)
          /\ d.kind = "none" <=> d = Queries!NoDev
          /\ d.kind = "bridge" => bridges
          /\ d # Queries!NoDev => d.kind \in Queries!Kinds
      BY <1>1, <2>2, SteadyStep
    <3>2. ASSUME Queries!Decidable(d), d # Queries!NoDev
          PROVE  ifindex \in indices <=> d.kind = "bridge"
      <4>1. failed \/ ~sysfs
        BY <1>1, <3>1, <3>2 DEF Judged
      <4>2. d.index = ifindex /\ Cardinality(Others) < MaxBridges
        BY <3>2, <4>1, SameCardinality DEF Queries!Decidable
      <4> QED
        BY <1>3, <3>1, <3>2, <4>2, BridgesListed
    <3>3. Queries!Decidable(d)' <=> Queries!Decidable(d)
      BY <1>1, <2>1 DEF Queries!Decidable, Queries!kernel
    <3> QED
      <4>1. CASE bridges /\ ifindex \in indices
        BY <1>3, <2>1, <3>1, <3>2, <3>3, <4>1
           DEF Judged, Queries!Return, Queries!Answer
      <4>2. CASE ~(bridges /\ ifindex \in indices)
        BY <1>3, <2>1, <3>1, <3>2, <3>3, <4>2 DEF Judged, Queries!Goto
      <4> QED BY <4>1, <4>2
  <2>3. pc' \in {"batman", "done"}
    BY <1>3 DEF Queries!Goto, Queries!Return
  <2> QED
    BY <1>1, <2>1, <2>2, <2>3, CallStep
<1> QED
  BY <1>2, <1>3, SameCardinality DEF Queries!Fallback

(* The other probes. *)
LEMMA ProbesKeep ==
  ASSUME QueriesInv,
         \/ Queries!AccessName \/ Queries!AccessBridge
         \/ Queries!AccessMesh \/ Queries!IoctlWireless
  PROVE  QueriesInv'
<1>1. CASE Queries!AccessName
  <2>1. CASE Queries!Fault /\ Queries!Goto("fallback")
    BY <1>1, <2>1, FaultStep DEF Queries!AccessName, Queries!Goto
  <2>2. CASE Queries!Exists /\ Queries!Goto("bridge") /\ Queries!NoFault
    <3>1. \A d \in seen : seen = {d} => Judged(d)'
      BY <2>2 DEF Judged, Queries!Exists, Queries!Goto, Queries!kernel
    <3> QED
      BY <1>1, <2>2, <3>1, CallStep
         DEF Queries!AccessName, Queries!Goto, Queries!NoFault, QueriesInv
  <2>3. CASE ~Queries!Exists /\ Queries!Goto("fallback") /\ Queries!NoFault
    <3>1. \A d \in seen : seen = {d} => Judged(d)'
      BY <1>1, <2>3, SteadyStep
         DEF Judged, Queries!AccessName, Queries!Exists, Queries!Goto, Queries!kernel
    <3> QED
      BY <1>1, <2>3, <3>1, CallStep
         DEF Queries!AccessName, Queries!Goto, Queries!NoFault, QueriesInv
  <2> QED BY <1>1, <2>1, <2>2, <2>3 DEF Queries!AccessName
<1>2. CASE Queries!AccessBridge
  <2>1. CASE Queries!Fault /\ Queries!Goto("fallback")
    BY <1>2, <2>1, FaultStep DEF Queries!AccessBridge, Queries!Goto
  <2>2. CASE Queries!IsA("bridge") /\ Queries!Return(-1) /\ Queries!NoFault
    <3>1. \A d \in seen : seen = {d} => Judged(d)'
      BY <1>2, <2>2, SteadyStep
         DEF Judged, Queries!AccessBridge, Queries!IsA, Queries!Return, Queries!Answer
    <3> QED
      BY <1>2, <2>2, <3>1, CallStep
         DEF Queries!AccessBridge, Queries!Return, Queries!NoFault, QueriesInv
  <2>3. CASE ~Queries!IsA("bridge") /\ Queries!Goto("batman") /\ Queries!NoFault
    <3>1. \A d \in seen : seen = {d} => Judged(d)'
      BY <1>2, <2>3, SteadyStep
         DEF Judged, Queries!AccessBridge, Queries!IsA, Queries!Goto, Queries!kernel
    <3> QED
      BY <1>2, <2>3, <3>1, CallStep
         DEF Queries!AccessBridge, Queries!Goto, Queries!NoFault, QueriesInv
  <2> QED BY <1>2, <2>1, <2>2, <2>3 DEF Queries!AccessBridge
<1>3. CASE Queries!AccessMesh
  <2>1. CASE Queries!Fault /\ Queries!Return(-1)
    BY <1>3, <2>1, FaultStep DEF Queries!AccessMesh, Queries!Return
  <2>2. CASE Queries!IsA("batman") /\ Queries!Return(-1) /\ Queries!NoFault
    <3>1. \A d \in seen : seen = {d} => Judged(d)'
      BY <1>3, <2>2, SteadyStep
         DEF Judged, Queries!AccessMesh, Queries!IsA, Queries!Return, Queries!Answer
    <3> QED
      BY <1>3, <2>2, <3>1, CallStep
         DEF Queries!AccessMesh, Queries!Return, Queries!NoFault, QueriesInv
  <2>3. CASE ~Queries!IsA("batman") /\ Queries!Goto("wireless") /\ Queries!NoFault
    <3>1. ASSUME NEW d \in seen, seen = {d}
          PROVE  Judged(d)'
      <4>1. d = dev /\ Judged(d) /\ pc = "batman"
        BY <1>3, <3>1, SteadyStep DEF Queries!AccessMesh
      <4>2. Queries!Decidable(d)' <=> Queries!Decidable(d)
        BY <2>3 DEF Queries!Decidable, Queries!Goto, Queries!NoFault, Queries!kernel
      <4>3. Queries!Decidable(d) => d.kind # "batman"
        BY <2>3, <4>1 DEF Queries!Decidable, Queries!IsA
      <4> QED
        BY <2>3, <4>1, <4>2, <4>3 DEF Judged, Queries!Goto
    <3> QED
      BY <1>3, <2>3, <3>1, CallStep
         DEF Queries!AccessMesh, Queries!Goto, Queries!NoFault, QueriesInv
  <2> QED BY <1>3, <2>1, <2>2, <2>3 DEF Queries!AccessMesh
<1>4. CASE Queries!IoctlWireless
  <2>1. CASE Queries!Fault /\ Queries!Return(-1)
    BY <1>4, <2>1, FaultStep DEF Queries!IoctlWireless, Queries!Return
  <2>2. ASSUME NEW r, Queries!Return(r), Queries!NoFault,
               \/ r = 1 /\ dev.kind = "wireless"
               \/ r = 0 /\ dev.kind \in Queries!Kinds \ {"wireless"}
               \/ r = -1 /\ dev = Queries!NoDev
        PROVE  QueriesInv'
    <3>1. ASSUME NEW d \in seen, seen = {d}
          PROVE  Judged(d)'
      <4>1. /\ d = dev /\ Judged(d) /\ pc = "wireless"
            /\ d.kind = "none" <=> d = Queries!NoDev
        BY <1>4, <3>1, SteadyStep DEF Queries!IoctlWireless
      <4>2. Queries!Decidable(d)' <=> Queries!Decidable(d)
        BY <2>2 DEF Queries!Decidable, Queries!Return, Queries!NoFault, Queries!kernel
      <4>3. Queries!Decidable(d) => r = Queries!Answer[d.kind]
        BY <2>2, <4>1 DEF Judged, Queries!Answer, Queries!Kinds
      <4> QED
        BY <2>2, <4>2, <4>3 DEF Judged, Queries!Return
    <3> QED
      BY <1>4, <2>2, <3>1, CallStep
         DEF Queries!IoctlWireless, Queries!Return, Queries!NoFault, QueriesInv
  <2> QED BY <1>4, <2>1, <2>2 DEF Queries!IoctlWireless
<1> QED
  BY <1>1, <1>2, <1>3, <1>4

(* A change of the interface during a call leaves none that has stayed. *)
LEMMA ChangeKeeps ==
  ASSUME QueriesInv, Queries!Change
  PROVE  QueriesInv'
<1>1. dev' \in Known /\ dev' # dev
  BY DEF QueriesInv, Queries!Change, Known, Queries!Possible, Queries!Devices,
     Queries!NoDev, Queries!Kinds
<1>2. UNCHANGED <<sysfs, bridges, pc, ifindex, result, failed>>
  BY DEF Queries!Change
<1>3. \A d : Judged(d)' <=> Judged(d)
  BY <1>2 DEF Judged, Queries!Decidable
<1>4. Known' = Known
  BY <1>2 DEF Known, Queries!Possible
<1>5. CASE pc \in {"idle", "done"}
  <2>1. seen' = seen
    BY <1>5 DEF Queries!Change
  <2> QED
    BY <1>1, <1>2, <1>3, <1>4, <1>5, <2>1 DEF QueriesInv
<1>6. CASE pc \notin {"idle", "done"}
  <2>1. seen' = seen \cup {dev'} /\ dev \in seen
    BY <1>6 DEF Queries!Change, QueriesInv
  <2>2. \A d : seen' # {d}
    BY <1>1, <2>1
  <2> QED
    BY <1>1, <1>2, <1>4, <2>1, <2>2 DEF QueriesInv
<1> QED
  BY <1>5, <1>6

(* Between a call and the next. *)
LEMMA CallsKeep ==
  ASSUME QueriesInv, Queries!Call \/ Queries!Again
  PROVE  QueriesInv'
<1>1. UNCHANGED Queries!kernel /\ Known' = Known
  BY DEF Queries!Call, Queries!Again, Queries!kernel, Known, Queries!Possible
<1>2. CASE Queries!Call
  <2>1. pc' = "name" /\ seen' = {dev} /\ failed' = FALSE /\ ifindex' \in Indices
    BY <1>2 DEF Queries!Call
  <2>2. \A d : Judged(d)'
    BY <2>1 DEF Judged
  <2> QED
    BY <1>1, <2>1, <2>2 DEF QueriesInv, Queries!kernel
<1>3. CASE Queries!Again
  BY <1>1, <1>3 DEF QueriesInv, Queries!Again, Queries!kernel
<1> QED
  BY <1>2, <1>3

(* What the probes have found out about an interface that stays is true of it,
   as far as they can tell. *)
THEOREM QueriesInvariance == Queries!Spec => []QueriesInv
<1>1. Queries!Init => QueriesInv
  BY DEF Queries!Init, QueriesInv, Known
<1>2. QueriesInv /\ [Queries!Next]_(Queries!vars) => QueriesInv'
  <2> SUFFICES ASSUME QueriesInv, [Queries!Next]_(Queries!vars) PROVE QueriesInv'
    OBVIOUS
  <2>1. CASE UNCHANGED Queries!vars
    BY <2>1 DEF Queries!vars, QueriesInv, Known, Queries!Possible, Judged,
       Queries!Decidable
  <2>2. CASE Queries!Next
    BY <2>2, ChangeKeeps, CallsKeep, FallbackKeeps, ProbesKeep DEF Queries!Next
  <2> QED
    BY <2>1, <2>2
<1> QED
  BY <1>1, <1>2, PTL DEF Queries!Spec

(* A probe that settles the question speaks of what has the name at that
   moment. *)
Earned ==
  pc = "done" => (failed /\ result = -1) \/ \E d \in seen : Queries!Deserves(d)

(* The list of bridges has the caller's index, which is no other bridge's, only
   if a bridge has the name. *)
LEMMA ListedIsBridge ==
  ASSUME ifindex \in Indices, NEW indices \in SUBSET Queries!Bridges,
         ifindex \in indices
  PROVE  dev.kind = "bridge"
BY QueriesAssumption DEF Queries!Bridges

(* An answer about what has the name now, which the call has seen. *)
LEMMA AnswerEarned ==
  ASSUME dev \in seen, NEW r, Queries!Return(r),
         \/ r = 1 /\ dev.kind = "wireless"
         \/ r = 0 /\ dev.kind \in Queries!Kinds \ {"wireless"}
         \/ r = -1 /\ dev.kind \in {"bridge", "batman", "none"}
  PROVE  Earned'
<1>1. result' = r /\ dev \in seen'
  BY DEF Queries!Return
<1>2. Queries!Deserves(dev)'
  BY <1>1 DEF Queries!Deserves, Queries!Return, Queries!kernel
<1>3. dev' \in seen'
  BY <1>1 DEF Queries!Return, Queries!kernel
<1> QED
  BY <1>2, <1>3 DEF Earned, Queries!Deserves

(* Every answer is one that something deserved that had the name since the
   call began, or follows a failed probe. *)
THEOREM AnswersAreEarned == Queries!Spec => []Earned
<1>1. Queries!Init => Earned
  BY DEF Queries!Init, Earned
<1>2. QueriesInv /\ Earned /\ [Queries!Next]_(Queries!vars) => Earned'
  <2> SUFFICES ASSUME QueriesInv, Earned, [Queries!Next]_(Queries!vars) PROVE Earned'
    OBVIOUS
  <2>1. CASE UNCHANGED Queries!vars
    BY <2>1 DEF Queries!vars, Earned, Queries!Deserves
  <2>2. CASE Queries!Change
    BY <2>2 DEF Queries!Change, Earned, Queries!Deserves
  <2>3. CASE Queries!Call \/ Queries!Again
    BY <2>3 DEF Queries!Call, Queries!Again, Earned
  <2>4. ASSUME Queries!Fault, pc' # "done" \/ result' = -1
        PROVE  Earned'
    BY <2>4 DEF Queries!Fault, Earned
  <2>5. ASSUME NEW label \in {"bridge", "fallback", "batman", "wireless"},
               Queries!Goto(label)
        PROVE  Earned'
    BY <2>5 DEF Queries!Goto, Earned
  <2>6. CASE Queries!AccessName
    BY <2>5, <2>6 DEF Queries!AccessName
  <2>7. CASE Queries!AccessBridge
    <3>1. CASE Queries!IsA("bridge") /\ Queries!Return(-1)
      BY <2>7, <3>1, AnswerEarned DEF Queries!AccessBridge, Queries!IsA, QueriesInv
    <3> QED
      BY <2>5, <2>7, <3>1 DEF Queries!AccessBridge
  <2>8. CASE Queries!Fallback
    <3>1. pc = "fallback"
      BY <2>8 DEF Queries!Fallback
    <3>2. ASSUME NEW indices \in SUBSET Queries!Bridges, ifindex \in indices,
                 Queries!Return(-1)
          PROVE  Earned'
      BY <3>1, <3>2, ListedIsBridge, AnswerEarned DEF QueriesInv
    <3>3. CASE Queries!Fault /\ Queries!Return(-1)
      BY <2>4, <3>3 DEF Queries!Return
    <3> QED
      BY <2>5, <2>8, <3>2, <3>3 DEF Queries!Fallback
  <2>9. CASE Queries!AccessMesh
    <3>1. CASE Queries!IsA("batman") /\ Queries!Return(-1)
      BY <2>9, <3>1, AnswerEarned DEF Queries!AccessMesh, Queries!IsA, QueriesInv
    <3>2. CASE Queries!Fault /\ Queries!Return(-1)
      BY <2>4, <3>2 DEF Queries!Return
    <3> QED
      BY <2>5, <2>9, <3>1, <3>2 DEF Queries!AccessMesh
  <2>10. CASE Queries!IoctlWireless
    <3>1. dev \in seen
      BY <2>10 DEF Queries!IoctlWireless, QueriesInv
    <3>2. CASE Queries!Fault /\ Queries!Return(-1)
      BY <2>4, <3>2 DEF Queries!Return
    <3>3. CASE dev = Queries!NoDev /\ Queries!Return(-1)
      BY <3>1, <3>3, AnswerEarned DEF Queries!NoDev
    <3> QED
      BY <2>10, <3>1, <3>2, <3>3, AnswerEarned DEF Queries!IoctlWireless
  <2> QED
    BY <2>1, <2>2, <2>3, <2>6, <2>7, <2>8, <2>9, <2>10 DEF Queries!Next
<1> QED
  BY <1>1, <1>2, QueriesInvariance, PTL DEF Queries!Spec

(* For any interfaces, any number of other bridges and any changes and
   failures: an answer is one that something deserved that had the name during
   the call, and the answer about an interface that stays the same is that of
   its kind; or it is an error after a probe that failed. *)
THEOREM AnswersAreSteady == Queries!Spec => []SteadyAnswer
<1>1. QueriesInv /\ Earned => SteadyAnswer
  BY DEF QueriesInv, Earned, Judged, SteadyAnswer, Queries!SteadyAnswer
<1> QED
  BY <1>1, QueriesInvariance, AnswersAreEarned, PTL

-------------------------------------------------------------------------------
(* Channels of frequencies. *)

(* A quotient is known from the multiples that a number lies between. *)
LEMMA BetweenMultiples ==
  ASSUME NEW x \in Nat, NEW b \in Nat \ {0}, NEW n \in Nat, n * b <= x
  PROVE  /\ x \div b \in Nat /\ x \div b >= n
         /\ x < n * b + b => x \div b = n
<1>1. x \div b \in Int /\ (x % b) \in 0 .. b - 1 /\ x = (x \div b) * b + (x % b)
  BY Z3
<1> DEFINE q == x \div b
           r == x % b
<1>2. q \in Int /\ r \in Nat /\ x = q * b + r /\ r < b /\ q = x \div b
  BY <1>1
<1> HIDE DEF q, r
<1>3. ASSUME q < n PROVE FALSE
  <2>1. PICK k \in Nat : n = q + 1 + k
    BY <1>2, <1>3
  <2>2. n * b = q * b + b + k * b /\ k * b \in Nat /\ q * b \in Int
    BY <1>2, <2>1, Z3
  <2> QED
    BY <1>2, <2>2
<1>4. ASSUME q > n, x < n * b + b PROVE FALSE
  <2>1. PICK k \in Nat : q = n + 1 + k
    BY <1>2, <1>4
  <2>2. q * b = n * b + b + k * b /\ k * b \in Nat /\ n * b \in Nat
    BY <2>1, Z3
  <2> QED
    BY <1>2, <1>4, <2>2
<1> QED
  BY <1>2, <1>3, <1>4

(* A frequency less than 2 MHz off n steps of 5 MHz is n steps away, and one
   that is higher is no fewer, in every unit. *)
LEMMA StepsNear ==
  ASSUME NEW mhz \in Nat, NEW m \in Int, NEW e \in 1 .. 6, NEW n \in Nat,
         -2 * Values!Mega(e) < m - (mhz + 5 * n) * Values!Mega(e)
  PROVE  /\ Values!StepsFrom(mhz, m, e) \in Nat
         /\ Values!StepsFrom(mhz, m, e) >= n
         /\ m - (mhz + 5 * n) * Values!Mega(e) < 2 * Values!Mega(e) =>
              Values!StepsFrom(mhz, m, e) = n
<1> DEFINE unit == Values!Mega(e)
           half == Values!Quotient(5 * unit, 2)
           off == m - (mhz + 5 * n) * unit
           x == m - mhz * unit + half
           b == 5 * unit
<1>1. unit \in {100000, 10000, 1000, 100, 10, 1}
  BY DEF Values!Mega
<1>2. Values!StepsFrom(mhz, m, e) = Values!Quotient(x, b)
  BY DEF Values!StepsFrom
<1> HIDE DEF unit
<1>3. half \in Nat /\ 2 * unit <= half /\ half < 3 * unit
  BY <1>1, Z3 DEF Values!Quotient
<1> HIDE DEF half
<1>4. b \in Nat \ {0} /\ n * b \in Nat /\ x = n * b + off + half /\ off \in Int
  BY <1>1, <1>3, Z3
<1>5. b = 5 * unit /\ -2 * unit < off
  BY DEF unit
<1> HIDE DEF off, x, b
<1>6. x \in Nat /\ n * b <= x /\ (off < 2 * unit => x < n * b + b)
  BY <1>1, <1>3, <1>4, <1>5
<1>7. Values!StepsFrom(mhz, m, e) = x \div b
  BY <1>2, <1>6 DEF Values!Quotient
<1>8. x \div b \in Nat /\ x \div b >= n /\ (x < n * b + b => x \div b = n)
  BY <1>4, <1>6, BetweenMultiples
<1>9. off < 2 * unit => x \div b = n
  BY <1>6, <1>8
<1> QED
  BY <1>7, <1>8, <1>9 DEF off, unit

(* The units of drivers fit into an int. *)
LEMMA UnitsFit ==
  ASSUME NEW e \in 1 .. 6
  PROVE  /\ Values!Mega(e) \in {100000, 10000, 1000, 100, 10, 1}
         /\ ~Values!Overflows(e)
<1>1. Values!Mega(e) \in {100000, 10000, 1000, 100, 10, 1}
  BY DEF Values!Mega
<1>2. IntMax \in Nat /\ IntMax \div 2412 >= 100000
  BY ValuesAssumption, Z3
<1> QED
  BY <1>1, <1>2 DEF Values!Overflows

(* A frequency about that of a channel has this channel as its only outcome. *)
LEMMA ChannelFound ==
  ASSUME NEW m \in Int, NEW e \in 1 .. 6, NEW ch \in 1 .. 14 \cup 36 .. 165,
         -2 * Values!Mega(e) < m - Values!Centre(ch) * Values!Mega(e),
         m - Values!Centre(ch) * Values!Mega(e) < 2 * Values!Mega(e)
  PROVE  Values!freq_to_chan(m, e) = {ch}
<1> DEFINE unit == Values!Mega(e)
           half == Values!Quotient(5 * unit, 2)
           c24 == 1 + Values!StepsFrom(2412, m, e)
           c5 == 36 + Values!StepsFrom(5180, m, e)
<1>1. Values!freq_to_chan(m, e) =
        IF c24 \in 1 .. 13 THEN {c24}
        ELSE IF c24 >= 14 /\ m < 2484 * unit + half THEN {14}
        ELSE IF c5 \in 34 .. 165 THEN {c5} ELSE {-1}
  BY UnitsFit DEF Values!freq_to_chan
<1>2. unit \in {100000, 10000, 1000, 100, 10, 1}
  BY UnitsFit
<1>3. half \in Nat /\ 2 * unit <= half /\ half < 3 * unit
  <2> HIDE DEF unit
  <2> QED BY <1>2, Z3 DEF Values!Quotient
<1> DEFINE Steps5(mhz) == Values!StepsFrom(mhz, m, e)
<1>4. \A mhz, n \in Nat :
        -2 * unit < m - (mhz + 5 * n) * unit =>
          /\ Steps5(mhz) \in Nat /\ Steps5(mhz) >= n
          /\ m - (mhz + 5 * n) * unit < 2 * unit => Steps5(mhz) = n
  BY StepsNear
<1>5. c24 = 1 + Steps5(2412) /\ c5 = 36 + Steps5(5180)
  OBVIOUS
<1>6. m > 2475 * unit => c24 \in Nat /\ c24 >= 14
  <2>1. PICK mhz \in Nat, n \in Nat : mhz = 2412 /\ n = 13
    OBVIOUS
  <2>2. m > 2475 * unit => -2 * unit < m - (mhz + 5 * n) * unit
    BY <1>2, <2>1
  <2>3. m > 2475 * unit => Steps5(mhz) \in Nat /\ Steps5(mhz) >= n
    BY <1>4, <2>2
  <2> QED
    BY <1>5, <2>1, <2>3
<1>7. /\ -2 * unit < m - Values!Centre(ch) * unit
      /\ m - Values!Centre(ch) * unit < 2 * unit
  OBVIOUS
<1> HIDE DEF unit, half, c24, c5, Steps5
<1>8. CASE ch \in 1 .. 13
  <2>1. ch - 1 \in Nat /\ Values!Centre(ch) = 2412 + 5 * (ch - 1)
    BY <1>8 DEF Values!Centre
  <2>2. Steps5(2412) = ch - 1
    BY <1>4, <1>7, <2>1
  <2>3. c24 = ch
    BY <1>5, <2>2
  <2> QED
    BY <1>1, <1>8, <2>3
<1>9. CASE ch = 14
  <2>1. m > 2475 * unit
    BY <1>2, <1>7, <1>9 DEF Values!Centre
  <2>2. c24 \in Nat /\ c24 >= 14
    BY <1>6, <2>1
  <2>3. m < 2484 * unit + half
    BY <1>2, <1>3, <1>7, <1>9 DEF Values!Centre
  <2> QED
    BY <1>1, <1>9, <2>2, <2>3
<1>10. CASE ch \in 36 .. 165
  <2>1. ch - 36 \in Nat /\ Values!Centre(ch) = 5180 + 5 * (ch - 36)
    BY <1>10 DEF Values!Centre
  <2>2. m > 5178 * unit
    BY <1>2, <1>7, <2>1
  <2>3. c24 \in Nat /\ c24 >= 14
    <3>1. m > 2475 * unit
      BY <1>2, <2>2
    <3> QED BY <1>6, <3>1
  <2>4. ~(m < 2484 * unit + half)
    BY <1>2, <1>3, <2>2
  <2>5. c5 = ch
    <3>1. Steps5(5180) = ch - 36
      BY <1>4, <1>7, <2>1
    <3> QED BY <1>5, <3>1
  <2> QED
    BY <1>1, <1>10, <2>3, <2>4, <2>5
<1> QED
  BY <1>8, <1>9, <1>10

-------------------------------------------------------------------------------
(* Identifiers of hardware addresses. *)

(* The bytes of an EUI-64: the halves of an Ethernet address with 255 and 254
   between them, or all eight bytes, and the second bit of the first turned. *)
Widens(type, b, eui) ==
  /\ Len(eui) = 8 /\ eui[1] = Values!Flip2(b[1])
  /\ type = "ether" =>
       /\ Len(b) = 6 /\ eui[2] = b[2] /\ eui[3] = b[3]
       /\ eui[6] = b[4] /\ eui[7] = b[5] /\ eui[8] = b[6]
  /\ type = "eui64" => Len(b) = 8 /\ \A n \in 2 .. 8 : eui[n] = b[n]

(* if_eui64 widens the address it is given. *)
LEMMA EuiBytes ==
  ASSUME NEW hw \in HwAddrs, ~Values!Refused(hw)
  PROVE  Widens(hw.type, hw.bytes, Values!Eui(hw))
<1> DEFINE b == hw.bytes
           eui == Values!Eui(hw)
<1>1. b \in Seq(Bytes) /\ hw.type \in {"ether", "eui64"}
  BY ValuesAssumption DEF Values!Refused
<1> DEFINE wide == IF hw.type = "ether"
                   THEN SubSeq(b, 1, 3) \o <<255, 254>> \o SubSeq(b, 4, 6) ELSE b
<1>2. eui = [wide EXCEPT ![1] = Values!Flip2(@)]
  BY DEF Values!Eui
<1>3. CASE hw.type = "ether"
  <2>1. Len(b) = 6
    BY <1>3, ValuesAssumption
  <2>2. /\ SubSeq(b, 1, 3) \in Seq(Bytes) /\ Len(SubSeq(b, 1, 3)) = 3
        /\ \A n \in 1 .. 3 : SubSeq(b, 1, 3)[n] = b[n]
    BY <1>1, <2>1, SubSeqProperties
  <2>3. /\ SubSeq(b, 4, 6) \in Seq(Bytes) /\ Len(SubSeq(b, 4, 6)) = 3
        /\ \A n \in 1 .. 3 : SubSeq(b, 4, 6)[n] = b[n + 3]
    BY <1>1, <2>1, SubSeqProperties
  <2> DEFINE front == SubSeq(b, 1, 3)
             back == SubSeq(b, 4, 6)
  <2>4. wide = front \o <<255, 254>> \o back
    BY <1>3
  <2> HIDE DEF front, back, wide
  <2>5. <<255, 254>> \in Seq(Bytes) /\ Len(<<255, 254>>) = 2
    BY DEF Bytes
  <2>6. /\ front \o <<255, 254>> \in Seq(Bytes) /\ Len(front \o <<255, 254>>) = 5
        /\ \A n \in 1 .. 3 : (front \o <<255, 254>>)[n] = front[n]
    BY <2>2, <2>5, ConcatProperties DEF front
  <2>7. /\ wide \in Seq(Bytes) /\ Len(wide) = 8
        /\ \A n \in 1 .. 3 : wide[n] = front[n]
        /\ \A n \in 6 .. 8 : wide[n] = back[n - 5]
    BY <2>3, <2>4, <2>6, ConcatProperties DEF back
  <2>8. \A n \in 1 .. 3 : wide[n] = b[n] /\ wide[n + 5] = b[n + 3]
    BY <2>2, <2>3, <2>7 DEF front, back
  <2>9. Len(eui) = 8 /\ eui[1] = Values!Flip2(wide[1]) /\ \A n \in 2 .. 8 : eui[n] = wide[n]
    BY <1>2, <2>7
  <2> QED
    BY <1>3, <2>1, <2>8, <2>9 DEF Widens
<1>4. CASE hw.type = "eui64"
  <2>1. Len(b) = 8
    BY <1>4, ValuesAssumption
  <2>2. eui = [b EXCEPT ![1] = Values!Flip2(@)]
    BY <1>2, <1>4
  <2> QED
    BY <1>1, <1>4, <2>1, <2>2 DEF Widens
<1> QED
  BY <1>1, <1>3, <1>4

(* The bit that is turned was 0, so that the turn can be undone. *)
LEMMA BitTurned ==
  ASSUME NEW byte \in Bytes, Values!Bit(byte, 1) = 0, Values!Bit(byte, 2) = 0
  PROVE  /\ Values!Flip2(byte) = byte + 2
         /\ Values!Bit(byte + 2, 1) = 0 /\ Values!Bit(byte + 2, 2) = 1
<1>1. Values!Flip2(byte) = byte + 2
  BY DEF Values!Flip2
<1>2. Values!Bit(byte + 2, 1) = 0 /\ Values!Bit(byte + 2, 2) = 1
  BY Z3 DEF Values!Bit, Bytes
<1> QED BY <1>1, <1>2

(* The first byte of an address that is not refused. *)
LEMMA FirstByte ==
  ASSUME NEW hw \in HwAddrs, ~Values!Refused(hw)
  PROVE  /\ hw.bytes[1] \in Bytes
         /\ Values!Bit(hw.bytes[1], 1) = 0 /\ Values!Bit(hw.bytes[1], 2) = 0
<1>1. hw.bytes \in Seq(Bytes) /\ Len(hw.bytes) \in {6, 8}
  BY ValuesAssumption DEF Values!Refused
<1>2. hw.bytes[1] \in Bytes
  BY <1>1
<1>3. Values!Bit(hw.bytes[1], 1) \in {0, 1} /\ Values!Bit(hw.bytes[1], 2) \in {0, 1}
  BY <1>2, Z3 DEF Values!Bit, Bytes
<1> QED
  BY <1>2, <1>3 DEF Values!Refused

(* Addresses of one type with the same EUI-64 are the same. *)
LEMMA EuiInjective ==
  ASSUME NEW hw \in HwAddrs, NEW hv \in HwAddrs,
         ~Values!Refused(hw), ~Values!Refused(hv), hw.type = hv.type,
         Values!Eui(hw) = Values!Eui(hv)
  PROVE  hw = hv
<1> DEFINE a == hw.bytes
           b == hv.bytes
           x == Values!Eui(hw)
<1>1. /\ a \in Seq(Bytes) /\ b \in Seq(Bytes) /\ hw.type \in {"ether", "eui64"}
      /\ hw = [type |-> hw.type, bytes |-> a] /\ hv = [type |-> hv.type, bytes |-> b]
  BY ValuesAssumption DEF Values!Refused
<1>2. Widens(hw.type, a, x) /\ Widens(hw.type, b, x)
  BY EuiBytes
<1>3. /\ a[1] \in Bytes /\ Values!Flip2(a[1]) = a[1] + 2
      /\ b[1] \in Bytes /\ Values!Flip2(b[1]) = b[1] + 2
  BY FirstByte, BitTurned
<1> HIDE DEF a, b, x
<1>4. a[1] = b[1]
  <2>1. a[1] + 2 = b[1] + 2
    BY <1>2, <1>3 DEF Widens
  <2>2. \A p, q \in Bytes : p + 2 = q + 2 => p = q
    BY DEF Bytes
  <2> QED
    BY <1>3, <2>1, <2>2
<1>5. Len(a) = Len(b) /\ Len(a) \in {6, 8} /\ \A n \in 1 .. Len(a) : a[n] = b[n]
  <2>1. CASE hw.type = "ether"
    <3>1. /\ Len(a) = 6 /\ Len(b) = 6 /\ a[2] = b[2] /\ a[3] = b[3]
          /\ a[4] = b[4] /\ a[5] = b[5] /\ a[6] = b[6]
      BY <1>2, <2>1 DEF Widens
    <3>2. \A n \in 1 .. 6 : n \in {1, 2, 3, 4, 5, 6}
      OBVIOUS
    <3> QED
      BY <1>4, <3>1, <3>2
  <2>2. CASE hw.type = "eui64"
    <3>1. Len(a) = 8 /\ Len(b) = 8 /\ \A n \in 2 .. 8 : a[n] = b[n]
      BY <1>2, <2>2 DEF Widens
    <3>2. \A n \in 1 .. 8 : n = 1 \/ n \in 2 .. 8
      OBVIOUS
    <3> QED
      BY <1>4, <3>1, <3>2
  <2> QED
    BY <1>1, <2>1, <2>2
<1>6. a = b
  BY <1>1, <1>5, SeqEqual
<1> QED
  BY <1>1, <1>6

-------------------------------------------------------------------------------
(* The queries for channels and identifiers: what was answered is an outcome
   of the conversion, and what is known is its result. *)
ValuesInv ==
  /\ \/ query = Values!Nothing
     \/ \E f \in Frequencies :
          /\ query = [kind |-> "channel", m |-> f.m, e |-> f.e]
          /\ answer \in Values!freq_to_chan(f.m, f.e)
  /\ \A k \in known : \E hw \in HwAddrs :
       ~Values!Refused(hw) /\ k = [hw |-> hw, eui |-> Values!Eui(hw)]

(* Answers are outcomes of the conversions, whatever is asked in which order. *)
THEOREM ValuesInvariance == Values!Spec => []ValuesInv
<1>1. Values!Init => ValuesInv
  BY DEF Values!Init, ValuesInv
<1>2. ValuesInv /\ [Values!Next]_(Values!vars) => ValuesInv'
  <2> SUFFICES ASSUME ValuesInv, [Values!Next]_(Values!vars) PROVE ValuesInv'
    OBVIOUS
  <2>1. ASSUME NEW f \in Frequencies, Values!AskChannel(f)
        PROVE  ValuesInv'
    BY <2>1 DEF Values!AskChannel, ValuesInv
  <2>2. CASE Values!IoctlFails
    BY <2>2 DEF Values!IoctlFails, ValuesInv
  <2>3. ASSUME NEW hw \in HwAddrs, Values!AskEui(hw)
        PROVE  ValuesInv'
    BY <2>3 DEF Values!AskEui, ValuesInv
  <2>4. CASE UNCHANGED Values!vars
    BY <2>4 DEF Values!vars, ValuesInv
  <2> QED
    BY <2>1, <2>2, <2>3, <2>4 DEF Values!Next
<1> QED
  BY <1>1, <1>2, PTL DEF Values!Spec

(* For any frequencies: one that is less than 2 MHz off that of one of the
   channels 1 to 14 and 36 to 165 is this channel's, in every unit, and none
   has a number outside the bands.  It says nothing of channels 34 and 35. *)
THEOREM ChannelsAreRight == Values!Spec => []ChannelOfFrequency
<1>1. ValuesInv => ChannelOfFrequency
  <2> SUFFICES ASSUME ValuesInv, query.kind = "channel"
               PROVE  /\ \A ch \in 1 .. 14 \cup 36 .. 165 :
                           Values!Near(ch) => answer = ch
                      /\ query.e > 0 => answer \in {-1} \cup Values!Numbers
    BY DEF ChannelOfFrequency, Values!ChannelOfFrequency, Values!Near
  <2>1. PICK f \in Frequencies :
          /\ query = [kind |-> "channel", m |-> f.m, e |-> f.e]
          /\ answer \in Values!freq_to_chan(f.m, f.e)
    BY DEF ValuesInv, Values!Nothing
  <2>2. /\ f.m \in Int /\ f.e \in Int /\ query.m = f.m /\ query.e = f.e
    BY <2>1, ValuesAssumption
  <2>3. ASSUME NEW ch \in 1 .. 14 \cup 36 .. 165, Values!Near(ch)
        PROVE  answer = ch
    <3>1. /\ f.e \in 1 .. 6
          /\ -2 * Values!Mega(f.e) < f.m - Values!Centre(ch) * Values!Mega(f.e)
          /\ f.m - Values!Centre(ch) * Values!Mega(f.e) < 2 * Values!Mega(f.e)
      BY <2>2, <2>3 DEF Values!Near
    <3>2. Values!freq_to_chan(f.m, f.e) = {ch}
      BY <2>2, <3>1, ChannelFound
    <3> QED
      BY <2>1, <3>2
  <2>4. ASSUME f.e > 0
        PROVE  answer \in {-1} \cup Values!Numbers
    BY <2>1, <2>2, <2>4 DEF Values!freq_to_chan, Values!Numbers
  <2> QED
    BY <2>2, <2>3, <2>4
<1> QED
  BY <1>1, ValuesInvariance, PTL

(* For any hardware addresses: those that get an EUI-64 get different ones, if
   they are of one type, and the EUI-64s have the form of identifiers. *)
THEOREM EuisAreIdentities == Values!Spec => []EuiIsIdentity
<1>1. ValuesInv => EuiIsIdentity
  <2> SUFFICES ASSUME ValuesInv, NEW k \in known
               PROVE  /\ Len(k.eui) = 8
                      /\ Values!Bit(k.eui[1], 1) = 0 /\ Values!Bit(k.eui[1], 2) = 1
                      /\ \A l \in known :
                           k.hw.type = l.hw.type /\ k.eui = l.eui => k.hw = l.hw
    BY DEF EuiIsIdentity, Values!EuiIsIdentity
  <2>1. PICK hw \in HwAddrs :
          ~Values!Refused(hw) /\ k = [hw |-> hw, eui |-> Values!Eui(hw)]
    BY DEF ValuesInv
  <2>2. /\ Len(k.eui) = 8
        /\ Values!Bit(k.eui[1], 1) = 0 /\ Values!Bit(k.eui[1], 2) = 1
    <3>1. Widens(hw.type, hw.bytes, Values!Eui(hw)) /\ k.eui = Values!Eui(hw)
      BY <2>1, EuiBytes
    <3>2. Len(k.eui) = 8 /\ k.eui[1] = Values!Flip2(hw.bytes[1])
      BY <3>1 DEF Widens
    <3> QED
      BY <2>1, <3>2, FirstByte, BitTurned
  <2>3. ASSUME NEW l \in known, k.hw.type = l.hw.type, k.eui = l.eui
        PROVE  k.hw = l.hw
    <3>1. PICK hv \in HwAddrs :
            ~Values!Refused(hv) /\ l = [hw |-> hv, eui |-> Values!Eui(hv)]
      BY DEF ValuesInv
    <3> QED
      BY <2>1, <2>3, <3>1, EuiInjective
  <2> QED
    BY <2>2, <2>3
<1> QED
  BY <1>1, ValuesInvariance, PTL

-------------------------------------------------------------------------------
(* Options of rtod. *)

(* The last option for a field, if there is one, gave it its value. *)
GivenBy(f, n) == o[f] = IF f = "buffer" THEN TRUE ELSE words[n].arg
TakenFrom(f) ==
  \/ Rtod!For(f) = {} /\ o[f] = Initial[f]
  \/ \E n \in Rtod!For(f) : (\A m \in Rtod!For(f) : m <= n) /\ GivenBy(f, n)

Word == [opt : Rtod!Options, arg : Args \cup {TooBig, None}]
RtodInv ==
  /\ words \in Seq(Word)
  /\ DOMAIN o = DOMAIN Initial
  /\ status \in {"options", "done"} =>
       o.finterval \in Int \cup {TooBig} /\ \A f \in DOMAIN Initial : TakenFrom(f)
  /\ status = "done" => o.finterval \in Int /\ interval \in Rtod!Split(o.finterval)

(* Does the word w assign to the field f? *)
IsFor(w, f) == Rtod!Letter(w) \in DOMAIN Rtod!Field /\ Rtod!Field[Rtod!Letter(w)] = f

(* One more word is the last one for its field, and leaves those for the
   others as they were. *)
LEMMA WordAppended ==
  ASSUME words \in Seq(Word), NEW w \in Word, words' = Append(words, w)
  PROVE  /\ words' \in Seq(Word)
         /\ \A f : IsFor(w, f) =>
              /\ Rtod!For(f)' = Rtod!For(f) \cup {Len(words) + 1}
              /\ \A m \in Rtod!For(f)' : m <= Len(words) + 1
              /\ words'[Len(words) + 1] = w
         /\ \A f : ~IsFor(w, f) => Rtod!For(f)' = Rtod!For(f)
         /\ \A f : \A n \in Rtod!For(f) : words'[n] = words[n]
<1>1. /\ words' \in Seq(Word) /\ Len(words') = Len(words) + 1 /\ Len(words) \in Nat
      /\ words'[Len(words) + 1] = w
      /\ \A n \in 1 .. Len(words) : words'[n] = words[n]
  BY AppendProperties
<1>2. DOMAIN words = 1 .. Len(words) /\ DOMAIN words' = 1 .. Len(words) + 1
  BY <1>1
<1>3. \A f : Rtod!For(f) = {n \in 1 .. Len(words) : IsFor(words[n], f)}
  BY <1>2 DEF Rtod!For, IsFor
<1>4. \A f : Rtod!For(f)' = {n \in 1 .. Len(words) + 1 : IsFor(words'[n], f)}
  BY <1>2 DEF Rtod!For, IsFor
<1>5. \A n \in 1 .. Len(words) + 1 : n \in 1 .. Len(words) \/ n = Len(words) + 1
  BY <1>1
<1>6. \A f : Rtod!For(f)' = {n \in 1 .. Len(words) : IsFor(words[n], f)}
                              \cup {n \in {Len(words) + 1} : IsFor(w, f)}
  BY <1>1, <1>4, <1>5
<1>7. \A f : IsFor(w, f) => /\ Rtod!For(f)' = Rtod!For(f) \cup {Len(words) + 1}
                            /\ \A m \in Rtod!For(f)' : m <= Len(words) + 1
  <2> SUFFICES ASSUME NEW f, IsFor(w, f)
               PROVE  /\ Rtod!For(f)' = Rtod!For(f) \cup {Len(words) + 1}
                      /\ \A m \in Rtod!For(f)' : m <= Len(words) + 1
    OBVIOUS
  <2>1. Rtod!For(f)' = Rtod!For(f) \cup {Len(words) + 1}
    BY <1>3, <1>6
  <2>2. \A m \in Rtod!For(f)' : m \in 1 .. Len(words) + 1
    BY <1>4
  <2> QED
    BY <1>1, <2>1, <2>2
<1>8. \A f : ~IsFor(w, f) => Rtod!For(f)' = Rtod!For(f)
  BY <1>3, <1>6
<1>9. \A f : \A n \in Rtod!For(f) : words'[n] = words[n]
  BY <1>1, <1>3
<1> QED
  BY <1>1, <1>7, <1>8, <1>9

(* While the words and the options stay, so does what was taken. *)
LEMMA TakenStays ==
  ASSUME UNCHANGED <<words, o>>
  PROVE  \A f : TakenFrom(f)' <=> TakenFrom(f)
<1>1. \A f : Rtod!For(f)' = Rtod!For(f)
  BY DEF Rtod!For
<1>2. ASSUME NEW f PROVE TakenFrom(f)' <=> TakenFrom(f)
  <2>1. \A n : GivenBy(f, n)' <=> GivenBy(f, n)
    BY DEF GivenBy
  <2> QED
    BY <1>1, <2>1 DEF TakenFrom
<1> QED
  BY <1>2

(* An option gives its field its value and leaves the others. *)
LEMMA AssignKeeps ==
  ASSUME RtodInv, NEW w \in Word, Rtod!Assign(w)
  PROVE  RtodInv'
<1> DEFINE g == Rtod!Field[Rtod!Letter(w)]
<1>1. /\ status = "options" /\ words' = Append(words, w)
      /\ Rtod!Letter(w) \in DOMAIN Rtod!Field /\ UNCHANGED interval
  BY DEF Rtod!Assign, Rtod!Take
<1>2. /\ words \in Seq(Word) /\ DOMAIN o = DOMAIN Initial
      /\ o.finterval \in Int \cup {TooBig} /\ \A f \in DOMAIN Initial : TakenFrom(f)
  BY <1>1 DEF RtodInv
<1>3. words' \in Seq(Word)
  BY <1>1, <1>2, WordAppended
<1>4. g \in DOMAIN Initial /\ \A f : IsFor(w, f) <=> f = g
  BY <1>1, RtodAssumption DEF IsFor
<1>5. CASE status' = "undefined" /\ UNCHANGED o
  BY <1>2, <1>3, <1>5 DEF RtodInv
<1>6. CASE /\ ~(g # "buffer" /\ Rtod!Optarg(w) = None) /\ status' = status
           /\ o' = [o EXCEPT ![g] = IF g = "buffer" THEN TRUE ELSE Rtod!Optarg(w)]
  <2>1. g # "buffer" => Rtod!Optarg(w) = w.arg /\ w.arg \in Args \cup {TooBig}
    BY <1>6 DEF Rtod!Optarg, Word
  <2> HIDE DEF g
  <2>2. /\ DOMAIN o' = DOMAIN Initial
        /\ o'[g] = IF g = "buffer" THEN TRUE ELSE w.arg
        /\ \A f \in DOMAIN Initial \ {g} : o'[f] = o[f]
    BY <1>2, <1>4, <1>6, <2>1
  <2>3. o'.finterval \in Int \cup {TooBig}
    <3>1. "finterval" \in DOMAIN Initial
      BY RtodAssumption DEF Rtod!Field
    <3>2. CASE g = "finterval"
      BY <2>1, <2>2, <3>2, RtodAssumption
    <3>3. CASE g # "finterval"
      BY <1>2, <2>2, <3>1, <3>3
    <3> QED BY <3>2, <3>3
  <2>4. ASSUME NEW f \in DOMAIN Initial, f = g
        PROVE  TakenFrom(f)'
    <3>1. PICK n : n = Len(words) + 1
      OBVIOUS
    <3>2. /\ Rtod!For(f)' = Rtod!For(f) \cup {n}
          /\ \A m \in Rtod!For(f)' : m <= n
          /\ words'[n] = w
      BY <1>1, <1>2, <1>4, <2>4, <3>1, WordAppended
    <3>3. GivenBy(f, n)'
      BY <2>2, <2>4, <3>2 DEF GivenBy
    <3>4. n \in Rtod!For(f)'
      BY <3>2
    <3> QED
      BY <3>2, <3>3, <3>4 DEF TakenFrom
  <2>5. ASSUME NEW f \in DOMAIN Initial \ {g}
        PROVE  TakenFrom(f)'
    <3>1. Rtod!For(f)' = Rtod!For(f) /\ \A n \in Rtod!For(f) : words'[n] = words[n]
      BY <1>1, <1>2, <1>4, <2>5, WordAppended
    <3>2. TakenFrom(f) /\ o'[f] = o[f]
      BY <1>2, <2>2
    <3> QED
      BY <3>1, <3>2 DEF TakenFrom, GivenBy
  <2> QED
    BY <1>1, <1>3, <1>6, <2>2, <2>3, <2>4, <2>5 DEF RtodInv
<1> QED
  BY <1>5, <1>6 DEF Rtod!Assign

(* The fields have been taken from the last options for them, as long as the
   command line is accepted. *)
THEOREM RtodInvariance == Rtod!Spec => []RtodInv
<1>1. Rtod!Init => RtodInv
  <2> SUFFICES ASSUME Rtod!Init PROVE RtodInv
    OBVIOUS
  <2>1. words = <<>> /\ o = Initial /\ status = "options"
    BY DEF Rtod!Init
  <2>2. DOMAIN words = {}
    BY <2>1
  <2>3. \A f : Rtod!For(f) = {}
    BY <2>2 DEF Rtod!For
  <2> QED
    BY <2>1, <2>3, RtodAssumption DEF RtodInv, TakenFrom
<1>2. RtodInv /\ [Rtod!Next]_(Rtod!vars) => RtodInv'
  <2> SUFFICES ASSUME RtodInv, [Rtod!Next]_(Rtod!vars) PROVE RtodInv'
    OBVIOUS
  <2>1. ASSUME NEW w \in Word, Rtod!Usage(w) \/ Rtod!PastTheTable(w)
        PROVE  RtodInv'
    <3>1. /\ words' = Append(words, w) /\ UNCHANGED o
          /\ status' \in {"usage", "undefined"}
      BY <2>1 DEF Rtod!Usage, Rtod!PastTheTable, Rtod!Take
    <3>2. words' \in Seq(Word)
      BY <3>1, WordAppended DEF RtodInv
    <3> QED
      BY <3>1, <3>2 DEF RtodInv
  <2>2. CASE Rtod!Finish
    <3>1. UNCHANGED <<words, o>> /\ \A f : TakenFrom(f)' <=> TakenFrom(f)
      BY <2>2, TakenStays DEF Rtod!Finish
    <3>2. CASE status' = "undefined"
      BY <3>1, <3>2 DEF RtodInv
    <3>3. CASE /\ o.finterval # TooBig /\ status' = "done"
               /\ interval' \in Rtod!Split(o.finterval)
      <4>1. o.finterval \in Int /\ \A f \in DOMAIN Initial : TakenFrom(f)
        BY <2>2, <3>3 DEF Rtod!Finish, RtodInv
      <4>2. interval' \in Rtod!Split(o'.finterval)
        BY <3>1, <3>3
      <4> QED
        BY <3>1, <3>3, <4>1, <4>2 DEF RtodInv
    <3> QED
      BY <2>2, <3>2, <3>3 DEF Rtod!Finish
  <2>3. CASE UNCHANGED Rtod!vars
    BY <2>3, TakenStays DEF Rtod!vars, RtodInv
  <2>4. ASSUME NEW opt \in Rtod!Options, NEW arg \in Args \cup {TooBig, None},
               NEW w, w = [opt |-> opt, arg |-> arg]
        PROVE  w \in Word
    BY <2>4 DEF Word
  <2> QED
    BY <2>1, <2>2, <2>3, <2>4, AssignKeeps DEF Rtod!Next
<1> QED
  BY <1>1, <1>2, PTL DEF Rtod!Spec

(* A quotient is rounded down, also below zero. *)
LEMMA Quotient ==
  ASSUME NEW x \in Int, NEW b \in Nat \ {0}
  PROVE  x \div b \in Int /\ x - (x \div b) * b \in 0 .. b - 1
<1>1. x \div b \in Int /\ (x % b) \in 0 .. b - 1 /\ x = (x \div b) * b + (x % b)
  BY Z3
<1>2. PICK q \in Int : q = x \div b
  BY <1>1
<1>3. PICK product \in Int : product = q * b
  BY <1>2, Z3
<1> QED
  BY <1>1, <1>2, <1>3

(* Whole units of a number that is less than so many of them are fewer. *)
LEMMA FewerUnits ==
  ASSUME NEW n \in Int, NEW odd \in Int, NEW many \in Nat \ {0}, NEW unit \in Nat \ {0},
         0 <= odd, odd < unit, 0 <= n * unit + odd, n * unit + odd < many * unit
  PROVE  0 <= n /\ n < many
<1>1. CASE n + 1 <= 0
  <2>1. (n + 1) * unit <= 0
    BY <1>1, Z3
  <2>2. (n + 1) * unit = n * unit + unit /\ n * unit \in Int
    BY Z3
  <2> QED
    BY <2>1, <2>2, Z3
<1>2. CASE n >= many
  <2>1. n * unit >= many * unit /\ n * unit \in Int /\ many * unit \in Int
    BY <1>2, Z3
  <2> QED
    BY <2>1, Z3
<1> QED
  BY <1>1, <1>2, Z3

(* An interval is whole seconds, whole nanoseconds and a rest. *)
LEMMA Parts ==
  ASSUME NEW f \in Int
  PROVE  LET sec == f \div Rtod!Second
             n == (f - sec * Rtod!Second) \div Sub
             odd == f - sec * Rtod!Second - n * Sub
         IN  /\ sec \in Int /\ n \in 0 .. NsecPerSec - 1 /\ odd \in 0 .. Sub - 1
             /\ f = (sec * NsecPerSec + n) * Sub + odd
<1>1. NsecPerSec \in Nat \ {0} /\ Sub \in Nat \ {0}
  BY RtodAssumption
<1>2. PICK s \in Nat \ {0} : s = Rtod!Second /\ s = NsecPerSec * Sub
  BY <1>1, Z3 DEF Rtod!Second
<1>3. PICK sec \in Int : sec = f \div s /\ f - sec * s \in 0 .. s - 1
  BY Quotient
<1>4. PICK rest \in Int : rest = f - sec * s
  BY <1>3
<1>5. PICK n \in Int : n = rest \div Sub /\ rest - n * Sub \in 0 .. Sub - 1
  BY <1>1, Quotient
<1>6. PICK odd \in Int : odd = rest - n * Sub
  BY <1>5
<1>7. odd \in 0 .. Sub - 1
  BY <1>5, <1>6
<1>8. rest \in 0 .. s - 1
  BY <1>3, <1>4
<1>9. n * Sub + odd = rest
  <2>1. n * Sub \in Int
    BY <1>1, Z3
  <2> QED
    BY <1>6, <2>1
<1>10. n \in 0 .. NsecPerSec - 1
  <2>1. 0 <= n * Sub + odd /\ n * Sub + odd < NsecPerSec * Sub
    BY <1>2, <1>8, <1>9
  <2>2. 0 <= odd /\ odd < Sub
    BY <1>1, <1>7
  <2>3. 0 <= n /\ n < NsecPerSec
    BY <1>1, <2>1, <2>2, FewerUnits
  <2> QED
    BY <1>1, <2>3
<1>11. f = (sec * NsecPerSec + n) * Sub + odd
  <2>1. sec * s \in Int /\ f = sec * s + rest
    <3>1. sec * s \in Int
      BY Z3
    <3> QED
      BY <1>4, <3>1
  <2>2. (sec * NsecPerSec + n) * Sub = sec * (NsecPerSec * Sub) + n * Sub
    BY <1>1, Z3
  <2>3. n * Sub \in Int
    BY <1>1, Z3
  <2> QED
    BY <1>2, <1>9, <2>1, <2>2, <2>3
<1> QED
  BY <1>2, <1>3, <1>4, <1>5, <1>6, <1>7, <1>10, <1>11

(* Seconds and nanoseconds make the interval again, but for one nanosecond,
   also below zero; and a timespec, unless the interval is just below zero. *)
LEMMA SplitIsValid ==
  ASSUME NEW f \in Int, NEW t \in Rtod!Split(f)
  PROVE  LET off == f - (t.tv_sec * NsecPerSec + t.tv_nsec) * Sub
         IN  /\ -Sub <= off /\ off <= Sub
             /\ 0 <= t.tv_nsec /\ t.tv_nsec <= NsecPerSec
             /\ t.tv_nsec = NsecPerSec => -Sub < f /\ f < 0
<1>1. NsecPerSec \in Nat \ {0} /\ Sub \in Nat /\ Sub > 1
  BY RtodAssumption
<1>2. PICK sec : sec = f \div Rtod!Second
  OBVIOUS
<1>3. PICK n : n = (f - sec * Rtod!Second) \div Sub
  OBVIOUS
<1>4. PICK odd : odd = f - sec * Rtod!Second - n * Sub
  OBVIOUS
<1>5. /\ sec \in Int /\ n \in 0 .. NsecPerSec - 1 /\ odd \in 0 .. Sub - 1
      /\ f = (sec * NsecPerSec + n) * Sub + odd
  BY <1>2, <1>3, <1>4, Parts
<1>6. \/ t = Rtod!Time(sec, n)
      \/ odd = 0 /\ n > 0 /\ t = Rtod!Time(sec, n - 1)
      \/ odd = Sub - 1 /\ n # NsecPerSec - 1 /\ t = Rtod!Time(sec, n + 1)
      \/ odd = Sub - 1 /\ n = NsecPerSec - 1 /\ t = Rtod!Time(sec + 1, 0)
      \/ /\ odd = Sub - 1 /\ n = NsecPerSec - 1 /\ sec = -1
         /\ t = Rtod!Time(sec, NsecPerSec)
  BY <1>2, <1>3, <1>4 DEF Rtod!Split
<1>7. PICK whole \in Int : whole = sec * NsecPerSec
  BY <1>1, <1>5, Z3
<1>8. PICK units \in Int : units = (whole + n) * Sub /\ f = units + odd
  BY <1>1, <1>5, <1>7, Z3
<1>9. \A a, b \in Int : Rtod!Time(a, b).tv_sec = a /\ Rtod!Time(a, b).tv_nsec = b
  BY DEF Rtod!Time
<1>10. CASE t = Rtod!Time(sec, n)
  <2>1. f - (t.tv_sec * NsecPerSec + t.tv_nsec) * Sub = odd
    BY <1>5, <1>7, <1>8, <1>9, <1>10
  <2> QED
    BY <1>1, <1>5, <1>9, <1>10, <2>1
<1>11. CASE odd = 0 /\ n > 0 /\ t = Rtod!Time(sec, n - 1)
  <2>1. (whole + (n - 1)) * Sub = units - Sub
    BY <1>1, <1>5, <1>8, Z3
  <2>2. f - (t.tv_sec * NsecPerSec + t.tv_nsec) * Sub = Sub
    BY <1>1, <1>5, <1>7, <1>8, <1>9, <1>11, <2>1
  <2> QED
    BY <1>1, <1>5, <1>9, <1>11, <2>2
<1>12. CASE odd = Sub - 1 /\ n # NsecPerSec - 1 /\ t = Rtod!Time(sec, n + 1)
  <2>1. (whole + (n + 1)) * Sub = units + Sub
    BY <1>1, <1>5, <1>8, Z3
  <2>2. f - (t.tv_sec * NsecPerSec + t.tv_nsec) * Sub = -1
    BY <1>1, <1>5, <1>7, <1>8, <1>9, <1>12, <2>1
  <2> QED
    BY <1>1, <1>5, <1>9, <1>12, <2>2
<1>13. CASE odd = Sub - 1 /\ n = NsecPerSec - 1 /\ t = Rtod!Time(sec + 1, 0)
  <2>1. (sec + 1) * NsecPerSec = whole + n + 1
    BY <1>1, <1>5, <1>7, <1>13, Z3
  <2>2. (whole + n + 1) * Sub = units + Sub
    BY <1>1, <1>5, <1>8, Z3
  <2>3. f - (t.tv_sec * NsecPerSec + t.tv_nsec) * Sub = -1
    BY <1>1, <1>5, <1>8, <1>9, <1>13, <2>1, <2>2
  <2> QED
    BY <1>1, <1>9, <1>5, <1>13, <2>3
<1>14. CASE /\ odd = Sub - 1 /\ n = NsecPerSec - 1 /\ sec = -1
            /\ t = Rtod!Time(sec, NsecPerSec)
  <2>1. whole = -NsecPerSec /\ whole + NsecPerSec = 0
    BY <1>1, <1>7, <1>14, Z3
  <2>2. units = -Sub
    BY <1>1, <1>8, <1>14, <2>1, Z3
  <2>3. f = -1
    BY <1>1, <1>8, <1>14, <2>2
  <2>4. (t.tv_sec * NsecPerSec + t.tv_nsec) * Sub = 0
    BY <1>1, <1>5, <1>7, <1>9, <1>14, <2>1
  <2> QED
    BY <1>1, <1>5, <1>9, <1>14, <2>3, <2>4
<1> QED
  BY <1>6, <1>10, <1>11, <1>12, <1>13, <1>14

(* For any arguments and any number of options: a command line that is accepted
   leaves in every field the value of the last option for it, unless --invalid
   is among them, and the interval is within a nanosecond of its value and a
   valid timespec, unless that is less than a nanosecond below zero. *)
THEOREM OptionsAreTaken == Rtod!Spec => []OptionsTakeEffect
<1>1. RtodInv => OptionsTakeEffect
  <2> SUFFICES ASSUME RtodInv, status = "done" PROVE OptionsTakeEffect
    BY DEF OptionsTakeEffect, Rtod!OptionsTakeEffect
  <2>1. ASSUME NEW f \in DOMAIN Initial
        PROVE  o[f] = Rtod!Wanted(f)
    <3>1. CASE Rtod!For(f) = {}
      BY <3>1 DEF RtodInv, TakenFrom, Rtod!Wanted
    <3>2. CASE Rtod!For(f) # {}
      <4>1. PICK n \in Rtod!For(f) : (\A m \in Rtod!For(f) : m <= n) /\ GivenBy(f, n)
        BY <3>2 DEF RtodInv, TakenFrom
      <4>2. Rtod!For(f) \subseteq Nat
        BY DEF Rtod!For, RtodInv
      <4>3. Rtod!Last(f) = n
        BY <4>1, <4>2 DEF Rtod!Last
      <4> QED
        BY <3>2, <4>1, <4>3 DEF GivenBy, Rtod!Wanted
    <3> QED BY <3>1, <3>2
  <2>2. "finterval" \in DOMAIN Initial
    BY RtodAssumption DEF Rtod!Field
  <2>3. o.finterval \in Int /\ interval \in Rtod!Split(o.finterval)
    BY DEF RtodInv
  <2>4. o.finterval = Rtod!Wanted("finterval")
    BY <2>1, <2>2
  <2> QED
    BY <2>1, <2>3, <2>4, SplitIsValid
       DEF OptionsTakeEffect, Rtod!OptionsTakeEffect, RtodInv
<1> QED
  BY <1>1, RtodInvariance, PTL

-------------------------------------------------------------------------------
(* The parts together. *)

(* A behaviour of the composition is one of every part, which it may leave
   alone. *)
THEOREM PartsApart ==
  SpecParts => Spec /\ Messages!Spec /\ Queries!Spec /\ Values!Spec /\ Rtod!Spec
<1>1. InitParts => Init /\ Messages!Init /\ Queries!Init /\ Values!Init /\ Rtod!Init
  BY DEF InitParts
<1>2. [NextParts]_partsVars => [Next]_vars
  BY DEF NextParts, partsVars, vars
<1>3. [NextParts]_partsVars => [Messages!Next]_(Messages!vars)
  BY DEF NextParts, partsVars, messagesVars, Messages!vars
<1>4. [NextParts]_partsVars => [Queries!Next]_(Queries!vars)
  BY DEF NextParts, partsVars, queriesVars, Queries!vars
<1>5. [NextParts]_partsVars => [Values!Next]_(Values!vars)
  BY DEF NextParts, partsVars, valuesVars, Values!vars
<1>6. [NextParts]_partsVars => [Rtod!Next]_(Rtod!vars)
  BY DEF NextParts, partsVars, rtodVars, Rtod!vars
<1> QED
  BY <1>1, <1>2, <1>3, <1>4, <1>5, <1>6, PTL
     DEF SpecParts, Spec, Messages!Spec, Queries!Spec, Values!Spec, Rtod!Spec

(* What is true of the parts is true where they stand side by side: each
   property as it is stated, with what it excepts. *)
THEOREM EveryPart ==
  SpecParts =>
    [](/\ CompareIsOrder /\ MinusIsDistance
       /\ RightRoutes /\ RouteAsIs /\ LocalAddress /\ RuleRoundTrip
       /\ SteadyAnswer /\ ChannelOfFrequency /\ EuiIsIdentity /\ OptionsTakeEffect)
BY PartsApart, CompareCorrect, MinusCorrect, RoutesAreRight, RoutesAreAsTheyAre,
   AddressesAreLocal, RulesComeBack, AnswersAreSteady, ChannelsAreRight,
   EuisAreIdentities, OptionsAreTaken, PTL
===============================================================================
