---------------------------- MODULE RuleSwapProofs ----------------------------
(***************************************************************************)
(* Theorems about RuleSwap, for any sources, priorities and tables, any    *)
(* arguments and any number of requests, failures and changes by others.   *)
(***************************************************************************)
EXTENDS RuleSwap, FiniteSetTheorems, TLAPS

-------------------------------------------------------------------------------
(* The inductive invariant. *)

Request ==
  [type : {"none"}] \cup [type : {"NEW"}, rule : Rule]
    \cup [type : {"DEL"}, prio : Prios, family : {"inet", "inet6"}]

(* What is outstanding: nothing; nothing but the last request. *)
Quiet == \A i \in Ids : ~Open(i)
OnlyLast == \A i \in Ids : Open(i) => i = calls

IsNew(i) == request[i] = [type |-> "NEW", rule |-> NewRule(arg)]
IsDel(i) ==
  request[i] = [type |-> "DEL", prio |-> arg.old, family |-> Family(arg.src)]

Shape ==
  /\ TypeOK /\ IsFiniteSet(rules) /\ request \in [Ids -> Request]
  /\ \A i \in Ids : i > calls => fate[i] = "open"
  /\ busy => pc # "idle" /\ calls \in Ids

(* An addition that was carried out was the last thing outstanding, because
   the kernel decides in order. *)
Adding == op = "change" /\ pc = "add_rule" /\ busy =>
  /\ IsNew(calls)
  /\ fate[calls] = "done" => Quiet /\ (kept => NewRule(arg) \in rules)

(* The flush is sent only after that. *)
Flushing == op = "change" /\ pc = "flush_rule" =>
  /\ OnlyLast
  /\ busy => IsDel(calls)
  /\ ~busy => Quiet
  /\ kept /\ arg.new # arg.old => NewRule(arg) \in rules

(* A swap that found nothing outstanding has only its own requests to fear. *)
Settled == op = "change" /\ (safe \/ alone) =>
  /\ OnlyLast
  /\ pc = "add_rule" /\ ~busy => Quiet
  /\ \A i \in Ids : Open(i) => IsNew(i) \/ IsDel(i)

(* The new rule and another one of the source: a flush can take only one. *)
TwoRules ==
  /\ NewRule(arg) \in rules
  /\ \E r \in rules : r # NewRule(arg) /\ r.src = arg.src
Safe == op = "change" /\ safe /\ kept =>
  /\ Covered(arg.src)
  /\ \A i \in Ids : Open(i) /\ IsDel(i) => TwoRules
  /\ pc = "add_rule" /\ busy /\ fate[calls] = "done" => TwoRules
  /\ pc = "flush_rule" /\ ~busy => TwoRules

OldRules == Named(arg.old, Family(arg.src))
Alone == op = "change" /\ alone /\ arg.new # arg.old =>
  /\ \A q, r \in OldRules : q = r
  /\ pc = "flush_rule" /\ busy /\ fate[calls] = "done" => OldRules = {}

Finished == pc = "idle" /\ op = "change" /\ rc = 0 =>
  /\ Quiet
  /\ arg.new # arg.old =>
       (kept => NewRule(arg) \in rules) /\ (alone => OldRules = {})

IInv == /\ Shape /\ Adding /\ Flushing
        /\ Settled /\ Safe /\ Alone /\ Finished

-------------------------------------------------------------------------------
(* Sets and types. *)

(* A finite set with one element at most. *)
LEMMA OneAtMost ==
  ASSUME NEW S, IsFiniteSet(S), Cardinality(S) <= 1, NEW q \in S, NEW r \in S
  PROVE  q = r
<1>1. /\ IsFiniteSet(S \ {q}) /\ Cardinality(S \ {q}) = Cardinality(S) - 1
      /\ Cardinality(S) \in Nat /\ Cardinality(S \ {q}) \in Nat
  BY FS_RemoveElement, FS_CardinalityType
<1>2. S \ {q} = {}
  BY <1>1, FS_EmptySet
<1> QED BY <1>2

(* A request of the caller is a request. *)
LEMMA RequestTypes ==
  ASSUME TypeOK
  PROVE  /\ NewRule(arg) \in Rule
         /\ [type |-> "NEW", rule |-> NewRule(arg)] \in Request
         /\ [type |-> "DEL", prio |-> arg.old, family |-> Family(arg.src)] \in Request
<1>1. arg \in [new : Prios, old : Prios, src : Srcs, table : Tables]
  BY ConstantsAssumption DEF TypeOK
<1>2. ByteMod \in Nat \ {0} /\ arg.table \in Nat /\ arg.table % ByteMod > 0
  BY <1>1, ConstantsAssumption
<1>3. (arg.table % ByteMod) \in 1 .. ByteMod - 1
  BY <1>2
<1> QED
  BY <1>1, <1>3 DEF NewRule, Rule, Request, Family

(* What the caller is about to do, and what is outstanding, are not touched. *)
LEMMA SameRequests ==
  ASSUME UNCHANGED <<op, arg, safe, alone, kept, request, handed, rules, fate>>
  PROVE  /\ Quiet' = Quiet /\ TwoRules' = TwoRules /\ OldRules' = OldRules
         /\ \A i : Open(i)' = Open(i) /\ IsNew(i)' = IsNew(i) /\ IsDel(i)' = IsDel(i)
         /\ Covered(arg.src)' = Covered(arg.src) /\ NewRule(arg)' = NewRule(arg)
  BY DEF Quiet, TwoRules, OldRules, Open, IsNew, IsDel, Covered, NewRule, Named,
         Family

-------------------------------------------------------------------------------
(* The daemon's steps. *)

(* add_rule, flush_rule or change_rule is entered. *)
LEMMA CallStep ==
  ASSUME IInv, NEW o \in Operations, NEW a \in Arguments, Call(o, a)
  PROVE  IInv'
<1>1. /\ ~busy /\ busy' = busy /\ pc' \in {"add_rule", "flush_rule"} /\ op' = o /\ arg' = a
      /\ o = "change" => pc' = "add_rule"
      /\ UNCHANGED <<rc, request, handed, rules, faults, calls, fate>>
      /\ result' = "none" /\ kept' = TRUE
  BY DEF Call, KC!Begin, FirstStep, IInv, Shape, TypeOK, KC!TypeOK
<1>2. /\ safe' = (Quiet /\ Covered(a.src))
      /\ alone' = (Quiet /\ Cardinality(Named(a.old, Family(a.src))) <= 1)
  BY DEF Call, Quiet
<1>3. Quiet' = Quiet
  BY <1>1 DEF Quiet, Open
<1>4. Shape'
  <2>1. safe' \in BOOLEAN /\ alone' \in BOOLEAN /\ kept' \in BOOLEAN
    BY <1>1, <1>2, Zenon
  <2>2. TypeOK'
    BY <1>1, <2>1 DEF IInv, Shape, TypeOK, KC!TypeOK
  <2> QED BY <1>1, <2>2 DEF IInv, Shape
<1>5. Adding' /\ Flushing' /\ Finished'
  BY <1>1 DEF Adding, Flushing, Finished
<1>6. Settled'
  BY <1>1, <1>2, <1>3 DEF Settled, Quiet, OnlyLast
<1>7. Safe'
  BY <1>1, <1>2, <1>3 DEF Safe, Quiet, Covered
<1>8. Alone'
  <2> SUFFICES ASSUME alone' PROVE \A q, r \in OldRules' : q = r
    BY <1>1 DEF Alone
  <2>1. OldRules' = Named(a.old, Family(a.src))
    BY <1>1 DEF OldRules, Named, Family
  <2>2. IsFiniteSet(Named(a.old, Family(a.src)))
    BY FS_Subset DEF Named, IInv, Shape
  <2> QED
    BY <1>2, <2>1, <2>2, OneAtMost
<1> QED
  BY <1>4, <1>5, <1>6, <1>7, <1>8 DEF IInv

(* add_rule refuses an address it cannot make a rule of, and sends nothing. *)
LEMMA AddInvalidStep ==
  ASSUME IInv, AddInvalid
  PROVE  IInv'
<1>1. /\ ~busy /\ busy' = busy /\ pc' = "idle" /\ rc' = -1 /\ result' = "failed"
      /\ UNCHANGED <<op, arg, safe, alone, kept, request, handed, rules, faults, calls, fate>>
  BY DEF AddInvalid, Return, KC!GiveUp
<1>2. Shape'
  BY <1>1 DEF IInv, Shape, TypeOK, KC!TypeOK
<1>3. Adding' /\ Flushing' /\ Finished'
  BY <1>1 DEF Adding, Flushing, Finished
<1>4. Settled' /\ Safe' /\ Alone'
  BY <1>1, SameRequests DEF IInv, Settled, Safe, Alone, OnlyLast
<1> QED
  BY <1>2, <1>3, <1>4 DEF IInv

(* A request is sent: the next number is the only new thing outstanding. *)
LEMMA TalkShape ==
  ASSUME IInv, pc # "idle", NEW r \in Request, Talk(r)
  PROVE  /\ ~busy /\ busy' /\ calls' = calls + 1 /\ calls' \in Ids
         /\ request'[calls'] = r /\ fate[calls'] = "open" /\ ~Open(calls')
         /\ \A i \in Ids \ {calls'} :
              request'[i] = request[i] /\ Open(i)' = Open(i)
         /\ UNCHANGED <<pc, op, arg, rc, safe, alone, kept, rules, fate>>
         /\ Shape'
<1>1. /\ ~busy /\ busy' = TRUE /\ calls' = calls + 1 /\ calls < MaxCalls
      /\ UNCHANGED <<pc, op, arg, rc, safe, alone, kept, rules, fate, result>>
  BY DEF Talk, KC!Issue
<1>2. TypeOK /\ request \in [Ids -> Request] /\ MaxCalls \in Nat
  BY ConstantsAssumption DEF IInv, Shape
<1>3. calls' \in Ids /\ fate[calls'] = "open" /\ ~Open(calls')
  BY <1>1, <1>2 DEF Ids, TypeOK, KC!TypeOK, IInv, Shape, Open
<1>4. request' = [request EXCEPT ![calls'] = r] /\ request' \in [Ids -> Request]
  BY <1>1, <1>2, <1>3 DEF Talk
<1>5. \A i \in Ids \ {calls'} : request'[i] = request[i] /\ Open(i)' = Open(i)
  BY <1>1, <1>2, <1>3, <1>4 DEF Talk, Open
<1>6. TypeOK'
  <2>1. handed' \subseteq 1 .. calls'
    <3>1. calls \in Nat /\ handed \subseteq 1 .. calls
      BY <1>2 DEF TypeOK, KC!TypeOK
    <3>2. handed' \subseteq handed \cup {calls + 1}
      BY DEF Talk
    <3> QED BY <1>1, <3>1, <3>2
  <2>2. faults' \in 0 .. MaxFaults
    BY <1>2, ConstantsAssumption DEF TypeOK, Talk, Fault
  <2>3. calls' \in 0 .. MaxCalls
    BY <1>1, <1>2 DEF TypeOK, KC!TypeOK
  <2> QED BY <1>1, <1>2, <2>1, <2>2, <2>3 DEF TypeOK, KC!TypeOK
<1>7. \A i \in Ids : i > calls' => fate'[i] = "open"
  BY <1>1, <1>2, <1>3 DEF Ids, IInv, Shape, TypeOK, KC!TypeOK
<1>8. Shape'
  BY <1>1, <1>3, <1>4, <1>6, <1>7 DEF Shape, IInv
<1> QED
  BY <1>1, <1>2, <1>3, <1>4, <1>5, <1>8

(* No old request is outstanding when a swap that is settled sends, or when
   one sends its flush. *)
LEMMA AddRuleStep ==
  ASSUME IInv, AddRule
  PROVE  IInv'
<1> DEFINE r == [type |-> "NEW", rule |-> NewRule(arg)]
<1>1. pc = "add_rule" /\ Talk(r) /\ r \in Request
  BY RequestTypes DEF AddRule, IInv, Shape
<1>2. /\ ~busy /\ busy' /\ calls' \in Ids /\ Shape'
      /\ request'[calls'] = r /\ fate[calls'] = "open"
      /\ \A i \in Ids \ {calls'} : request'[i] = request[i] /\ Open(i)' = Open(i)
      /\ UNCHANGED <<pc, op, arg, rc, safe, alone, kept, rules, fate>>
  BY <1>1, TalkShape
<1>3. Adding'
  BY <1>2 DEF Adding, IsNew, NewRule
<1>4. Flushing' /\ Finished'
  BY <1>1, <1>2 DEF Flushing, Finished
<1>5. Settled'
  BY <1>1, <1>2 DEF IInv, Settled, Quiet, OnlyLast, IsNew, NewRule
<1>6. Safe'
  BY <1>1, <1>2 DEF IInv, Safe, Settled, Quiet, Covered, IsDel
<1>7. Alone'
  BY <1>1, <1>2 DEF IInv, Alone, OldRules, Named, Family
<1> QED
  BY <1>2, <1>3, <1>4, <1>5, <1>6, <1>7 DEF IInv

(* flush_rule sends its request. *)
LEMMA FlushRuleStep ==
  ASSUME IInv, FlushRule
  PROVE  IInv'
<1> DEFINE r == [type |-> "DEL", prio |-> arg.old, family |-> Family(arg.src)]
<1>1. pc = "flush_rule" /\ Talk(r) /\ r \in Request
  BY RequestTypes DEF FlushRule, IInv, Shape
<1>2. /\ ~busy /\ busy' /\ calls' \in Ids /\ Shape'
      /\ request'[calls'] = r /\ fate[calls'] = "open"
      /\ \A i \in Ids \ {calls'} : request'[i] = request[i] /\ Open(i)' = Open(i)
      /\ UNCHANGED <<pc, op, arg, rc, safe, alone, kept, rules, fate>>
  BY <1>1, TalkShape
<1>3. op = "change" => Quiet /\ (kept /\ arg.new # arg.old => NewRule(arg) \in rules)
  BY <1>1, <1>2 DEF IInv, Flushing
<1>4. Adding' /\ Finished'
  BY <1>1, <1>2 DEF Adding, Finished
<1>5. Flushing'
  BY <1>1, <1>2, <1>3 DEF Flushing, OnlyLast, Quiet, IsDel, NewRule, Family
<1>6. Settled'
  BY <1>1, <1>2, <1>3 DEF Settled, Quiet, OnlyLast, IsDel, Family
<1>7. Safe'
  BY <1>1, <1>2, <1>3 DEF IInv, Safe, Quiet, Covered, TwoRules, NewRule
<1>8. Alone'
  BY <1>1, <1>2 DEF IInv, Alone, OldRules, Named, Family
<1> QED
  BY <1>2, <1>4, <1>5, <1>6, <1>7, <1>8 DEF IInv

(* A netlink_talk returns 0: change_rule goes on to flush the old rule, or
   the call is over. *)
LEMMA TalkSucceedsStep ==
  ASSUME IInv, TalkSucceeds
  PROVE  IInv'
<1>1. /\ busy /\ busy' = FALSE /\ calls \in Ids /\ fate[calls] = "done" /\ ~Open(calls)
      /\ result' = "ok" /\ pc \in {"add_rule", "flush_rule"}
      /\ UNCHANGED <<op, arg, safe, alone, kept, request, handed, rules, faults, calls, fate>>
  BY DEF TalkSucceeds, KC!Answer, Return, IInv, Shape, TypeOK, Open
<1>2. IF op = "change" /\ pc = "add_rule" THEN pc' = "flush_rule" /\ rc' = rc
                                        ELSE pc' = "idle" /\ rc' = 0
  BY DEF TalkSucceeds, Return
<1>3. Shape'
  BY <1>1, <1>2 DEF IInv, Shape, TypeOK, KC!TypeOK
<1>4. Adding'
  BY <1>1 DEF Adding
<1>5. Flushing'
  BY <1>1, <1>2, SameRequests DEF IInv, Adding, Flushing, OnlyLast, Quiet
<1>6. Settled'
  BY <1>1, <1>2, SameRequests DEF IInv, Settled, OnlyLast
<1>7. Safe'
  BY <1>1, <1>2, SameRequests DEF IInv, Safe
<1>8. Alone'
  BY <1>1, <1>2, SameRequests DEF IInv, Alone
<1>9. Finished'
  BY <1>1, <1>2, SameRequests DEF IInv, Flushing, Alone, Finished, OnlyLast, Quiet
<1> QED
  BY <1>3, <1>4, <1>5, <1>6, <1>7, <1>8, <1>9 DEF IInv

(* A netlink_talk returns -1, and the call gives up where it is. *)
LEMMA TalkFailsStep ==
  ASSUME IInv, TalkFails
  PROVE  IInv'
<1>1. /\ busy /\ busy' = FALSE /\ result' \in {"refused", "failed"}
      /\ pc' = "idle" /\ rc' = -1
      /\ UNCHANGED <<op, arg, safe, alone, kept, request, handed, rules, calls, fate>>
      /\ Fault \/ faults' = faults
  BY DEF TalkFails, KC!Answer, Return
<1>2. faults' \in 0 .. MaxFaults
  BY <1>1, ConstantsAssumption DEF IInv, Shape, TypeOK, Fault
<1>3. Shape'
  BY <1>1, <1>2 DEF IInv, Shape, TypeOK, KC!TypeOK
<1>4. Adding' /\ Flushing' /\ Finished'
  BY <1>1 DEF Adding, Flushing, Finished
<1>5. Settled' /\ Safe' /\ Alone'
  BY <1>1, SameRequests DEF IInv, Settled, Safe, Alone, OnlyLast
<1> QED
  BY <1>3, <1>4, <1>5 DEF IInv

-------------------------------------------------------------------------------
(* The kernel's steps. *)

(* A decision settles one outstanding request, the first. *)
LEMMA DecideShape ==
  ASSUME IInv, NEW i \in Ids, NextUndecided(i), NEW v \in {"done", "refused"},
         KC!Decide(i, v), UNCHANGED <<pc, op, arg, rc, safe, alone, kept, request, handed, faults>>
  PROVE  /\ i \in 1 .. calls /\ Open(i) /\ fate[i] = "open" /\ fate'[i] = v /\ ~Open(i)'
         /\ \A j \in Ids \ {i} : fate'[j] = fate[j] /\ Open(j)' = Open(j)
         /\ \A j \in Ids : j < i => ~Open(j)
         /\ \A j \in Ids : j > calls => ~Open(j) /\ fate'[j] = "open"
         /\ UNCHANGED <<calls, busy, result>>
         /\ rules' \subseteq Rule /\ IsFiniteSet(rules') => Shape'
<1>1. TypeOK /\ MaxCalls \in Nat /\ \A j \in Ids : j > calls => fate[j] = "open"
  BY ConstantsAssumption DEF IInv, Shape
<1>2. /\ Open(i) /\ fate[i] = "open" /\ i <= calls /\ fate' = [fate EXCEPT ![i] = v]
      /\ UNCHANGED <<calls, busy, result>>
      /\ \A j \in Ids : j < i => ~Open(j)
  BY DEF NextUndecided, KC!Decide
<1>3. fate \in [Ids -> {"open", "done", "refused"}] /\ calls \in Nat /\ handed \subseteq 1 .. calls
  BY <1>1 DEF TypeOK, KC!TypeOK, KC!Ids, Ids, KC!Verdicts
<1>4. fate' \in [Ids -> {"open", "done", "refused"}]
  BY <1>2, <1>3
<1>5. fate'[i] = v /\ \A j \in Ids \ {i} : fate'[j] = fate[j]
  BY <1>2, <1>3
<1>6. i \in 1 .. calls /\ \A j \in Ids : j > calls => ~Open(j) /\ j # i
  BY <1>2, <1>3 DEF Ids, Open
<1>7. ~Open(i)' /\ \A j \in Ids \ {i} : Open(j)' = Open(j)
  BY <1>5 DEF Open
<1>8. rules' \subseteq Rule => TypeOK'
  BY <1>1, <1>2, <1>4 DEF TypeOK, KC!TypeOK, KC!Ids, Ids, KC!Verdicts
<1> QED
  BY <1>1, <1>2, <1>5, <1>6, <1>7, <1>8 DEF IInv, Shape

(* The kernel adds the rule of the swap. *)
LEMMA AddedStep ==
  ASSUME IInv, NEW i \in Ids, NextUndecided(i), KC!Decide(i, "done"),
         UNCHANGED <<pc, op, arg, rc, safe, alone, kept, request, handed, faults>>,
         request[i].type = "NEW", request[i].rule \notin rules,
         rules' = rules \cup {request[i].rule}
  PROVE  IInv'
<1>1. /\ i \in 1 .. calls /\ Open(i) /\ fate[i] = "open" /\ fate'[i] = "done" /\ ~Open(i)'
      /\ \A j \in Ids \ {i} : fate'[j] = fate[j] /\ Open(j)' = Open(j)
      /\ \A j \in Ids : j < i => ~Open(j)
      /\ \A j \in Ids : j > calls => ~Open(j)
      /\ UNCHANGED <<calls, busy, result>>
      /\ rules' \subseteq Rule /\ IsFiniteSet(rules') => Shape'
  BY DecideShape
<1>2. request[i].rule \in Rule
  BY DEF IInv, Shape, Request
<1>3. Shape'
  BY <1>1, <1>2, FS_AddElement DEF IInv, Shape, TypeOK
<1>4. calls \in Nat /\ \A j \in Ids : j \in Nat
  BY DEF IInv, Shape, TypeOK, KC!TypeOK, Ids
<1>5. Adding'
  <2> SUFFICES ASSUME op = "change", pc = "add_rule", busy
               PROVE  IsNew(calls)' /\ (fate'[calls] = "done" => Quiet' /\ (kept => NewRule(arg)' \in rules'))
    BY <1>1 DEF Adding
  <2>1. IsNew(calls)'
    BY <1>1 DEF IInv, Adding, IsNew, NewRule
  <2>2. CASE i = calls
    <3>1. request[i].rule = NewRule(arg)
      BY <2>2 DEF IInv, Adding, IsNew
    <3>2. Quiet'
      BY <1>1, <1>4, <2>2 DEF Quiet
    <3> QED BY <2>1, <3>1, <3>2 DEF NewRule
  <2>3. CASE i # calls
    <3>1. calls \in Ids
      BY DEF IInv, Shape
    <3>2. fate'[calls] # "done"
      BY <1>1, <2>3, <3>1 DEF IInv, Adding, Quiet
    <3> QED BY <2>1, <3>2
  <2> QED BY <2>2, <2>3
<1>6. Flushing'
  BY <1>1 DEF IInv, Flushing, OnlyLast, Quiet, IsDel, NewRule, Family
<1>7. Settled'
  BY <1>1 DEF IInv, Settled, OnlyLast, Quiet, IsNew, IsDel, NewRule, Family
<1>8. op = "change" /\ (safe \/ alone) => request[i].rule = NewRule(arg)
  BY <1>1 DEF IInv, Settled, IsNew, IsDel
<1>9. Safe'
  <2> SUFFICES ASSUME op = "change", safe, kept PROVE TwoRules' /\ Covered(arg.src)'
    BY DEF Safe
  <2>1. PICK r \in rules : r.src = arg.src
    BY DEF IInv, Safe, Covered
  <2> QED
    BY <1>8, <2>1 DEF TwoRules, Covered, NewRule
<1>10. Alone'
  <2> SUFFICES ASSUME op = "change", alone, arg.new # arg.old
               PROVE  /\ \A q, r \in OldRules' : q = r
                      /\ pc = "flush_rule" /\ busy /\ fate'[calls] = "done" => OldRules' = {}
    BY <1>1 DEF Alone
  <2>1. OldRules' = OldRules
    BY <1>8 DEF OldRules, Named, NewRule, Family
  <2>2. ~(pc = "flush_rule" /\ busy)
    BY <1>1 DEF IInv, Flushing, OnlyLast, IsDel
  <2> QED
    BY <2>1, <2>2 DEF IInv, Alone
<1>11. Finished'
  BY <1>1 DEF IInv, Finished, Quiet
<1> QED
  BY <1>3, <1>5, <1>6, <1>7, <1>9, <1>10, <1>11 DEF IInv

(* The kernel takes a rule that the flush names. *)
LEMMA TakenStep ==
  ASSUME IInv, NEW i \in Ids, NextUndecided(i), KC!Decide(i, "done"),
         UNCHANGED <<pc, op, arg, rc, safe, alone, kept, request, handed, faults>>,
         request[i].type = "DEL",
         NEW r \in Named(request[i].prio, request[i].family), rules' = rules \ {r}
  PROVE  IInv'
<1>1. /\ i \in 1 .. calls /\ Open(i) /\ fate[i] = "open" /\ fate'[i] = "done" /\ ~Open(i)'
      /\ \A j \in Ids \ {i} : fate'[j] = fate[j] /\ Open(j)' = Open(j)
      /\ UNCHANGED <<calls, busy, result>>
      /\ rules' \subseteq Rule /\ IsFiniteSet(rules') => Shape'
  BY DecideShape
<1>2. Shape'
  BY <1>1, FS_Subset DEF IInv, Shape, TypeOK
<1>3. busy => calls \in Ids
  BY DEF IInv, Shape
<1>4. Adding'
  <2> SUFFICES ASSUME op = "change", pc = "add_rule", busy
               PROVE  IsNew(calls)' /\ fate'[calls] # "done"
    BY <1>1 DEF Adding
  <2>1. IsNew(calls) /\ i # calls
    BY DEF IInv, Adding, IsNew
  <2>2. fate[calls] # "done"
    BY <1>1 DEF IInv, Adding, Quiet
  <2> QED BY <1>1, <1>3, <2>1, <2>2 DEF IsNew, NewRule
<1>5. op = "change" /\ (pc = "flush_rule" \/ safe \/ alone) =>
        IsDel(i) /\ i = calls /\ r \in OldRules
  <2> SUFFICES ASSUME op = "change", pc = "flush_rule" \/ safe \/ alone
               PROVE  IsDel(i) /\ i = calls
    BY DEF IsDel, OldRules
  <2>1. CASE pc = "flush_rule"
    BY <1>1, <2>1 DEF IInv, Flushing, OnlyLast, Quiet
  <2>2. CASE safe \/ alone
    BY <1>1, <2>2 DEF IInv, Settled, OnlyLast, IsNew
  <2> QED BY <2>1, <2>2
<1>6. Flushing'
  <2>1. NewRule(arg).prio = arg.new /\ \A q \in OldRules : q.prio = arg.old
    BY DEF NewRule, OldRules, Named
  <2> QED
    BY <1>1, <1>5, <2>1 DEF IInv, Flushing, OnlyLast, Quiet, IsDel, NewRule, Family
<1>7. Settled'
  BY <1>1 DEF IInv, Settled, OnlyLast, Quiet, IsNew, IsDel, NewRule, Family
<1>8. Safe'
  <2> SUFFICES ASSUME op = "change", safe, kept
               PROVE  /\ Covered(arg.src)' /\ Quiet'
                      /\ ~(pc = "add_rule" /\ busy) /\ ~(pc = "flush_rule" /\ ~busy)
    BY <1>1 DEF Safe, Quiet
  <2>1. TwoRules
    BY <1>1, <1>5 DEF IInv, Safe
  <2>2. Covered(arg.src)'
    BY <2>1 DEF TwoRules, Covered, NewRule
  <2>3. Quiet'
    BY <1>1, <1>5 DEF IInv, Settled, OnlyLast, Quiet
  <2>4. ~(pc = "add_rule" /\ busy)
    BY <1>5 DEF IInv, Adding, IsNew, IsDel
  <2>5. ~(pc = "flush_rule" /\ ~busy)
    BY <1>1 DEF IInv, Flushing, Quiet
  <2> QED BY <2>2, <2>3, <2>4, <2>5
<1>9. Alone'
  <2> SUFFICES ASSUME op = "change", alone, arg.new # arg.old PROVE OldRules' = {}
    BY DEF Alone
  <2> QED
    BY <1>5 DEF IInv, Alone, OldRules, Named, Family
<1>10. Finished'
  BY <1>1 DEF IInv, Finished, Quiet
<1> QED
  BY <1>2, <1>4, <1>6, <1>7, <1>8, <1>9, <1>10 DEF IInv

(* The kernel refuses the next request and leaves its rules alone. *)
LEMMA KernelRefusesStep ==
  ASSUME IInv, NEW i \in Ids, KernelRefuses(i)
  PROVE  IInv'
<1>1. /\ NextUndecided(i) /\ KC!Decide(i, "refused")
      /\ UNCHANGED <<pc, op, arg, rc, safe, alone, kept, request, handed, rules, faults>>
  BY DEF KernelRefuses
<1>2. /\ Open(i) /\ fate'[i] = "refused" /\ ~Open(i)'
      /\ \A j \in Ids \ {i} : fate'[j] = fate[j] /\ Open(j)' = Open(j)
      /\ UNCHANGED <<calls, busy, result>>
      /\ rules' \subseteq Rule /\ IsFiniteSet(rules') => Shape'
  BY <1>1, DecideShape
<1>3. Shape'
  BY <1>1, <1>2 DEF IInv, Shape, TypeOK
<1>4. busy /\ fate'[calls] = "done" => fate[calls] = "done"
  BY <1>2 DEF IInv, Shape
<1>5. Adding' /\ Flushing' /\ Finished'
  BY <1>1, <1>2, <1>4 DEF IInv, Adding, Flushing, Finished, OnlyLast, Quiet,
     IsNew, IsDel, NewRule, Family, OldRules, Named
<1>6. Settled'
  BY <1>1, <1>2 DEF IInv, Settled, OnlyLast, Quiet, IsNew, IsDel, NewRule, Family
<1>7. Safe'
  BY <1>1, <1>2, <1>4 DEF IInv, Safe, TwoRules, Covered, IsDel, NewRule, Family
<1>8. Alone'
  BY <1>1, <1>2, <1>4 DEF IInv, Alone, OldRules, Named, Family
<1> QED
  BY <1>3, <1>5, <1>6, <1>7, <1>8 DEF IInv

-------------------------------------------------------------------------------
(* The third parties' steps. *)

(* A change of the rules leaves the requests alone. *)
LEMMA ForeignShape ==
  ASSUME IInv, Fault, rules' \subseteq Rule, IsFiniteSet(rules'),
         safe' \in BOOLEAN, alone' \in BOOLEAN, kept' \in BOOLEAN,
         UNCHANGED <<pc, op, arg, rc, request, handed, callVars>>
  PROVE  /\ Shape' /\ Quiet' = Quiet /\ OnlyLast' = OnlyLast
         /\ \A i : Open(i)' = Open(i) /\ IsNew(i)' = IsNew(i) /\ IsDel(i)' = IsDel(i)
         /\ NewRule(arg)' = NewRule(arg)
<1>1. faults' \in 0 .. MaxFaults
  BY ConstantsAssumption DEF IInv, Shape, TypeOK, Fault
<1>2. Shape'
  BY <1>1 DEF IInv, Shape, TypeOK, KC!TypeOK, callVars
<1> QED
  BY <1>2 DEF callVars, Quiet, OnlyLast, Open, IsNew, IsDel, NewRule, Family

(* A third party adds a rule: the old priority may name another one now. *)
LEMMA ThirdPartyAddsStep ==
  ASSUME IInv, NEW r \in Foreign, ThirdPartyAdds(r)
  PROVE  IInv'
<1>1. /\ rules' = rules \cup {r} /\ Fault
      /\ alone' = (alone /\ ~(r.prio = arg.old /\ Family(r.src) = Family(arg.src)))
      /\ UNCHANGED <<pc, op, arg, rc, safe, kept, request, handed, callVars>>
  BY DEF ThirdPartyAdds
<1>2. rules' \subseteq Rule /\ IsFiniteSet(rules')
  BY <1>1, FS_AddElement, ConstantsAssumption DEF IInv, Shape, TypeOK
<1>3. safe' \in BOOLEAN /\ alone' \in BOOLEAN /\ kept' \in BOOLEAN
  BY <1>1, Zenon DEF IInv, Shape, TypeOK
<1>4. /\ Shape' /\ Quiet' = Quiet /\ OnlyLast' = OnlyLast
      /\ \A i : Open(i)' = Open(i) /\ IsNew(i)' = IsNew(i) /\ IsDel(i)' = IsDel(i)
      /\ NewRule(arg)' = NewRule(arg)
  BY <1>1, <1>2, <1>3, ForeignShape
<1>5. alone' => alone /\ OldRules' = OldRules
  BY <1>1 DEF OldRules, Named, Family
<1>6. Adding' /\ Flushing' /\ Settled'
  BY <1>1, <1>4, <1>5 DEF IInv, Adding, Flushing, Settled, callVars
<1>7. Safe'
  BY <1>1, <1>4 DEF IInv, Safe, TwoRules, Covered, callVars
<1>8. Alone' /\ Finished'
  BY <1>1, <1>4, <1>5 DEF IInv, Alone, Finished, callVars
<1> QED
  BY <1>4, <1>6, <1>7, <1>8 DEF IInv

(* A third party takes a rule: if it is one of the swap's source, all claims
   about that source's rules are off. *)
LEMMA ThirdPartyTakesStep ==
  ASSUME IInv, NEW r \in rules, ThirdPartyTakes(r)
  PROVE  IInv'
<1>1. /\ rules' = rules \ {r} /\ Fault
      /\ kept' = (kept /\ r.src # arg.src)
      /\ UNCHANGED <<pc, op, arg, rc, safe, alone, request, handed, callVars>>
  BY DEF ThirdPartyTakes
<1>2. rules' \subseteq Rule /\ IsFiniteSet(rules')
  BY <1>1, FS_Subset DEF IInv, Shape, TypeOK
<1>3. safe' \in BOOLEAN /\ alone' \in BOOLEAN /\ kept' \in BOOLEAN
  BY <1>1, Zenon DEF IInv, Shape, TypeOK
<1>4. /\ Shape' /\ Quiet' = Quiet /\ OnlyLast' = OnlyLast
      /\ \A i : Open(i)' = Open(i) /\ IsNew(i)' = IsNew(i) /\ IsDel(i)' = IsDel(i)
      /\ NewRule(arg)' = NewRule(arg)
  BY <1>1, <1>2, <1>3, ForeignShape
<1>5. OldRules' \subseteq OldRules
  BY <1>1 DEF OldRules, Named, Family
<1>6. kept' => kept /\ \A q \in rules : q.src = arg.src => q \in rules'
  BY <1>1
<1>7. NewRule(arg).src = arg.src
  BY DEF NewRule
<1>8. Adding' /\ Flushing' /\ Settled'
  BY <1>1, <1>4, <1>6, <1>7 DEF IInv, Adding, Flushing, Settled, callVars
<1>9. Safe'
  BY <1>1, <1>4, <1>6, <1>7 DEF IInv, Safe, TwoRules, Covered, callVars
<1>10. Alone' /\ Finished'
  BY <1>1, <1>4, <1>5, <1>6, <1>7 DEF IInv, Alone, Finished, callVars
<1> QED
  BY <1>4, <1>8, <1>9, <1>10 DEF IInv

-------------------------------------------------------------------------------
(* The invariant holds in every state. *)
THEOREM Invariance == Spec => []IInv
<1>1. Init => IInv
  <2> SUFFICES ASSUME Init PROVE IInv
    OBVIOUS
  <2>1. (CHOOSE a \in Arguments : TRUE) \in Arguments
    BY ConstantsAssumption
  <2>2. request \in [Ids -> Request] /\ IsFiniteSet(rules)
    BY FS_EmptySet DEF Init, Request
  <2>3. TypeOK
    <3>1. KC!TypeOK
      <4>1. calls \in 0 .. MaxCalls
        BY ConstantsAssumption DEF Init, KC!Init
      <4> QED BY <4>1 DEF Init, KC!Init, KC!TypeOK
    <3>2. faults \in 0 .. MaxFaults /\ op \in Operations
      BY ConstantsAssumption DEF Init, Operations
    <3> QED BY <2>1, <3>1, <3>2 DEF Init, TypeOK
  <2>4. Shape
    BY <2>2, <2>3 DEF Init, KC!Init, KC!Ids, Ids, Shape
  <2> QED
    BY <2>4 DEF Init, IInv, Adding, Flushing, Settled, Safe, Alone, Finished
<1>2. IInv /\ [Next]_vars => IInv'
  <2> SUFFICES ASSUME IInv, [Next]_vars PROVE IInv'
    OBVIOUS
  <2>1. CASE Calls
    BY <2>1, CallStep DEF Calls
  <2>2. CASE Daemon
    BY <2>2, AddInvalidStep, AddRuleStep, FlushRuleStep, TalkSucceedsStep,
       TalkFailsStep DEF Daemon
  <2>3. ASSUME NEW i \in Ids, KernelCarriesOut(i) PROVE IInv'
    BY <2>3, AddedStep, TakenStep DEF KernelCarriesOut
  <2>4. CASE UNCHANGED vars
    <3>1. Shape'
      BY <2>4 DEF IInv, Shape, TypeOK, KC!TypeOK, vars, callVars
    <3>2. Adding' /\ Flushing' /\ Settled' /\ Safe' /\ Alone' /\ Finished'
      BY <2>4, SameRequests DEF vars, callVars, IInv, Adding, Flushing, Settled,
         Safe, Alone, Finished, OnlyLast
    <3> QED BY <3>1, <3>2 DEF IInv
  <2> QED
    BY <2>1, <2>2, <2>3, <2>4, KernelRefusesStep, ThirdPartyAddsStep,
       ThirdPartyTakesStep DEF Next, Kernel, Others
<1> QED
  BY <1>1, <1>2, PTL DEF Spec

(* The variables of the policy rules keep their types: in particular the
   kernel has only well-formed rules, and has taken only requests that
   add_rule and flush_rule made. *)
THEOREM TypeCorrect == Spec => []TypeOK
<1>1. IInv => TypeOK
  BY DEF IInv, Shape
<1> QED
  BY <1>1, Invariance, PTL

(* change_rule is make-before-break: a source that has a rule when nothing is
   outstanding has one ever after, whichever request is refused, lost or late,
   unless a third party takes a rule of that source. *)
THEOREM SourcesStayCovered == Spec => []SourceStaysCovered
<1>1. IInv => SourceStaysCovered
  BY DEF IInv, Safe, SourceStaysCovered
<1> QED
  BY <1>1, Invariance, PTL

(* A swap (change_rule) that returns 0 is complete: the source's rule with the
   new priority is in the kernel, in the table that was asked for when that
   fits in the byte of rtm_table, and the old one, if it was alone with its
   priority, is not, whatever third parties do to other rules. *)
THEOREM SwapsComplete == Spec => []SwapComplete
<1>1. ASSUME IInv PROVE SwapComplete
  <2>1. /\ NewRule(arg).prio = arg.new /\ NewRule(arg).src = arg.src
        /\ arg.table < ByteMod => NewRule(arg).table = arg.table
    <3>1. arg.table \in Nat /\ ByteMod \in Nat \ {0}
      BY <1>1, ConstantsAssumption DEF IInv, Shape, TypeOK
    <3> QED BY <3>1 DEF NewRule
  <2> QED
    BY <1>1, <2>1 DEF IInv, Finished, SwapComplete, OldRules
<1> QED
  BY <1>1, Invariance, PTL
===============================================================================
