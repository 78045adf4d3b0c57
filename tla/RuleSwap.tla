------------------------------- MODULE RuleSwap -------------------------------
(***************************************************************************)
(* add_rule, flush_rule and change_rule of kernel_netlink.c: the policy    *)
(* rules that send the packets of a source prefix to a table, and the      *)
(* make-before-break swap of one rule for another.                         *)
(*                                                                         *)
(* Requests go through netlink_talk, of which only what KernelCall         *)
(* promises is used (see KernelRoute).  The kernel, the caller and the     *)
(* third parties that change rules are external.  A flush names a rule by  *)
(* family and priority alone, so the kernel may take any rule that has     *)
(* them.  Table 0, which the kernel takes for no table, is not asked for.  *)
(***************************************************************************)
EXTENDS Integers, FiniteSets

CONSTANTS
  Prios,      \* priorities
  Srcs,       \* source prefixes
  Tables,     \* the tables that callers name: ints, but none that is 0 as a byte
  ByteMod,    \* the size of the rtm_table field: 256
  V4,         \* the IPv4 (mapped) sources
  BadPlen,    \* the IPv4 sources whose prefix length is below 96
  Arguments,  \* what callers ask for: priorities, a source and a table
  Foreign,    \* the rules that third parties may add
  MaxCalls,   \* bound: requests composed in a behaviour
  MaxFaults   \* bound: failures and changes by third parties in a behaviour

Rule == [prio : Prios, src : Srcs, table : 1 .. ByteMod - 1]

ASSUME ConstantsAssumption ==
  /\ V4 \subseteq Srcs /\ BadPlen \subseteq V4
  /\ Arguments # {}
  /\ Arguments \subseteq [new : Prios, old : Prios, src : Srcs, table : Tables]
  /\ ByteMod \in Nat \ {0}
  /\ \A t \in Tables : t \in Nat /\ t % ByteMod > 0
  /\ Foreign \subseteq Rule
  /\ MaxCalls \in Nat /\ MaxFaults \in Nat

VARIABLES
  pc,        \* "idle", or the function running: "add_rule", "flush_rule"
  op,        \* the caller's operation
  arg,       \* its arguments
  rc,        \* what it returned
  safe,      \* history: had arg.src a rule when the call began ...
  alone,     \* ... was arg.old the priority of at most one rule, now too ...
  kept,      \* ... and has no third party taken a rule of arg.src since?
  request,   \* the request with each number
  handed,    \* the requests that reached the kernel
  rules,     \* the kernel's rules
  faults,    \* failures and changes by third parties so far
  calls, busy, fate, result   \* the requests, as KernelCall sees them

KC == INSTANCE KernelCall

callVars == <<calls, busy, fate, result>>
vars == <<pc, op, arg, rc, safe, alone, kept, request, handed, rules, faults,
          callVars>>

Operations == {"add", "flush", "change"}
Ids == 1 .. MaxCalls
Family(src) == IF src \in V4 THEN "inet" ELSE "inet6"
Covered(src) == \E r \in rules : r.src = src
(* The rules that flush_rule names. *)
Named(prio, family) == {r \in rules : r.prio = prio /\ Family(r.src) = family}

TypeOK ==
  /\ pc \in {"idle", "add_rule", "flush_rule"}
  /\ op \in Operations /\ arg \in Arguments
  /\ rc \in {-1, 0} /\ safe \in BOOLEAN /\ alone \in BOOLEAN /\ kept \in BOOLEAN
  /\ handed \subseteq 1 .. calls /\ rules \subseteq Rule
  /\ faults \in 0 .. MaxFaults
  /\ KC!TypeOK

Init ==
  /\ pc = "idle" /\ op = "add" /\ arg = (CHOOSE a \in Arguments : TRUE)
  /\ rc = 0 /\ safe = FALSE /\ alone = FALSE /\ kept = TRUE
  /\ request = [i \in Ids |-> [type |-> "none"]] /\ handed = {}
  /\ rules = {} /\ faults = 0
  /\ KC!Init

Fault == faults < MaxFaults /\ faults' = faults + 1

-------------------------------------------------------------------------------
(* The callers' operations; change_rule adds first. *)

Open(i) == i \in handed /\ fate[i] = "open"
FirstStep(o) == IF o = "flush" THEN "flush_rule" ELSE "add_rule"
Call(o, a) ==
  /\ pc = "idle"
  /\ calls + (IF o = "change" THEN 2 ELSE 1) <= MaxCalls
  /\ pc' = FirstStep(o)
  /\ op' = o /\ arg' = a
  /\ LET settled == ~\E i \in Ids : Open(i)
     IN  /\ safe' = (settled /\ Covered(a.src))
         /\ alone' = (settled /\ Cardinality(Named(a.old, Family(a.src))) <= 1)
  /\ kept' = TRUE
  /\ KC!Begin
  /\ UNCHANGED <<rc, request, handed, rules, faults>>

(* add_rule or flush_rule returns c.  change_rule goes on to its flush after
   an addition that did not fail. *)
(* Mutant of Return: change_rule goes on whatever the addition returned. *)
ReturnAnyway(c) ==
  /\ IF op = "change" /\ pc = "add_rule"
     THEN pc' = "flush_rule" /\ UNCHANGED rc
     ELSE pc' = "idle" /\ rc' = c
  /\ UNCHANGED <<op, arg, safe, alone, kept>>
Return(c) ==
  /\ IF op = "change" /\ pc = "add_rule" /\ c >= 0
     THEN pc' = "flush_rule" /\ UNCHANGED rc
     ELSE pc' = "idle" /\ rc' = c
  /\ UNCHANGED <<op, arg, safe, alone, kept>>

(* An IPv4 prefix length below 96 is EINVAL. *)
AddInvalid ==
  /\ pc = "add_rule" /\ ~busy /\ arg.src \in BadPlen
  /\ Return(-1)
  /\ KC!GiveUp
  /\ UNCHANGED <<request, handed, rules, faults>>

(* netlink_talk, on a socket that may be closed: rules never reopen it. *)
Talk(r) ==
  /\ ~busy
  /\ KC!Issue
  /\ request' = [request EXCEPT ![calls + 1] = r]
  /\ \/ handed' = handed \cup {calls + 1} /\ UNCHANGED faults
     \/ UNCHANGED handed /\ Fault
  /\ UNCHANGED <<pc, op, arg, rc, safe, alone, kept, rules>>

(* The table is stored in an unsigned char, without an FRA_TABLE. *)
NewRule(a) == [prio |-> a.new, src |-> a.src, table |-> (a.table % ByteMod)]

AddRule ==
  /\ pc = "add_rule" /\ arg.src \notin BadPlen
  /\ Talk([type |-> "NEW", rule |-> NewRule(arg)])

(* Mutant of FlushRule: the priorities of a swap are mixed up. *)
FlushRuleNew ==
  /\ pc = "flush_rule"
  /\ Talk([type |-> "DEL", prio |-> arg.new, family |-> Family(arg.src)])
FlushRule ==
  /\ pc = "flush_rule"
  /\ Talk([type |-> "DEL", prio |-> arg.old, family |-> Family(arg.src)])

TalkSucceeds ==
  /\ KC!Answer("ok")
  /\ Return(0)
  /\ UNCHANGED <<request, handed, rules, faults>>

TalkFails ==
  /\ \/ KC!Answer("refused") /\ UNCHANGED faults
     \/ KC!Answer("failed") /\ IF calls \in handed THEN Fault ELSE UNCHANGED faults
  /\ Return(-1)
  /\ UNCHANGED <<request, handed, rules>>

-------------------------------------------------------------------------------
(* The kernel (external): it decides requests in the order they came, refuses
   an addition of a rule it has and a flush that names none. *)

NextUndecided(i) == Open(i) /\ \A j \in Ids : j < i => ~Open(j)

KernelCarriesOut(i) ==
  /\ NextUndecided(i)
  /\ KC!Decide(i, "done")
  /\ \/ /\ request[i].type = "NEW" /\ request[i].rule \notin rules
        /\ rules' = rules \cup {request[i].rule}
     \/ /\ request[i].type = "DEL"
        /\ \E r \in Named(request[i].prio, request[i].family) : rules' = rules \ {r}
  /\ UNCHANGED <<pc, op, arg, rc, safe, alone, kept, request, handed, faults>>

KernelRefuses(i) ==
  /\ NextUndecided(i)
  /\ KC!Decide(i, "refused")
  /\ request[i].type = "DEL" => Named(request[i].prio, request[i].family) = {}
  /\ UNCHANGED <<pc, op, arg, rc, safe, alone, kept, request, handed, rules, faults>>

-------------------------------------------------------------------------------
(* Third parties (external): a restart of the network flushes rules, and other
   programs have rules of their own. *)

ThirdPartyAdds(r) ==
  /\ Fault
  /\ r \notin rules
  /\ rules' = rules \cup {r}
  /\ alone' = (alone /\ ~(r.prio = arg.old /\ Family(r.src) = Family(arg.src)))
  /\ UNCHANGED <<pc, op, arg, rc, safe, kept, request, handed, callVars>>

ThirdPartyTakes(r) ==
  /\ Fault
  /\ rules' = rules \ {r}
  /\ kept' = (kept /\ r.src # arg.src)
  /\ UNCHANGED <<pc, op, arg, rc, safe, alone, request, handed, callVars>>

-------------------------------------------------------------------------------
Calls == \E o \in Operations, a \in Arguments : Call(o, a)
Daemon == AddInvalid \/ AddRule \/ FlushRule \/ TalkSucceeds \/ TalkFails
Kernel == \E i \in Ids : KernelCarriesOut(i) \/ KernelRefuses(i)

Others == (\E r \in Foreign : ThirdPartyAdds(r)) \/ (\E r \in rules : ThirdPartyTakes(r))

Next == Calls \/ Daemon \/ Kernel \/ Others

Spec == Init /\ [][Next]_vars

-------------------------------------------------------------------------------
(* Properties. *)

(* change_rule is make-before-break: a source that has a rule when it is
   called has one ever after, whichever of its two requests is refused, lost
   or late, whatever other rules share the old priority and whatever third
   parties do to the rules of other sources. *)
SourceStaysCovered == op = "change" /\ safe /\ kept => Covered(arg.src)

(* A swap that returns 0 is complete: the source has a rule with the new
   priority, with the table that was asked for if a byte can name it, unless a
   third party took it; and the old priority names no rule of the family any
   more, if it named one and nobody added another. *)
SwapComplete ==
  pc = "idle" /\ op = "change" /\ rc = 0 /\ calls > 0 /\ arg.new # arg.old =>
    /\ kept => \E r \in rules :
         /\ r.prio = arg.new /\ r.src = arg.src
         /\ arg.table < ByteMod => r.table = arg.table
    /\ alone => Named(arg.old, Family(arg.src)) = {}
===============================================================================
