--------------------------- MODULE KernelRouteProofs ---------------------------
(***************************************************************************)
(* Theorems about KernelRoute, for any routes, arguments, foreign routes   *)
(* and kinds of kernel, and any number of requests and failures.           *)
(***************************************************************************)
EXTENDS KernelRoute, TLAPS

-------------------------------------------------------------------------------
(* The inductive invariant. *)

(* The two requests of a modification. *)
FlushOld == [type |-> "DEL", route |-> Old(arg)]
AddNew == [type |-> "NEW", route |-> New(arg)]

Shape ==
  /\ TypeOK /\ DOMAIN request = Ids
  /\ pc \in {"modify", "flush", "add"} => op = "MODIFY"
  /\ pc = "one" => op # "MODIFY"
  /\ busy => pc \in Inner /\ calls > start

(* The kernel decides what it has been handed, in that order. *)
InOrder ==
  \A i \in Ids : fate[i] # "open" =>
    i \in handed /\ \A j \in handed : j < i => fate[j] # "open"

(* What kernel_route sends is a route of its own, and no unreachable default
   is added. *)
OwnRoutes ==
  \A i \in Ids : request[i].type # "none" =>
    /\ request[i].route.proto = "babel"
    /\ request[i].type = "NEW" /\ request[i].route.type = "unreachable"
         => request[i].route.dest \notin Defaults

(* Which requests a modification has made. *)
Counted == op = "MODIFY" =>
  /\ start <= calls /\ calls <= start + 2
  /\ calls > start => request[start + 1] \in {FlushOld, AddNew}
  /\ calls = start + 2 => request[start + 1] = FlushOld /\ request[calls] = AddNew
  /\ pc = "modify" \/ (pc = "flush" /\ ~busy) => calls = start
  /\ pc = "flush" /\ busy => calls = start + 1 /\ request[calls] = FlushOld
  /\ pc = "add" /\ ~busy =>
       calls <= start + 1 /\ (calls > start => request[calls] = FlushOld)
  /\ pc = "add" /\ busy => request[calls] = AddNew

(* What the kernel's decisions about them mean: nothing that is decided later
   can undo it. *)
Adds(verdict) ==
  /\ op = "MODIFY" /\ calls > start
  /\ request[calls] = AddNew /\ fate[calls] = verdict
Added == Adds("done") => New(arg) \in fib
Refused == Adds("refused") /\ reason = "EEXIST" => Taken(New(arg))
Flushed ==
  /\ op = "MODIFY" /\ New(arg) # Old(arg) /\ calls > start
  /\ request[start + 1] = FlushOld /\ fate[start + 1] # "open"
  => Old(arg) \notin fib

(* What the result of a modification means. *)
Returned(c) == pc = "idle" /\ op = "MODIFY" /\ rc = c /\ Changed(arg)
Succeeded == Returned(0) =>
  Adds("done") \/ (Ignored(arg, arg.newhop) /\ calls <= start + 1)
Existed ==
  Returned(1) /\ result = "refused" => Adds("refused") /\ reason = "EEXIST"

IInv == /\ Shape /\ InOrder /\ OwnRoutes /\ Counted
        /\ Added /\ Refused /\ Flushed /\ Succeeded /\ Existed
        /\ ForeignRoutesUntouched /\ NoUnreachableDefault

-------------------------------------------------------------------------------
(* Operators. *)

(* A step that sends and decides nothing. *)
LEMMA SameDecisions ==
  ASSUME IInv, UNCHANGED <<op, arg, start, request, handed, reason, fib, calls, fate>>
  PROVE  /\ InOrder' /\ OwnRoutes' /\ Added' /\ Refused' /\ Flushed'
         /\ ForeignRoutesUntouched' /\ NoUnreachableDefault'
         /\ FlushOld' = FlushOld /\ AddNew' = AddNew
         /\ \A v : Adds(v)' = Adds(v)
  BY DEF IInv, InOrder, OwnRoutes, Added, Refused, Flushed, Taken, Adds, FlushOld,
     AddNew, ForeignRoutesUntouched, NoUnreachableDefault

(* A request for a route that is not an unreachable default. *)
LEMMA Encoded ==
  ASSUME NEW a, NEW t, NEW hop, ~Ignored(a, hop)
  PROVE  /\ Encode(a, t, hop).proto = "babel"
         /\ Encode(a, t, hop).type = "unreachable"
              => Encode(a, t, hop).dest \notin Defaults
  BY DEF Encode, Ignored

(* The old route of a modification names itself, and no other. *)
LEMMA NamesItself ==
  \A r : Names(Old(arg), r) <=> r = Old(arg)
<1>1. /\ Old(arg).proto = "babel"
      /\ [Old(arg) EXCEPT !.proto = "babel"] = Old(arg)
  BY DEF Old, Encode
<1> QED
  BY <1>1 DEF Names

(* Once the last addition has been decided, nothing is left to decide. *)
LEMMA LastDecided ==
  ASSUME IInv, NEW v \in {"done", "refused"}, Adds(v), NEW i \in Ids
  PROVE  ~NextUndecided(i)
<1>1. handed \subseteq 1 .. calls /\ calls \in Ids /\ i \in Nat
  <2>1. calls \in 0 .. MaxCalls /\ start \in 0 .. calls /\ handed \subseteq 1 .. calls
    BY DEF IInv, Shape, TypeOK, KC!TypeOK
  <2> QED BY <2>1, ConstantsAssumption DEF Adds, Ids
<1>2. fate[calls] # "open"
  BY DEF Adds
<1>3. \A j \in handed : j < calls => fate[j] # "open"
  BY <1>1, <1>2 DEF IInv, InOrder
<1> QED
  BY <1>1, <1>2, <1>3 DEF NextUndecided

-------------------------------------------------------------------------------
(* The daemon's steps. *)

(* kernel_route is entered: nothing of the table or of the requests moves. *)
LEMMA CallStep ==
  ASSUME IInv, NEW o \in Operations, NEW a \in Arguments, Call(o, a)
  PROVE  IInv'
<1>1. /\ ~busy /\ busy' = busy /\ result' = "none"
      /\ pc' = IF o = "MODIFY" THEN "modify" ELSE "one"
      /\ op' = o /\ arg' = a /\ start' = calls
      /\ UNCHANGED <<rc, errno, request, handed, reason, fib, faults, calls, fate>>
  BY DEF Call, KC!Begin
<1>2. calls \in Nat
  BY DEF IInv, Shape, TypeOK, KC!TypeOK
<1>3. Shape'
  <2>1. start' \in 0 .. calls'
    BY <1>1, <1>2
  <2> QED BY <1>1, <2>1 DEF IInv, Shape, TypeOK, KC!TypeOK, Inner
<1>4. Counted'
  BY <1>1, <1>2 DEF Counted
<1>5. Added' /\ Refused' /\ Flushed'
  BY <1>1, <1>2 DEF Added, Refused, Flushed, Adds
<1>6. Succeeded' /\ Existed'
  BY <1>1 DEF Succeeded, Existed, Returned
<1>7. InOrder' /\ OwnRoutes' /\ ForeignRoutesUntouched' /\ NoUnreachableDefault'
  BY <1>1 DEF IInv, InOrder, OwnRoutes, ForeignRoutesUntouched, NoUnreachableDefault
<1> QED
  BY <1>3, <1>4, <1>5, <1>6, <1>7 DEF IInv

(* What a call may return: 0 from the addition of a modification if it was
   done or the route is never sent, EEXIST if the kernel said so. *)
Justified(c, e) ==
  /\ pc = "modify" /\ c = 0 => ~Changed(arg)
  /\ pc = "add" /\ c = 0 => Adds("done") \/ (Ignored(arg, arg.newhop) /\ ~busy)
  /\ pc = "add" /\ e = "EEXIST" /\ result' = "refused" =>
       c = 0 \/ (Adds("refused") /\ reason = "EEXIST")

(* A netlink_talk returns: modify goes on from its flush to its add, and
   everything else ends the call with a value the verdict justifies. *)
LEMMA ReturnStep ==
  ASSUME IInv, pc # "idle", NEW c \in {-1, 0}, NEW e \in Errors, Return(c, e),
         UNCHANGED <<request, handed, reason, fib, calls, fate>>,
         busy' = FALSE, faults' \in 0 .. MaxFaults,
         result' \in {"none", "ok", "refused", "failed"},
         Justified(c, e)
  PROVE  IInv'
<1>1. /\ IF pc = "flush" THEN pc' = "add" /\ rc' = rc
         ELSE /\ pc' = "idle"
              /\ rc' = IF pc = "add" /\ c < 0 /\ e = "EEXIST" THEN 1 ELSE c
      /\ errno' = e /\ UNCHANGED <<op, arg, start>>
  BY DEF Return
<1>2. Shape'
  BY <1>1 DEF IInv, Shape, TypeOK, KC!TypeOK, Inner
<1>3. /\ InOrder' /\ OwnRoutes' /\ Added' /\ Refused' /\ Flushed'
      /\ ForeignRoutesUntouched' /\ NoUnreachableDefault'
      /\ FlushOld' = FlushOld /\ AddNew' = AddNew
      /\ \A v : Adds(v)' = Adds(v)
  BY <1>1, SameDecisions
<1>4. calls \in Nat /\ start \in Nat
  BY DEF IInv, Shape, TypeOK, KC!TypeOK
<1>5. pc \in {"modify", "one", "flush", "add"}
  BY DEF IInv, Shape, TypeOK, Inner
<1>6. Counted'
  BY <1>1, <1>3, <1>4 DEF IInv, Counted
<1>7. Succeeded'
  <2> SUFFICES ASSUME pc' = "idle", op = "MODIFY", rc' = 0, Changed(arg)
               PROVE  Adds("done") \/ (Ignored(arg, arg.newhop) /\ calls <= start + 1)
    BY <1>1, <1>3 DEF Succeeded, Returned
  <2>1. pc = "add" /\ c = 0
    BY <1>1, <1>5 DEF IInv, Shape, Justified
  <2> QED
    BY <2>1 DEF IInv, Counted, Justified
<1>8. Existed'
  <2> SUFFICES ASSUME pc' = "idle", op = "MODIFY", rc' = 1, result' = "refused"
               PROVE  Adds("refused") /\ reason = "EEXIST"
    BY <1>1, <1>3 DEF Existed, Returned
  <2> QED
    BY <1>1 DEF Justified
<1> QED
  BY <1>2, <1>3, <1>6, <1>7, <1>8 DEF IInv

(* The steps of kernel_route that send nothing. *)
LEMMA CheckStep ==
  ASSUME IInv, ReopenFails \/ BadFamily \/ ModifyNothing \/ IgnoreUnreachableDefault
  PROVE  IInv'
<1>1. /\ ~busy /\ busy' = FALSE /\ pc # "idle"
      /\ UNCHANGED <<request, handed, reason, fib, calls, fate>>
      /\ Fault \/ faults' = faults
      /\ result' = result \/ result' = "failed"
  BY DEF ReopenFails, BadFamily, ModifyNothing, IgnoreUnreachableDefault,
     Checking, KC!GiveUp, IInv, Shape, TypeOK, KC!TypeOK, callVars
<1>2. faults' \in 0 .. MaxFaults
  BY <1>1, ConstantsAssumption DEF Fault, IInv, Shape, TypeOK
<1>3. result' \in {"none", "ok", "refused", "failed"} /\ errno \in Errors
  BY <1>1 DEF IInv, Shape, TypeOK, KC!TypeOK
<1>4. CASE ReopenFails
  <2>1. Return(-1, "EIO") /\ "EIO" \in Errors
    BY <1>4 DEF ReopenFails, Errors
  <2>2. Justified(-1, "EIO")
    BY DEF Justified
  <2> QED
    BY <1>1, <1>2, <1>3, <2>1, <2>2, ReturnStep
<1>5. CASE BadFamily
  <2>1. Return(-1, "EINVAL") /\ "EINVAL" \in Errors
    BY <1>5 DEF BadFamily, Errors
  <2>2. Justified(-1, "EINVAL")
    BY DEF Justified
  <2> QED
    BY <1>1, <1>2, <1>3, <2>1, <2>2, ReturnStep
<1>6. CASE ModifyNothing
  <2>1. Return(0, errno) /\ Justified(0, errno)
    BY <1>6 DEF ModifyNothing, Justified
  <2> QED
    BY <1>1, <1>2, <1>3, <2>1, ReturnStep
<1>7. CASE IgnoreUnreachableDefault
  <2>1. /\ Return(0, errno) /\ pc # "modify"
        /\ pc = "add" => Ignored(arg, arg.newhop)
    BY <1>7 DEF IgnoreUnreachableDefault, InnerHop, Inner
  <2>2. Justified(0, errno)
    BY <1>1, <2>1 DEF Justified
  <2> QED
    BY <1>1, <1>2, <1>3, <2>1, <2>2, ReturnStep
<1> QED
  BY <1>4, <1>5, <1>6, <1>7

(* netlink_talk returns. *)
LEMMA AnswerStep ==
  ASSUME IInv, TalkSucceeds \/ TalkRefused \/ TalkFails
  PROVE  IInv'
<1>1. /\ busy /\ busy' = FALSE /\ pc \in Inner /\ calls > start
      /\ UNCHANGED <<request, handed, reason, fib, calls, fate>>
      /\ Fault \/ faults' = faults
  BY DEF TalkSucceeds, TalkRefused, TalkFails, KC!Answer, IInv, Shape
<1>2. faults' \in 0 .. MaxFaults
  BY <1>1, ConstantsAssumption DEF Fault, IInv, Shape, TypeOK
<1>3. errno \in Errors /\ reason \in Errors /\ {"EAGAIN", "EIO"} \subseteq Errors
  BY DEF IInv, Shape, TypeOK, Errors
<1>4. pc = "add" => \A v : fate[calls] = v => Adds(v)
  BY <1>1 DEF IInv, Shape, Counted, Adds
<1>5. pc # "idle" /\ pc # "modify"
  BY <1>1 DEF Inner
<1>6. CASE TalkSucceeds
  <2>1. Return(0, errno) /\ result' = "ok" /\ fate[calls] = "done"
    BY <1>6 DEF TalkSucceeds, KC!Answer
  <2>2. Justified(0, errno)
    BY <1>4, <1>5, <2>1 DEF Justified
  <2> QED
    BY <1>1, <1>2, <1>3, <1>5, <2>1, <2>2, ReturnStep
<1>7. CASE TalkRefused
  <2>1. Return(-1, reason) /\ result' = "refused" /\ fate[calls] = "refused"
    BY <1>7 DEF TalkRefused, KC!Answer
  <2>2. Justified(-1, reason)
    BY <1>4, <1>5, <2>1 DEF Justified
  <2> QED
    BY <1>1, <1>2, <1>3, <1>5, <2>1, <2>2, ReturnStep
<1>8. CASE TalkFails
  <2>1. PICK e \in {errno, "EAGAIN", "EIO"} : Return(-1, e)
    BY <1>8 DEF TalkFails
  <2>2. result' = "failed"
    BY <1>8 DEF TalkFails, KC!Answer
  <2>3. Justified(-1, e)
    BY <2>2 DEF Justified
  <2> QED
    BY <1>1, <1>2, <1>3, <1>5, <2>1, <2>2, <2>3, ReturnStep
<1> QED
  BY <1>6, <1>7, <1>8

(* kernel_route turns a modification into a flush and an add. *)
LEMMA ModifyStartsStep ==
  ASSUME IInv, ModifyStarts
  PROVE  IInv'
<1>1. /\ ~busy /\ busy' = busy /\ pc = "modify" /\ pc' = "flush"
      /\ UNCHANGED <<op, arg, start, rc, errno, request, handed, reason, fib, faults,
                     calls, fate, result>>
  BY DEF ModifyStarts, Checking, callVars
<1>2. Shape'
  BY <1>1 DEF IInv, Shape, TypeOK, KC!TypeOK, Inner
<1>3. Counted' /\ Succeeded' /\ Existed'
  BY <1>1, SameDecisions DEF IInv, Counted, Succeeded, Existed, Returned
<1> QED
  BY <1>1, <1>2, <1>3, SameDecisions DEF IInv

(* A request is sent: whatever its fate, it has none yet. *)
LEMMA TalkStep ==
  ASSUME IInv, Talk
  PROVE  IInv'
<1> DEFINE r == [type |-> InnerType, route |-> Encode(arg, InnerTable, InnerHop)]
<1>1. /\ ~busy /\ busy' = TRUE /\ calls' = calls + 1 /\ calls < MaxCalls /\ pc \in Inner
      /\ ~Ignored(arg, InnerHop) /\ request' = [request EXCEPT ![calls'] = r]
      /\ UNCHANGED <<pc, op, arg, start, rc, errno, reason, fib, fate, result>>
      /\ handed' \subseteq handed \cup {calls'} /\ handed \subseteq handed'
      /\ Fault \/ faults' = faults
  BY DEF Talk, Checking, KC!Issue
<1>2. /\ calls \in Nat /\ start \in Nat /\ start <= calls /\ handed \subseteq 1 .. calls
      /\ MaxCalls \in Nat
  BY ConstantsAssumption DEF IInv, Shape, TypeOK, KC!TypeOK
<1>3. calls' \in Ids /\ calls' \notin handed /\ fate[calls'] = "open"
  BY <1>1, <1>2 DEF IInv, InOrder, Ids
<1>4. /\ request'[calls'] = r /\ DOMAIN request' = Ids
      /\ \A i \in Ids \ {calls'} : request'[i] = request[i]
  BY <1>1, <1>3 DEF IInv, Shape
<1>5. r.type \in {"NEW", "DEL"} /\ r.route = Encode(arg, InnerTable, InnerHop)
  BY DEF InnerType
<1>6. Shape'
  <2>1. faults' \in 0 .. MaxFaults
    BY <1>1, ConstantsAssumption DEF Fault, IInv, Shape, TypeOK
  <2>2. handed' \subseteq 1 .. calls' /\ start' \in 0 .. calls' /\ calls' \in 0 .. MaxCalls
    BY <1>1, <1>2
  <2>3. \A i \in Ids : request'[i].type \in {"none", "NEW", "DEL"}
    BY <1>4, <1>5 DEF IInv, Shape, TypeOK
  <2>4. TypeOK'
    BY <1>1, <2>1, <2>2, <2>3 DEF IInv, Shape, TypeOK, KC!TypeOK
  <2> QED
    BY <1>1, <1>2, <1>4, <2>4 DEF IInv, Shape
<1>7. InOrder'
  <2> SUFFICES ASSUME NEW i \in Ids, fate[i] # "open"
               PROVE  i \in handed' /\ \A j \in handed' : j < i => fate[j] # "open"
    BY <1>1 DEF InOrder
  <2>1. i \in handed /\ \A j \in handed : j < i => fate[j] # "open"
    BY DEF IInv, InOrder
  <2>2. i \in Nat /\ i <= calls
    BY <1>2, <2>1
  <2> QED
    BY <1>1, <1>2, <2>1, <2>2
<1>8. OwnRoutes'
  BY <1>1, <1>4, <1>5, Encoded DEF IInv, OwnRoutes
<1> HIDE DEF r
<1>9. Counted'
  <2> SUFFICES ASSUME op = "MODIFY" PROVE Counted'
    BY <1>1 DEF Counted
  <2>1. FlushOld' = FlushOld /\ AddNew' = AddNew
    BY <1>1 DEF FlushOld, AddNew
  <2>2. CASE pc = "flush"
    <3>1. r = FlushOld
      BY <2>2 DEF r, InnerType, InnerTable, InnerHop, FlushOld, Old
    <3>2. calls = start
      BY <1>1, <2>2 DEF IInv, Counted
    <3> QED
      BY <1>1, <1>2, <1>4, <2>1, <2>2, <3>1, <3>2 DEF Counted
  <2>3. CASE pc = "add"
    <3>1. r = AddNew
      BY <2>3 DEF r, InnerType, InnerTable, InnerHop, AddNew, New
    <3>2. calls <= start + 1 /\ (calls > start => request[calls] = FlushOld)
      BY <1>1, <2>3 DEF IInv, Counted
    <3>3. calls = start \/ (calls = start + 1 /\ request'[start + 1] = FlushOld)
      BY <1>1, <1>2, <1>3, <1>4, <3>2 DEF Ids
    <3> QED
      BY <1>1, <1>2, <1>4, <2>1, <2>3, <3>1, <3>3 DEF Counted
  <2> QED
    BY <1>1, <2>2, <2>3 DEF IInv, Shape, Inner
<1>10. Added' /\ Refused'
  BY <1>1, <1>3 DEF Added, Refused, Adds
<1>11. Flushed'
  <2> SUFFICES ASSUME op = "MODIFY", New(arg) # Old(arg), request'[start + 1] = FlushOld,
                      fate[start + 1] # "open", calls' > start
               PROVE  Old(arg) \notin fib
    BY <1>1 DEF Flushed, FlushOld
  <2>1. calls > start
    BY <1>1, <1>2, <1>3
  <2>2. request[start + 1] = FlushOld
    BY <1>1, <1>2, <1>4, <2>1 DEF Ids
  <2> QED
    BY <2>1, <2>2 DEF IInv, Flushed
<1>12. Succeeded' /\ Existed'
  BY <1>1 DEF Succeeded, Existed, Returned, Inner
<1>13. ForeignRoutesUntouched' /\ NoUnreachableDefault'
  BY <1>1 DEF IInv, ForeignRoutesUntouched, NoUnreachableDefault
<1> QED
  BY <1>6, <1>7, <1>8, <1>9, <1>10, <1>11, <1>12, <1>13 DEF IInv

-------------------------------------------------------------------------------
(* The kernel's steps. *)

(* A decision is about the first request that is outstanding. *)
LEMMA DecideStep ==
  ASSUME IInv, NEW i \in Ids, NextUndecided(i), NEW v \in {"done", "refused"},
         KC!Decide(i, v), reason' \in Errors,
         UNCHANGED <<pc, op, arg, start, rc, errno, request, handed, faults>>
  PROVE  /\ i \in 1 .. calls /\ i \in handed /\ fate[i] = "open" /\ fate'[i] = v
         /\ \A j \in Ids \ {i} : fate'[j] = fate[j]
         /\ \A j \in Ids : j > i => fate[j] = "open"
         /\ UNCHANGED <<calls, busy, result>>
         /\ \A w \in {"done", "refused"} : ~Adds(w)
         /\ Shape' /\ InOrder' /\ OwnRoutes' /\ Counted' /\ Succeeded' /\ Existed'
<1>1. /\ i \in handed /\ fate[i] = "open" /\ fate' = [fate EXCEPT ![i] = v]
      /\ UNCHANGED <<calls, busy, result>>
      /\ \A j \in handed : j < i => fate[j] # "open"
  BY DEF NextUndecided, KC!Decide
<1>2. /\ fate \in [Ids -> {"open", "done", "refused"}] /\ handed \subseteq 1 .. calls
      /\ calls \in Nat
  BY DEF IInv, Shape, TypeOK, KC!TypeOK, KC!Ids, Ids, KC!Verdicts
<1>3. fate'[i] = v /\ \A j \in Ids \ {i} : fate'[j] = fate[j]
  BY <1>1, <1>2
<1>4. fate' \in [Ids -> {"open", "done", "refused"}]
  BY <1>1, <1>2
<1>5. \A j \in Ids : j > i => fate[j] = "open"
  BY <1>1 DEF IInv, InOrder
<1>6. Shape'
  <2>1. TypeOK'
    BY <1>1, <1>4 DEF IInv, Shape, TypeOK, KC!TypeOK, KC!Ids, Ids, KC!Verdicts
  <2> QED BY <1>1, <2>1 DEF IInv, Shape
<1>7. InOrder'
  BY <1>1, <1>2, <1>3 DEF IInv, InOrder, Ids
<1>8. OwnRoutes'
  BY DEF IInv, OwnRoutes
<1>9. Counted'
  BY <1>1 DEF IInv, Counted, FlushOld, AddNew
<1>10. \A w \in {"done", "refused"} : ~Adds(w)
  BY LastDecided
<1>11. Succeeded'
  BY <1>1, <1>10 DEF IInv, Succeeded, Returned
<1>12. Existed'
  BY <1>1, <1>10 DEF IInv, Existed, Returned
<1> QED
  BY <1>1, <1>2, <1>3, <1>5, <1>6, <1>7, <1>8, <1>9, <1>10, <1>11, <1>12

(* The kernel adds a route. *)
LEMMA AddedStep ==
  ASSUME IInv, NEW i \in Ids, NextUndecided(i), KC!Decide(i, "done"),
         UNCHANGED <<pc, op, arg, start, rc, errno, request, handed, reason, faults>>,
         request[i].type = "NEW", fib' = fib \cup {request[i].route}
  PROVE  IInv'
<1>1. /\ i \in 1 .. calls /\ fate[i] = "open" /\ fate'[i] = "done"
      /\ \A j \in Ids \ {i} : fate'[j] = fate[j]
      /\ \A j \in Ids : j > i => fate[j] = "open"
      /\ UNCHANGED <<calls, busy, result>>
      /\ ~Adds("done") /\ ~Adds("refused")
      /\ Shape' /\ InOrder' /\ OwnRoutes' /\ Counted' /\ Succeeded' /\ Existed'
  BY DecideStep DEF IInv, Shape, TypeOK
<1>2. calls \in Nat /\ start \in Nat /\ start <= calls /\ calls <= MaxCalls /\ MaxCalls \in Nat
  BY ConstantsAssumption DEF IInv, Shape, TypeOK, KC!TypeOK
<1>3. calls \in Ids
  BY <1>1, <1>2 DEF Ids
<1>4. request[i] = AddNew => request[i].route = New(arg)
  BY DEF AddNew
<1>5. Added' /\ Refused'
  BY <1>1, <1>3, <1>4 DEF Added, Refused, Adds, AddNew
<1>6. Flushed'
  <2> SUFFICES ASSUME op = "MODIFY", New(arg) # Old(arg), calls > start,
                      request[start + 1] = FlushOld, fate'[start + 1] # "open"
               PROVE  Old(arg) \notin fib'
    BY <1>1 DEF Flushed, FlushOld
  <2>1. start + 1 \in Ids /\ i # start + 1
    BY <1>2 DEF Ids, FlushOld
  <2>2. fate[start + 1] # "open" /\ i > start + 1
    BY <1>1, <1>2, <2>1 DEF Ids
  <2>3. request[i] = AddNew
    BY <1>1, <1>2, <2>2 DEF IInv, Counted
  <2>4. Old(arg) \notin fib
    BY <2>2 DEF IInv, Flushed
  <2> QED
    BY <1>4, <2>3, <2>4
<1>7. request[i].route.proto = "babel"
  BY DEF IInv, OwnRoutes
<1>8. ForeignRoutesUntouched'
  BY <1>7 DEF IInv, ForeignRoutesUntouched
<1>9. NoUnreachableDefault'
  BY DEF IInv, OwnRoutes, NoUnreachableDefault
<1> QED
  BY <1>1, <1>5, <1>6, <1>8, <1>9 DEF IInv

(* The kernel removes a route. *)
LEMMA RemovedStep ==
  ASSUME IInv, NEW i \in Ids, NextUndecided(i), KC!Decide(i, "done"),
         UNCHANGED <<pc, op, arg, start, rc, errno, request, handed, reason, faults>>,
         request[i].type = "DEL",
         NEW r \in fib, Names(request[i].route, r), fib' = fib \ {r}
  PROVE  IInv'
<1>1. /\ i \in 1 .. calls /\ fate[i] = "open" /\ fate'[i] = "done"
      /\ \A j \in Ids \ {i} : fate'[j] = fate[j]
      /\ UNCHANGED <<calls, busy, result>>
      /\ ~Adds("done") /\ ~Adds("refused")
      /\ Shape' /\ InOrder' /\ OwnRoutes' /\ Counted' /\ Succeeded' /\ Existed'
  BY DecideStep DEF IInv, Shape, TypeOK
<1>2. calls \in Nat /\ start \in Nat /\ start <= calls /\ calls <= MaxCalls /\ MaxCalls \in Nat
  BY ConstantsAssumption DEF IInv, Shape, TypeOK, KC!TypeOK
<1>3. calls \in Ids
  BY <1>1, <1>2 DEF Ids
<1>4. Added' /\ Refused'
  BY <1>1, <1>3 DEF Added, Refused, Adds, AddNew
<1>5. Flushed'
  <2> SUFFICES ASSUME op = "MODIFY", New(arg) # Old(arg), calls > start,
                      request[start + 1] = FlushOld, fate'[start + 1] # "open"
               PROVE  Old(arg) \notin fib'
    BY <1>1 DEF Flushed, FlushOld
  <2>1. CASE i = start + 1
    <3>1. request[i].route = Old(arg)
      BY <2>1 DEF FlushOld
    <3> QED BY <3>1, NamesItself
  <2>2. CASE i # start + 1
    <3>1. start + 1 \in Ids
      BY <1>2 DEF Ids
    <3> QED BY <1>1, <2>2, <3>1 DEF IInv, Flushed
  <2> QED BY <2>1, <2>2
<1>6. r.proto = "babel"
  BY DEF IInv, OwnRoutes, Names
<1>7. ForeignRoutesUntouched'
  BY <1>6 DEF IInv, ForeignRoutesUntouched
<1>8. NoUnreachableDefault'
  BY DEF IInv, NoUnreachableDefault
<1> QED
  BY <1>1, <1>4, <1>5, <1>7, <1>8 DEF IInv

(* The kernel refuses the next request and leaves its table alone. *)
LEMMA KernelRefusesStep ==
  ASSUME IInv, NEW i \in Ids, KernelRefuses(i)
  PROVE  IInv'
<1>1. /\ NextUndecided(i) /\ KC!Decide(i, "refused") /\ reason' \in Errors
      /\ UNCHANGED <<pc, op, arg, start, rc, errno, request, handed, fib, faults>>
  BY DEF KernelRefuses, Errors
<1>2. /\ i \in 1 .. calls /\ fate[i] = "open" /\ fate'[i] = "refused"
      /\ \A j \in Ids \ {i} : fate'[j] = fate[j]
      /\ UNCHANGED <<calls, busy, result>>
      /\ ~Adds("done") /\ ~Adds("refused")
      /\ Shape' /\ InOrder' /\ OwnRoutes' /\ Counted' /\ Succeeded' /\ Existed'
  BY <1>1, DecideStep
<1>3. calls \in Nat /\ start \in Nat /\ start <= calls /\ calls <= MaxCalls /\ MaxCalls \in Nat
  BY ConstantsAssumption DEF IInv, Shape, TypeOK, KC!TypeOK
<1>4. calls \in Ids
  BY <1>2, <1>3 DEF Ids
<1>5. Added'
  BY <1>1, <1>2, <1>4 DEF Added, Adds, AddNew
<1>6. Refused'
  <2> SUFFICES ASSUME Adds("refused")', reason' = "EEXIST" PROVE Taken(New(arg))
    BY <1>1 DEF Refused, Taken
  <2>1. i = calls /\ request[i] = AddNew
    BY <1>1, <1>2, <1>4 DEF Adds, AddNew
  <2> QED
    BY <2>1 DEF KernelRefuses, AddNew
<1>7. Flushed'
  <2> SUFFICES ASSUME op = "MODIFY", New(arg) # Old(arg), calls > start,
                      request[start + 1] = FlushOld, fate'[start + 1] # "open"
               PROVE  Old(arg) \notin fib
    BY <1>1, <1>2 DEF Flushed, FlushOld
  <2>1. CASE i = start + 1
    <3>1. request[i].type = "DEL" /\ request[i].route = Old(arg)
      BY <2>1 DEF FlushOld
    <3>2. \A r \in fib : ~Names(Old(arg), r)
      BY <3>1 DEF KernelRefuses
    <3> QED BY <3>2, NamesItself
  <2>2. CASE i # start + 1
    <3>1. start + 1 \in Ids
      BY <1>3 DEF Ids
    <3> QED BY <1>2, <2>2, <3>1 DEF IInv, Flushed
  <2> QED BY <2>1, <2>2
<1>8. ForeignRoutesUntouched' /\ NoUnreachableDefault'
  BY <1>1 DEF IInv, ForeignRoutesUntouched, NoUnreachableDefault
<1> QED
  BY <1>2, <1>5, <1>6, <1>7, <1>8 DEF IInv

-------------------------------------------------------------------------------
(* The invariant holds in every state. *)
THEOREM Invariance == Spec => []IInv
<1>1. Init => IInv
  <2> SUFFICES ASSUME Init PROVE IInv
    OBVIOUS
  <2>1. KC!TypeOK /\ \A i \in Ids : fate[i] = "open"
    <3>1. calls \in 0 .. MaxCalls
      BY ConstantsAssumption DEF Init, KC!Init
    <3> QED BY <3>1 DEF Init, KC!Init, KC!TypeOK, KC!Ids, Ids
  <2>2. TypeOK
    <3>1. (CHOOSE a \in Arguments : TRUE) \in Arguments /\ faults \in 0 .. MaxFaults
      BY ConstantsAssumption DEF Init
    <3>2. start \in 0 .. calls
      BY DEF Init, KC!Init
    <3> QED BY <2>1, <3>1, <3>2 DEF Init, TypeOK, Operations, Errors
  <2>3. Shape /\ InOrder /\ OwnRoutes
    BY <2>1, <2>2 DEF Init, KC!Init, Shape, InOrder, OwnRoutes
  <2>4. Counted /\ Added /\ Refused /\ Flushed /\ Succeeded /\ Existed
    BY DEF Init, KC!Init, Counted, Added, Refused, Flushed, Succeeded, Existed, Adds,
       Returned
  <2>5. ForeignRoutesUntouched /\ NoUnreachableDefault
    BY ConstantsAssumption DEF Init, ForeignRoutesUntouched, NoUnreachableDefault
  <2> QED
    BY <2>3, <2>4, <2>5 DEF IInv
<1>2. IInv /\ [Next]_vars => IInv'
  <2> SUFFICES ASSUME IInv, [Next]_vars PROVE IInv'
    OBVIOUS
  <2>1. CASE Calls
    BY <2>1, CallStep DEF Calls
  <2>2. CASE Daemon
    BY <2>2, CheckStep, ModifyStartsStep, TalkStep, AnswerStep DEF Daemon
  <2>3. ASSUME NEW i \in Ids, KernelCarriesOut(i) PROVE IInv'
    BY <2>3, AddedStep, RemovedStep DEF KernelCarriesOut
  <2>4. CASE UNCHANGED vars
    <3>1. Shape'
      BY <2>4 DEF IInv, Shape, TypeOK, KC!TypeOK, vars, callVars
    <3>2. Counted' /\ Succeeded' /\ Existed'
      BY <2>4, SameDecisions DEF vars, callVars, IInv, Counted, Succeeded, Existed,
         Returned
    <3> QED BY <2>4, <3>1, <3>2, SameDecisions DEF IInv, vars, callVars
  <2> QED
    BY <2>1, <2>2, <2>3, <2>4, KernelRefusesStep DEF Next, Kernel
<1> QED
  BY <1>1, <1>2, PTL DEF Spec

(* The variables of kernel_route keep their types: in particular it returns
   -1, 0 or 1, every error is one it distinguishes, and the kernel has taken
   only requests that were made. *)
THEOREM TypeCorrect == Spec => []TypeOK
<1>1. IInv => TypeOK
  BY DEF IInv, Shape
<1> QED
  BY <1>1, Invariance, PTL

(* kernel_route never touches a route of another protocol. *)
THEOREM ForeignRoutesStay == Spec => []ForeignRoutesUntouched
<1>1. IInv => ForeignRoutesUntouched
  BY DEF IInv
<1> QED
  BY <1>1, Invariance, PTL

(* No path through kernel_route's ADD and MODIFY installs an unreachable
   default route, also when its requests are carried out late. *)
THEOREM NeverUnreachableDefault == Spec => []NoUnreachableDefault
<1>1. IInv => NoUnreachableDefault
  BY DEF IInv
<1> QED
  BY <1>1, Invariance, PTL

(* A MODIFY of kernel_route that returns 0 has installed the new route,
   whatever became of its flush and of requests given up before. *)
THEOREM ModificationsInstall == Spec => []ModifyInstalls
<1>1. IInv => ModifyInstalls
  BY DEF IInv, Succeeded, Added, Returned, Modified, Changed, ModifyInstalls
<1> QED
  BY <1>1, Invariance, PTL

(* It has removed the old route, if its flush reached the kernel. *)
THEOREM ModificationsReplace == Spec => []ModifyReplaces
<1>1. IInv => ModifyReplaces
  <2> SUFFICES ASSUME IInv, Modified(0), FlushHandedOver, New(arg) # Old(arg)
               PROVE  Old(arg) \notin fib
    BY DEF ModifyReplaces
  <2>1. /\ calls \in 0 .. MaxCalls /\ start \in 0 .. calls /\ MaxCalls \in Nat
        /\ calls = start + 2 /\ start + 1 \in handed
    BY ConstantsAssumption DEF IInv, Shape, TypeOK, KC!TypeOK, FlushHandedOver
  <2>2. op = "MODIFY" /\ request[start + 1] = FlushOld
    BY <2>1 DEF Modified, IInv, Counted
  <2>3. Adds("done")
    BY <2>1 DEF Modified, IInv, Succeeded, Returned, Changed
  <2>4. calls \in Ids /\ start + 1 < calls
    BY <2>1 DEF Ids
  <2>5. fate[start + 1] # "open"
    BY <2>1, <2>3, <2>4 DEF IInv, InOrder, Adds
  <2> QED
    BY <2>1, <2>2, <2>5 DEF IInv, Flushed
<1> QED
  BY <1>1, Invariance, PTL

(* A MODIFY that returns 1 after an answer of the kernel is right that a route
   with the new one's key is there. *)
THEOREM ExistingRoutesExist == Spec => []ExistsIsTrue
<1>1. IInv => ExistsIsTrue
  BY DEF IInv, Existed, Refused, Returned, Modified, Changed, ExistsIsTrue
<1> QED
  BY <1>1, Invariance, PTL
===============================================================================
