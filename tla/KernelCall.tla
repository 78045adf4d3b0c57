------------------------------ MODULE KernelCall ------------------------------
(***************************************************************************)
(* What the rest of the daemon relies on when it sends one request to the  *)
(* kernel with netlink_talk or netlink_send_dump and waits with            *)
(* netlink_read: an abstract remote call.                                  *)
(*                                                                         *)
(* Calls are made one at a time and numbered 1, 2, ...  The kernel decides *)
(* every request at most once, and may do so late, when the caller has     *)
(* given up.  A caller that is told "ok" knows that ITS request was        *)
(* carried out, one told "refused" that ITS request was refused, one told  *)
(* "failed" knows nothing.                                                 *)
(***************************************************************************)
EXTENDS Naturals

CONSTANT MaxCalls          \* bound: requests made in a behaviour

VARIABLES
  calls,                   \* the number of requests made so far
  busy,                    \* is the last one still waiting for its answer?
  fate,                    \* what the kernel decided about each request
  result                   \* what the last caller was told

callVars == <<calls, busy, fate, result>>

Ids == 1 .. MaxCalls

Verdicts == {"done", "refused"}

TypeOK ==
  /\ calls \in 0 .. MaxCalls
  /\ busy \in BOOLEAN
  /\ fate \in [Ids -> {"open"} \cup Verdicts]
  /\ result \in {"none", "ok", "refused", "failed"}

Init ==
  /\ calls = 0
  /\ busy = FALSE
  /\ fate = [i \in Ids |-> "open"]
  /\ result = "none"

(* A new caller, which has been told nothing yet. *)
Begin ==
  /\ ~busy
  /\ result' = "none"
  /\ UNCHANGED <<calls, busy, fate>>

(* A caller issues the next request. *)
Issue ==
  /\ ~busy
  /\ calls < MaxCalls
  /\ calls' = calls + 1
  /\ busy' = TRUE
  /\ UNCHANGED <<fate, result>>

(* The kernel decides a request that was issued, now or later. *)
Decide(i, v) ==
  /\ i <= calls
  /\ fate[i] = "open"
  /\ fate' = [fate EXCEPT ![i] = v]
  /\ UNCHANGED <<calls, busy, result>>

(* The caller is answered; only a verdict on its own request tells it more
   than "failed". *)
Answer(r) ==
  /\ busy
  /\ r = "ok" => fate[calls] = "done"
  /\ r = "refused" => fate[calls] = "refused"
  /\ busy' = FALSE
  /\ result' = r
  /\ UNCHANGED <<calls, fate>>

(* A caller gives up before it has issued anything: no socket. *)
GiveUp ==
  /\ ~busy
  /\ result' = "failed"
  /\ UNCHANGED <<calls, busy, fate>>

Next ==
  \/ Begin
  \/ Issue
  \/ \E i \in Ids, v \in Verdicts : Decide(i, v)
  \/ \E r \in {"ok", "refused", "failed"} : Answer(r)
  \/ GiveUp

Spec == Init /\ [][Next]_callVars
===============================================================================
