------------------------------- MODULE SeqnoArith -------------------------------
(***************************************************************************)
(* The sequence numbers of util.h: unsigned shorts that go round.  Two     *)
(* nodes count with seqno_plus; seqno_compare and seqno_minus see only     *)
(* what is left of the counts in 16 bits.                                  *)
(***************************************************************************)
EXTENDS Integers

CONSTANTS
  Starts,  \* the numbers to begin with
  Steps,   \* what is added to a number in one step, an int
  MaxCount \* bound: of the counts

ASSUME ConstantsAssumption ==
  /\ \A s \in Starts : s \in Nat /\ s < 65536
  /\ Steps \subseteq Int /\ MaxCount \in Nat

VARIABLES
  s1, s2, \* the numbers
  n1, n2  \* history: the counts they stand for

vars == <<s1, s2, n1, n2>>

Mod == 65536
Half == 32768

(* (short)(... & 0xFFFF) *)
AsShort(n) == IF n % Mod >= Half THEN (n % Mod) - Mod ELSE n % Mod

(* Mutant of seqno_compare: an order of plain numbers. *)
seqno_comparePlain(x, y) == IF x = y THEN 0 ELSE IF y < x THEN 1 ELSE -1
seqno_compare(x, y) ==
  IF x = y THEN 0 ELSE IF ((y - x) \div Half) % 2 = 1 THEN 1 ELSE -1

(* Mutant of seqno_minus: without the cast to short. *)
seqno_minusUnsigned(x, y) == (x - y) % Mod
seqno_minus(x, y) == AsShort(x - y)

seqno_plus(s, plus) == (s + plus) % Mod

Init == s1 \in Starts /\ s2 \in Starts /\ n1 = s1 /\ n2 = s2

Within(n) == -MaxCount <= n /\ n <= MaxCount

Count1 ==
  \E plus \in Steps :
    /\ Within(n1 + plus)
    /\ n1' = n1 + plus /\ s1' = seqno_plus(s1, plus)
    /\ UNCHANGED <<n2, s2>>

Count2 ==
  \E plus \in Steps :
    /\ Within(n2 + plus)
    /\ n2' = n2 + plus /\ s2' = seqno_plus(s2, plus)
    /\ UNCHANGED <<n1, s1>>

Next == Count1 \/ Count2

Spec == Init /\ [][Next]_vars

-------------------------------------------------------------------------------
(* Properties. *)

(* The numbers are unsigned shorts, also after a count downwards. *)
TypeOK ==
  s1 \in Nat /\ s1 < Mod /\ s2 \in Nat /\ s2 < Mod /\ {n1, n2} \subseteq Int

(* seqno_compare tells which count is ahead, however often the numbers have
   gone round, as long as the counts are less than half a turn apart.  (At
   exactly half a turn each is ahead of the other.) *)
Sign(n) == IF n = 0 THEN 0 ELSE IF n > 0 THEN 1 ELSE -1
CompareIsOrder ==
  -Half < n1 - n2 /\ n1 - n2 < Half => seqno_compare(s1, s2) = Sign(n1 - n2)

(* seqno_minus tells by how much, and adding the difference to the one
   behind gives the one ahead. *)
MinusIsDistance ==
  /\ -Half <= n1 - n2 /\ n1 - n2 < Half => seqno_minus(s1, s2) = n1 - n2
  /\ seqno_plus(s2, seqno_minus(s1, s2)) = s1
===============================================================================
