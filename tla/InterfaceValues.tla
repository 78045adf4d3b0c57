---------------------------- MODULE InterfaceValues ----------------------------
(***************************************************************************)
(* Two conversions of kernel_netlink.c: the channel of a wireless          *)
(* interface from the frequency that the kernel reports, as a mantissa and *)
(* an exponent of ten (freq_to_chan), and its EUI-64 from its hardware     *)
(* address (if_eui64).  A state is one query; the drivers are external.    *)
(***************************************************************************)
EXTENDS Integers, Sequences

CONSTANTS
  Frequencies, \* what drivers report: [m, e]
  HwAddrs,     \* hardware addresses: [type, bytes]
  IntMax       \* the largest int: 2^31 - 1

VARIABLES
  query,   \* the last query
  answer,  \* what it returned; -1 is an error
  known    \* history: the hardware addresses whose EUI-64 has been told since
           \* the last question for a channel

vars == <<query, answer, known>>

Nothing == [kind |-> "none"]
Init == query = Nothing /\ answer = -1 /\ known = {}

-------------------------------------------------------------------------------
(* C's division, which truncates. *)
Quotient(a, b) == IF a >= 0 THEN a \div b ELSE 0 - ((0 - a) \div b)

Mega(e) == CASE e <= 0 -> 1000000 [] e = 1 -> 100000 [] e = 2 -> 10000
             [] e = 3 -> 1000 [] e = 4 -> 100 [] e = 5 -> 10 [] e = 6 -> 1

(* The number of steps of 5 MHz from a frequency in MHz, to the nearest. *)
(* Mutant of StepsFrom: without rounding. *)
StepsFromBelow(mhz, m, e) == Quotient(m - mhz * Mega(e), 5 * Mega(e))
StepsFrom(mhz, m, e) ==
  Quotient(m - mhz * Mega(e) + Quotient(5 * Mega(e), 2), 5 * Mega(e))

(* With an exponent of 0 or less, 2412 * mega does not fit into an int. *)
Overflows(e) == Mega(e) > IntMax \div 2412

(* The outcomes of freq_to_chan. *)
freq_to_chan(m, e) ==
  LET c24 == 1 + StepsFrom(2412, m, e)
      c5 == 36 + StepsFrom(5180, m, e)
  IN  IF e = 0 /\ m > 0 /\ m < 254 THEN {m}
      ELSE IF e > 6 THEN {-1}
      ELSE IF Overflows(e) THEN {-1} \cup 1 .. 14 \cup 34 .. 165
      ELSE IF c24 \in 1 .. 13 THEN {c24}
      ELSE IF c24 >= 14 /\ m < 2484 * Mega(e) + Quotient(5 * Mega(e), 2) THEN {14}
      ELSE IF c5 \in 34 .. 165 THEN {c5} ELSE {-1}

(* kernel_interface_channel, whose ioctl may fail. *)
AskChannel(f) ==
  /\ query' = [kind |-> "channel", m |-> f.m, e |-> f.e]
  /\ answer' \in freq_to_chan(f.m, f.e)
  /\ known' = {}

IoctlFails ==
  query' = Nothing /\ answer' = -1 /\ known' = {}

-------------------------------------------------------------------------------
(* if_eui64 *)

Bit(byte, n) == (byte \div n) % 2
Null(bytes) == \A n \in DOMAIN bytes : bytes[n] = 0
Flip2(byte) == IF Bit(byte, 2) = 1 THEN byte - 2 ELSE byte + 2

(* The null address, group addresses and local ones are refused. *)
Refused(hw) ==
  \/ hw.type \notin {"ether", "eui64"}
  \/ Null(hw.bytes) \/ Bit(hw.bytes[1], 1) = 1 \/ Bit(hw.bytes[1], 2) = 1

(* Mutant of Eui: the second half is copied from the start. *)
EuiHalf(hw) ==
  LET b == hw.bytes
      wide == IF hw.type = "ether"
              THEN SubSeq(b, 1, 3) \o <<255, 254>> \o SubSeq(b, 1, 3) ELSE b
  IN  [wide EXCEPT ![1] = Flip2(@)]
Eui(hw) ==
  LET b == hw.bytes
      wide == IF hw.type = "ether"
              THEN SubSeq(b, 1, 3) \o <<255, 254>> \o SubSeq(b, 4, 6) ELSE b
  IN  [wide EXCEPT ![1] = Flip2(@)]

AskEui(hw) ==
  /\ query' = Nothing /\ answer' = -1
  /\ known' = IF Refused(hw) THEN known
              ELSE {k \in known : k.hw # hw} \cup {[hw |-> hw, eui |-> Eui(hw)]}

Next ==
  \/ query = Nothing /\ \E f \in Frequencies : AskChannel(f)
  \/ IoctlFails
  \/ \E hw \in HwAddrs : AskEui(hw)

Spec == Init /\ [][Next]_vars

-------------------------------------------------------------------------------
(* Properties. *)

(* Where the channels are, in MHz: "Channels 1 through 13 are 5 MHz apart,
   with channel 1 at 2412", "Channel 14 is at 2484 MHz", "802.11a channel 36 is
   at 5180 MHz". *)
Centre(ch) ==
  CASE ch \in 1 .. 13 -> 2412 + 5 * (ch - 1)
    [] ch = 14 -> 2484
    [] OTHER -> 5180 + 5 * (ch - 36)

(* The query is for a frequency that is less than 2 MHz off that of a channel. *)
Near(ch) ==
  LET off == query.m - Centre(ch) * Mega(query.e)
  IN  /\ query.kind = "channel" /\ query.e \in 1 .. 6
      /\ -2 * Mega(query.e) < off /\ off < 2 * Mega(query.e)

(* A frequency about that of one of the channels 1 to 14 and 36 to 165 gives
   this channel and no other, for every exponent of ten in which drivers
   report it, and no frequency gives a number between or beyond the bands.
   Nothing is said of channels 34 and 35, which the code accepts but gets
   wrong: below channel 36 the division rounds up, so that 5170 MHz gives 35
   and 5175 MHz gives 36. *)
Numbers == 1 .. 14 \cup 34 .. 165
ChannelOfFrequency ==
  /\ \A ch \in 1 .. 14 \cup 36 .. 165 : Near(ch) => answer = ch
  /\ query.kind = "channel" /\ query.e > 0 => answer \in {-1} \cup Numbers

(* Interfaces with different hardware addresses of one type have different
   EUI-64s, which are individual addresses and of the form (the universal bit
   inverted) that interface identifiers have. *)
EuiIsIdentity ==
  \A k \in known :
    /\ Len(k.eui) = 8 /\ Bit(k.eui[1], 1) = 0 /\ Bit(k.eui[1], 2) = 1
    /\ \A l \in known : k.hw.type = l.hw.type /\ k.eui = l.eui => k.hw = l.hw
===============================================================================
