------------------------------ MODULE RtodOptions ------------------------------
(***************************************************************************)
(* The options of rtod.c: process_options takes the words of the command   *)
(* line one after the other, as getopt_long recognises them by QSTRING and *)
(* long_options, and assigns their values; what it does not know goes to   *)
(* usage, which exits.  At the end the fractional interval is split into   *)
(* seconds and nanoseconds, in the arithmetic of doubles.                  *)
(*                                                                         *)
(* A word is an option, by its letter or its long name, and the argument   *)
(* that goes with it, or None.  getopt_long is external.                   *)
(***************************************************************************)
EXTENDS Integers, Sequences

CONSTANTS
  Args,       \* arguments, as numbers: intervals in units that are larger
              \* than what doubles are off the numbers they stand for
  TooBig,     \* an argument that is not finite, or too large for a time_t
  None,       \* no argument
  NsecPerSec, \* NSEC_PER_SEC
  Sub,        \* the units in a nanosecond
  Initial,    \* the fields' values before: [field -> value], some of defaults,
              \* the others uninitialised
  MaxWords    \* bound: options on a command line

VARIABLES
  words,    \* history: the options taken so far
  o,        \* the fields of args that options assign
  interval, \* [tv_sec, tv_nsec]
  status    \* "options", "done", "usage" (exited), or "undefined"

vars == <<words, o, interval, status>>

(* QSTRING *)
ShortWithArg == {"s", "H", "r", "t", "n", "i", "m", "p", "j", "J", "R"}
ShortPlain == {"I", "K", "h"}

(* long_options *)
LongWithArg ==
  [jitter |-> "j", jitter_err |-> "J", sadr |-> "s", invalid |-> "I",
   host |-> "H", killme |-> "K", proto |-> "p", expires |-> "t",
   random_metric |-> "M", metric |-> "m", routes |-> "r", route_table |-> "R",
   count |-> "c", interval |-> "I", debug |-> "d", command |-> "C"]
LongPlain == [help |-> "h", buffer |-> "b"]

(* What the switch of process_options assigns. *)
Field ==
  [c |-> "count", I |-> "finterval", C |-> "command", H |-> "host",
   i |-> "interface", b |-> "buffer", r |-> "routes", R |-> "route_table",
   t |-> "expires", p |-> "proto", S |-> "seed"]

-------------------------------------------------------------------------------
(* getopt_long (external): the letter it returns, "?" for an option it does not
   know or that lacks its argument.  long_options has no terminating entry, so
   that a long name that is not in it is compared with what follows: anything
   may happen. *)
Short(opt) == [long |-> FALSE, name |-> opt]
Long(name) == [long |-> TRUE, name |-> name]
KnownLong(name) == name \in DOMAIN LongWithArg \cup DOMAIN LongPlain

TakesArg(opt) ==
  IF opt.long THEN opt.name \in DOMAIN LongWithArg ELSE opt.name \in ShortWithArg
Letter(w) ==
  CASE TakesArg(w.opt) /\ w.arg = None -> "?"
    [] w.opt.long /\ w.opt.name \in DOMAIN LongWithArg -> LongWithArg[w.opt.name]
    [] w.opt.long /\ w.opt.name \in DOMAIN LongPlain -> LongPlain[w.opt.name]
    [] ~w.opt.long -> IF w.opt.name \in ShortWithArg \cup ShortPlain
                      THEN w.opt.name ELSE "?"
(* optarg is NULL for an option without an argument. *)
Optarg(w) == IF TakesArg(w.opt) THEN w.arg ELSE None

-------------------------------------------------------------------------------
Init ==
  /\ words = <<>> /\ o = Initial
  /\ interval = [tv_sec |-> 0, tv_nsec |-> 0] /\ status = "options"

Take(w) == Len(words) < MaxWords /\ words' = Append(words, w)

(* An option that the switch has a case for.  buffer is a char that becomes
   true, without an argument; so does 'I' in its short form, whose NULL goes
   to strtod. *)
Assign(w) ==
  /\ status = "options" /\ Take(w)
  /\ (w.opt.long => KnownLong(w.opt.name)) /\ Letter(w) \in DOMAIN Field
  /\ LET f == Field[Letter(w)] IN
     IF f # "buffer" /\ Optarg(w) = None
     THEN status' = "undefined" /\ UNCHANGED o
     ELSE /\ o' = [o EXCEPT ![f] = IF f = "buffer" THEN TRUE ELSE Optarg(w)]
          /\ UNCHANGED status
  /\ UNCHANGED interval

(* "?", "h" or no case: usage exits. *)
Usage(w) ==
  /\ status = "options" /\ Take(w)
  /\ (w.opt.long => KnownLong(w.opt.name)) /\ Letter(w) \notin DOMAIN Field
  /\ status' = "usage"
  /\ UNCHANGED <<o, interval>>

PastTheTable(w) ==
  /\ status = "options" /\ Take(w)
  /\ w.opt.long /\ ~KnownLong(w.opt.name)
  /\ status' \in {"usage", "undefined"}
  /\ UNCHANGED <<o, interval>>

(* floor(f), and what is left times NSEC_PER_SEC, truncated.  Doubles are off
   by less than a unit: a whole number of nanoseconds may come out one too
   small, and what is less than a unit below one may be taken for it.  Then a
   whole second is exact; only just below zero floor is -1 and the rest, in a
   double, is 1. *)
Time(sec, nsec) == [tv_sec |-> sec, tv_nsec |-> nsec]
Second == NsecPerSec * Sub

(* Mutant of Split: a conversion to an integer instead of floor. *)
SplitTruncated(f) ==
  LET sec == IF f >= 0 THEN f \div Second ELSE 0 - ((0 - f) \div Second)
  IN  {Time(sec, (f - sec * Second) \div Sub)}
Split(f) ==
  LET sec == f \div Second
      n == (f - sec * Second) \div Sub
      odd == f - sec * Second - n * Sub
      low == odd = 0 /\ n > 0
      high == odd = Sub - 1
      last == n = NsecPerSec - 1
  IN  {Time(sec, n)}
      \cup (IF low THEN {Time(sec, n - 1)} ELSE {})
      \cup (IF high /\ ~last THEN {Time(sec, n + 1)} ELSE {})
      \cup (IF high /\ last THEN {Time(sec + 1, 0)} ELSE {})
      \cup (IF high /\ last /\ sec = -1 THEN {Time(sec, NsecPerSec)} ELSE {})

(* There are no more words.  The conversion to a time_t of a number that is
   none, or too large for it, is undefined. *)
Finish ==
  /\ status = "options"
  /\ \/ o.finterval # TooBig /\ status' = "done" /\ interval' \in Split(o.finterval)
     \/ o.finterval = TooBig /\ status' = "undefined" /\ UNCHANGED interval
  /\ UNCHANGED <<words, o>>

Options ==
  {Short(x) : x \in ShortWithArg \cup ShortPlain \cup
                     {"4", "6", "M", "S", "b", "c", "C"}}
  \cup {Long(x) : x \in DOMAIN LongWithArg \cup DOMAIN LongPlain
                         \cup {"ipv4", "ipv6", "jitterer", "seed", "interface"}}

Next ==
  \/ \E opt \in Options, arg \in Args \cup {TooBig, None} :
       LET w == [opt |-> opt, arg |-> arg] IN
         Assign(w) \/ Usage(w) \/ PastTheTable(w)
  \/ Finish

Spec == Init /\ [][Next]_vars

-------------------------------------------------------------------------------
(* Properties. *)

(* A command line that is accepted leaves in every field the value of the last
   option for it, whether given by letter or by name, and the value from
   before in the others: no option touches the field of another, except that
   --invalid sets the interval (IntervalIsAsked).  The interval becomes a
   timespec no more than a nanosecond off the value, also off a negative one,
   and a valid one, unless the value is less than a nanosecond below zero. *)
For(f) == {n \in DOMAIN words : Letter(words[n]) \in DOMAIN Field
                                  /\ Field[Letter(words[n])] = f}
Last(f) == CHOOSE n \in For(f) : \A m \in For(f) : m <= n
Wanted(f) ==
  CASE For(f) = {} -> Initial[f]
    [] For(f) # {} /\ f = "buffer" -> TRUE
    [] For(f) # {} /\ f # "buffer" -> words[Last(f)].arg
OptionsTakeEffect ==
  status = "done" /\ (\A n \in DOMAIN words : words[n].opt # Long("invalid")) =>
    LET asked == Wanted("finterval")
        off == asked - (interval.tv_sec * NsecPerSec + interval.tv_nsec) * Sub
    IN  /\ \A f \in DOMAIN o : o[f] = Wanted(f)
        /\ -Sub <= off /\ off <= Sub
        /\ 0 <= interval.tv_nsec /\ interval.tv_nsec <= NsecPerSec
        /\ interval.tv_nsec = NsecPerSec => -Sub < asked /\ asked < 0

(* "-I --interval  [fractional number of seconds]": no other option that is
   accepted changes the interval.  "--invalid Attempt to insert well known
   invalid routes" does, because long_options gives both names the letter I. *)
IntervalIsAsked ==
  status = "done" /\ o.finterval # Initial.finterval =>
    \E n \in DOMAIN words : words[n].opt \in {Long("interval"), Short("I")}
===============================================================================
