# A verification of tabeld's kernel interface and route tables

tabeld is an exploration of a routing daemon in C: a netlink library taken
from babeld (`kernel_netlink.c`), a table of the best next hops of each
destination (`rtes.c`), and a compact store of routes (`kdump.c`). This
directory holds TLA+ modules translated from that code, TLC configurations that
check them on small instances, and proofs checked by TLAPS.

## The system

| component | code | state | operations |
|---|---|---|---|
| command channel | `netlink_talk`, `netlink_send_dump`, `netlink_read` (answer = 1), `kernel_dump`, reopening of `nl_command` | the socket, `seqno`; in the kernel: requests, the receive queue, a running dump | send, wait for room, receive, wait 100 ms, scan a datagram, give up, reopen |
| route changes | `kernel_route` | the kernel's routes | ADD, FLUSH, MODIFY |
| policy rules | `add_rule`, `flush_rule`, `change_rule` | the kernel's rules | add, flush, swap |
| set-up | `kernel_setup`, `kernel_setup_interface`, `get_old_if`, `read_proc`, `write_proc` | `sysctl_settings`, `old_if`, the sockets; in the kernel: sysctls | set up, tear down |
| best routes | `update_rtes` | the `rtes` of each destination | report of a next hop |
| route store | `insaddr_generic`, `getroute`, `rte_classify` | four pools and their counters | insert, look up |
| printing | `format_*`, `route_type`, `route_typeless` | a static ring of four buffers in each format function | format a prefix, print a line |
| listening socket | `kernel_setup_socket`, `kernel_callback`, `netlink_read` (answer = 0) | `nl_listen`, `kernel_socket`; in the kernel: notifications, overrun | open, callback, close |
| message filters | `filter_*`, `parse_*_rta` | none | tell a callback of a message |
| sequence numbers | `util.h` | none | compare, subtract, add |
| interface queries | `kernel_interface_*`, `isbridge`, `isbatman`, `freq_to_chan`, `if_eui64` | none | probe sysfs, ioctls |
| rtod | `rtod.c` | options | parse the command line |

Everything runs in one thread. What makes it hard is on the other side of the
sockets: the kernel answers at its own pace, an answer may be lost, or come
when its caller has given up; other processes send datagrams, change sysctls,
routes and rules. Callers call down (`kernel_route` → `netlink_talk` →
`netlink_read`), filters are called back, and everything on the command socket
shares `nl_command` and its 16-bit counter.

What makes each component correct:

- command channel: a caller is told the fate of *its own* request; a dump that
  succeeds is complete; nothing is sent twice; every call returns.
- routes: what a result says is true of the kernel's table, also when earlier
  requests are still to be decided; routes of others are not touched; no
  unreachable default route is ever installed.
- rules: a source that has a rule keeps one during a swap, whatever third parties
  do to the rules of others.
- set-up: sysctls are as wanted while the daemon is up, and given back.
- best routes: the table stays searchable, its main route takes every improvement
  of its next hop, and each of its changes is announced.
- route store: an index names the route it was given for, for ever; a line
  prints the route it is about.
- listening socket: the poll loop watches the right socket; a caller that dumps
  the routes, and dumps again when it hears of a change, knows them, as far as
  no news was lost; news that is queued is heard.
- message filters: a callback is told of the objects it is to be told of, and
  what it is told is the kernel's object: no field is left over, cut or from
  the wrong attribute.
- sequence numbers: they order as the counts they stand for, across the
  wrap-around, up to half a turn.
- interface queries: the answer about an interface that stays the same is the
  answer for its kind, however the probes are put together.
- rtod: the last option for a field wins, and none touches another's.

## Modules

| module | models | composed of |
|---|---|---|
| `KernelCall` | the abstract remote call: one request at a time, decided by the kernel at most once, perhaps late; "ok" and "refused" are true of this request, "failed" says nothing | |
| `NetlinkCommand` | the command channel and the kernel at the other end | implements `KernelCall` |
| `NetlinkCommandProofs` | theorems about it | extends `NetlinkCommand` |
| `KernelRoute` | `kernel_route` | uses `KernelCall` |
| `KernelRouteProofs` | theorems about it | extends `KernelRoute` |
| `RuleSwap` | the rule functions | uses `KernelCall` |
| `RuleSwapProofs` | theorems about it | extends `RuleSwap` |
| `KernelSetup` | `kernel_setup`, `kernel_setup_interface` | |
| `KernelSetupProofs` | theorems about it | extends `KernelSetup` |
| `BestRoutes` | `update_rtes` | |
| `BestRoutesProofs` | theorems about it | extends `BestRoutes` |
| `RouteStore` | the route store of `kdump.c` | |
| `RoutePrinting` | its lines and format functions | extends `RouteStore` |
| `RoutePrintingProofs` | theorems about both | extends `RoutePrinting` |
| `NetlinkListen` | the listening socket, the caller's poll loop, dumps and changes | |
| `NetlinkListenProofs` | theorems about it | extends `NetlinkListen` |
| `KernelMessages` | the filters, and the message of `add_rule` | |
| `SeqnoArith` | the comparisons of `util.h` | |
| `InterfaceQueries` | `kernel_interface_wireless` with `isbridge`, `isbatman` | |
| `InterfaceValues` | `freq_to_chan`, `kernel_interface_channel`, `if_eui64` | |
| `RtodOptions` | `process_options` | |
| `Stateless` | the last five parts side by side | extends `SeqnoArith`, an instance of each other |
| `StatelessProofs` | theorems about each of them, and all | extends `Stateless` |
| `SideBySide` | what is beside the netlink engine, in one run | extends `Stateless`, `BestRoutes`, `RoutePrinting`, `KernelSetup` |
| other `MC*` | values of the constants for TLC | extends the module |

**NetlinkCommand.** `pc` is the position in the code: `open` (reopening),
`compose`, `send`, `sendwait` (the wait for room in `netlink_talk`), `recv`,
`wait`, `scan` (the loop over the messages of a datagram). `kernel_dump` is a
call of several rounds (`todo`). Every branch of `netlink_read` is an action:
stale message, answer, data, foreign datagram, overrun, end of file, timeout,
interrupted wait. The C conversion in `rc < nh->nlmsg_len` is modelled
(`AsUnsigned`), so a `sendmsg` that failed is waited for like one that
succeeded. Messages carry the unwrapped number of their request as a history
field `id` that no guard of the daemon reads. The kernel (external) takes
requests in order, answers them or loses the answer, serves one dump at a time
per socket, and notices nothing of the daemon's timeouts. The check of
`nlmsg_pid` needs no action: what the kernel puts into this queue is addressed
to this socket.

**KernelRoute, RuleSwap.** The requests go through `KernelCall`: these modules
conjoin its actions with theirs, so that what they show rests on its promise
only, and `ImplementsKernelCall` shows that the channel keeps it. A route is
its key (table, destination, source, metric), hop, type and protocol; addresses
are names. A MODIFY is its two inner calls, whose early returns it inherits. A
table becomes a byte on the way to the kernel (`Encode`, `NewRule`): that of a
rule above 255 is another one, and `SwapComplete` speaks of the table only if a
byte can name it. A table that is 0 as a byte is not asked for, for the kernel
takes it for none. Third parties add and flush rules at any time
(`ThirdPartyAdds`, `ThirdPartyTakes`), as the comment at 596 says they do.

**KernelSetup.** Every `read_proc` and `write_proc` is an action and may fail;
an administrator may write a sysctl, and the process may be killed, between any
two. The read of `old_if[-1]` is a choice of either outcome. The callers are
taken to tear down before they set up again; a tear-down may be repeated.
`sysctl_settings` has four entries; `Settings` is any non-empty sequence.

**BestRoutes.** The loop of `update_rtes` stops at the first slot that has the
report's hop or none (`StopAt`); what happens there is one action per branch,
the unwritten ones (FIXME) included as doing nothing. Metrics are compared as
the code does, as one number with the layout of a little-endian machine. What
becomes of a hop that got worse is left open by the FIXMEs (143, 160, 164): the
model keeps its metric as the code does, and `MainTakesImprovements` does not ask
for that.

**RouteStore.** The four classes, the forms in which routes are stored (prefix
lengths modulo 2^8), and the tagged index.

**RoutePrinting.** A line is a `printf` whose arguments are calls of format
functions. Each of these has a static ring of buffers; `Evaluate` takes the
arguments in any order, as C allows, and `Printf` reads the buffers when all are
there. A text is the family, the bytes and the length that `inet_ntop` and
`snprintf` were given. The rings' counters live on from line to line, together
with insertions into the store.

**NetlinkListen.** The kernel (external) queues a datagram for every change of
a route, link or rule; a full queue drops it and leaves one ENOBUFS.
`kernel_callback` is the branches of `netlink_read` with answer = 0 (`read`, one
`wait` of 100 ms, `scan`), and `check` is the call of `check_interfaces` from
the middle of the scan, from where routes and rules may be changed. The daemon's
own requests cause notifications with the port of `nl_command`, which `nl_ignore`
passes over: both sockets therefore have a port here, which changes when a
socket is opened again, and is 0 after an opening that failed half-way.
`kernel_socket` is a copy of a descriptor; the numbers of descriptors are the
lowest free ones, so that the command socket can get the one of a listening
socket that was closed. A dump (`dump`) visits the routes one by one, IPv6
before IPv4, while they change. Of the command socket there is only what
matters here; `DumpIsComplete` of `NetlinkCommand` is why a dump that succeeds
visits every route.

**KernelMessages.** The kernel's objects and the attributes it makes of them
are external; `filter_netlink` and what it calls are operators from a message to
the callback's argument. A `__u32` metric becomes an int, a table above 255 is in
`RTA_TABLE` only, IPv4 prefixes get IPv6 lengths, the order of `IFA_LOCAL` and
`IFA_ADDRESS` differs between the families. `RuleRoundTrip` sends the message of
`add_rule` through the kernel to `filter_kernel_rules`. `RightRoutes` leaves it
open whether an unreachable IPv4 default is told; that it is, is finding 5.

**SeqnoArith.** Two numbers, each with the count it stands for, take steps up
and down; the counts are history.

**InterfaceQueries.** Each probe (files of sysfs, the list of SIOCGIFBR,
SIOCGIWNAME) is an action, and between two of them the interface may go, come back or
be replaced by another of its name. `SteadyAnswer` says of such a call that its
answer is one that something deserved that had the name meanwhile.

**InterfaceValues.** Frequencies are mantissa and exponent; C's division
truncates, and an `int` that overflows (exponent 0) may come out as anything.

**RtodOptions.** A word is an option and its argument. `QSTRING` and
`long_options` decide what getopt_long takes, and the switch what is assigned.
The interval is split in doubles, which are off by less than a unit of the
arguments: `Split` is the set of what may come out, a nanosecond lost (2.3 s) and
1000000000 ns just below zero included; a number that does not fit into a
`time_t` is undefined behaviour.

**Stateless, SideBySide.** Parts that have nothing to do with one another share a
run. `part` says which of the five stateless ones a behaviour belongs to, `side`
which of the others; the rest stand still, so that the states are the sum of
theirs and not the product, and no part restricts another. `Stateless` names
what its parts assume of their constants.

## Runs

| run | shows | bounds |
|---|---|---|
| `CommandSafety` | type, `AnswerIsOwn`, `DumpIsComplete`, `SentOnce`, the inductive invariant, refinement of `KernelCall`, `CallsReturn` | numbers modulo 2, kernel at most 1 behind, 4 requests, 2 faults, dumps of 2 entries in datagrams of up to 2 messages |
| `CommandTruncation` | finding: a truncated dump succeeds | buffer of 1 message |
| `CommandUnsent` | finding: a failed send is not noticed | 1 fault |
| `CommandSkip` | finding: skipped messages are filtered | a filter that may fail |
| `RouteSafety` | the route properties | 11 changes, one of them to a table above 255, 3 requests, 2 faults |
| `RuleSafety` | the rule properties | 4 sources, 2 priorities, 2 tables that are the same one as a byte, 2 rules of third parties, 4 requests, 1 fault or change by a third party |
| `SetupInterfaces` | finding: rp_filter left enabled | as in `SideBySide` |
| `Listening` | the right socket, no missed change, news heard, calls return | 2 routes (one of each family), a queue of 2, 3 notifications, 2 requests or dumps, 2 faults |
| `ListeningIgnores` | finding: the kernel's news are ignored as the daemon's own | the same |
| `SideBySide`, stateless | the properties of `SeqnoArith`, `KernelMessages`, `InterfaceQueries`, `InterfaceValues`, `RtodOptions` | 16-bit numbers from 8 starts in quarter turns, 2.5 turns each way; objects at the edges of every number; 4 changes and 2 faults in a query; every channel's frequency and its neighbours in 6 units; 2 options |
| — set-up | sysctls set and given back, no socket leaked | 2 sysctls, 2 interfaces but a table of 1, 3 set-ups, 2 faults |
| — rtes | the table's properties | 4 hops for 3 slots, 2 metrics |
| — kdump | the indices' properties, and what is printed | 4 prefixes, one of them `::` with a length, 2 entries in a pool and 4 in all, 2 lines with 2 routes in the store |
| `DefaultRoutes` | finding: unreachable IPv4 defaults are reported | the stateless part's |
| `InvalidOption` | finding: `--invalid` sets the interval | the stateless part's |

Why these bounds are enough to be interesting: with numbers modulo 2 the
counter wraps several times in four requests, so that an abandoned request and
a later one do get the same number unless the argument for `AnswerIsOwn` holds;
two faults are enough to lose an answer and the next, or to close the socket
under an abandoned dump. Three requests let a MODIFY meet a request that was
given up before it. A table of interfaces that is smaller than their number is
reached at once. A queue of 2 overflows with 3 notifications, and 2 faults let
both sockets be lost, or an opening fail after a loss. In the stateless parts
the widths of `KernelMessages` are scaled down (an int of 4 bits, a byte of 2,
infinity 5) and every number next to an edge is there; those of `util.h` and of
`freq_to_chan` are the real ones. A second of rtod has 10 nanoseconds, and a
nanosecond 4 units. 2 routes in the printed store are enough for a line that
reads another line's buffer; that the rings go round is for the proof. `SideBySide`
has 986,533 states, none of them a combination of two parts. All bounds are
constants, named in the modules; `MaxLag` is the one that says something of the
world: with 2^16 numbers and waits of 100 ms a kernel would have to keep a
request for more than an hour to violate it. Deadlock is not checked, for the
bounds let each of the systems stop. The type invariants of `KernelRoute` and
`RuleSwap` are proved (`TypeCorrect`), and no run spends itself on them.

Every property was seen to fail on a mutated definition: the mutants stand
before the definitions they mutate and are listed in `PROJECT.json`.

**Fairness.** `CallsReturn` assumes weak fairness of the daemon's own steps
only: each wait in the code ends after 100 ms at the latest, and the thread is
scheduled. Nothing is assumed of the kernel or of other processes, which have
finitely many requests to answer; a process that sent datagrams for ever would
still end a read with its first one.

`NetlinkListen!FairSpec` assumes the same of the steps inside a call
(`Running`), and that the poll loop calls `kernel_callback` as long as
`kernel_socket` is readable (`Callback`). It does not assume that the caller
opens a socket, dumps, or sends anything; a socket that stays closed loses news,
and `NewsHeard` says so.

## Findings

1. `netlink_read` logs a truncated datagram and still returns "success" (387).
2. `rc < nh->nlmsg_len` compares signed with unsigned: a failed `sendmsg` goes
   unnoticed and its answer is waited for, against the comment at 277 (440, 498).
3. An `else` is missing before `if(filter)`: "(skip)"ped messages are filtered (376).
4. `old_if[-1]` is read when the table of interfaces is full, and rp_filter may
   stay enabled although the function returned 1 (658).
5. "Ignore default unreachable routes" compares the length with 0, but an IPv4
   default route has 96 by then and is reported (1086, 1194-1195); `kernel_route`
   looks for both (994).
6. `--invalid`, which the usage text gives another meaning, sets the interval:
   `long_options` has the letter I for it (rtod.c 41, 72, 81).
7. After an opening of `nl_command` that failed half-way, its `nl_pid` is 0,
   which is the kernel's: `nl_ignore` then passes over the kernel's own
   notifications (223, 348). `NoMissedChange` counts them as lost.

Finding 2 does no harm to `AnswerIsOwn`: the read it leads to can only fail,
by a timeout or another error, which the runs and the proof include.

Also met while modelling. No comment, text or test of the repository contradicts
the code here, so there is no run that shows it; the properties that would meet
it say what they except:

- The division that rounds to the nearest channel truncates towards zero, so that
  below channel 36 it rounds up: 5170 MHz, channel 34's, gives 35, and 5175 MHz
  gives 36 (869). `ChannelOfFrequency` says nothing of channels 34 and 35.
- The tables of routes and rules are cut to a byte without `RTA_TABLE` or
  `FRA_TABLE` (1011, 1559). `SwapComplete` and `RuleRoundTrip` speak of tables
  that a byte can name.
- A rule is flushed by family and priority alone (1617): another source's may go.
- An interval just below zero gets 1000000000 nanoseconds (rtod.c 128), which
  `OptionsTakeEffect` allows there only.
- A report of a worse metric is not handled, and a full table drops new hops
  (rtes.c 140, 160-164).
- `format_prefix` passes `&address.z` to `inet_ntop`, where `w` is the IPv4
  address: every IPv4 prefix prints as 0.0.255.255 (kdump.c 430).
  `PrintsWhatWasInserted` excepts them for `route_typeless`.
- The usage text of rtod, `QSTRING`, `long_options` and the switch do not agree
  on the options and on which of them take an argument (rtod.c 12, 61-82,
  109-125). But for finding 6 that means that lines are refused;
  `OptionsTakeEffect` speaks of lines that are accepted.
- A MODIFY whose addition fails after its flush succeeded leaves no route
  (968), and one that changes only the table is taken for no change (955).
- The pools have 128 entries and nothing checks their counters (kdump.c 205);
  `martian_check4`, which has no caller, loops over five of four entries (166).

## Proofs

The modules `*Proofs` prove their theorems for all values of the constants that
`ConstantsAssumption` of the module (one assumption for each part in what
`SideBySide` puts together) allows: any number of routes, hops, interfaces,
requests and failures, and any width of the counters. Each has an inductive invariant (`Inv` or `IInv`; one
for each part in `StatelessProofs`), a lemma for each action that keeps it,
under it a step for each conjunct that the action can disturb, and a theorem
`Invariance`; the others follow from that one.

| module | theorem | proves |
|---|---|---|
| `NetlinkCommandProofs` | `Invariance`, `TypeCorrect` | `Spec => []Inv`, `[]TypeOK` |
| | `AnswersAreOwn` | `Spec => []AnswerIsOwn` |
| | `RequestsSentOnce` | `Spec => []SentOnce` |
| | `DumpsAreComplete` | `Spec => []DumpIsComplete`, if `MaxChunk <= BufMsgs` |
| | `ChannelImplementsCall` | `Spec => ImplementsKernelCall` |
| `KernelRouteProofs` | `TypeCorrect` | `Spec => []TypeOK` |
| | `ForeignRoutesStay`, `NeverUnreachableDefault` | `[]ForeignRoutesUntouched`, `[]NoUnreachableDefault` |
| | `ModificationsInstall`, `ModificationsReplace` | `[]ModifyInstalls`, `[]ModifyReplaces` |
| | `ExistingRoutesExist` | `[]ExistsIsTrue` |
| `RuleSwapProofs` | `TypeCorrect` | `Spec => []TypeOK` |
| | `SourcesStayCovered`, `SwapsComplete` | `[]SourceStaysCovered`, `[]SwapComplete` |
| `KernelSetupProofs` | `TypeCorrect`, `NoSocketLeaks` | `SpecSetup => []SetupTypeOK`, `[]NoLeak` |
| | `SysctlsEnforced`, `SysctlsGivenBack` | `[]Enforced`, `[]GivenBack` |
| `BestRoutesProofs` | `HopsAreFindable`, `ImprovementsAreTaken` | `SpecRtes => []Findable`, `[]MainTakesImprovements` |
| | `HookSeesMainRoute`, `HopsAreKept` | `[]HookIsCurrent`, `[]KeptWhileRoom` |
| `RoutePrintingProofs` | `IndicesAreDistinct`, `IndicesAreStable` | `SpecPrinting => []StoreTypeOK`, `[]IndexIsStable` |
| | `LinesSayWhatWasInserted` | `[]PrintsWhatWasInserted` |
| `NetlinkListenProofs` | `TypeCorrect`, `ListenerIsPolled` | `Spec => []TypeOK`, `[]PollsListener` |
| | `NoChangeIsMissed` | `[]NoMissedChange` |
| `StatelessProofs` | `TypeCorrect` | `Spec => []TypeOK`, of `SeqnoArith` |
| | `CompareCorrect`, `MinusCorrect` | `[]CompareIsOrder`, `[]MinusIsDistance` |
| | `RoutesAreRight`, `RoutesAreAsTheyAre` | `Messages!Spec => []RightRoutes`, `[]RouteAsIs` |
| | `AddressesAreLocal`, `RulesComeBack` | `[]LocalAddress`, `[]RuleRoundTrip` |
| | `AnswersAreEarned`, `AnswersAreSteady` | `Queries!Spec => []Earned`, `[]SteadyAnswer` |
| | `ChannelsAreRight`, `EuisAreIdentities` | `Values!Spec => []ChannelOfFrequency`, `[]EuiIsIdentity` |
| | `OptionsAreTaken` | `Rtod!Spec => []OptionsTakeEffect` |
| | `PartsApart`, `EveryPart` | `SpecParts` implies all of these |

**NetlinkCommand.** `AnswerIsOwn` is not inductive: the daemon compares wrapped
numbers and the property speaks of requests. `Inv` adds what makes the
comparison right. *Numbering*: each message that can still be read, and each
request of this socket that is still pending, has the number that its request
had, counted back from `seqno`, and is less than a full turn of the counter old;
so a number equal to `seqno` belongs to the last request. *Truth*: an
acknowledgement, a "done" or an error in flight tells what became of its
request. *Fates*: a request the kernel has is undecided, and one not yet sent
has no fate. *Socket*: nothing of a closed socket arrives, so a new one may start
from any number. *Shape*: what is left of a call fits the position in the code.
That no message is a full turn old comes from the guard `MaxLag < SeqMod`, with
all rounds of a dump counted when the call begins.

`DumpIsComplete` speaks of the end of a dump; `DumpInv` follows the parts of the
table on their way. Those of the request in progress are consecutive: the filter
has had a beginning of the table, the buffer goes on where the filter has got
to, the first datagram in the queue where the buffer ends, each further datagram
where the one before it ends, and the kernel's dump where the queue ends; the
end comes after the last entry. An overrun or an end of file makes the read fail,
so that a gap is never passed over. The hypothesis `MaxChunk <= BufMsgs` says that
a datagram fits into the buffer of `netlink_read`; without it the property is
false, which is finding 1.

`ChannelImplementsCall` takes the lemmas of the actions to `KernelCall`: each step
is a step of the abstract call or leaves its variables alone. `KernelRoute` and
`RuleSwap` are built on `KernelCall` only, so that what is proved about them rests
on what is proved here.

**KernelRoute.** The properties are about what a result says of the kernel's
table while earlier requests may still be undecided. *InOrder*: the kernel
decides what it was handed, in that order, so that nothing is outstanding when
the last request has been decided, and nothing decided later can undo it.
*Counted*: which of a MODIFY's two requests has which number. *Added*,
*Refused*, *Flushed*: what their fates say of the table. *Succeeded*, *Existed*:
what the result says of the fates. *OwnRoutes*: every request is about a route
of the protocol babel, and no unreachable default is added, also by a request
that is decided long after its caller gave it up.

**RuleSwap.** *Adding*: an addition that was carried out left nothing outstanding.
*Flushing*: the flush is sent only after that, with the new rule in the kernel.
*Settled*: a swap that found nothing outstanding has only its own requests to
fear. *Safe*: as long as the flush may still be decided, the source has the new
rule and another one, and a flush, which names a priority and not a source,
takes only one rule. Third parties are excepted by name: `kept` says that none has taken a
rule of the source, `alone` that none has added one with the old priority.
*Alone*: at most one rule had the old priority, so that one
flush is enough. *Finished* is what a result of 0 says. The properties except
what the code does not defend against: a swap that begins while a request is
outstanding.

**KernelSetup.** *EnforcedSoFar* and *EnforcedOnInterfaces*: the sysctls before `at`,
and those of the interfaces that are set up, are as wanted, unless an
administrator has touched them. *SettingsKept*, *InterfacesKept*: the kernel has
the original value, or the wanted one while the original is saved; those that
this life of the process has not come to, or has given back, have the original
one. *OneSlot*: an interface has one entry in `old_if`. *Phases*, *Sockets*:
which steps are taken when, and that no socket is open before a set-up or from a
tear-down's first step on.

**BestRoutes.** Destinations do not disturb one another, so that the invariant
is one of a destination (`DestInv`): each hop has one slot and there are no gaps,
the hook has seen the main route as it is, the latest report of the main route's
hop is not better than it is, a hop that was reported has a slot while there is room, and
nothing was reported of a destination without an entry. That the loop's choice is
the best rests on lemmas that the comparison, four 16-bit fields read as one
number, is a strict and total order.

**RouteStore, RoutePrinting.** *Counters*, *Indices*: the pools are filled up to
their counters, and the indices handed out are those of their entries; an index
is a position and a class as two digits, so that all differ. *Entries*: each
entry is in the pool of its class, in that class's form; prefix lengths go there
and back modulo 256. *Arguments*, *Evaluated*: a line has two arguments at most,
and the buffer of one that is evaluated holds its text and is not the one that
the other gets, whatever the rings' counters were before.

**NetlinkListen.** *Sockets*: `kernel_socket` is a true copy, inside calls too, and
never the command socket's. *Viewed*: a caller that has dumped the routes knows
them, unless news of a change is queued, being read, heard or lost. *Dumping*:
the same of a dump that runs, for the routes it has visited. A change that
nobody is told of would be one with the port of `nl_command` that the daemon did
not cause; *Shape* says that news never has it.

**Stateless.** *SeqnoInv*: a number is its count modulo 2^16. With that, two
counts less than half a turn apart differ by as much as the cast to `short` of
the numbers' difference, and the bit that `seqno_compare` looks at is its sign.

*MessagesInv*: what a callback was told is what the filter makes of the last
message, or nothing. The rest is about one message, for any object: lemmas say
which attributes the kernel gives it and what the parser makes of them. It is
assumed that infinity and the tables to import are below half the range of an
int, that a route's metric and table are `__u32`, that a default prefix is the
zero address, and nothing of how wide an int or a byte is.

*QueriesInv*: as long as a call of `kernel_interface_wireless` goes on, the
interface as it is now is among those seen; if it is the only one, `Judged`
holds of it: each position in the code has ruled out the kinds that come before
it, as far as they can be told apart. `Earned` is about the others: the last probe
spoke of something that had the name then. Without sysfs `isbridge` finds the index in
the kernel's list, if there are fewer other bridges than its array holds.

*ValuesInv*: an answer is an outcome of `freq_to_chan` for the frequency asked.
That rounding finds the channel rests on a lemma that a number less than half a
step from a multiple of the step is rounded to it, for negative numbers also,
where C truncates, and on the products not overflowing an int of 32 bits or more.
An EUI-64 is its address with three parts copied and one bit turned, so that it
gives the address back.

*RtodInv*: while the command line is accepted, each field has the value of the
last option for it, or its initial one. Arguments are integers, and the fields of
`Initial` are those of the options. `SplitIsValid` takes the outcomes of `Split` one
by one: each is at most a nanosecond off, and only -1 s and the largest remainder
give a second's worth of nanoseconds.

What the proofs changed in the model: `PrintsWhatWasInserted` was false for a
source `::` with a length other than 0 in a line of `route_typeless`, which the
code takes for none; `Proper` excludes it now, and the run's prefixes show the
case. The address of a message was found by a recursive fold, about which
nothing can be proved: `StopsAt` now says at which attribute the loop stops.
Assumptions were made explicit: `Settings` is a non-empty sequence
(`sysctl_settings` has four entries), `Mapped # Zero` (the prefix of IPv4 in IPv6
notation is not all zeros), a prefix has the fields that the code gives it, and
what `Stateless` says of its parts' constants.

Model-checked only: `CallsReturn` and `NewsHeard`, for liveness under fairness is
beyond the prover.

## Not modelled

- `kernel_interface_operational`, `kernel_interface_ipv4`, `kernel_interface_mtu`:
  one ioctl each, whose result they return.
- `print_kernel_route`, `format_address*`, `metric_print`: debugging output.
- The byte-order macros and `time_us` of `util.h`, which nothing here calls; the
  rest of it declares functions of other programs.
- `struct_return.c`, `generics.h`, the layouts in `ttypes.h` and
  `structures.h` that try out how a compiler passes structures; build files.
- Attributes shorter than an address: the kernel does not send them.
- The pools' overflow: the bound `PoolSize` stands for callers that stay below.

## Plan

1. A caller of `kernel_route` that retries what failed.
2. The proofs that are left are those of liveness; shorter arguments for the
   long ones (`NetlinkListen`, the rounding of channels) would help a reader.
