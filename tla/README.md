# A TLA+ verification of unstrung

unstrung is an implementation of RPL (RFC 6550) in C++. The daemon `sunshine`
forms a DODAG with its neighbours, installs IPv6 addresses and routes, and can
act as a join assistant that asks a registrar, over GRASP, whether a new node
(a pledge) may join. This directory holds TLA+ models of the parts that carry
its behaviour, the TLC runs that check them on small instances, and proofs that
TLAPS checks for every instance.

Paths below are relative to `src/`; `dag.cpp` and the other files without a
directory are in `lib/libndmgmt/`.

## The system

`sunshine` is one thread. `network_interface::main_loop` (iface.cpp) serves a
queue of timer events, then polls a netlink socket, one raw ICMPv6 socket and
the sockets of the GRASP clients, and runs the handler of whatever arrived to
its end. All concurrency is therefore between processes, between the loop and
signals, and between the loop and what has been on the wire since.

| component | state | operations | hard about it |
|---|---|---|---|
| DODAG formation, `dag_network` (dag.cpp, dio.cpp, dao.cpp, daoack.cpp, dis.cpp) | rank, best and committed parent, sequence numbers, children, prefixes, two timer events | receive DIS, DIO, DAO, DAO-ACK; send DIO, DAO | packets late, repeated, reordered or lost; 8 bits of wider counters on the wire |
| prefix maps (include/prefix.h, prefix.cpp) | three `std::map`s from prefix to `prefix_node` | find or insert, iterate | `prefix_less` is not an order |
| event queue and main loop (event.cpp, include/event.h, iface.cpp) | a heap of events, the clock, signal flags | set_alarm, requeue, poll, signal | rounding and carries of times, starvation, events deleted while referenced |
| join assistant (neighboursolicit.cpp, neighbouradvert.cpp, node.cpp) | neighbour cache: flags and query id of every neighbour | solicitations, answers | repeated solicitations during a query |
| GRASP client (lib/libgrasp) | TCP connection, count of outstanding queries | start query, read reply | a stream has no message boundaries; replies in any order; end of the connection |
| interfaces and netlink (netlink.cpp, iface.cpp) | list of interfaces, their addresses | link added, deleted, address changed | pointers to interfaces kept elsewhere |
| packet dispatch (iface.cpp, dis/dio/dao/daoack.cpp) | list of DAGs | find the DAG of a packet, watch or join | several DAGs with one instance id; the node's own packets on another interface |
| start-up (programs/sunshine/main.cpp) | the DAGs and interfaces so far | options | order of options |
| RPL options (rplmsg.cpp, dio.cpp, dao.cpp, dis.cpp) | a cursor for each type of option | append, search | bounds, cursors shared by several searches |
| checksum (iface.cpp), link-layer addresses (ifacefuncs.cpp, iface.cpp) | none | csum, parse and print EUIs | carries, odd lengths |
| libosw (lib/libosw) | none | text of addresses and subnets, comparison | many forms of the text |
| libnetlink (lib/libnetlink) | socket, sequence number | dump, listen, talk, attributes | notifications between the answers, alignment, room |
| interface filters (dag.cpp) | wildcards and subnets of a DAG | set, match | texts longer than their row |
| libidevid, peck (lib/libidevid, programs/peck) | a certificate | verify, find the EUI-64, give it to an interface | certificates without one |

Not modelled, because they are test code or plain output: the rest of
`lib/libfakeiface` (capture files in place of interfaces), the one-shot tools
`senddio`, `senddao`, `sendnd`, the statistics and the debug output; and those
parts of the vendored libraries that unstrung does not call
(`lib/libnetlink/utils.c`, `ll_map.c`, `rtnl_from_file`).

The components meet as follows. The main loop calls the handlers of
`dag_network` and of the neighbour cache, and invokes the events that
`schedule_dio` and `schedule_dao` put into the queue. The DODAG code keeps its
children and prefixes in prefix maps and turns them into routes by `ip -6 route
add`. The neighbour cache asks the GRASP client of its interface, whose
`process_grasp_reply` calls back into it. Netlink events add and delete
interfaces, and deleting one clears the event queue. Addresses, options and
identities given as text or in a certificate pass through the pure algorithms
before they reach the state of these components.

What makes the components correct: no loop among parents, ranks that fit their
field, routes that lead to their target, commitment to a parent only after that
parent knows the way down; timers neither late nor starved; a pledge that hears
the decision made about it, and no other; a list of interfaces that follows the
kernel; DAGs that are silent when they only watch, and that never take the node itself
for their parent; conversions that lose nothing and complain about what they cannot
convert.

## Modules

**ChildMap** is what a prefix map is to its users: two slots. It looks odd and
is a consequence of `prefix_less`, which returns the `int` of `memcmp` as a
`bool`. **PrefixMap** models the tree that libstdc++'s `std::map` builds under
that comparison and runs `ChildMap` beside it on the same insertions (`Walk` is what a
loop of the library visits): only the key that was inserted first is ever found again,
and an iteration yields the second key and then the first (`IsChildMap`, proved). What
is found is iterated once; of the other entries one is iterated and none is found.
(`std::map` is external code; a program of ten lines compiled against it prints
the same.)

**Dodag** is the formation of a DODAG. One process per node, one interface, one
active DAG. `Nbr` says who hears whom. Every variable has the name of the
member of `dag_network` it models, as a function of the node. Packets stay in
the sets `dios`, `daos` and `acks` for ever, so that every delay, repetition,
reordering and loss is a behaviour. A handler is one action:

| action | code |
|---|---|
| `SendDio`, `SendDao` | the timer events: `send_dio_all`, `build_dio`; `send_dao`, `build_dao` |
| `ReceiveDis` | `receive_dis` |
| `DioTooOld`, `DioIgnored`, `DioAdopted` | `receive_dio` with `discard_dio`, and with the two ways through `potentially_lower_rank` |
| `ReceiveDao` | `receive_dao` with `add_childnode`, `maybe_send_dao` and the ack |
| `ReceiveDaoAck` | `receive_daoack`, `commit_parent` |

An ack that fails a test of `receive_daoack`, or confirms the present parent,
only counts in the statistics; such steps are stuttering steps and have no
action. The widths of the counters (2^8, 2^16, 2^32) are the constants `SeqMod`,
`ShortMod`, `RankMod`, `UINT_MAX`. A timer event requeues itself for ever, hence
an armed event may fire at any time; when it is due is the matter of EventLoop.

**DodagAbs** says what all that is for, without packets and timers: nodes move
down in rank, below a member of the DODAG; a node commits to a parent that knows
it; a node learns addresses from nodes that know them. `ImplementsAbs` is the
refinement.

**EventLoop** is `main_loop` with its queue and the DIO and DAO events of one
DAG. Times are relative to the current second, as the code only uses
differences. `Serve` is a pass of the inner loop, `Poll` the call of poll,
`Tick` the clock; a packet, a timeout, a signal or a netlink message ends the
poll. `Unplug` is `del_linkinfo`, after which `mSendDioEvent` dangles: the next
`schedule_dio` may work or kill the process (`UseAfterFree`).

**SeqWindow** is the comparison of 8-bit sequence numbers that Dodag and Sunshine
share.

**Interfaces** is the list of interfaces and the netlink socket it follows the
kernel through. The kernel (external) changes links and addresses at any time and
queues a notification; `Filtered` and `SkipIt` are one message of a dump
(`rtnl_dump_filter`, at start-up and after SIGUSR1), `Listen` one message of
`rtnl_listen`, `SetupStep` and `LookStep` one interface of the loops that set
interfaces up. Objects are memory cells: a freed one may be given to the next
interface, and `dag_bestparentif`, `dag_parentif` and `loopback_interface` are not
cleared. A use of freed memory, or of the NULL pointer in `del_linkinfo`, may end
the process (`dead`). The member `loopback` is not initialised; `Dirty` says for
which links it happens to be true.

**Sunshine** is one process from its command line on: an action for every option
that makes or changes a DAG, in any order, `Start` for what `main` does after
them, then an action for the reception of a packet on an interface, with the
lookup of its DAG and the handler, and the two timers. Neighbours announce any rank of
16 bits. The process hears its own DIOs on its other interface. Instance ids are within
the 8 bits of their field, as the manual page asks (sunshine.8.ronn:56) and the code
does not check. Dodag has several nodes with one DAG each; Sunshine
one node with several DAGs.

**AddrText**, **Eui**, **Checksum**, **RplOptions**, **Netlink**, **Filters** and
**Identity** are pure algorithms: operators with the names of the functions, over
texts and buffers that are sequences of small numbers. Identity uses Eui, and
Filters uses AddrText. What `mbedtls`, the name server, `sscanf` (which takes blanks and a
sign before hexadecimal digits) and `fnmatch` do is external. `-A` and `-a` come in any
order (`FilterOption`).
**Algorithms** chooses an input for one of them and has one invariant for each
question; the references are definitions of another kind (all texts of addresses
instead of a parser, bits instead of masks, lists instead of buffers).

**Join** is the join assistant: neighbour cache, GRASP client, the TCP stream
and the registrar (external). The four kinds of neighbour solicitation are four
actions. `ReadReply(k)` is one read of the socket that finds k messages
together. The session number is the length of `asked`, which is what the static
counter of `generate_random_sessionid` amounts to. A read at the end of the file
changes nothing and is a stuttering step.

**MCDodag** gives topologies to Dodag. **DodagProofs**, **PrefixMapProofs**,
**EventLoopProofs**, **InterfacesProofs**, **SunshineProofs**, **JoinProofs**,
**AlgorithmsProofs** and **MessagesProofs** hold the theorems.

In every module a definition `MutX` stands before a definition `X` and is `X`
with a plausible mistake. Nothing uses it; it is what a property is tried
against: put in place of `X`, it must make TLC find the property violated.

## Runs

`tlc -config <cfg> <module>`; the number of states is what TLC found.

| configuration | module | states | checks |
|---|---|---|---|
| MCDodag_switch | MCDodag | 52518 | types, loop freedom, rank bound, route at the parent, ranks never rise, refinement, every node commits |
| MCDodag_line | MCDodag | 80068 | routes deliver, source address ready, grounded flag, an ack covers the last DAO |
| PrefixMap_slots | PrefixMap | 937 | what is found is iterated once, no rebalancing |
| EventLoop_timing | EventLoop | 89233 | normalised alarms, timeliness, the interval between DIOs, signals handled, events fire |
| Join_answer | Join | 203556 | types, answers belong to the last query, replies are polled for, every pledge is answered while nothing is lost |
| Interfaces_links | Interfaces | 140096 | types, the list follows the kernel, addresses announced, poll arrays, the parent's interface, links that are up are listened on |
| Sunshine_packets | Sunshine | 651284 | types, watching is silent and single, own packets, roots announce |
| Algorithms | Algorithms | 56101 | eight questions about pure algorithms, one or two for each module |
| MCDodag_echo, PrefixMap_iterate, Join_coalesced, Interfaces_enabled | | | violated: see below |

**Bounds.** In `MCDodag_switch` three nodes hear each other and send two DIOs
each: enough for a node to choose the wrong parent, be chosen by another, and
then move, while the older DIOs, DAOs and acks are still there.
`MCDodag_line` has four nodes in a line, so that routes have three hops, and two
DAOs to each parent, so that an ack may belong to the earlier one. SeqMod is 8,
which leaves room for both halves of the serial-number window. For
`MCDodag_echo` SeqMod is 4, so that the 8-bit number wraps after three DAOs.
EventLoop has seconds of 8 ticks and milliseconds of 2, which lets alarms fall
on every residue; the interval of 7 ms is longer than a second and shorter than
two, and longer than the longest poll. Three packets or signals let each event
be rescheduled and a signal arrive at any point. Join has two pledges and three
queries: one pledge asks twice while the other waits. MaxEntries and the six
keys of PrefixMap include equal addresses with different masks and the
insertion of a key that is in the map and not found. Interfaces has four links,
one of which appears later, two changes by the kernel, a signal, a failing call
and a socket that holds one notification besides the answers, so that a change
falls between any two messages and may be dropped. Sunshine has three options,
three packets and two DIOs; with SeqMod = 4 these reach both ends of the window,
and more DIOs would make mDTSN reach INVALID_SEQUENCE. Ranks are below RankMod = 4, so that a
neighbour may announce the largest one; sequence numbers of neighbours are 0 and 3,
the ends of their range. Algorithms has IPv6 addresses of
four pieces, texts of up to eleven characters (all arrangements of digits and
colons in which a piece, a gap and an error can meet), four options, up to three targets,
for which the buffer just has room, messages of up to eight bytes, three attributes of
up to 16 bytes for a buffer of 40, two datagrams of two messages, and four filter options
for two rows of five characters.

Runs of Join, EventLoop, Interfaces and Sunshine do not check for deadlock:
pledges, the kernel and packets stop at the bound, and a process that died does
nothing.

**Fairness.** Dodag: weak fairness of the two timers, since `main_loop` invokes
every event that is due, and of the adoption of a DIO, the reception of a DAO and
the acceptance of an ack. A packet may be lost, but it is sent again every
`mInterval_msec`, and within the bounds the last copy stands for all later ones.
EventLoop: the process runs and time passes; nothing is assumed of packets and
signals, except that they are finitely many. Join: the client reads what it
polls for, and the registrar answers every query it has received. Nothing
obliges a pledge to solicit or the registrar to close. Interfaces: the main loop
goes on; nothing is assumed of the kernel, signals and packets. Sunshine: the main
loop serves the timer of a DIO.

## What the checks found

Four statements of the repository are violated by what the code does, each in a
run with the expectation "violation".

- `EchoAccepted` (rpl.h:144, "a sequence number, to be echoed in ACK"): the ack
  is compared with 16 bits of which 8 were sent. After 254 DAOs, a node no
  longer accepts acks.
- `CanBeIterated` (testing/unit/20-prefix/20-prefixtests.cpp:37, "a PREFIX ma can be
  iterated"): of three entries two are visited, and announced by `build_dao`.
- `ReplySendsValue` (neighbouradvert.cpp:294, "reply to query will send return
  value"): the second of two replies found by one read is lost.
- `LinksEnabled` (sunshine.8.ronn:32, "new ones will be enabled when they become
  visible"): a dump drops the notifications that it finds between its answers, and
  a link that came up in between is not enabled until it changes again.

Eleven more are definitions of the modules and have no run of their own. TLC finds each
violated when it takes the place of the properties of a passing configuration, the one
named at its end.

- `DiosOnceSure` (dag.cpp:690, "can only send DIOs once we are sure about our parent!"):
  a DIS makes a node announce itself before it has committed. [MCDodag_switch]
- `DaoOnRegularBasis` (dag.cpp:791, "to send a DAO on a regular basis"): the removal of any
  interface deletes the events of every DAG (iface.cpp:430). [EventLoop_timing]
- `InProgressDoesNothing` (neighbouradvert.cpp:262, "the query is still in progress, in
  which case, do nothing"): `markvalid` clears the flag and nothing sets it, so every
  repeated solicitation is a new query. [Join_answer]
- `UnknownIgnored` (netlink.cpp:545, "[ignored]"): the removal of a link that is not in
  the list is logged through the NULL pointer `ni`. [Interfaces_links]
- `InvalidMeansNone` (include/dag.h:18, "sequence is 8 bits"): a node's own DIOs
  count `mDTSN` up to 257, `INVALID_SEQUENCE`, and the test of the sequence number
  is skipped for the next DIO, even for the node's own. [Sunshine_packets]
- `RankIs16Bits` (include/dag.h:17, "rank is otherwise 16bits"): a parent of rank 65535
  gives a node rank 65536, announced as 0. From then on the node may take its own DIO
  for one of a better parent; `NeverOwnParent` excepts that case and no other.
  [Sunshine_packets]
- `PrimeKey` (include/dag.h:63, "prime key for the DAG"): the lookup with a DODAGID does
  not compare it (dag.cpp:243), so a DIO of another DODAG of the same instance may change
  the DODAGID of the DAG. Of two DAGs with one instance id only the newest hears
  anything. [Sunshine_packets, DagId = {"a", "b"}]
- `NoDagReported` (main.cpp:439, "must set at least one DAG to announce"): without `-I`
  and `-i`, `dag->add_all_interfaces()` (main.cpp:428) is called on NULL before that. [Sunshine_packets]
- `NullMeansConverted` (lib/libosw/ttoaddr.c:427, "NULL for success"): for a text
  that is no IPv6 address `ttoaddr` returns NULL and sets nothing. `sunshine` calls
  it this way for `--ipv6` and `--iid` (main.cpp:285, 304), so its complaint about
  a bad address is never printed. [Algorithms]
- `FiltersAsDocumented` (sunshine.8.ronn:36, "up to 8 times, with names up to 32
  characters"): a wildcard of 31 characters or more writes its NUL behind its row, and in
  the last row into `mIfFilter_max`, which drops the subnets given before.
  `WildcardsSelect` is about the shorter ones. [Algorithms]
- `LastNameTaken` (lib/libidevid/eui64.cpp:199, "process the last certificate that has the
  right subjectAltName"): the first one is taken. `IdentityOfCertificate` says which names
  may become the hardware address, and which must if there is only one. [Algorithms]

And one contradicts no statement: `rtnl_talk` does not step over
messages that are not for it (libnetlink.c:313). The notification about the link that
`configure_wpan` creates reaches the same socket, and if it is read before the
acknowledgement, the call does not return (Netlink: "spins").

More can be seen by changing a constant of a passing configuration, and are
limits of what the passing runs say:

- `Interfaces_links` with Chosen = 1 and AtStart = {1}: `-i lo` with a registrar on a
  host that has no other link gives a GRASP client to the only interface, and
  `all_grasp` is one entry too short (iface.cpp:1089). `PollArrays` names the
  assumption, Chosen # Lo.
- Sunshine: a DAG that `-p` or `-R` gave its rank announces the very `mBestRank` it
  compares with, and takes its own DIO, heard on another interface, for one of a
  better parent. `NeverOwnParent` is stated for the other DAGs.

- `Join_coalesced` with MaxRead = 1 and MaxWait = 1: an M_WAIT is counted as the reply
  (lib/libgrasp/client.cpp:286), and the socket is not polled when the M_END
  comes.
- `Join_answer` with Garbage = {0, 1}: `queryId` is never initialised
  (node.cpp:26), and an entry that holds another node's session by accident gets
  its answer. The proof of `AnswersAreJustified` names the assumption,
  `CleanHeap`.
- `EventLoop_timing` with UIntMod = 8: `msec*1000` (include/event.h:123) wraps,
  which in the code needs an interval above 4294967 ms, and DIOs come too soon.
- On a ring of four nodes, committed parents (`dag_parent`) may form a loop for a
  time although best parents never do: the commitment follows the choice late.

Remarks that need no run, found while the code was translated:

- A unicast solicitation is answered by a log message only (neighbouradvert.cpp:64),
  and a registrar that has closed the connection is not noticed
  (neighbouradvert.cpp:283) until a write kills the process.
- Interfaces: with `-i`, the other links are set up all the same at the first
  notification; a scan after SIGUSR1 adds interfaces that are not set up before the
  next notification; `disabled` is never cleared; a renamed link keeps its old name;
  an interface is `alive` before the calls that can fail (iface.cpp:197).
- Start-up: `-l` does not set `loaded`, so that another identity is made up; of several `-I` only the last
  is announced; `-i` before `-I` sends no DIS; with `-P` or `-R` a DAO finds no
  `dag_me` and ends the process.
- Options: an option of length 0 other than PAD0 ends the scan; the marker -1 for
  "scanned to the end" is never set; the length that is left is compared unsigned
  (rplmsg.cpp:87). When a DAO is full, every further target would move the end back by a
  byte (dao.cpp:163); as two maps give two targets each, it never is.
- The comment "THIS seems BROKEN" at the checksum (iface.cpp:1217): `ChecksumVerifies`
  shows its sums right.
- `parse_eui2bin` drops a last byte of one digit; `trydotted` reads "1" as 1.0.0.0;
  bit 0x02 of an address is set where it should be inverted (iface.cpp:174).
- Filters: `mIfFilter_max` is never initialised; a subnet that does not parse becomes a
  filter of whatever was on the stack.
- peck: `!eui64len == -1` (peck.cpp:116) is never true, but the length -1 changes
  nothing; a name without an OID hides the EUI-64 behind it; a name
  in binary whose third byte is '-' or ':' is read as text; an EUI-64 leaves the
  address of an Ethernet as it was. `parse_rfc8994string` reads behind a name that
  has no '@'.

## Proofs

`tlapm <module>` for each of the eight modules; DodagProofs, JoinProofs and
PrefixMapProofs take about a minute, the others a few. Every
theorem is for all values of the constants that the `ASSUME`s of the modules allow,
hence for any number of nodes, links, packets, signals and so on; further hypotheses
are named here.

**Dodag**, for every set of nodes, topology, widths and bounds that satisfy
`NodeAssumption` and `WidthAssumption` (finitely many nodes, fewer than RankMod,
nobody hears itself, counters at least as wide as needed), in DodagProofs. The tree:

- `TypeCorrect`: `Spec => []TypeOK`.
- `RankInvariant`: `Spec => [](TypeOK /\ RankInv)`. `RankInv` is the inductive
  strengthening. Loop freedom alone is not inductive, because a node takes its
  rank from a DIO of unknown age. So `RankInv` speaks of all DIOs on the way: the
  rank of a DIO is not below its sender's present rank (`GoodDio`), which stays
  true because ranks only fall. With that, a best parent's rank is at most
  `mBestRank`, one less than the node's own (`Inside`). The bound on ranks needs
  a counting argument: for every rank k held or announced, at least k nodes have
  a rank of at most k (`Counted`); a node that takes rank k + 1 is one more.
- `LoopFreedom`, `RankBound`, `Grounded`, `RanksFall`: the properties
  `BestParentsLoopFree`, `RankAtMostNodes`, `GroundedInherited`,
  `RankNeverRises`, from `RankInv`. In a set of nodes the member of least rank
  has its best parent outside.

The way down:

- `RouteInvariant`: `RouteInv` adds what DAOs and acks vouch for. A DAO may arrive at
  any time, so its targets must be within its sender's reach for good (`GoodDao`);
  they are, because `ip route add` never replaces a route. An ack belongs to a DAO
  whose routes its sender has (`GoodAck`). No set of nodes keeps a target to itself
  (`NoRouteLoop`): a new route leads to a node that had one before.
- `ParentsHaveRoutes`, `Delivery`, `SourceAddresses`: `ParentHasRoute`,
  `RoutesDeliver`, `SourceAddressReady`, from it.
- `CommitsCoverLastDao`: `CommitCoversLastDao`, with `NumberInv`, which ties the number
  on the wire to the number of DAOs sent, as long as 16 bits hold it. The property
  says the same, and without it is false.
- `Refinement`: `Spec => ImplementsAbs`. Each step is a step of DodagAbs or leaves its
  variables alone; the rank that an abstract step needs is in `RankInv`, and the
  knowledge in `RouteInv`.

**PrefixMap** (PrefixMapProofs), for any keys: `TreeInvariant` says that the first key
is the root, that every later one was its left child once, and that the last of
them still is; so no loop of the library visits more than three nodes. `FoundOnce`
(`FoundIsIterated`), `MapIsChildMap` (`IsChildMap`) and `NeverRebalanced`
(`InsertedUnderRoot`) follow, and with them that Dodag and Sunshine may use ChildMap, and
PrefixMap leave out the colours of the tree.

**EventLoop** (EventLoopProofs), for every clock, interval and longest poll:

- `TypeCorrect`, with the carry of `set_alarm`.
- `LoopInvariant` and `NeverLate` (`Timely`). While poll waits, an event comes closer;
  so `LoopInv` is about what is left of the poll too: no event is due before its
  end by a millisecond or more. That is what rounding down in `miliseconds_util`
  gives.
- `DioIntervals` (`IntervalKept`), if Interval * MSEC < UIntMod, that is if the
  microseconds of the interval fit the `unsigned int` they are computed in.
  `QuietInv`: the time since the last DIO and the time until the next make an
  interval.

**Interfaces** (InterfacesProofs), for any links, objects, buffer and bounds:

- `InterfacesInvariant`: `IfInv` is inductive. `KernelFollowed` only speaks of moments
  when all is read; `FollowInv` says what holds at every other one: a link that is
  up is in the list, or the socket holds a NEWLINK of it that `gather_linkinfo` will
  be given (not one that the dump under way drops); of a link that is gone the
  list has no object, or a DELLINK comes and no NEWLINK after it; an address is
  announced, or a NEWADDR comes when its link is known. For that `AnswerInv` says
  where the answer to a dump ends, and `ListInv` that no two objects have one index.
- `TypeCorrect`; `FollowsKernel` (`KernelFollowed`).
- `ParentOnItsLink` (`ParentIfIsItsLink`): the object of the best parent's link is not
  deleted before the link is, because a DELLINK is only ever about a link that is
  gone (`KernelInv`) and no ifindex comes back.
- `PollArrays` (`PollWithinArrays`), if Chosen # Lo: only one object has a client
  (`ClientInv`), and the loopback is another one in the list from the first dump
  on (`LoInv`).

**Sunshine** (SunshineProofs), for any interfaces, neighbours, options and packets:

- `SunshineInvariant`: `SunInv` says that no DAG has a DIO timer while options are read,
  how an active DAG's ranks and parents go together (`Sound`), that a watcher is
  silent and alone (`Silent`, `Alone`), and that every DIO the process sent is of the
  newest DAG of its instance and announces more than its `mBestRank` now, or 0
  (`AirInv`).
- `TypeCorrect`, `WatchersStayApart` (`WatchersApart`), `NoOwnParent` (`NeverOwnParent`).
  The last does not rest on sequence numbers, which come round, nor on what neighbours
  announce.

**Join** (JoinProofs), for every set of pledges and all bounds:

- `TypeCorrect`: also says that the unsigned `queries_outstanding` never goes
  below 0.
- `AnswersAreJustified`: under `CleanHeap`, `Spec => []AnswerIsToLastQuery`. The
  strengthening is `SessionsInv` (a query id that is a session is the last session
  of its own node) and `RegistrarInv` (what the registrar answers was asked).
- `RepliesPolled`: `Spec => []RepliesArePolled`, from `CountInv`: what is pending
  and what is unread are together at most `queries_outstanding`. Lost replies
  make the count too large, never too small; an M_WAIT makes it too small, hence
  the condition waits = 0.

**Algorithms** (AlgorithmsProofs, and MessagesProofs for options and attributes). The
run tries all small inputs; here the questions
are proved of inputs of every length. Folds and recursive functions are first turned into
runs, that is tables of all intermediate results (`FoldRun`, `FlatRun` and their like),
and induction is over the members of a set (`UpToInduction`), so that no theorem needs an
operator as a parameter.

- `EveryChecksumVerifies`: the checksum that `send_raw_icmp` inserts verifies, for any
  addresses and messages of up to 65535 bytes, and may be computed in two parts. The
  invariant is that the partial sum stays congruent to the sum of the words modulo
  65535, and that two foldings are enough.
  `ChecksumCorrect` is the property `ChecksumVerifies`.
- `EveryTalkAnswered`: the result of `rtnl_talk` is that of the first error or answer to its
  own request, however the messages are split into datagrams, and there is one if only
  replies to this request come before it.
- `EveryAttributeArrives`, `EveryWpanArrives`: what `addattr_l`, `addattr_nest`,
  `addattr_nest_end` and `rta_addattr_l` wrote is what `parse_rtattr` and
  `parse_rtattr_byindex` find, for lists of any attributes and any data. The invariant of
  building (`Lays`): the attributes that fitted are one behind the other at multiples of
  four, and before the first of them nothing was written. `PositionsAre`: RTA_OK and
  RTA_NEXT walk over exactly those places. Closing a nest writes only its length
  (`Ended`), so what is inside is still there and the nest itself is the last attribute
  outside; extending it keeps that length right after each attribute (`Marked`).
  With `TalkCorrect` (the datagrams), `RequestsCorrect` is `RequestsAnswered`.
- `EveryAddressOrdered`: `addrcmp` is a total order on addresses of any length, equal
  only for equal addresses. `AddrcmpCorrect` is `AddrcmpOrders`.
- `EveryFieldRead`, `EveryLinkAddressUnique`: a text of at most eight hexadecimal
  fields is read as the bytes it stands for, what `fmt_eui` wrote is read back, and two
  hardware addresses have the same link-local address only if they differ in nothing but
  the bit that is set. `LinkAddressesCorrect` is `LinkAddresses`.
- `EveryAcpNameParsed`, `EveryIdentityVerified`: `parse_rfc8994string` makes of a name
  the address of its digits, read as `sscanf` reads them, or refuses it, whatever follows;
  and `peck` takes only the EUI of a name of a certificate that was read and, with a CA,
  verified.
  `IdentityCorrect` is `IdentityOfCertificate`.
- `EveryAnnouncement`: an address is announced if and only if one of the first wildcards
  matches the name of the interface and one of the first subnets contains the address,
  for options of both kinds in any number and order whose wildcards leave two characters
  of their row.
  `FiltersCorrect` is `WildcardsSelect`.
- `EveryOptionFound`: `search_subopt` returns the options of a type one by one and then
  NULL, for messages of any options and any sequence of calls. The invariant
  (`AskStates`): the cursor of each type is at the start of an option; what was returned
  for a type is exactly its options before its cursor; and a type whose cursor is still
  at 0 has no option before any other cursor, so that the search that moves it from 0
  skips none. This is why the first option may be of no type that is asked for, unless
  only one is. `Laid` says that a walk from the start of an option visits the starts of
  the later ones, whatever bytes their data have.
- `EveryTargetArrives`, `EveryOptionArrives`: what `build_dao`, `build_dio` and
  `build_dis` wrote is what `rpltarget`, `destprefix` and `rplsolicitedinfo` return. The
  invariant of building (`Holds`): the buffer has the options so far behind the header,
  and zeros behind them, hence the padding that rounds up the length is `PAD0`.
  With `EveryOptionFound`, `OptionsCorrect` is `OptionsArrive`.

The constants are those that `PayloadAssumption`, `FilterAssumption`, `AcpAssumption`,
`WildcardAssumption`, `TextAssumption`, `OptionBounds`, `RoomAssumption`, `WpanRoom` and
`OptionsAssumption` allow. The last says that the buffer is a multiple of 8 and has room
for a DIO (it has 2048 bytes), and that the bits of an address fit into a byte; `WpanRoom`
that a request has room for the 36 bytes of `configure_wpan` (it has 1024).

Only model-checked: liveness (`EventuallyCommitted`, `SignalHandled`,
`EventsFire`, `JoinAnswered`, `EventuallyListening`, `RootAnnounces`), because it
rests on fairness, which the prover does not reason about; and of Algorithms
`AddressesAsText`, a grammar of texts and powers of two that the provers do not
compute with.

## Plan

Done: all modules above, and theorems for every safety property of the runs but those
just named.
