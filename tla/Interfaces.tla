----------------------------- MODULE Interfaces -----------------------------
(***************************************************************************)
(* The network interfaces of sunshine (lib/libndmgmt/netlink.cpp and       *)
(* iface.cpp) and the netlink socket they follow the kernel through        *)
(* (lib/libnetlink/libnetlink.c).                                          *)
(*                                                                         *)
(* The kernel changes links and addresses at any time and queues a         *)
(* notification for each change.  The program reads the queue in two ways: *)
(* rtnl_listen, from the main loop, hands every message to                 *)
(* gather_linkinfo; rtnl_dump_filter, during scan_devices, hands it only   *)
(* the answers to its own request and drops the rest.  One step handles    *)
(* one message, as the kernel may act between any two of them.             *)
(*                                                                         *)
(* An interface object is a cell of Obj.  The memory of a deleted object   *)
(* may be given to the next one, so pointers that were not cleared may     *)
(* come to point to another interface.                                     *)
(***************************************************************************)
EXTENDS Integers, Sequences, FiniteSets, SequencesExt

CONSTANTS
    Link,           \* the links the kernel may have, by ifindex
    AtStart,        \* the links that are up when the program starts
    Lo,             \* the loopback link, which is never deleted
    Dummy,          \* links named dummy0
    Ipv6Off,        \* links whose disable_ipv6 is set at first
    Matching,       \* links whose name and address pass -A and -a
    Chosen,         \* the link given with -i and a registrar, or 0
    Obj,            \* the memory cells of network_interface objects
    Dirty,          \* links whose object gets memory in which loopback reads as true
    RcvBuf,         \* notifications the socket can hold
    MaxChanges, MaxSignals, MaxFailures, MaxAdoptions   \* bounds of a run

NULL == 0

ASSUME LinkAssumption ==
    /\ Link \subseteq Nat \ {NULL} /\ IsFiniteSet(Link) /\ NULL \notin Obj
    /\ Lo \in AtStart /\ AtStart \subseteq Link /\ Chosen \in Link \cup {NULL}
    /\ Cardinality(Obj) >= Cardinality(Link)
    /\ Dirty \subseteq Link /\ Ipv6Off \subseteq Link
    /\ {MaxChanges, MaxSignals, MaxFailures, MaxAdoptions} \subseteq Nat

VARIABLES
    \* the kernel
    link,               \* "absent", "down" (or without carrier), "up", "gone"
    address,            \* links that have an IPv6 address
    off,                \* links whose disable_ipv6 is set
    members,            \* links on which ff02::1a is joined
    socket,             \* what can be read from the netlink socket
    \* the program
    pc, pos,            \* where main_loop is; position in a walk of all_if
    dump,               \* sequence number of the last dump request
    iface, all_if,      \* the objects, and the list of them
    nd_socket,          \* whether the ICMPv6 socket is open
    loopback_interface, dag_bestparentif, dag_parentif,
    dag_announced,      \* links whose address the DAG announces
    dao_needed, events, \* events: which of the DAG's timers are queued
    signal_usr1,
    dead,               \* FALSE, or why the process has ended
    \* what only the properties look at
    parentlink,         \* the link of the best parent, while it exists
    lost,               \* links about which a notification was dropped
    count               \* how often each bounded thing has happened

kernel == <<link, address, off, members>>
dagvars == <<dag_bestparentif, dag_parentif, dag_announced, dao_needed, events, parentlink>>
listvars == <<iface, all_if, loopback_interface>>
vars == <<kernel, socket, pc, pos, dump, listvars, nd_socket, dagvars,
          signal_usr1, dead, lost, count>>

-----------------------------------------------------------------------------
(* Messages.  A notification has sequence number 0. *)

Msg(type, i, up, seq) == [type |-> type, idx |-> i, up |-> up, seq |-> seq]
Done(seq) == Msg("DONE", NULL, FALSE, seq)

Message ==
    [type : {"NEWLINK", "DELLINK", "NEWADDR", "DELADDR"}, idx : Link, up : BOOLEAN,
     seq : 0..2 * (1 + MaxSignals)]
    \cup {Done(s) : s \in 1..2 * (1 + MaxSignals)}

\* The kernel drops what the receive buffer cannot hold; recvmsg then fails
\* once and the readers go on.
Notify(m) ==
    IF Len(SelectSeq(socket, LAMBDA x : x.seq = 0)) < RcvBuf
    THEN socket' = Append(socket, m) /\ UNCHANGED lost
    ELSE UNCHANGED socket /\ lost' = lost \cup {m.idx}

\* The answer of the kernel to a dump request.
Dumped(type, S, seq) ==
    [k \in 1..Cardinality(S) |->
        LET i == SetToSeq(S)[k] IN Msg(type, i, link[i] = "up", seq)]
    \o <<Done(seq)>>

-----------------------------------------------------------------------------
(* The list of interfaces. *)

Live == Range(all_if)

MutFindNothing(i) == NULL

find_by_ifindex(i) ==
    LET at == SelectInSeq(all_if, LAMBDA o : iface[o].index = i)
    IN  IF at = 0 THEN NULL ELSE all_if[at]

MutNewInterfaceNoIndex(i) ==
    [index |-> -2, alive |-> FALSE, disabled |-> FALSE, loopback |-> i \in Dirty, client |-> FALSE]

\* network_interface::network_interface: the member loopback is not set.
NewInterface(i) ==
    [index |-> i, alive |-> FALSE, disabled |-> FALSE, loopback |-> i \in Dirty, client |-> FALSE]

\* The memory of a deleted object, which nothing reads but by mistake.
Freed == NewInterface(-1)

\* Where new may put an object: in memory that was never used, all of which
\* is alike, or where a deleted object was.
Cells ==
    LET fresh == {o \in Obj : iface[o].index = NULL}
    IN  (Obj \ (Live \cup fresh)) \cup {o \in fresh : \A x \in fresh : o <= x}

is_active(o) == iface[o].alive /\ ~iface[o].disabled

Init ==
    /\ link = [i \in Link |-> IF i \in AtStart THEN "up" ELSE "absent"]
    /\ off = Ipv6Off /\ address = {i \in Link : link[i] = "up"} \ off
    /\ members = {} /\ socket = <<>>
    /\ pc = "scan" /\ pos = 0 /\ dump = 0
    /\ iface = [o \in Obj |-> NewInterface(NULL)] /\ all_if = <<>>
    /\ nd_socket = FALSE
    /\ loopback_interface = NULL /\ dag_bestparentif = NULL /\ dag_parentif = NULL
    /\ dag_announced = {} /\ dao_needed = FALSE /\ events = {}
    /\ signal_usr1 = FALSE /\ dead = FALSE
    /\ parentlink = NULL /\ lost = {}
    /\ count = [change |-> 0, signal |-> 0, failure |-> 0, adoption |-> 0]

-----------------------------------------------------------------------------
(* The kernel. *)

Change ==
    /\ ~dead /\ count.change < MaxChanges
    /\ count' = [count EXCEPT !.change = @ + 1]
    /\ UNCHANGED <<pc, pos, dump, listvars, nd_socket, dag_bestparentif, dag_parentif,
                   dag_announced, dao_needed, events, signal_usr1, dead>>

\* The kernel numbers its links in order: an ifindex does not come back.
Present(i) == link[i] \in {"down", "up"}

LinkUp(i) ==
    /\ Change
    /\ link[i] \in {"absent", "down"} /\ link' = [link EXCEPT ![i] = "up"]
    /\ Notify(Msg("NEWLINK", i, TRUE, 0))
    /\ UNCHANGED <<address, off, members, parentlink>>

LinkDown(i) ==
    /\ Change
    /\ i # Lo /\ link[i] \in {"absent", "up"} /\ link' = [link EXCEPT ![i] = "down"]
    /\ address' = address \ {i}
    /\ Notify(Msg("NEWLINK", i, FALSE, 0))
    /\ UNCHANGED <<off, members, parentlink>>

LinkDeleted(i) ==
    /\ Change
    /\ i # Lo /\ Present(i) /\ link' = [link EXCEPT ![i] = "gone"]
    /\ address' = address \ {i} /\ members' = members \ {i}
    /\ parentlink' = IF parentlink = i THEN NULL ELSE parentlink
    /\ Notify(Msg("DELLINK", i, FALSE, 0))
    /\ UNCHANGED off

\* An address is announced when duplicate detection has ended, on a link
\* that is up.
AddressAdded(i) ==
    /\ Change
    /\ link[i] = "up" /\ i \notin off \cup address /\ address' = address \cup {i}
    /\ Notify(Msg("NEWADDR", i, TRUE, 0))
    /\ UNCHANGED <<link, off, members, parentlink>>

AddressRemoved(i) ==
    /\ Change
    /\ i \in address /\ address' = address \ {i}
    /\ Notify(Msg("DELADDR", i, TRUE, 0))
    /\ UNCHANGED <<link, off, members, parentlink>>

Ipv6Enabled(i) ==
    /\ Change
    /\ i \in off /\ off' = off \ {i}
    /\ UNCHANGED <<link, address, members, socket, lost, parentlink>>

Signal ==
    /\ ~dead /\ pc # "scan" /\ count.signal < MaxSignals
    /\ count' = [count EXCEPT !.signal = @ + 1]
    /\ signal_usr1' = TRUE
    /\ UNCHANGED <<kernel, socket, pc, pos, dump, listvars, nd_socket, dagvars, dead, lost>>

-----------------------------------------------------------------------------
(* What gather_linkinfo does with a message. *)

\* maybe_send_dao with dao_needed set.
MaybeSendDao ==
    IF dag_bestparentif # NULL
    THEN dao_needed' = FALSE /\ events' = events \cup {"dao"}
    ELSE dao_needed' = TRUE /\ UNCHANGED events

AddLinkinfo(m) ==
    /\ m.type = "NEWLINK"
    /\ UNCHANGED <<dag_bestparentif, dag_parentif, dag_announced, dao_needed, events, dead>>
    /\ IF ~m.up THEN UNCHANGED listvars
       ELSE LET known == find_by_ifindex(m.idx)
                looked == m.idx \notin Dummy
                enabled == looked /\ m.idx \notin off
                isLo == enabled /\ m.idx = Lo
            IN \E o \in IF known # NULL THEN {known} ELSE Cells :
                  LET new == known = NULL
                      was == IF new THEN NewInterface(m.idx) ELSE iface[o]
                  IN /\ all_if' = IF new THEN <<o>> \o all_if ELSE all_if
                     /\ iface' = [iface EXCEPT ![o] =
                            [was EXCEPT !.disabled = @ \/ (looked /\ ~enabled),
                                        !.loopback = @ \/ isLo]]
                     /\ loopback_interface' = IF isLo THEN o ELSE loopback_interface

MutDestroyedHead(o) ==
    /\ all_if' = Tail(all_if)
    /\ iface' = [iface EXCEPT ![Head(all_if)] = Freed]
    /\ events' = {}

\* delete ni: the object leaves the list and every event is cleared.
Destroyed(o) ==
    /\ all_if' = RemoveFirst(all_if, o)
    /\ iface' = [iface EXCEPT ![o] = Freed]
    /\ events' = {}

\* The message of an unknown link is logged with ni->if_index, ni being NULL.
DelLinkinfo(m) ==
    /\ m.type = "DELLINK"
    /\ UNCHANGED <<loopback_interface, dag_bestparentif, dag_parentif,
                   dag_announced, dao_needed>>
    /\ IF find_by_ifindex(m.idx) = NULL
       THEN dead' = TRUE /\ UNCHANGED <<iface, all_if, events>>
       ELSE Destroyed(find_by_ifindex(m.idx)) /\ UNCHANGED dead

MutIpinfoIfActive(m) ==
    /\ m.type = "NEWADDR"
    /\ UNCHANGED <<listvars, dag_bestparentif, dag_parentif, dead>>
    /\ LET o == find_by_ifindex(m.idx) IN
       IF o # NULL /\ is_active(o) /\ m.idx \in Matching
       THEN dag_announced' = dag_announced \cup {m.idx} /\ MaybeSendDao
       ELSE UNCHANGED <<dag_announced, dao_needed, events>>

\* update_addr, notify_new_interface.  Only the loopback's address has host scope.
AdddelIpinfo(m) ==
    /\ m.type = "NEWADDR"
    /\ UNCHANGED <<listvars, dag_bestparentif, dag_parentif, dead>>
    /\ IF find_by_ifindex(m.idx) # NULL /\ m.idx # Lo /\ m.idx \in Matching
       THEN dag_announced' = dag_announced \cup {m.idx} /\ MaybeSendDao
       ELSE UNCHANGED <<dag_announced, dao_needed, events>>

DelAddrIgnored(m) ==
    m.type = "DELADDR" /\ UNCHANGED <<listvars, dag_bestparentif, dag_parentif,
                                      dag_announced, dao_needed, events, dead>>

GatherLinkinfo(m) == AddLinkinfo(m) \/ DelLinkinfo(m) \/ AdddelIpinfo(m) \/ DelAddrIgnored(m)

-----------------------------------------------------------------------------
(* scan_devices: two dumps, at the start and for SIGUSR1. *)

program == <<kernel, nd_socket, count, parentlink>>

\* rtnl_wilddump_request; what the socket held before is rest.
Request(rest, type, S) ==
    /\ dump' = dump + 1
    /\ socket' = rest \o Dumped(type, S, dump + 1)

ScanStart ==
    /\ ~dead
    /\ pc = "scan" \/ (pc = "poll" /\ signal_usr1)
    /\ Request(socket, "NEWLINK", {i \in Link : Present(i)})
    /\ pc' = IF pc = "scan" THEN "links0" ELSE "links"
    /\ UNCHANGED <<program, pos, listvars, dag_bestparentif, dag_parentif, dag_announced,
                   dao_needed, events, signal_usr1, dead, lost>>

Scanning == pc \in {"links0", "links", "addrs0", "addrs"}

\* rtnl_dump_filter with junk = NULL.  What a skipped message said is known all
\* the same if the dump that is being read says it too.
Repeated(m) ==
    \/ m.type = "DELADDR"
    \/ m.type = "NEWLINK" /\ pc \in {"links0", "links"}
    \/ m.type = "NEWADDR"

SkipIt ==
    /\ ~dead /\ Scanning /\ socket # <<>>
    /\ LET m == Head(socket) IN
        /\ m.seq # dump
        /\ lost' = IF Repeated(m) THEN lost ELSE lost \cup {m.idx}
    /\ socket' = Tail(socket)
    /\ UNCHANGED <<program, pc, pos, dump, listvars, dag_bestparentif, dag_parentif,
                   dag_announced, dao_needed, events, signal_usr1, dead>>

Filtered ==
    /\ ~dead /\ Scanning /\ socket # <<>>
    /\ Head(socket).seq = dump /\ Head(socket).type # "DONE"
    /\ GatherLinkinfo(Head(socket))
    /\ socket' = Tail(socket)
    /\ UNCHANGED <<program, pc, pos, dump, signal_usr1, lost>>

\* The second request is sent when the first dump is done.
LinksDone ==
    /\ ~dead /\ pc \in {"links0", "links"} /\ socket # <<>> /\ Head(socket) = Done(dump)
    /\ Request(Tail(socket), "NEWADDR", address)
    /\ pc' = IF pc = "links0" THEN "addrs0" ELSE "addrs"
    /\ UNCHANGED <<program, pos, listvars, dag_bestparentif, dag_parentif, dag_announced,
                   dao_needed, events, signal_usr1, dead, lost>>

\* For SIGUSR1, repair_dao_send follows, and only then is the flag reset.
AddrsDone ==
    /\ ~dead /\ pc \in {"addrs0", "addrs"} /\ socket # <<>> /\ Head(socket) = Done(dump)
    /\ socket' = Tail(socket)
    /\ IF pc = "addrs0"
       THEN pc' = "setup" /\ pos' = 1 /\ UNCHANGED <<dao_needed, events, signal_usr1>>
       ELSE pc' = "poll" /\ signal_usr1' = FALSE /\ MaybeSendDao /\ UNCHANGED pos
    /\ UNCHANGED <<program, dump, listvars, dag_bestparentif, dag_parentif, dag_announced,
                   dead, lost>>

-----------------------------------------------------------------------------
(* setup and send_raw_icmp, on what they depend on and change. *)

Port(o) == [alive |-> iface[o].alive, open |-> nd_socket, joined |-> iface[o].index \in members,
            there |-> Present(iface[o].index), ok |-> TRUE, failed |-> 0]

\* setup_allrpl_membership
Join(p) == IF p.open /\ p.there THEN [p EXCEPT !.joined = TRUE] ELSE [p EXCEPT !.alive = FALSE]

\* network_interface::setup; socket() or one of the setsockopt calls may fail.
Setup(p) ==
    IF p.alive THEN {p}
    ELSE LET q == [p EXCEPT !.alive = TRUE] IN
         IF p.open THEN {Join(q)}
         ELSE {Join([q EXCEPT !.open = TRUE])} \cup
              IF count.failure < MaxFailures
              THEN {[q EXCEPT !.ok = FALSE, !.failed = 1],
                    [q EXCEPT !.ok = FALSE, !.failed = 1, !.open = TRUE]}
              ELSE {}

\* check_allrouters_membership: both groups are joined again when missing.
CheckMembership(p) == IF p.joined THEN p ELSE Join(p)

SendRawIcmp(p) == {IF q.ok THEN CheckMembership(q) ELSE q : q \in Setup(p)}

\* Object o after setup or a transmission left its port as p.
PortIs(o, p) ==
    /\ iface' = [iface EXCEPT ![o].alive = p.alive]
    /\ nd_socket' = p.open
    /\ members' = IF p.joined THEN members \cup {iface[o].index} ELSE members
    /\ count' = [count EXCEPT !.failure = @ + p.failed]

-----------------------------------------------------------------------------
(* Walks along all_if: at the start, and look_for_new_interfaces. *)

\* main: -i sets up one interface and gives it a GRASP client; when that is
\* not found, or was not given, setup_all_if sets up all of them.
Wanted(o) ==
    LET found == find_by_ifindex(Chosen)
    IN  IF Chosen # NULL /\ found # NULL THEN o = found
        ELSE ~iface[o].loopback /\ ~iface[o].disabled

SetupStep ==
    /\ ~dead /\ pc = "setup" /\ pos <= Len(all_if)
    /\ LET o == all_if[pos] IN
        IF Wanted(o)
        THEN \E p \in Setup(Port(o)) : PortIs(o, p)
        ELSE UNCHANGED <<iface, nd_socket, members, count>>
    /\ pos' = pos + 1
    /\ UNCHANGED <<link, address, off, socket, pc, dump, all_if, loopback_interface, dagvars,
                   signal_usr1, dead, lost>>

SetupEnd ==
    /\ ~dead /\ pc = "setup" /\ pos > Len(all_if)
    /\ pc' = "poll" /\ pos' = 0 /\ events' = {"dio"}
    /\ iface' = [o \in Obj |-> [iface[o] EXCEPT !.client =
                    Chosen # NULL /\ o = find_by_ifindex(Chosen)]]
    /\ UNCHANGED <<program, socket, dump, all_if, loopback_interface, dag_bestparentif,
                   dag_parentif, dag_announced, dao_needed, signal_usr1, dead, lost>>

\* rtnl_listen, one message.
Listen ==
    /\ ~dead /\ pc \in {"poll", "listen"} /\ socket # <<>>
    /\ GatherLinkinfo(Head(socket))
    /\ socket' = Tail(socket) /\ pc' = "listen"
    /\ UNCHANGED <<program, pos, dump, signal_usr1, lost>>

\* Nothing is left to read.
ListenEnd ==
    /\ ~dead /\ pc = "listen" /\ socket = <<>>
    /\ pc' = "look" /\ pos' = 1
    /\ UNCHANGED <<program, socket, dump, listvars, dag_bestparentif, dag_parentif,
                   dag_announced, dao_needed, events, signal_usr1, dead, lost>>

MutNeedsSetupActive(o) == is_active(o) /\ ~iface[o].loopback /\ ~iface[o].disabled

NeedsSetup(o) == ~is_active(o) /\ ~iface[o].loopback /\ ~iface[o].disabled

\* setup, and a DIS for every DAG.
LookStep ==
    /\ ~dead /\ pc = "look" /\ pos <= Len(all_if)
    /\ LET o == all_if[pos] IN
        IF NeedsSetup(o)
        THEN \E p \in Setup(Port(o)) : \E q \in SendRawIcmp([p EXCEPT !.ok = TRUE]) : PortIs(o, q)
        ELSE UNCHANGED <<iface, nd_socket, members, count>>
    /\ pos' = pos + 1
    /\ UNCHANGED <<link, address, off, socket, pc, dump, all_if, loopback_interface, dagvars,
                   signal_usr1, dead, lost>>

LookEnd ==
    /\ ~dead /\ pc = "look" /\ pos > Len(all_if)
    /\ pc' = "poll" /\ pos' = 0
    /\ UNCHANGED <<program, socket, dump, listvars, dag_bestparentif, dag_parentif,
                   dag_announced, dao_needed, events, signal_usr1, dead, lost>>

-----------------------------------------------------------------------------
(* The timers and the packets of the DAG, as far as they use interfaces. *)

\* send_dio_all, on every interface that is active and not the loopback.
Sending == {o \in Live : is_active(o) /\ ~iface[o].loopback}

SendDioAll ==
    /\ ~dead /\ pc = "poll" /\ "dio" \in events
    /\ iface' = [o \in Obj |-> IF o \in Sending
                               THEN [iface[o] EXCEPT !.alive = CheckMembership(Port(o)).alive]
                               ELSE iface[o]]
    /\ members' = members \cup {iface[o].index : o \in {x \in Sending : CheckMembership(Port(x)).joined}}
    /\ UNCHANGED <<link, address, off, socket, pc, pos, dump, all_if, loopback_interface,
                   nd_socket, dagvars, signal_usr1, dead, lost, count>>

\* A DIO that arrives on a link is handled by the object of that link; it may
\* make its sender the best parent, on this interface.
ReceiveDio(i) ==
    /\ ~dead /\ pc = "poll" /\ count.adoption < MaxAdoptions
    /\ link[i] = "up" /\ i # Lo /\ nd_socket /\ i \in members
    /\ find_by_ifindex(i) # NULL
    /\ dag_bestparentif' = find_by_ifindex(i) /\ parentlink' = i
    /\ dao_needed' = FALSE /\ events' = events \cup {"dao"}
    /\ count' = [count EXCEPT !.adoption = @ + 1]
    /\ UNCHANGED <<kernel, socket, pc, pos, dump, listvars, nd_socket, dag_parentif,
                   dag_announced, signal_usr1, dead, lost>>

\* send_dao goes through dag_bestparentif, whatever has become of the object.
SendDao ==
    /\ ~dead /\ pc = "poll" /\ "dao" \in events
    /\ IF dag_bestparentif \in Live
       THEN /\ \E p \in SendRawIcmp(Port(dag_bestparentif)) : PortIs(dag_bestparentif, p)
            /\ UNCHANGED dead
       ELSE dead' \in BOOLEAN /\ UNCHANGED <<iface, nd_socket, members, count>>
    /\ UNCHANGED <<link, address, off, socket, pc, pos, dump, all_if, loopback_interface,
                   dagvars, signal_usr1, lost>>

\* commit_parent installs the parent's routes through dag_parentif.
CommitParent ==
    /\ ~dead /\ pc = "poll" /\ dag_bestparentif # NULL /\ dag_bestparentif # dag_parentif
    /\ dag_parentif' = dag_bestparentif
    /\ IF dag_bestparentif \in Live THEN UNCHANGED dead ELSE dead' \in BOOLEAN
    /\ UNCHANGED <<program, socket, pos, pc, dump, listvars, dag_bestparentif, dag_announced,
                   dao_needed, events, signal_usr1, lost>>

Kernel == \E i \in Link : \/ LinkUp(i) \/ LinkDown(i) \/ LinkDeleted(i)
                          \/ AddressAdded(i) \/ AddressRemoved(i) \/ Ipv6Enabled(i)

\* The steps main_loop takes by itself.
Loop == \/ ScanStart \/ SkipIt \/ Filtered \/ LinksDone \/ AddrsDone
        \/ SetupStep \/ SetupEnd \/ Listen \/ ListenEnd \/ LookStep \/ LookEnd

Next == \/ Kernel \/ Signal \/ Loop
        \/ SendDioAll \/ SendDao \/ CommitParent \/ \E i \in Link : ReceiveDio(i)

Spec == Init /\ [][Next]_vars

\* The process runs: the loop goes on.  Nothing is assumed of the kernel, of
\* signals and of packets.
FairSpec == Spec /\ WF_vars(Loop)

-----------------------------------------------------------------------------
(* Type correctness. *)
TypeOK ==
    /\ link \in [Link -> {"absent", "down", "up", "gone"}]
    /\ address \subseteq Link /\ off \subseteq Link /\ members \subseteq Link
    /\ socket \in Seq(Message)
    /\ pc \in {"scan", "links0", "addrs0", "setup", "poll", "listen", "look", "links", "addrs"}
    /\ iface \in [Obj -> [index : Link \cup {NULL, -1}, alive : BOOLEAN, disabled : BOOLEAN,
                          loopback : BOOLEAN, client : BOOLEAN]]
    /\ all_if \in Seq(Obj)
    /\ {loopback_interface, dag_bestparentif, dag_parentif} \subseteq Obj \cup {NULL}
    /\ dag_announced \subseteq Link /\ parentlink \in Link \cup {NULL} /\ lost \subseteq Link
    /\ events \subseteq {"dio", "dao"}
    /\ {nd_socket, dao_needed, signal_usr1, dead} \subseteq BOOLEAN
    /\ pos \in Nat /\ dump \in 0..2 * (1 + MaxSignals)
    /\ count \in [change : 0..MaxChanges, signal : 0..MaxSignals, failure : 0..MaxFailures,
                  adoption : 0..MaxAdoptions]

\* The loop has read all there is.
Quiet == pc = "poll" /\ socket = <<>> /\ ~dead

(* Once all notifications are read, the list (all_if, kept by add_linkinfo and
   del_linkinfo) has one object for every link that is up and none for a link
   that is gone, unless a notification about that link was dropped. *)
ListFollowsKernel ==
    Quiet => \A i \in Link \ lost :
        LET n == Cardinality({k \in DOMAIN all_if : iface[all_if[k]].index = i})
        IN  /\ link[i] = "up" => n = 1
            /\ ~Present(i) => n = 0

(* Every address that -A and -a select is announced by the DAG
   (notify_new_interface) once the notifications are read: the order of links
   before addresses holds in the dumps and in the notifications. *)
AddressesAnnounced ==
    Quiet => \A i \in (address \cap Matching) \ (lost \cup {Lo}) : i \in dag_announced

(* In whatever order links and addresses came and went while the dumps and the
   notifications were read (gather_linkinfo), the program knows them in the end. *)
KernelFollowed == ListFollowsKernel /\ AddressesAnnounced

MutGraspSize == Len(all_if)

\* The length of all_grasp in main_loop.
all_grasp_size == 1 + Len(all_if)

(* The arrays poll_if and all_grasp of main_loop have 2 + n and 1 + n entries for
   n interfaces, and every interface with a GRASP client takes the next entry
   from number 2 on. *)
PollWithinArrays ==
    pc = "poll" => 2 + Cardinality({o \in Live : iface[o].client}) <= all_grasp_size

(* While the best parent's link exists, dag_bestparentif is the object of that
   link: the removal of other interfaces, new ones in their place, and
   notifications that were dropped do no harm to it. *)
ParentIfIsItsLink ==
    parentlink # NULL =>
        dag_bestparentif \in Live /\ iface[dag_bestparentif].index = parentlink

(* Whenever main_loop has read a notification, every link that is known then and
   stays up ends with an interface that is active and has joined ff02::1a, unless
   IPv6 was disabled when it was found, its object's uninitialised member loopback
   happened to be true, a notification about the link was dropped, a system call
   failed or the process ended. *)
Listening(i) ==
    \E o \in Live : /\ iface[o].index = i
                    /\ \/ iface[o].disabled \/ iface[o].loopback
                       \/ is_active(o) /\ i \in members

Spoilt(i) == i \in lost \/ count.failure > 0 \/ dead

EventuallyListening ==
    \A i \in Link \ {Lo} :
        (pc = "listen" /\ find_by_ifindex(i) # NULL /\ link[i] = "up")
        ~> (Listening(i) \/ link[i] # "up" \/ Spoilt(i))

(* "New ones will be enabled when they become visible": without -i, a link that is
   up ends with an interface that listens on it, however its notification falls
   among the dumps of scan_devices.  Links without IPv6 or whose object's loopback
   reads as true by chance, and a process that has ended, are left aside. *)
LinksEnabled ==
    \A i \in Link \ ({Lo} \cup Ipv6Off \cup Dirty) :
        link[i] = "up" ~> (Listening(i) \/ link[i] # "up" \/ dead)

(* "[ignored]", as del_linkinfo logs it: the removal of a link that has no
   interface is read and the process goes on. *)
UnknownIgnored ==
    [][\A i \in Link : (/\ socket # <<>> /\ socket' = Tail(socket)
                        /\ Head(socket).type = "DELLINK" /\ Head(socket).idx = i
                        /\ find_by_ifindex(i) = NULL)
                       => ~dead']_vars
====
