------------------------------ MODULE Sunshine ------------------------------
(***************************************************************************)
(* One sunshine process with several DAGs and several interfaces: the      *)
(* command line (programs/sunshine/main.cpp), which makes the DAGs, and    *)
(* the reception of packets (iface.cpp, dio.cpp, dao.cpp, daoack.cpp,      *)
(* dis.cpp), which finds the DAG a packet is for.                          *)
(*                                                                         *)
(* The options come in any order, as getopt hands them over.  Then the     *)
(* process is in main_loop, where every handler runs to completion.  The   *)
(* neighbours send what they like, but a DAO only to a node whose DIO they *)
(* have heard.  The process also hears its own multicasts, on every        *)
(* interface that is on the same network.                                  *)
(***************************************************************************)
EXTENDS Integers, Sequences, FiniteSets, ChildMap, SeqWindow

CONSTANTS
    If,             \* the interfaces but for the loopback, by index
    Peer,           \* addresses of neighbours
    Inst, DagId,    \* RPLInstanceIDs, which fit into their 8 bits, and DODAGIDs in use
    Given,          \* the options of main that a run gives
    Dtsn,           \* the sequence numbers of the neighbours' DIOs
    ShortMod, RankMod, UINT_MAX,    \* see Dodag
    MaxOptions, MaxPackets, MaxDio, MaxDao  \* bounds of a run

SE == INSTANCE SequencesExt

NULL == NoNode
NoDagid == "unset"
RANK_INFINITE == RankMod + 1
INVALID_SEQUENCE == SeqMod + 1

ASSUME SunshineAssumption ==
    /\ If \subseteq Nat \ {0} /\ If \cap Peer = {} /\ NULL \notin If \cup Peer
    /\ IsFiniteSet(If)
    /\ Node = If \cup Peer
    /\ NoDagid \notin DagId /\ Dtsn \subseteq 0 .. SeqMod - 1 /\ Inst \subseteq 0 .. SeqMod - 1
    /\ {SeqMod, ShortMod, RankMod, UINT_MAX} \subseteq Nat /\ SeqMod > 0
    /\ UINT_MAX > RANK_INFINITE /\ RankMod > 3 /\ ShortMod > INVALID_SEQUENCE
    /\ {MaxOptions, MaxPackets, MaxDio, MaxDao} \subseteq Nat /\ MaxDao < ShortMod

VARIABLES
    phase,          \* "options", "run", "exited" or "died"
    given,          \* how many options were read
    dags,           \* the DAGs, oldest first: all_dag from its end
    iface,          \* main's iface: an interface or NULL
    grounded, loaded, registrar, justkidding,   \* main's variables
    ifs,            \* the interfaces
    air,            \* DIOs the process has sent
    packets         \* how many packets were received

main == <<iface, grounded, loaded, registrar, justkidding>>
vars == <<phase, given, dags, main, ifs, air, packets>>

(* The address of interface i is i itself. *)
Addr(i) == i

-----------------------------------------------------------------------------
(* dag_network *)

(* struct nd_rpl_dio, as BuildDio makes it *)
Dio == [type : {"dio"}, inst : Inst, dagid : DagId \cup {NoDagid}, rank : 0 .. RankMod - 1,
        dtsn : 0 .. SeqMod - 1, grounded : BOOLEAN]

Dag == [inst : Inst, dagid : DagId \cup {NoDagid}, active : BOOLEAN,
        settings : SUBSET {"p", "R", "W", "A", "a", "P", "m"},
        mMyRank : 0 .. UINT_MAX, mBestRank : 0 .. UINT_MAX, mDTSN : 0 .. ShortMod - 1,
        lastSeq : 0 .. SeqMod - 1, seen : BOOLEAN, mDAOSequence : 0 .. ShortMod - 1,
        mGrounded : BOOLEAN, dao_needed : BOOLEAN, dag_me : BOOLEAN, self : SUBSET Node,
        bestparent : Node \cup {NULL}, parent : Node \cup {NULL}, lastparent : Node \cup {NULL},
        children : ChildMap, dioEvent : BOOLEAN, daoEvent : BOOLEAN]

init_dag(num, n_dagid) ==
    [inst |-> num, dagid |-> n_dagid, active |-> FALSE, settings |-> {},
     mMyRank |-> UINT_MAX, mBestRank |-> UINT_MAX, mDTSN |-> INVALID_SEQUENCE,
     lastSeq |-> 0, seen |-> FALSE, mDAOSequence |-> 1,
     mGrounded |-> FALSE, dao_needed |-> FALSE, dag_me |-> FALSE, self |-> {},
     bestparent |-> NULL, parent |-> NULL, lastparent |-> NULL,
     children |-> NoChild, dioEvent |-> FALSE, daoEvent |-> FALSE]

(* Both find_by_instanceid: the DODAGID is not compared. *)
find_by_instanceid(num) == SE!SelectLastInSeq(dags, LAMBDA d : d.inst = num)

MutScheduleDioRoot(d) == [d EXCEPT !.dioEvent = @ \/ d.mBestRank \in 2 .. RANK_INFINITE - 1]
ScheduleDio(d) == [d EXCEPT !.dioEvent = @ \/ d.mBestRank < RANK_INFINITE]

MaybeScheduleDio(d) ==
    IF d.lastparent # d.parent
    THEN [ScheduleDio(d) EXCEPT !.lastparent = d.parent]
    ELSE d

MaybeSendDao(d) ==
    IF d.dao_needed /\ d.bestparent # NULL
    THEN [d EXCEPT !.daoEvent = @ \/ d.mMyRank # 1, !.dao_needed = FALSE]
    ELSE d

(* set_acp_identity, and cfg_new_node without an interface. *)
SetAcpIdentity(d) == [d EXCEPT !.dag_me = TRUE, !.dao_needed = TRUE]

(* addselfprefix on the interfaces of S. *)
AddSelfPrefix(d, S) ==
    [d EXCEPT !.self = @ \cup {Addr(i) : i \in S}, !.dao_needed = TRUE, !.dag_me = TRUE]

-----------------------------------------------------------------------------
(* main: the options. *)

Init ==
    /\ phase = "options" /\ given = 0 /\ dags = <<>>
    /\ iface = NULL /\ grounded = FALSE /\ loaded = FALSE /\ registrar = FALSE
    /\ justkidding = FALSE
    /\ ifs \in {[i \in If |-> [alive |-> FALSE, watching |-> w[i], client |-> FALSE]] :
                    w \in [If -> BOOLEAN]}      \* watching is not initialised
    /\ air = {} /\ packets = 0

Option(o) == phase = "options" /\ given < MaxOptions /\ o \in Given /\ given' = given + 1

(* check_dag and the assignment to the DAG made last; without one, usage() ends
   the process. *)
ToDag(new) ==
    IF dags = <<>>
    THEN phase' = "exited" /\ UNCHANGED dags
    ELSE dags' = [dags EXCEPT ![Len(dags)] = new] /\ UNCHANGED phase

cur == dags[Len(dags)]

\* -I
NewDag(n) ==
    /\ Option("I")
    /\ dags' = Append(dags, [init_dag(n, NoDagid) EXCEPT !.active = TRUE])
    /\ UNCHANGED <<phase, main, ifs, air, packets>>

\* -p.  The prefix is also made unreachable through the loopback.
Prefix ==
    /\ Option("p")
    /\ ToDag([cur EXCEPT !.mGrounded = TRUE, !.mMyRank = 1, !.mBestRank = 1,
                     !.settings = @ \cup {"p"}])
    /\ grounded' = (grounded \/ dags # <<>>)
    /\ UNCHANGED <<iface, loaded, registrar, justkidding, ifs, air, packets>>

\* -R
SetRank(r) ==
    /\ Option("R")
    /\ ToDag([cur EXCEPT !.mMyRank = r, !.mBestRank = r, !.mDTSN = 1,
                     !.settings = @ \cup {"R"}])
    /\ UNCHANGED <<main, ifs, air, packets>>

\* -G
SetDagid(g) ==
    /\ Option("G")
    /\ ToDag([cur EXCEPT !.dagid = g])
    /\ UNCHANGED <<main, ifs, air, packets>>

\* -W, --dao-if-filter, --dao-addr-filter, --ignore-pio, -m
Setting(o) ==
    /\ Option(o)
    /\ ToDag([cur EXCEPT !.settings = @ \cup {o}])
    /\ UNCHANGED <<main, ifs, air, packets>>

\* --ldevid, --ipv6, --iid.  A certificate that could be loaded leaves loaded at 0.
Identity(o) ==
    /\ Option(o)
    /\ ToDag(IF o = "d" THEN cur ELSE SetAcpIdentity(cur))
    /\ loaded' = (o # "l" /\ (loaded \/ dags # <<>>))
    /\ UNCHANGED <<iface, grounded, registrar, justkidding, ifs, air, packets>>

\* --registrar, --die-after-init
Flag(o) ==
    /\ Option(o)
    /\ registrar' = (registrar \/ o = "r") /\ justkidding' = (justkidding \/ o = "n")
    /\ UNCHANGED <<phase, dags, iface, grounded, loaded, ifs, air, packets>>

\* -K, -h, an unknown option, or an argument that cannot be parsed
Leave ==
    /\ Option("h")
    /\ phase' = "exited"
    /\ UNCHANGED <<dags, main, ifs, air, packets>>

\* -i: setup, and the GRASP client of a registrar named before; NULL when there
\* is no such interface.
Interface(i) ==
    /\ Option("i")
    /\ iface' = i
    /\ ifs' = IF i = NULL THEN ifs
              ELSE [ifs EXCEPT ![i].alive = TRUE, ![i].client = @ \/ registrar]
    /\ UNCHANGED <<phase, dags, grounded, loaded, registrar, justkidding, air, packets>>

(* No identity was given, so the root makes one up. *)
SelfIdentity == ~loaded /\ grounded

(* The end of main.  add_all_interfaces on a NULL pointer kills the process. *)
Start ==
    /\ phase = "options"
    /\ UNCHANGED <<given, main, air, packets>>
    /\ IF dags = <<>>
       THEN /\ phase' = IF iface = NULL THEN "died" ELSE "exited"
            /\ UNCHANGED <<dags, ifs>>
       ELSE LET S == IF iface = NULL \/ SelfIdentity THEN If
                     ELSE IF grounded /\ loaded THEN {iface} ELSE {}
                d == IF S = {} THEN cur ELSE AddSelfPrefix(cur, S)
            IN  /\ phase' = IF justkidding THEN "exited" ELSE "run"
                /\ dags' = [dags EXCEPT ![Len(dags)] = ScheduleDio(d)]
                /\ ifs' = IF iface = NULL THEN [i \in If |-> [ifs[i] EXCEPT !.alive = TRUE]]
                          ELSE ifs

-----------------------------------------------------------------------------
(* The timers. *)

(* build_dio, once for every interface: mDTSN moves on with each of them. *)
BuildDio(d, n) ==
    [type |-> "dio", inst |-> Byte(d.inst), dagid |-> d.dagid, rank |-> d.mMyRank % RankMod,
     dtsn |-> Byte((d.mDTSN + n) % ShortMod), grounded |-> d.mGrounded]

Alive == {i \in If : ifs[i].alive}

(* send_dio_all *)
SendDioAll(k) ==
    /\ phase = "run" /\ dags[k].dioEvent
    /\ Cardinality(air) < MaxDio
    /\ air' = air \cup {[from |-> Addr(i), m |-> BuildDio(dags[k], Cardinality({j \in Alive : j < i}))] :
                          i \in Alive}
    /\ dags' = [dags EXCEPT ![k].mDTSN = (@ + Cardinality(Alive)) % ShortMod]
    /\ UNCHANGED <<phase, given, main, ifs, packets>>

(* send_dao, build_dao *)
SendDao(k) ==
    /\ phase = "run" /\ dags[k].daoEvent /\ dags[k].bestparent # NULL
    /\ dags[k].mDAOSequence < MaxDao
    /\ dags' = [dags EXCEPT ![k].mDAOSequence = @ + 1]
    /\ UNCHANGED <<phase, given, main, ifs, air, packets>>

(* A netlink event: look_for_new_interfaces sets up the others too. *)
LookForNew ==
    /\ phase = "run" /\ Alive # If
    /\ ifs' = [i \in If |-> [ifs[i] EXCEPT !.alive = TRUE]]
    /\ UNCHANGED <<phase, given, dags, main, air, packets>>

-----------------------------------------------------------------------------
(* What a DAG does with a packet. *)

(* update_node finds that the packet is its own. *)
OwnPacket(d, i, from) == from \in d.self \/ from = Addr(i)

MutBetterOwnRank(d, from, m) ==
    /\ m.rank <= d.mMyRank
    /\ from \notin {d.bestparent, d.parent}
    /\ d.mDTSN = INVALID_SEQUENCE \/ d.mDTSN < m.dtsn

Better(d, from, m) ==
    /\ m.rank <= d.mBestRank
    /\ from \notin {d.bestparent, d.parent}
    /\ d.mDTSN = INVALID_SEQUENCE \/ d.mDTSN < m.dtsn

(* potentially_lower_rank; the one prefix option of a DIO is handled by add_prefix. *)
Adopt(d, from, m) ==
    LET e == [d EXCEPT !.mDTSN = m.dtsn, !.mBestRank = m.rank, !.mMyRank = m.rank + 1,
                       !.mGrounded = m.grounded, !.inst = m.inst, !.dagid = m.dagid,
                       !.bestparent = from, !.dao_needed = TRUE,
                       !.dag_me = @ \/ "P" \notin d.settings]
    IN  MaybeSendDao(MaybeScheduleDio(e))

MutReceiveDioInactive(d, i, from, m) ==
    IF SeqTooOld(d.lastSeq, m.dtsn) /\ m.dtsn # 0 /\ d.seen THEN d
    ELSE IF OwnPacket(d, i, from) THEN [d EXCEPT !.seen = TRUE, !.self = @ \cup {from}]
    ELSE LET e == [d EXCEPT !.seen = TRUE, !.lastSeq = m.dtsn]
         IN  IF Better(d, from, m) THEN Adopt(e, from, m) ELSE e

(* dag_network::receive_dio *)
ReceiveDio(d, i, from, m) ==
    IF SeqTooOld(d.lastSeq, m.dtsn) /\ m.dtsn # 0 /\ d.seen THEN d
    ELSE IF OwnPacket(d, i, from) THEN [d EXCEPT !.seen = TRUE, !.self = @ \cup {from}]
    ELSE LET e == [d EXCEPT !.seen = TRUE, !.lastSeq = m.dtsn]
         IN  IF d.active /\ Better(d, from, m) THEN Adopt(e, from, m) ELSE e

(* dag_network::receive_dao, for a DAO about its sender *)
ReceiveDao(d, i, from) ==
    IF OwnPacket(d, i, from) THEN [d EXCEPT !.self = @ \cup {from}]
    ELSE IF ~d.active THEN d
    ELSE MaybeSendDao([d EXCEPT !.children = Insert(@, from),
                                !.dao_needed = @ \/ IsNew(d.children, from)])

(* dag_network::receive_daoack and commit_parent *)
ReceiveDaoack(d, from, m) ==
    IF from = d.bestparent /\ m.seq = d.mDAOSequence /\ d.bestparent # d.parent
    THEN MaybeScheduleDio([d EXCEPT !.lastparent = d.parent, !.parent = d.bestparent])
    ELSE d

(* add_route_via_node reads the address of dag_me. *)
NeedsMe(d, i, from) ==
    d.active /\ ~OwnPacket(d, i, from) /\ IsNew(d.children, from)

-----------------------------------------------------------------------------
(* Reception and dispatch. *)

(* What may arrive: DIOs of neighbours and its own, and DIS with the I flag, by
   multicast; acks; and DAOs of neighbours that have heard a DIO. *)
Dios == {[type |-> "dio", inst |-> n, dagid |-> g, rank |-> r, dtsn |-> s, grounded |-> TRUE] :
            n \in Inst, g \in DagId, r \in 0 .. RankMod - 1, s \in Dtsn}

PeerMessage ==
    Dios \cup {[type |-> "dis", inst |-> n] : n \in Inst}
         \cup {[type |-> "daoack", inst |-> n, seq |-> s] : n \in Inst, s \in 1 .. MaxDao}
         \cup {[type |-> "dao", inst |-> a.m.inst, dagid |-> a.m.dagid] : a \in air}

Arriving == air \cup [from : Peer, m : PeerMessage]

MutMakeAlways(m) == m.type \in {"dio", "dao"}

(* Whether a DAG is made for an instance nobody asked for. *)
MakesDag(m) == m.type \in {"dio", "dao"} /\ find_by_instanceid(m.inst) = 0

(* all_dag after find_or_make_by_instanceid, which a watching interface calls: a
   new DAG is the newest. *)
FindOrMake(i, m) ==
    IF ifs[i].watching /\ MakesDag(m) THEN Append(dags, init_dag(m.inst, m.dagid)) ELSE dags

(* The DAG the message finds among all. *)
Found(all, m) == IF all = dags THEN find_by_instanceid(m.inst) ELSE Len(all)

(* DAG k of all handles the packet, if there is one, and becomes new. *)
Handled(all, k, new) == dags' = IF k = 0 THEN all ELSE [all EXCEPT ![k] = new]

(* The handlers of an interface: network_interface::receive_dio, ... *)
IfReceiveDio(i, from, m) ==
    /\ m.type = "dio"
    /\ LET all == FindOrMake(i, m)
           k == Found(all, m)
       IN  Handled(all, k, ReceiveDio(all[k], i, from, m)) /\ UNCHANGED phase

IfReceiveDao(i, from, m) ==
    /\ m.type = "dao"
    /\ LET all == FindOrMake(i, m)
           k == Found(all, m)
       IN  IF k # 0 /\ NeedsMe(all[k], i, from) /\ ~all[k].dag_me
           THEN phase' = "died" /\ UNCHANGED dags
           ELSE Handled(all, k, ReceiveDao(all[k], i, from)) /\ UNCHANGED phase

IfReceiveDaoack(i, from, m) ==
    /\ m.type = "daoack"
    /\ LET k == find_by_instanceid(m.inst)
       IN  Handled(dags, k, ReceiveDaoack(dags[k], from, m)) /\ UNCHANGED phase

IfReceiveDis(i, from, m) ==
    /\ m.type = "dis"
    /\ LET k == find_by_instanceid(m.inst)
       IN  Handled(dags, k, ScheduleDio(dags[k])) /\ UNCHANGED phase

(* receive, and the dispatch of receive_packet. *)
Receive(i, a) ==
    /\ phase = "run" /\ packets < MaxPackets /\ packets' = packets + 1
    /\ ifs[i].alive
    /\ \/ IfReceiveDio(i, a.from, a.m) \/ IfReceiveDao(i, a.from, a.m)
       \/ IfReceiveDaoack(i, a.from, a.m) \/ IfReceiveDis(i, a.from, a.m)
    /\ UNCHANGED <<given, main, ifs, air>>

(* A packet that is too short, of another type or code, without the flags or
   options its handler asks for, or from an interface that is not known, is
   counted and dropped. *)
ReceiveOther ==
    /\ phase = "run" /\ packets < MaxPackets /\ packets' = packets + 1
    /\ UNCHANGED <<phase, given, dags, main, ifs, air>>

Options ==
    \/ \E n \in Inst : NewDag(n)
    \/ Prefix
    \/ SetRank(2)
    \/ \E g \in DagId : SetDagid(g)
    \/ \E o \in {"W", "A", "a", "P", "m"} : Setting(o)
    \/ \E o \in {"l", "6", "d"} : Identity(o)
    \/ \E o \in {"r", "n"} : Flag(o)
    \/ Leave
    \/ \E i \in If \cup {NULL} : Interface(i)

Next ==
    \/ Options \/ Start \/ LookForNew \/ ReceiveOther
    \/ \E k \in DOMAIN dags : SendDioAll(k) \/ SendDao(k)
    \/ \E i \in If, a \in Arriving : Receive(i, a)

(* main_loop serves the timers: the DIO of a DAG is sent. *)
FairSpec ==
    /\ Init /\ [][Next]_vars
    /\ WF_vars(\E k \in DOMAIN dags : SendDioAll(k))

Spec == Init /\ [][Next]_vars

-----------------------------------------------------------------------------
(* Type correctness. *)
TypeOK ==
    /\ phase \in {"options", "run", "exited", "died"}
    /\ dags \in Seq(Dag)
    /\ iface \in If \cup {NULL}
    /\ {grounded, loaded, registrar, justkidding} \subseteq BOOLEAN
    /\ ifs \in [If -> [alive : BOOLEAN, watching : BOOLEAN, client : BOOLEAN]]
    /\ air \subseteq [from : If, m : Dio]
    /\ given \in 0 .. MaxOptions /\ packets \in 0 .. MaxPackets

(* A DAG that find_or_make_by_instanceid made for watching stays out of the
   protocol, whatever DIOs, DAOs, acks and DIS arrive for it: it has no rank and no
   parent, takes no children and announces nothing. *)
WatchOnlySilent ==
    \A k \in DOMAIN dags : ~dags[k].active =>
        /\ dags[k].mMyRank = UINT_MAX /\ dags[k].bestparent = NULL
        /\ dags[k].children = NoChild
        /\ ~dags[k].dioEvent /\ ~dags[k].daoEvent

(* Watching makes at most one DAG for an instance, and none for an instance that
   -I has made, although every DIO and DAO looks for its DAG again. *)
OneWatcher ==
    \A k \in DOMAIN dags : ~dags[k].active =>
        \A l \in DOMAIN dags : l # k => dags[l].inst # dags[k].inst

(* Watching (the member of the interface) never disturbs the protocol. *)
WatchersApart == WatchOnlySilent /\ OneWatcher

(* -p and -R give a DAG its rank: set_dagrank. *)
Ranked(d) == d.settings \cap {"p", "R"} # {}

(* No DAG that has its rank from its parent takes one of the process's own
   addresses for its best parent, also when it hears its DIOs on another interface,
   where update_node does not know them.  The sequence number does not exclude it,
   as mDTSN comes back to INVALID_SEQUENCE, where it is not looked at, and to 0:
   the rank does, as mBestRank never rises, unless mMyRank has left its 16 bits and
   was announced as 0.  A DAG that -p or -R gave its rank has announced mBestRank
   itself. *)
NeverOwnParent ==
    [][\A k \in DOMAIN dags :
         ~Ranked(dags[k]) /\ dags'[k].bestparent \in {Addr(i) : i \in If} \ {dags[k].bestparent} =>
             dags'[k].mBestRank = 0]_vars

(* A process that was started as a root of one DAG (-p), on interfaces that exist,
   announces it in the end. *)
RootAnnounces ==
    (phase = "run" /\ Len(dags) = 1 /\ "p" \in dags[1].settings) ~> (air # {} \/ phase # "run")

(* "sequence is 8 bits": mDTSN is INVALID_SEQUENCE only in a DAG that has neither
   sent a DIO nor adopted a parent, so that potentially_lower_rank skips the test
   of the sequence number for the first DIO only. *)
InvalidMeansNone ==
    Len(dags) = 1 /\ dags[1].mDTSN = INVALID_SEQUENCE => dags[1].bestparent = NULL /\ air = {}

(* "rank is otherwise 16bits": the rank of a DAG that has one can be announced in
   the 16 bits of rpl_dagrank, whatever rank its parent announced. *)
RankIs16Bits ==
    \A k \in DOMAIN dags : dags[k].mBestRank < RANK_INFINITE => dags[k].mMyRank < RankMod

(* "prime key for the DAG": no packet changes the DODAGID of a DAG that has one. *)
PrimeKey ==
    [][\A k \in DOMAIN dags :
         phase = "run" /\ dags[k].dagid # NoDagid => dags'[k].dagid = dags[k].dagid]_vars

(* "must set at least one DAG to announce": main reports that no DAG was given, and
   ends, also when no interface was named. *)
NoDagReported == dags = <<>> => phase # "died"
====
