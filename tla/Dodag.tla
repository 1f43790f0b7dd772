------------------------------- MODULE Dodag -------------------------------
(***************************************************************************)
(* The formation of one RPL DODAG by nodes that run the dag_network of     *)
(* lib/libndmgmt/dag.cpp: a root announces itself with DIOs, the others    *)
(* choose a best parent by rank, register with it by a DAO, and commit to  *)
(* it when the DAO-ACK comes back.                                         *)
(*                                                                         *)
(* Every node is one sunshine process with one RPL interface and one       *)
(* active DAG (sunshine -I 0 -i eth0, and -p prefix on the root).  A       *)
(* handler runs to completion in the single thread of main_loop, so every  *)
(* handler is one action.  A timer event requeues itself for ever, so an   *)
(* armed event may fire at any time.  Packets are kept in sets that never  *)
(* shrink: a packet may be delivered late, twice, out of order or never.   *)
(***************************************************************************)
EXTENDS Integers, FiniteSets, ChildMap, SeqWindow

(* Node is the set of processes, and of the /128 address each one announces; *)
(* NoNode is the NULL pointer.                                               *)
CONSTANTS
    Root,           \* the one started with -p, hence with rank 1
    Nbr,            \* Nbr[n]: the nodes whose multicasts n hears
    ShortMod,       \* 2^16: mDTSN and mDAOSequence are unsigned short
    RankMod,        \* 2^16: rpl_dagrank is u_int16_t
    UINT_MAX,       \* 2^32 - 1: the rank of a node that is in no DODAG
    MaxDio,         \* bound: how many DIOs one node sends
    MaxDao          \* bound: how many DAOs one node sends to one parent

RANK_INFINITE == RankMod + 1
INVALID_SEQUENCE == SeqMod + 1

ASSUME NodeAssumption ==
    /\ IsFiniteSet(Node)
    /\ Root \in Node
    /\ NoNode \notin Node
    /\ Nbr \in [Node -> SUBSET Node]
    /\ \A n \in Node : n \notin Nbr[n]

ASSUME WidthAssumption ==
    /\ SeqMod \in Nat /\ SeqMod >= 4
    /\ ShortMod \in Nat /\ ShortMod > INVALID_SEQUENCE
    /\ RankMod \in Nat /\ RankMod > Cardinality(Node)
    /\ UINT_MAX \in Nat /\ UINT_MAX > RANK_INFINITE
    /\ MaxDio \in Nat /\ MaxDao \in Nat

VARIABLES
    mMyRank, mBestRank,         \* own rank, and the rank of the best parent
    dag_bestparent,             \* whom the next DAO goes to
    dag_parent, dag_lastparent, \* the committed parent, and the one before
    mDTSN, mDAOSequence,        \* sequence numbers of own DIOs and DAOs
    lastSeq,                    \* mLastSeq & 0xff
    dioReceived,                \* mStats[PS_DIO_PACKET_RECEIVED] # 0
    mGrounded, dao_needed,
    dag_me,                     \* dag_me # NULL: own address configured
    dag_children,               \* see module ChildMap
    routes,                     \* routes[n][t]: next hop at n for address t
    dioEvent, daoEvent,         \* mSendDioEvent, mSendDaoEvent in the queue
    dios, daos, acks,           \* every packet ever sent
    dioCount, daoCount          \* how many of them a node sent

rankVars  == <<mMyRank, mBestRank, dag_bestparent, mGrounded, mDTSN>>
seqVars   == <<lastSeq, dioReceived>>
upVars    == <<dag_parent, dag_lastparent>>
downVars  == <<dag_children, routes>>
eventVars == <<dioEvent, daoEvent, dao_needed>>
netVars   == <<dios, daos, acks, dioCount, daoCount>>
vars == <<rankVars, seqVars, upVars, downVars, eventVars, netVars,
          mDAOSequence, dag_me>>

----------------------------------------------------------------------------
(* ip -6 route add: fails, and leaves the old route, when there is one. *)
MutRouteOnLink(table, target, via) ==
    IF target = NoNode \/ table[target] # NoNode THEN table
    ELSE [table EXCEPT ![target] = target]
RouteAdd(table, target, via) ==
    IF target = NoNode \/ table[target] # NoNode THEN table
    ELSE [table EXCEPT ![target] = via]

----------------------------------------------------------------------------
Rank == 0 .. UINT_MAX

Dio == [src : Node, rank : 0 .. RankMod - 1, dtsn : 0 .. SeqMod - 1,
        grounded : BOOLEAN]

(* The targets of a DAO in wire order: the iteration over dag_children,   *)
(* then the only entry of dag_announced.  "no" counts the sender's DAOs   *)
(* and is not on the wire: the properties use it, no action reads it.     *)
Dao == [src : Node, dst : Node, seq : 0 .. SeqMod - 1, no : Nat,
        t1 : Node \cup {NoNode}, t2 : Node \cup {NoNode}, t3 : Node]

Ack == [src : Node, dst : Node, seq : 0 .. SeqMod - 1]

Targets(d) == {d.t1, d.t2, d.t3} \ {NoNode}

(* init_dag, and what main does before main_loop.  -R 1 on the root also  *)
(* sets mDTSN to 1.  mGrounded and dao_needed are not initialised, but    *)
(* are assigned before their value can matter: they start as FALSE.       *)
Init ==
    /\ mMyRank   = [n \in Node |-> IF n = Root THEN 1 ELSE UINT_MAX]
    /\ mBestRank = mMyRank
    /\ mDTSN \in {[n \in Node |-> IF n = Root THEN s ELSE INVALID_SEQUENCE] :
                      s \in {1, INVALID_SEQUENCE}}
    /\ mDAOSequence = [n \in Node |-> 1]
    /\ lastSeq = [n \in Node |-> 0]
    /\ dioReceived = [n \in Node |-> FALSE]
    /\ mGrounded = [n \in Node |-> n = Root]
    /\ dao_needed = [n \in Node |-> n = Root]
    /\ dag_me = [n \in Node |-> n = Root]
    /\ dag_bestparent = [n \in Node |-> NoNode]
    /\ dag_parent = [n \in Node |-> NoNode]
    /\ dag_lastparent = [n \in Node |-> NoNode]
    /\ dag_children = [n \in Node |-> NoChild]
    /\ routes = [n \in Node |-> [t \in Node |-> NoNode]]
    /\ dioEvent = [n \in Node |-> n = Root]
    /\ daoEvent = [n \in Node |-> FALSE]
    /\ dios = {} /\ daos = {} /\ acks = {}
    /\ dioCount = [n \in Node |-> 0]
    /\ daoCount = [n \in Node |-> 0]

----------------------------------------------------------------------------
dag_rank_infinite(best) == best >= RANK_INFINITE
root_node(rank) == rank = 1

(* schedule_dio: arms the event, unless the node is in no DODAG. *)
MutScheduleDioAlways(n, best) == dioEvent' = [dioEvent EXCEPT ![n] = TRUE]
ScheduleDio(n, best) ==
    dioEvent' = [dioEvent EXCEPT ![n] = @ \/ ~dag_rank_infinite(best)]

(* A DIO sooner than otherwise, when the parent has changed. *)
MaybeScheduleDio(n, best, last, parent) ==
    /\ IF last # parent THEN ScheduleDio(n, best) ELSE UNCHANGED dioEvent
    /\ dag_lastparent' = [dag_lastparent EXCEPT ![n] = parent]

(* schedule_dao, for a node that has somebody to send the DAO to. *)
MaybeSendDao(n, needed, bestparent, rank) ==
    /\ daoEvent' = [daoEvent EXCEPT ![n] =
          @ \/ (needed /\ bestparent # NoNode /\ ~root_node(rank))]
    /\ dao_needed' = [dao_needed EXCEPT ![n] = needed /\ bestparent = NoNode]

MutDioNotGrounded(n) ==
    [src |-> n, rank |-> mMyRank[n] % RankMod, dtsn |-> Byte(mDTSN[n]),
     grounded |-> FALSE]
BuildDio(n) ==
    [src |-> n, rank |-> mMyRank[n] % RankMod, dtsn |-> Byte(mDTSN[n]),
     grounded |-> mGrounded[n]]

(* The DIO event fires: send_dio_all, send_dio. *)
SendDio(n) ==
    /\ dioEvent[n]
    /\ dioCount[n] < MaxDio
    /\ dios' = dios \cup {BuildDio(n)}
    /\ mDTSN' = [mDTSN EXCEPT ![n] = (@ + 1) % ShortMod]
    /\ dioCount' = [dioCount EXCEPT ![n] = @ + 1]
    /\ UNCHANGED <<mMyRank, mBestRank, dag_bestparent, mGrounded, seqVars,
                   upVars, downVars, eventVars, daos, acks, daoCount,
                   mDAOSequence, dag_me>>

(* receive_dis: every node but the root multicast one DIS when it started. *)
ReceiveDis(n, m) ==
    /\ m \in Nbr[n] \ {Root}
    /\ ScheduleDio(n, mBestRank[n])
    /\ UNCHANGED <<rankVars, seqVars, upVars, downVars, daoEvent, dao_needed,
                   netVars, mDAOSequence, dag_me>>

(* The test at the head of receive_dio. *)
Stale(n, d) ==
    /\ SeqTooOld(lastSeq[n], d.dtsn)
    /\ d.dtsn # 0
    /\ dioReceived[n]

(* receive_dio, discard_dio *)
DioTooOld(n, d) ==
    /\ d.src \in Nbr[n]
    /\ Stale(n, d)
    /\ UNCHANGED vars

(* The early returns of potentially_lower_rank, turned around. *)
MutBetterAnyRank(n, d) ==
    /\ dag_bestparent[n] # d.src
    /\ dag_parent[n] # d.src
    /\ mDTSN[n] = INVALID_SEQUENCE \/ mDTSN[n] < d.dtsn
MutBetterThanMine(n, d) ==
    /\ d.rank <= mMyRank[n]
    /\ dag_bestparent[n] # d.src
    /\ dag_parent[n] # d.src
    /\ mDTSN[n] = INVALID_SEQUENCE \/ mDTSN[n] < d.dtsn
Better(n, d) ==
    /\ d.rank <= mBestRank[n]
    /\ dag_bestparent[n] # d.src
    /\ dag_parent[n] # d.src
    /\ mDTSN[n] = INVALID_SEQUENCE \/ mDTSN[n] < d.dtsn

(* seq_update leaves the sequence number of the DIO in the low 8 bits. *)
SeqUpdate(n, d) ==
    /\ dioReceived' = [dioReceived EXCEPT ![n] = TRUE]
    /\ lastSeq' = [lastSeq EXCEPT ![n] = d.dtsn]

DioIgnored(n, d) ==
    /\ d.src \in Nbr[n]
    /\ ~Stale(n, d)
    /\ ~Better(n, d)
    /\ SeqUpdate(n, d)
    /\ UNCHANGED <<rankVars, upVars, downVars, eventVars, netVars,
                   mDAOSequence, dag_me>>

(* The rank of a node whose best parent announced this one. *)
MutRankBelowBy2(rank) == rank + 2
RankBelow(rank) == rank + 1

(* add_prefix, cfg_new_node: the address in the announced prefix. *)
ConfigureAddress(n) == dag_me' = [dag_me EXCEPT ![n] = TRUE]

(* potentially_lower_rank to its end.  The prefix option always asks for a *)
(* DAO and always configures the address again: set_installed has no       *)
(* effect and add_address clears the flag.                                 *)
DioAdopted(n, d) ==
    /\ d.src \in Nbr[n]
    /\ ~Stale(n, d)
    /\ Better(n, d)
    /\ SeqUpdate(n, d)
    /\ mDTSN' = [mDTSN EXCEPT ![n] = d.dtsn]
    /\ mBestRank' = [mBestRank EXCEPT ![n] = d.rank]
    /\ mMyRank' = [mMyRank EXCEPT ![n] = RankBelow(d.rank)]
    /\ mGrounded' = [mGrounded EXCEPT ![n] = d.grounded]
    /\ dag_bestparent' = [dag_bestparent EXCEPT ![n] = d.src]
    /\ ConfigureAddress(n)
    /\ MaybeScheduleDio(n, d.rank, dag_lastparent[n], dag_parent[n])
    /\ MaybeSendDao(n, TRUE, d.src, RankBelow(d.rank))
    /\ UNCHANGED <<dag_parent, downVars, netVars, mDAOSequence>>

----------------------------------------------------------------------------
(* build_dao increments the counter and announces the new value. *)
NextDAOSequence(n) == (mDAOSequence[n] + 1) % ShortMod

MutDaoPostIncrement(n) ==
    [src |-> n, dst |-> dag_bestparent[n], seq |-> Byte(mDAOSequence[n]),
     no |-> daoCount[n] + 1, t1 |-> dag_children[n].second,
     t2 |-> dag_children[n].first, t3 |-> n]
BuildDao(n) ==
    [src |-> n, dst |-> dag_bestparent[n], seq |-> Byte(NextDAOSequence(n)),
     no |-> daoCount[n] + 1, t1 |-> dag_children[n].second,
     t2 |-> dag_children[n].first, t3 |-> n]

(* The DAO event fires: send_dao. *)
SendDao(n) ==
    /\ daoEvent[n]
    /\ dag_bestparent[n] # NoNode
    /\ Cardinality({d \in daos : d.src = n /\ d.dst = dag_bestparent[n]})
          < MaxDao
    /\ mDAOSequence' = [mDAOSequence EXCEPT ![n] = NextDAOSequence(n)]
    /\ daos' = daos \cup {BuildDao(n)}
    /\ daoCount' = [daoCount EXCEPT ![n] = @ + 1]
    /\ UNCHANGED <<rankVars, seqVars, upVars, downVars, eventVars,
                   dios, acks, dioCount, dag_me>>

(* add_childnode: operator[], and for a fresh entry the route. *)
AddChildnode(s, target, via) ==
    [children |-> Insert(s.children, target),
     table    |-> RouteAdd(s.table, target, via),
     needed   |-> s.needed \/ IsNew(s.children, target)]

BuildDaoAck(d) == [src |-> d.dst, dst |-> d.src, seq |-> d.seq]

(* receive_dao: every target in turn, maybe_send_dao, and the DAO-ACK that *)
(* the K flag of build_dao asks for.  add_route_via_node dereferences      *)
(* dag_me.                                                                 *)
ReceiveDao(d) ==
    LET n  == d.dst
        s0 == [children |-> dag_children[n], table |-> routes[n],
               needed |-> dao_needed[n]]
        s1 == AddChildnode(s0, d.t1, d.src)
        s2 == AddChildnode(s1, d.t2, d.src)
        s3 == AddChildnode(s2, d.t3, d.src)
    IN  /\ d.src \in Nbr[n]
        /\ dag_me[n]
        /\ dag_children' = [dag_children EXCEPT ![n] = s3.children]
        /\ routes' = [routes EXCEPT ![n] = s3.table]
        /\ MaybeSendDao(n, s3.needed, dag_bestparent[n], mMyRank[n])
        /\ acks' = acks \cup {BuildDaoAck(d)}
        /\ UNCHANGED <<rankVars, seqVars, upVars, dioEvent, dios, daos,
                       dioCount, daoCount, mDAOSequence, dag_me>>

(* The tests of receive_daoack.  The 8-bit number of the ack is compared   *)
(* with the whole 16-bit counter.                                          *)
MutAcceptsAnyParent(n, a) == a.seq = mDAOSequence[n]
MutAcceptsAnySequence(n, a) == a.src = dag_bestparent[n]
Accepts(n, a) ==
    /\ a.src = dag_bestparent[n]
    /\ a.seq = mDAOSequence[n]

(* The routes towards the prefix, and to everywhere when the DODAG is      *)
(* grounded, now lead to dag_parent.                                       *)
CommitParent(n) ==
    /\ dag_bestparent[n] # dag_parent[n]
    /\ dag_parent' = [dag_parent EXCEPT ![n] = dag_bestparent[n]]
    /\ MaybeScheduleDio(n, mBestRank[n], dag_parent[n], dag_bestparent[n])

(* An ack that fails one of the tests, or comes from the present parent,   *)
(* changes nothing.                                                        *)
ReceiveDaoAck(n, a) ==
    /\ a.dst = n
    /\ a.src \in Nbr[n]
    /\ Accepts(n, a)
    /\ CommitParent(n)
    /\ UNCHANGED <<rankVars, seqVars, downVars, daoEvent, dao_needed, netVars,
                   mDAOSequence, dag_me>>

Next ==
    \/ \E n \in Node : SendDio(n) \/ SendDao(n)
    \/ \E n, m \in Node : ReceiveDis(n, m)
    \/ \E n \in Node, d \in dios :
          DioTooOld(n, d) \/ DioIgnored(n, d) \/ DioAdopted(n, d)
    \/ \E d \in daos : ReceiveDao(d)
    \/ \E n \in Node, a \in acks : ReceiveDaoAck(n, a)

Spec == Init /\ [][Next]_vars

(* The timers fire (main_loop serves every event whose time has passed),  *)
(* and a packet that matters gets through: it is sent again every         *)
(* mInterval_msec, and within the bounds the last copy stands for all the *)
(* later ones.                                                            *)
Fairness ==
    \A n \in Node :
       /\ WF_vars(SendDio(n))
       /\ WF_vars(SendDao(n))
       /\ WF_vars(\E d \in dios : DioAdopted(n, d))
       /\ WF_vars(\E a \in acks : ReceiveDaoAck(n, a))
       /\ WF_vars(\E d \in daos : d.dst = n /\ ReceiveDao(d))

FairSpec == Spec /\ Fairness

----------------------------------------------------------------------------
Joined(n) == mMyRank[n] # UINT_MAX
Edge(f, n) == f[n] # NoNode

(* Every variable has the type its declaration in dag.h gives it. *)
TypeOK ==
    /\ mMyRank \in [Node -> Rank]
    /\ mBestRank \in [Node -> Rank]
    /\ dag_bestparent \in [Node -> Node \cup {NoNode}]
    /\ dag_parent \in [Node -> Node \cup {NoNode}]
    /\ dag_lastparent \in [Node -> Node \cup {NoNode}]
    /\ mDTSN \in [Node -> 0 .. ShortMod - 1]
    /\ mDAOSequence \in [Node -> 0 .. ShortMod - 1]
    /\ lastSeq \in [Node -> 0 .. SeqMod - 1]
    /\ dioReceived \in [Node -> BOOLEAN]
    /\ mGrounded \in [Node -> BOOLEAN]
    /\ dao_needed \in [Node -> BOOLEAN]
    /\ dag_me \in [Node -> BOOLEAN]
    /\ dag_children \in [Node -> ChildMap]
    /\ routes \in [Node -> [Node -> Node \cup {NoNode}]]
    /\ dioEvent \in [Node -> BOOLEAN]
    /\ daoEvent \in [Node -> BOOLEAN]
    /\ dios \subseteq Dio
    /\ daos \subseteq Dao
    /\ acks \subseteq Ack
    /\ dioCount \in [Node -> Nat]
    /\ daoCount \in [Node -> Nat]

(* potentially_lower_rank: however late and in whatever order DIOs arrive, *)
(* the best parents never form a loop: every set of nodes has a member     *)
(* whose best parent is outside it.                                        *)
BestParentsLoopFree ==
    \A S \in SUBSET Node :
       S # {} => \E n \in S : dag_bestparent[n] \notin S

(* potentially_lower_rank: a rank is at most the number of nodes, so that  *)
(* the 16 bits of rpl_dagrank never wrap in a DODAG of fewer than 2^16     *)
(* nodes, although a node takes its rank from DIOs that may be outdated.   *)
RankAtMostNodes ==
    \A n \in Node : Joined(n) => mMyRank[n] \in 1 .. Cardinality(Node)

(* potentially_lower_rank: a node never moves away from the root. *)
RankNeverRises ==
    [][\A n \in Node : mMyRank'[n] <= mMyRank[n]]_vars

(* receive_daoack, commit_parent: who is committed to as a parent has a    *)
(* route down to the node.                                                 *)
ParentHasRoute ==
    \A n \in Node : Edge(dag_parent, n) => Edge(routes[dag_parent[n]], n)

(* add_childnode, send_dao: every downward route leads over a link to the  *)
(* target itself or to a node that has a route to it, and following them   *)
(* never goes round in a loop.                                             *)
RoutesDeliver ==
    \A t \in Node :
       /\ \A n \in Node : LET via == routes[n][t] IN
             via # NoNode => /\ n \in Nbr[via]
                             /\ via = t \/ Edge(routes[via], t)
       /\ \A S \in SUBSET (Node \ {t}) :
             S # {} => \E n \in S : routes[n][t] \notin S

(* receive_daoack: a node commits when the parent has handled the last DAO *)
(* it sent, and not an earlier one: the parent has a route to every target *)
(* of that DAO.  mDAOSequence must not have wrapped.                       *)
CommitCoversLastDao ==
    [][\A n \in Node :
          dag_parent'[n] # dag_parent[n] /\ daoCount[n] + 1 < ShortMod =>
             \A d \in daos :
                d.src = n /\ d.no = daoCount[n] =>
                   /\ d.dst = dag_parent'[n]
                   /\ \A t \in Targets(d) : Edge(routes[d.dst], t)]_vars

(* add_route_via_node: dag_me is set in every node a DAO is on the way to, *)
(* so that the source address of the route can be read.                    *)
SourceAddressReady == \A d \in daos : dag_me[d.dst]

(* build_dio, potentially_lower_rank: whoever is in the DODAG knows that   *)
(* the root is grounded, and adds the default route when it commits.       *)
GroundedInherited == \A n \in Node : Joined(n) => mGrounded[n]

(* A node that hears the root, directly or over others, gets a parent. *)
EventuallyCommitted ==
    \A n \in Node \ {Root} : <>(dag_parent[n] # NoNode)

(* What the whole protocol is for: the specification of DodagAbs, with     *)
(* known[n] the addresses n has a route to.                                *)
Known(n) == {t \in Node : Edge(routes[n], t)}

Abs == INSTANCE DodagAbs WITH
          rank <- mMyRank, best <- dag_bestparent, parent <- dag_parent,
          known <- [n \in Node |-> Known(n)], NoRank <- UINT_MAX

ImplementsAbs == Abs!Spec

(* rpl.h:144: rpl_daoseq is a sequence number "to be echoed in ACK": the   *)
(* best parent's echo of the last DAO is what receive_daoack waits for.    *)
EchoAccepted ==
    \A n \in Node, a \in acks, d \in daos :
       /\ a.dst = n /\ a.src = dag_bestparent[n]
       /\ d.src = n /\ d.no = daoCount[n] /\ d.dst = a.src /\ d.seq = a.seq
       => Accepts(n, a)

(* dag.cpp:690, "can only send DIOs once we are sure about our parent":    *)
(* whoever sent a DIO is the root or has committed to a parent.            *)
DiosOnceSure == \A d \in dios : d.src = Root \/ dag_parent[d.src] # NoNode
=============================================================================
