---------------------------- MODULE DodagProofs ----------------------------
(***************************************************************************)
(* Theorems about Dodag, for every network, every width of the counters    *)
(* and every bound on the packets.                                         *)
(***************************************************************************)
EXTENDS Dodag, FiniteSetTheorems, NaturalsInduction, WellFoundedInduction, TLAPS

(* Truncation yields a value of the width, and changes none that fits. *)
LEMMA ModRange ==
    ASSUME NEW x \in Nat, NEW m \in Nat, m > 0
    PROVE  /\ x % m \in 0 .. m - 1
           /\ x < m => x % m = x
  OBVIOUS

(* A nonempty set of natural numbers has a least element. *)
LEMMA NatMin ==
    ASSUME NEW T \in SUBSET Nat, T # {}
    PROVE  \E x \in T : \A y \in T : x <= y
  <1> DEFINE R == {s \in Nat \X Nat : s[1] < s[2]}
  <1>1. IsWellFoundedOn(R, Nat)
    BY NatLessThanWellFounded DEF OpToRel
  <1>2. PICK x \in T : \A y \in T : <<y, x>> \notin R
    <2> HIDE DEF R
    <2> QED BY <1>1, WFMin
  <1>3. \A y \in T : ~(y < x)
    BY <1>2
  <1> QED
    BY <1>3
----------------------------------------------------------------------------
(* What add_childnode returns has the type of what it is given. *)
LEMMA AddChildnodeType ==
    ASSUME NEW s \in [children : ChildMap,
                      table : [Node -> Node \cup {NoNode}], needed : BOOLEAN],
           NEW t \in Node \cup {NoNode}, NEW via \in Node
    PROVE  AddChildnode(s, t, via) \in
             [children : ChildMap, table : [Node -> Node \cup {NoNode}],
              needed : BOOLEAN]
  BY DEF AddChildnode, Insert, RouteAdd, IsNew, ChildMap

(* Initially every variable has its type. *)
LEMMA InitType == Init => TypeOK
  BY NodeAssumption, WidthAssumption
     DEF Init, TypeOK, Rank, NoChild, ChildMap, INVALID_SEQUENCE, RANK_INFINITE

(* The handlers of a DIO preserve the types. *)
LEMMA DioType ==
    ASSUME TypeOK, NEW n \in Node, NEW d \in dios,
           DioIgnored(n, d) \/ DioAdopted(n, d)
    PROVE  TypeOK'
  <1>1. d \in Dio
    BY DEF TypeOK
  <1>2. /\ d.src \in Node /\ d.rank \in 0 .. RankMod - 1
        /\ d.dtsn \in 0 .. SeqMod - 1 /\ d.grounded \in BOOLEAN
    BY <1>1 DEF Dio
  <1>3. d.dtsn \in 0 .. ShortMod - 1 /\ d.rank \in Rank /\ d.rank + 1 \in Rank
    BY <1>2, WidthAssumption, FS_CardinalityType, NodeAssumption
       DEF Rank, INVALID_SEQUENCE, RANK_INFINITE
  <1>4. CASE DioIgnored(n, d)
    BY <1>2, <1>4
       DEF TypeOK, DioIgnored, SeqUpdate, rankVars, upVars, downVars, eventVars,
           netVars
  <1>5. CASE DioAdopted(n, d)
    <2>1. /\ mMyRank' \in [Node -> Rank] /\ mBestRank' \in [Node -> Rank]
          /\ dag_bestparent' \in [Node -> Node \cup {NoNode}]
          /\ dag_lastparent' \in [Node -> Node \cup {NoNode}]
      BY <1>2, <1>3, <1>5 DEF TypeOK, DioAdopted, RankBelow, MaybeScheduleDio
    <2>2. /\ mDTSN' \in [Node -> 0 .. ShortMod - 1]
          /\ lastSeq' \in [Node -> 0 .. SeqMod - 1]
      BY <1>2, <1>3, <1>5 DEF TypeOK, DioAdopted, SeqUpdate
    <2>3. /\ dioReceived' \in [Node -> BOOLEAN] /\ mGrounded' \in [Node -> BOOLEAN]
          /\ dag_me' \in [Node -> BOOLEAN]
      BY <1>2, <1>5 DEF TypeOK, DioAdopted, SeqUpdate, ConfigureAddress
    <2>4. dioEvent' \in [Node -> BOOLEAN]
      BY <1>5 DEF TypeOK, DioAdopted, MaybeScheduleDio, ScheduleDio
    <2>5. daoEvent' \in [Node -> BOOLEAN] /\ dao_needed' \in [Node -> BOOLEAN]
      BY <1>5 DEF TypeOK, DioAdopted, MaybeSendDao
    <2>6. /\ UNCHANGED <<dag_parent, mDAOSequence, dag_children, routes, dios, daos, acks>>
          /\ UNCHANGED <<dioCount, daoCount>>
      BY <1>5 DEF DioAdopted, downVars, netVars
    <2> QED
      BY <2>1, <2>2, <2>3, <2>4, <2>5, <2>6 DEF TypeOK
  <1> QED
    BY <1>4, <1>5

(* Every step preserves the types. *)
LEMMA NextType == TypeOK /\ [Next]_vars => TypeOK'
  <1> SUFFICES ASSUME TypeOK, [Next]_vars PROVE TypeOK'
    OBVIOUS
  <1>1. ASSUME NEW n \in Node, SendDio(n) PROVE TypeOK'
    <2>1. BuildDio(n) \in Dio
      <3>1. mMyRank[n] \in Nat /\ mDTSN[n] \in Nat /\ mGrounded[n] \in BOOLEAN
        BY DEF TypeOK, Rank
      <3>2. RankMod \in Nat /\ RankMod > 0 /\ SeqMod \in Nat /\ SeqMod > 0
        BY WidthAssumption, FS_CardinalityType, NodeAssumption
      <3>3. mMyRank[n] % RankMod \in 0 .. RankMod - 1
        BY <3>1, <3>2, ModRange
      <3>4. mDTSN[n] % SeqMod \in 0 .. SeqMod - 1
        BY <3>1, <3>2, ModRange
      <3> QED
        BY <3>1, <3>3, <3>4 DEF BuildDio, Dio, Byte
    <2>2. (mDTSN[n] + 1) % ShortMod \in 0 .. ShortMod - 1
      BY WidthAssumption, ModRange DEF TypeOK, INVALID_SEQUENCE
    <2> QED
      BY <1>1, <2>1, <2>2
         DEF TypeOK, SendDio, seqVars, upVars, downVars, eventVars
  <1>2. ASSUME NEW n \in Node, SendDao(n) PROVE TypeOK'
    <2>1. NextDAOSequence(n) \in 0 .. ShortMod - 1
      BY WidthAssumption, ModRange DEF TypeOK, INVALID_SEQUENCE, NextDAOSequence
    <2>2. BuildDao(n) \in Dao
      BY <1>2, <2>1, WidthAssumption, ModRange
         DEF TypeOK, SendDao, BuildDao, Dao, Byte, ChildMap
    <2> QED
      BY <1>2, <2>1, <2>2
         DEF TypeOK, SendDao, rankVars, seqVars, upVars, downVars, eventVars
  <1>3. ASSUME NEW n \in Node, NEW m \in Node, ReceiveDis(n, m) PROVE TypeOK'
    BY <1>3 DEF TypeOK, ReceiveDis, ScheduleDio, dag_rank_infinite, rankVars,
                seqVars, upVars, downVars, netVars
  <1>4. ASSUME NEW n \in Node, NEW d \in dios, DioTooOld(n, d) PROVE TypeOK'
    BY <1>4 DEF TypeOK, DioTooOld, vars, rankVars, seqVars, upVars, downVars,
                eventVars, netVars
  <1>5. ASSUME NEW n \in Node, NEW d \in dios,
               DioIgnored(n, d) \/ DioAdopted(n, d)
        PROVE  TypeOK'
    BY <1>5, DioType
  <1>6. ASSUME NEW d \in daos, ReceiveDao(d) PROVE TypeOK'
    <2> DEFINE S == [children : ChildMap, table : [Node -> Node \cup {NoNode}],
                     needed : BOOLEAN]
               n  == d.dst
               s0 == [children |-> dag_children[n], table |-> routes[n],
                      needed |-> dao_needed[n]]
               s1 == AddChildnode(s0, d.t1, d.src)
               s2 == AddChildnode(s1, d.t2, d.src)
               s3 == AddChildnode(s2, d.t3, d.src)
    <2>1. d \in Dao
      BY DEF TypeOK
    <2>2. /\ n \in Node /\ d.src \in Node /\ d.seq \in 0 .. SeqMod - 1
          /\ d.t1 \in Node \cup {NoNode} /\ d.t2 \in Node \cup {NoNode}
          /\ d.t3 \in Node \cup {NoNode}
      BY <2>1 DEF Dao
    <2>3. s0 \in S
      BY <2>2 DEF TypeOK
    <2>4. s1 \in S
      BY <2>2, <2>3, AddChildnodeType
    <2>5. s2 \in S
      BY <2>2, <2>4, AddChildnodeType
    <2>6. s3 \in S
      BY <2>2, <2>5, AddChildnodeType
    <2>7. /\ dag_children' = [dag_children EXCEPT ![n] = s3.children]
          /\ routes' = [routes EXCEPT ![n] = s3.table]
          /\ MaybeSendDao(n, s3.needed, dag_bestparent[n], mMyRank[n])
          /\ acks' = acks \cup {BuildDaoAck(d)}
          /\ UNCHANGED <<rankVars, seqVars, upVars, dioEvent, dios, daos,
                         dioCount, daoCount, mDAOSequence, dag_me>>
      BY <1>6 DEF ReceiveDao
    <2> HIDE DEF s0, s1, s2, s3
    <2>8. BuildDaoAck(d) \in Ack
      BY <2>2 DEF BuildDaoAck, Ack
    <2> QED
      BY <2>2, <2>6, <2>7, <2>8
         DEF TypeOK, MaybeSendDao, root_node, rankVars, seqVars, upVars
  <1>7. ASSUME NEW n \in Node, NEW a \in acks, ReceiveDaoAck(n, a) PROVE TypeOK'
    BY <1>7 DEF TypeOK, ReceiveDaoAck, CommitParent, MaybeScheduleDio,
                ScheduleDio, dag_rank_infinite, rankVars, seqVars, downVars,
                netVars
  <1>8. CASE UNCHANGED vars
    BY <1>8 DEF TypeOK, vars, rankVars, seqVars, upVars, downVars, eventVars,
                netVars
  <1> QED
    BY <1>1, <1>2, <1>3, <1>4, <1>5, <1>6, <1>7, <1>8 DEF Next

(* Every variable always has its type: in particular the 8-bit and 16-bit  *)
(* numbers of build_dio and build_dao fit their fields.                    *)
THEOREM TypeCorrect == Spec => []TypeOK
  <1> QED
    BY InitType, NextType, PTL DEF Spec

----------------------------------------------------------------------------
(***************************************************************************)
(* Ranks.  A node takes its rank from a DIO that may be arbitrarily old,   *)
(* so the argument is about every DIO still on the way: its rank is not    *)
(* below its sender's present rank, because ranks never rise; and as many  *)
(* nodes as its rank says have a rank that is not larger.                  *)
(***************************************************************************)
Below(k) == {m \in Node : mMyRank[m] <= k}

Counted(k) == k <= Cardinality(Below(k))

RootRank ==
    /\ mMyRank[Root] = 1 /\ mBestRank[Root] = 1
    /\ dag_bestparent[Root] = NoNode

Outside(n) ==
    dag_bestparent[n] = NoNode =>
       mMyRank[n] = UINT_MAX /\ mBestRank[n] = UINT_MAX

Inside(n) ==
    dag_bestparent[n] # NoNode =>
       /\ mMyRank[n] = mBestRank[n] + 1
       /\ mBestRank[n] >= 1
       /\ mMyRank[dag_bestparent[n]] <= mBestRank[n]
       /\ dag_bestparent[n] \in Nbr[n]

Member(n) ==
    Joined(n) => dag_me[n] /\ mGrounded[n] /\ Counted(mMyRank[n])

GoodDio(d) ==
    /\ d.rank >= 1
    /\ mMyRank[d.src] <= d.rank
    /\ Counted(d.rank)
    /\ d.grounded

RankInv ==
    /\ RootRank
    /\ \A n \in Node \ {Root} : Outside(n) /\ Inside(n)
    /\ \A n \in Node : Member(n)
    /\ \A n \in Node : dioEvent[n] => Joined(n)
    /\ \A d \in dios : GoodDio(d)

(* A rank that is counted is at most the number of nodes. *)
LEMMA CountedBound ==
    ASSUME TypeOK, NEW k \in Nat, Counted(k)
    PROVE  k <= Cardinality(Node)
  <1>1. Below(k) \in SUBSET Node
    BY DEF Below
  <1>2. /\ Cardinality(Below(k)) \in Nat /\ Cardinality(Node) \in Nat
        /\ Cardinality(Below(k)) <= Cardinality(Node)
    BY <1>1, NodeAssumption, FS_Subset, FS_CardinalityType
  <1> QED
    BY <1>2 DEF Counted

(* While no rank rises, what is counted stays counted. *)
LEMMA CountedStays ==
    ASSUME TypeOK, TypeOK', NEW k \in Nat, Counted(k),
           \A m \in Node : mMyRank'[m] <= mMyRank[m]
    PROVE  Counted(k)'
  <1>1. Below(k) \in SUBSET (Below(k)') /\ Below(k)' \in SUBSET Node
    BY DEF Below, TypeOK, Rank
  <1>2. IsFiniteSet(Below(k)')
    BY <1>1, NodeAssumption, FS_Subset
  <1>3. /\ Cardinality(Below(k)) \in Nat /\ Cardinality(Below(k)') \in Nat
        /\ Cardinality(Below(k)) <= Cardinality(Below(k)')
    BY <1>1, <1>2, FS_Subset, FS_CardinalityType
  <1> QED
    BY <1>3 DEF Counted

(* A node outside the first k ranks that moves to rank k + 1 makes it      *)
(* counted.                                                                *)
LEMMA CountedGrows ==
    ASSUME TypeOK, TypeOK', NEW k \in Nat, Counted(k), NEW n \in Node,
           mMyRank[n] > k, mMyRank'[n] = k + 1,
           \A m \in Node : mMyRank'[m] <= mMyRank[m]
    PROVE  Counted(k + 1)'
  <1>1. /\ Below(k) \in SUBSET Node /\ n \notin Below(k)
        /\ Below(k) \cup {n} \in SUBSET (Below(k + 1)')
        /\ Below(k + 1)' \in SUBSET Node
    BY DEF Below, TypeOK, Rank
  <1>2. IsFiniteSet(Below(k)) /\ IsFiniteSet(Below(k + 1)')
    BY <1>1, NodeAssumption, FS_Subset
  <1>3. /\ Cardinality(Below(k)) \in Nat /\ Cardinality(Below(k + 1)') \in Nat
        /\ Cardinality(Below(k) \cup {n}) = Cardinality(Below(k)) + 1
        /\ Cardinality(Below(k) \cup {n}) <= Cardinality(Below(k + 1)')
    BY <1>1, <1>2, FS_Subset, FS_AddElement, FS_CardinalityType
  <1> QED
    BY <1>3 DEF Counted

(* In the DODAG, a rank is at most the number of nodes and fits rpl_dagrank. *)
LEMMA JoinedRank ==
    ASSUME TypeOK, RankInv, NEW n \in Node, Joined(n)
    PROVE  /\ mMyRank[n] \in 1 .. Cardinality(Node)
           /\ mMyRank[n] < RankMod
           /\ mBestRank[n] < RankMod
           /\ n # Root => mMyRank[n] >= 2 /\ dag_bestparent[n] # NoNode
  <1>1. mMyRank[n] \in Nat /\ mBestRank[n] \in Nat /\ Counted(mMyRank[n])
    BY DEF TypeOK, Rank, RankInv, Member
  <1>2. mMyRank[n] <= Cardinality(Node) /\ Cardinality(Node) \in Nat
    BY <1>1, CountedBound, NodeAssumption, FS_CardinalityType
  <1>3. CASE n = Root
    BY <1>1, <1>2, <1>3, WidthAssumption DEF RankInv, RootRank
  <1>4. CASE n # Root
    BY <1>1, <1>2, <1>4, WidthAssumption DEF RankInv, Outside, Inside, Joined
  <1> QED
    BY <1>3, <1>4

(* What an adoption knows of the DIO: it is not from the node itself, the  *)
(* node is not the root, and its rank does not rise.                       *)
LEMMA AdoptionFacts ==
    ASSUME TypeOK, RankInv, NEW n \in Node, NEW d \in dios, DioAdopted(n, d)
    PROVE  /\ d.src \in Node /\ d.src # n /\ d.src \in Nbr[n]
           /\ n # Root
           /\ d.rank \in Nat /\ d.rank >= 1 /\ d.rank + 1 < UINT_MAX
           /\ mMyRank[d.src] <= d.rank
           /\ d.rank < mMyRank[n]
           /\ mMyRank' = [mMyRank EXCEPT ![n] = d.rank + 1]
           /\ \A m \in Node : mMyRank'[m] <= mMyRank[m]
  <1>1. d \in Dio /\ GoodDio(d)
    BY DEF TypeOK, RankInv
  <1>2. d.src \in Node /\ d.rank \in 0 .. RankMod - 1
    BY <1>1 DEF Dio
  <1>3. d.src \in Nbr[n] /\ d.src # n
    BY NodeAssumption DEF DioAdopted
  <1>4. d.rank <= mBestRank[n]
    BY DEF DioAdopted, Better
  <1>5. /\ d.rank >= 1 /\ d.rank + 1 < UINT_MAX /\ mMyRank[d.src] <= d.rank
        /\ RankMod < UINT_MAX /\ RankMod \in Nat
    BY <1>1, <1>2, WidthAssumption DEF GoodDio, RANK_INFINITE
  <1>6. \A m \in Node : mMyRank[m] \in Nat /\ mBestRank[m] \in Nat
    BY DEF TypeOK, Rank
  <1>7. n # Root
    <2> SUFFICES ASSUME n = Root PROVE FALSE
      OBVIOUS
    <2>1. mMyRank[d.src] <= 1
      BY <1>2, <1>4, <1>5, <1>6 DEF RankInv, RootRank
    <2>2. Joined(d.src)
      BY <1>2, <1>5, <2>1, <1>6 DEF Joined
    <2> QED
      BY <1>2, <1>3, <1>6, <2>1, <2>2, JoinedRank
  <1>8. d.rank < mMyRank[n]
    <2>1. CASE dag_bestparent[n] = NoNode
      BY <1>2, <1>5, <1>7, <2>1, WidthAssumption DEF RankInv, Outside
    <2>2. CASE dag_bestparent[n] # NoNode
      BY <1>2, <1>4, <1>6, <1>7, <2>2 DEF RankInv, Inside
    <2> QED
      BY <2>1, <2>2
  <1>9. mMyRank' = [mMyRank EXCEPT ![n] = d.rank + 1]
    BY DEF DioAdopted, RankBelow
  <1>10. \A m \in Node : mMyRank'[m] <= mMyRank[m]
    BY <1>2, <1>6, <1>8, <1>9 DEF TypeOK
  <1> QED
    BY <1>2, <1>3, <1>5, <1>7, <1>8, <1>9, <1>10

(* An adoption preserves RankInv. *)
LEMMA AdoptionRank ==
    ASSUME TypeOK, TypeOK', RankInv, NEW n \in Node, NEW d \in dios,
           DioAdopted(n, d)
    PROVE  RankInv'
  <1>1. /\ d.src \in Node /\ d.src # n /\ d.src \in Nbr[n] /\ n # Root
        /\ d.rank \in Nat /\ d.rank >= 1 /\ d.rank + 1 < UINT_MAX
        /\ mMyRank[d.src] <= d.rank /\ d.rank < mMyRank[n]
        /\ mMyRank' = [mMyRank EXCEPT ![n] = d.rank + 1]
        /\ \A m \in Node : mMyRank'[m] <= mMyRank[m]
    BY AdoptionFacts
  <1>2. /\ mBestRank' = [mBestRank EXCEPT ![n] = d.rank]
        /\ mGrounded' = [mGrounded EXCEPT ![n] = d.grounded]
        /\ dag_bestparent' = [dag_bestparent EXCEPT ![n] = d.src]
        /\ dag_me' = [dag_me EXCEPT ![n] = TRUE]
        /\ \A m \in Node : m # n => dioEvent'[m] = dioEvent[m]
        /\ dios' = dios
    BY DEF DioAdopted, ConfigureAddress, MaybeScheduleDio, ScheduleDio, netVars,
           TypeOK
  <1>3. \A m \in Node : mMyRank[m] \in Nat /\ mBestRank[m] \in Nat
    BY DEF TypeOK, Rank
  <1>4. /\ mMyRank'[n] = d.rank + 1 /\ mBestRank'[n] = d.rank
        /\ dag_bestparent'[n] = d.src /\ dag_me'[n] /\ mGrounded'[n] = d.grounded
        /\ \A m \in Node : m # n =>
              /\ mMyRank'[m] = mMyRank[m] /\ mBestRank'[m] = mBestRank[m]
              /\ dag_bestparent'[m] = dag_bestparent[m]
              /\ dag_me'[m] = dag_me[m] /\ mGrounded'[m] = mGrounded[m]
    BY <1>1, <1>2 DEF TypeOK
  <1>5. RootRank'
    BY <1>1, <1>4, NodeAssumption DEF RankInv, RootRank
  <1>6. ASSUME NEW m \in Node \ {Root} PROVE Outside(m)' /\ Inside(m)'
    <2>1. CASE m = n
      BY <1>1, <1>4, <2>1, NodeAssumption DEF Outside, Inside
    <2>2. CASE m # n
      <3>1. Outside(m) /\ Inside(m)
        BY DEF RankInv
      <3>2. Outside(m)'
        BY <1>4, <2>2, <3>1 DEF Outside
      <3>3. ASSUME dag_bestparent[m] # NoNode
            PROVE  /\ dag_bestparent[m] \in Node
                   /\ mMyRank'[dag_bestparent[m]] <= mBestRank[m]
        <4>1. dag_bestparent[m] \in Node
          BY <3>3 DEF TypeOK
        <4>2. mMyRank'[dag_bestparent[m]] \in Nat
          BY <4>1 DEF TypeOK, Rank
        <4> QED
          BY <1>1, <1>3, <3>1, <3>3, <4>1, <4>2 DEF Inside
      <3> QED
        BY <1>4, <2>2, <3>1, <3>2, <3>3 DEF Inside
    <2> QED
      BY <2>1, <2>2
  <1>7. ASSUME NEW e \in dios PROVE GoodDio(e)'
    <2>1. GoodDio(e) /\ e.src \in Node /\ e.rank \in Nat
      BY DEF RankInv, TypeOK, Dio
    <2>2. Counted(e.rank)'
      BY <1>1, <2>1, CountedStays DEF GoodDio
    <2>3. mMyRank'[e.src] <= e.rank
      BY <1>1, <1>3, <2>1, <1>4 DEF GoodDio
    <2> QED
      BY <2>1, <2>2, <2>3 DEF GoodDio
  <1>8. ASSUME NEW m \in Node PROVE Member(m)'
    <2>1. CASE m = n
      <3>1. Counted(d.rank) /\ d.grounded
        BY DEF RankInv, GoodDio
      <3>2. Counted(d.rank + 1)'
        BY <1>1, <1>3, <1>4, <3>1, CountedGrows
      <3> QED
        BY <1>4, <2>1, <3>1, <3>2 DEF Member, Counted, Below
    <2>2. CASE m # n
      <3> SUFFICES ASSUME Joined(m)' PROVE dag_me'[m] /\ mGrounded'[m] /\ Counted(mMyRank[m])'
        BY DEF Member
      <3>1. Joined(m) /\ dag_me[m] /\ mGrounded[m] /\ Counted(mMyRank[m])
        BY <1>4, <2>2 DEF RankInv, Member, Joined
      <3>2. mMyRank'[m] \in Nat /\ mMyRank[m] \in Nat /\ mMyRank'[m] = mMyRank[m]
        BY <1>3, <1>4, <2>2
      <3>3. PICK k \in Nat : k = mMyRank[m]
        BY <3>2
      <3>4. Counted(k)
        BY <3>1, <3>3 DEF Counted, Below
      <3>5. Counted(k)'
        BY <1>1, <3>4, CountedStays
      <3>6. Counted(mMyRank[m])'
        BY <3>2, <3>3, <3>5 DEF Counted, Below
      <3> QED
        BY <1>4, <2>2, <3>1, <3>6
    <2> QED
      BY <2>1, <2>2
  <1>9. ASSUME NEW m \in Node, dioEvent'[m] PROVE Joined(m)'
    <2>1. CASE m = n
      BY <1>1, <1>4, <2>1 DEF Joined
    <2>2. CASE m # n
      BY <1>2, <1>4, <1>9, <2>2 DEF RankInv, Joined
    <2> QED
      BY <2>1, <2>2
  <1> QED
    BY <1>2, <1>5, <1>6, <1>7, <1>8, <1>9 DEF RankInv

(* Initially the root is the only one in the DODAG. *)
LEMMA InitRank == Init => RankInv
  <1> SUFFICES ASSUME Init PROVE RankInv
    OBVIOUS
  <1>1. RootRank /\ \A n \in Node \ {Root} : Outside(n) /\ Inside(n)
    BY NodeAssumption DEF Init, RootRank, Outside, Inside
  <1>2. \A n \in Node : Joined(n) => n = Root
    BY DEF Init, Joined
  <1>3. Counted(1)
    <2>1. Root \in Below(1) /\ Below(1) \in SUBSET Node
      BY NodeAssumption DEF Init, Below
    <2>2. IsFiniteSet(Below(1)) /\ Cardinality(Below(1)) # 0
      BY <2>1, NodeAssumption, FS_Subset, FS_EmptySet
    <2> QED
      BY <2>2, FS_CardinalityType DEF Counted
  <1>4. \A n \in Node : Member(n)
    BY <1>2, <1>3, NodeAssumption DEF Init, Member
  <1>5. UINT_MAX # 1
    BY WidthAssumption, FS_CardinalityType, NodeAssumption DEF RANK_INFINITE
  <1>6. \A n \in Node : dioEvent[n] => Joined(n)
    <2>1. \A n \in Node : dioEvent[n] => n = Root
      BY Zenon DEF Init
    <2>2. mMyRank[Root] = 1
      BY <1>1 DEF RootRank
    <2> QED
      BY <1>5, <2>1, <2>2 DEF Joined
  <1> QED
    BY <1>1, <1>4, <1>6 DEF Init, RankInv

(* A step that only arms DIO events, and only of members, preserves RankInv. *)
LEMMA RankFrame ==
    ASSUME RankInv,
           UNCHANGED <<mMyRank, mBestRank, dag_bestparent, mGrounded, dag_me, dios>>,
           \A n \in Node : dioEvent'[n] => dioEvent[n] \/ Joined(n)
    PROVE  RankInv'
  BY DEF RankInv, RootRank, Outside, Inside, Member, GoodDio, Counted, Below,
         Joined

(* A node whose best rank is finite is in the DODAG. *)
LEMMA FiniteBestRank ==
    ASSUME TypeOK, RankInv, NEW n \in Node, ~dag_rank_infinite(mBestRank[n])
    PROVE  Joined(n)
  <1>1. CASE n = Root
    BY <1>1, WidthAssumption, FS_CardinalityType, NodeAssumption
       DEF RankInv, RootRank, Joined, RANK_INFINITE
  <1>2. CASE n # Root
    <2>1. dag_bestparent[n] # NoNode
      <3>1. UINT_MAX >= RANK_INFINITE
        BY WidthAssumption, FS_CardinalityType, NodeAssumption DEF RANK_INFINITE
      <3> QED
        BY <1>2, <3>1 DEF RankInv, Outside, dag_rank_infinite
    <2>2. mMyRank[n] = mBestRank[n] + 1 /\ mBestRank[n] < RankMod + 1
      BY <1>2, <2>1, WidthAssumption
         DEF RankInv, Inside, dag_rank_infinite, RANK_INFINITE, TypeOK, Rank
    <2> QED
      BY <2>2, WidthAssumption DEF Joined, RANK_INFINITE, TypeOK, Rank
  <1> QED
    BY <1>1, <1>2

(* A DIO built by a member says what RankInv demands of a DIO. *)
LEMMA SendDioRank ==
    ASSUME TypeOK, TypeOK', RankInv, NEW n \in Node, SendDio(n)
    PROVE  RankInv'
  <1>1. Joined(n)
    BY DEF SendDio, RankInv
  <1>2. mMyRank[n] \in Nat /\ RankMod \in Nat /\ mMyRank[n] < RankMod
        /\ mMyRank[n] >= 1 /\ RankMod > 0
    BY <1>1, JoinedRank, WidthAssumption, FS_CardinalityType, NodeAssumption
  <1>3. mMyRank[n] % RankMod = mMyRank[n]
    BY <1>2, ModRange
  <1>4. PICK d \in dios' : d = BuildDio(n)
    BY DEF SendDio
  <1>5. d.src = n /\ d.rank = mMyRank[n] /\ d.grounded = mGrounded[n]
    BY <1>3, <1>4 DEF BuildDio
  <1>6. GoodDio(d)
    BY <1>1, <1>2, <1>5 DEF GoodDio, RankInv, Member
  <1>7. /\ UNCHANGED <<mMyRank, mBestRank, dag_bestparent, mGrounded, dag_me,
                        dioEvent>>
        /\ \A e \in dios' : e \in dios \/ e = d
    BY <1>4 DEF SendDio, eventVars
  <1>8. \A e \in dios' : GoodDio(e)
    BY <1>6, <1>7 DEF RankInv
  <1>9. ASSUME NEW e \in dios' PROVE GoodDio(e)'
    BY <1>7, <1>8 DEF GoodDio, Counted, Below
  <1> QED
    BY <1>7, <1>9
       DEF RankInv, RootRank, Outside, Inside, Member, Counted, Below, Joined

(* Every step preserves RankInv. *)
LEMMA NextRank == TypeOK /\ TypeOK' /\ RankInv /\ [Next]_vars => RankInv'
  <1> SUFFICES ASSUME TypeOK, TypeOK', RankInv, [Next]_vars PROVE RankInv'
    OBVIOUS
  <1>1. ASSUME NEW n \in Node, SendDio(n) PROVE RankInv'
    BY <1>1, SendDioRank
  <1>2. ASSUME NEW n \in Node, SendDao(n) PROVE RankInv'
    BY <1>2, RankFrame DEF SendDao, rankVars, eventVars
  <1>3. ASSUME NEW n \in Node, NEW m \in Node, ReceiveDis(n, m) PROVE RankInv'
    <2>1. \A k \in Node : dioEvent'[k] => dioEvent[k] \/ Joined(k)
      BY <1>3, FiniteBestRank DEF ReceiveDis, ScheduleDio, TypeOK
    <2> QED
      BY <1>3, <2>1, RankFrame DEF ReceiveDis, rankVars, netVars
  <1>4. ASSUME NEW n \in Node, NEW d \in dios,
               DioTooOld(n, d) \/ DioIgnored(n, d)
        PROVE  RankInv'
    BY <1>4, RankFrame
       DEF DioTooOld, DioIgnored, vars, rankVars, eventVars, netVars
  <1>5. ASSUME NEW n \in Node, NEW d \in dios, DioAdopted(n, d) PROVE RankInv'
    BY <1>5, AdoptionRank
  <1>6. ASSUME NEW d \in daos, ReceiveDao(d) PROVE RankInv'
    <2>1. UNCHANGED <<mMyRank, mBestRank, dag_bestparent, mGrounded, dag_me, dios,
                      dioEvent>>
      BY <1>6 DEF ReceiveDao, rankVars
    <2> QED
      BY <2>1, RankFrame
  <1>7. ASSUME NEW n \in Node, NEW a \in acks, ReceiveDaoAck(n, a) PROVE RankInv'
    <2>1. \A k \in Node : dioEvent'[k] => dioEvent[k] \/ Joined(k)
      BY <1>7, FiniteBestRank
         DEF ReceiveDaoAck, CommitParent, MaybeScheduleDio, ScheduleDio, TypeOK
    <2> QED
      BY <1>7, <2>1, RankFrame DEF ReceiveDaoAck, rankVars, netVars
  <1>8. CASE UNCHANGED vars
    BY <1>8, RankFrame DEF vars, rankVars, eventVars, netVars
  <1> QED
    BY <1>1, <1>2, <1>3, <1>4, <1>5, <1>6, <1>7, <1>8 DEF Next

(* The inductive invariant on ranks: each DIO on the way, however old, is  *)
(* still an upper bound of what potentially_lower_rank made of its sender. *)
THEOREM RankInvariant == Spec => [](TypeOK /\ RankInv)
  <1>1. Init => TypeOK /\ RankInv
    BY InitType, InitRank
  <1>2. TypeOK /\ RankInv /\ [Next]_vars => TypeOK' /\ RankInv'
    BY NextType, NextRank
  <1> QED
    BY <1>1, <1>2, PTL DEF Spec

(* The member of a set with the least rank has its best parent, whose rank *)
(* is smaller still, outside the set.                                      *)
LEMMA LoopFree == TypeOK /\ RankInv => BestParentsLoopFree
  <1> SUFFICES ASSUME TypeOK, RankInv, NEW S \in SUBSET Node, S # {}
               PROVE  \E n \in S : dag_bestparent[n] \notin S
    BY DEF BestParentsLoopFree
  <1>1. \A n \in Node : mMyRank[n] \in Nat /\ mBestRank[n] \in Nat
    BY DEF TypeOK, Rank
  <1> DEFINE T == {mMyRank[n] : n \in S}
  <1>2. T \in SUBSET Nat /\ T # {}
    BY <1>1
  <1>3. PICK x \in T : \A y \in T : x <= y
    <2> HIDE DEF T
    <2> QED BY <1>2, NatMin
  <1>4. PICK n \in S : \A m \in S : mMyRank[n] <= mMyRank[m]
    BY <1>3
  <1>5. CASE dag_bestparent[n] = NoNode
    BY <1>5, NodeAssumption
  <1>6. CASE dag_bestparent[n] # NoNode
    <2>1. n # Root /\ dag_bestparent[n] \in Node
      BY <1>6 DEF RankInv, RootRank, TypeOK
    <2>2. mMyRank[dag_bestparent[n]] < mMyRank[n]
      BY <1>1, <1>6, <2>1 DEF RankInv, Inside
    <2> QED
      BY <1>1, <1>4, <2>1, <2>2
  <1> QED
    BY <1>5, <1>6

(* potentially_lower_rank never lets the best parents form a loop, in any  *)
(* network and under any delay, loss, duplication or reordering of DIOs.   *)
THEOREM LoopFreedom == Spec => []BestParentsLoopFree
  BY RankInvariant, LoopFree, PTL

(* No rank exceeds the number of nodes, so none wraps in rpl_dagrank. *)
THEOREM RankBound == Spec => []RankAtMostNodes
  <1>1. TypeOK /\ RankInv => RankAtMostNodes
    BY JoinedRank DEF RankAtMostNodes
  <1> QED
    BY <1>1, RankInvariant, PTL

(* Whoever is in the DODAG has heard, over however many hops, that the     *)
(* root is grounded.                                                       *)
THEOREM Grounded == Spec => []GroundedInherited
  <1>1. RankInv => GroundedInherited
    BY DEF RankInv, Member, GroundedInherited
  <1> QED
    BY <1>1, RankInvariant, PTL

(* No step of any handler moves a node away from the root. *)
THEOREM RanksFall == Spec => RankNeverRises
  <1>1. ASSUME TypeOK, RankInv, [Next]_vars
        PROVE  [\A n \in Node : mMyRank'[n] <= mMyRank[n]]_vars
    <2>1. \A n \in Node : mMyRank[n] <= mMyRank[n]
      BY <1>1 DEF TypeOK, Rank
    <2>2. ASSUME NEW n \in Node, NEW d \in dios, DioAdopted(n, d)
          PROVE  \A m \in Node : mMyRank'[m] <= mMyRank[m]
      BY <1>1, <2>2, AdoptionFacts
    <2>3. ASSUME NEW n \in Node, SendDio(n) \/ SendDao(n)
          PROVE  mMyRank' = mMyRank
      BY <2>3 DEF SendDio, SendDao, rankVars
    <2>4. ASSUME NEW n \in Node, NEW m \in Node, ReceiveDis(n, m)
          PROVE  mMyRank' = mMyRank
      BY <2>4 DEF ReceiveDis, rankVars
    <2>5. ASSUME NEW n \in Node, NEW d \in dios,
                 DioTooOld(n, d) \/ DioIgnored(n, d)
          PROVE  mMyRank' = mMyRank
      BY <2>5 DEF DioTooOld, DioIgnored, vars, rankVars
    <2>6. ASSUME NEW d \in daos, ReceiveDao(d) PROVE mMyRank' = mMyRank
      BY <2>6 DEF ReceiveDao, rankVars
    <2>7. ASSUME NEW n \in Node, NEW a \in acks, ReceiveDaoAck(n, a)
          PROVE  mMyRank' = mMyRank
      BY <2>7 DEF ReceiveDaoAck, rankVars
    <2> QED
      BY <1>1, <2>1, <2>2, <2>3, <2>4, <2>5, <2>6, <2>7 DEF Next
  <1> QED
    BY <1>1, RankInvariant, PTL DEF Spec, RankNeverRises

-----------------------------------------------------------------------------
(***************************************************************************)
(* A DAO may be delivered at any time after it was sent, so what makes its *)
(* routes work is stated for every DAO and every ack that was ever sent:   *)
(* what a DAO announces, its sender can reach for good, because ip route   *)
(* add never replaces a route.                                             *)
(***************************************************************************)
ChildrenRouted(n) ==
    \A c \in {dag_children[n].first, dag_children[n].second} \ {NoNode} :
       Edge(routes[n], c)

GoodDao(d) ==
    /\ d.dst \in Nbr[d.src] /\ d.t3 = d.src
    /\ dag_me[d.dst]
    /\ \A t \in Targets(d) : t = d.src \/ Edge(routes[d.src], t)

GoodAck(a) ==
    \E d \in daos :
       /\ d.dst = a.src /\ d.src = a.dst /\ d.seq = a.seq
       /\ \A t \in Targets(d) : Edge(routes[a.src], t)

GoodRoute(n, t) ==
    Edge(routes[n], t) =>
       /\ n \in Nbr[routes[n][t]]
       /\ routes[n][t] = t \/ Edge(routes[routes[n][t]], t)

NoRouteLoop(t) ==
    \A S \in SUBSET (Node \ {t}) : S # {} => \E n \in S : routes[n][t] \notin S

RouteInv ==
    /\ \A n \in Node : ChildrenRouted(n)
    /\ \A d \in daos : GoodDao(d)
    /\ \A a \in acks : GoodAck(a)
    /\ \A n, t \in Node : GoodRoute(n, t)
    /\ \A t \in Node : NoRouteLoop(t)
    /\ ParentHasRoute

(* No step of the node but receive_dao touches routes, and that adds some. *)
RoutesKept ==
    \A n, t \in Node : Edge(routes[n], t) => routes'[n][t] = routes[n][t]

----------------------------------------------------------------------------
(* add_childnode adds a route for a target that has none, and enters no    *)
(* other key into the map.                                                 *)
LEMMA AddChildnodeResult ==
    ASSUME NEW s \in [children : ChildMap,
                      table : [Node -> Node \cup {NoNode}], needed : BOOLEAN],
           NEW t \in Node \cup {NoNode}, NEW via \in Node
    PROVE  LET r == AddChildnode(s, t, via) IN
           /\ r.table = [u \in Node |-> IF u = t /\ s.table[u] = NoNode THEN via
                                        ELSE s.table[u]]
           /\ r.children.first \in {s.children.first, t}
           /\ r.children.second \in {s.children.second, t}
  BY NodeAssumption DEF AddChildnode, Insert, RouteAdd, ChildMap

(* What receive_dao does to the routes and to the map of the receiver. *)
LEMMA ReceiveDaoFacts ==
    ASSUME TypeOK, NEW d \in daos, ReceiveDao(d)
    PROVE  /\ d.src \in Node /\ d.dst \in Node /\ Targets(d) \in SUBSET Node
           /\ d.src \in Nbr[d.dst] /\ d.src # d.dst
           /\ \A m, t \in Node :
                 routes'[m][t] = IF m = d.dst /\ t \in Targets(d)
                                    /\ routes[m][t] = NoNode
                                 THEN d.src ELSE routes[m][t]
           /\ \A m \in Node : m # d.dst => dag_children'[m] = dag_children[m]
           /\ {dag_children'[d.dst].first, dag_children'[d.dst].second} \ {NoNode}
                 \subseteq {dag_children[d.dst].first, dag_children[d.dst].second}
                             \cup Targets(d)
           /\ acks' = acks \cup {BuildDaoAck(d)}
           /\ UNCHANGED <<daos, dag_me, dag_parent>>
  <1> DEFINE S == [children : ChildMap, table : [Node -> Node \cup {NoNode}],
                   needed : BOOLEAN]
             n  == d.dst
             s0 == [children |-> dag_children[n], table |-> routes[n],
                    needed |-> dao_needed[n]]
             s1 == AddChildnode(s0, d.t1, d.src)
             s2 == AddChildnode(s1, d.t2, d.src)
             s3 == AddChildnode(s2, d.t3, d.src)
  <1>1. d \in Dao
    BY DEF TypeOK
  <1>2. /\ n \in Node /\ d.src \in Node
        /\ d.t1 \in Node \cup {NoNode} /\ d.t2 \in Node \cup {NoNode}
        /\ d.t3 \in Node
    BY <1>1 DEF Dao
  <1>3. /\ d.src \in Nbr[n]
        /\ dag_children' = [dag_children EXCEPT ![n] = s3.children]
        /\ routes' = [routes EXCEPT ![n] = s3.table]
        /\ acks' = acks \cup {BuildDaoAck(d)}
        /\ UNCHANGED <<daos, dag_me, dag_parent>>
    BY DEF ReceiveDao, upVars
  <1>4. s0 \in S
    BY <1>2 DEF TypeOK
  <1>5. s0.children = dag_children[n] /\ s0.table = routes[n]
    OBVIOUS
  <1> HIDE DEF s0
  <1>6. s1 \in S
    BY <1>2, <1>4, AddChildnodeType
  <1>7. /\ s1.table = [u \in Node |-> IF u = d.t1 /\ s0.table[u] = NoNode
                                      THEN d.src ELSE s0.table[u]]
        /\ s1.children.first \in {s0.children.first, d.t1}
        /\ s1.children.second \in {s0.children.second, d.t1}
    BY <1>2, <1>4, AddChildnodeResult
  <1> HIDE DEF s1
  <1>8. s2 \in S
    BY <1>2, <1>6, AddChildnodeType
  <1>9. /\ s2.table = [u \in Node |-> IF u = d.t2 /\ s1.table[u] = NoNode
                                      THEN d.src ELSE s1.table[u]]
        /\ s2.children.first \in {s1.children.first, d.t2}
        /\ s2.children.second \in {s1.children.second, d.t2}
    BY <1>2, <1>6, AddChildnodeResult
  <1> HIDE DEF s2
  <1>10. /\ s3.table = [u \in Node |-> IF u = d.t3 /\ s2.table[u] = NoNode
                                       THEN d.src ELSE s2.table[u]]
         /\ s3.children.first \in {s2.children.first, d.t3}
         /\ s3.children.second \in {s2.children.second, d.t3}
    BY <1>2, <1>8, AddChildnodeResult
  <1> HIDE DEF s3
  <1>11. \A u \in Node : s3.table[u] =
            IF u \in Targets(d) /\ routes[n][u] = NoNode THEN d.src
            ELSE routes[n][u]
    <2> SUFFICES ASSUME NEW u \in Node
                 PROVE  s3.table[u] = IF u \in Targets(d) /\ routes[n][u] = NoNode
                                      THEN d.src ELSE routes[n][u]
      OBVIOUS
    <2>1. s1.table[u] = IF u = d.t1 /\ routes[n][u] = NoNode
                        THEN d.src ELSE routes[n][u]
      BY <1>5, <1>7
    <2>2. s2.table[u] = IF u = d.t2 /\ s1.table[u] = NoNode
                        THEN d.src ELSE s1.table[u]
      BY <1>9
    <2>3. s3.table[u] = IF u = d.t3 /\ s2.table[u] = NoNode
                        THEN d.src ELSE s2.table[u]
      BY <1>10
    <2>4. d.src # NoNode
      BY <1>2, NodeAssumption
    <2>5. u \in Targets(d) <=> u \in {d.t1, d.t2, d.t3}
      BY NodeAssumption DEF Targets
    <2> QED
      BY <2>1, <2>2, <2>3, <2>4, <2>5
  <1>12. {s3.children.first, s3.children.second} \ {NoNode}
            \subseteq {dag_children[n].first, dag_children[n].second} \cup Targets(d)
    BY <1>5, <1>7, <1>9, <1>10 DEF Targets
  <1>13. \A m, t \in Node :
            routes'[m][t] = IF m = n /\ t \in Targets(d) /\ routes[m][t] = NoNode
                            THEN d.src ELSE routes[m][t]
    BY <1>2, <1>3, <1>11 DEF TypeOK
  <1>14. /\ dag_children'[n] = s3.children
         /\ \A m \in Node : m # n => dag_children'[m] = dag_children[m]
    BY <1>2, <1>3 DEF TypeOK
  <1>15. Targets(d) \in SUBSET Node
    BY <1>2, NodeAssumption DEF Targets
  <1>16. d.src # n
    BY <1>2, <1>3, NodeAssumption
  <1> QED
    BY <1>2, <1>3, <1>12, <1>13, <1>14, <1>15, <1>16

(* receive_dao adds routes and replaces none. *)
LEMMA ReceiveDaoKeeps ==
    ASSUME TypeOK, NEW d \in daos, ReceiveDao(d)
    PROVE  RoutesKept
  BY ReceiveDaoFacts DEF RoutesKept, Edge

(* As long as routes are kept, a DAO and an ack stay good. *)
LEMMA GoodStays ==
    ASSUME TypeOK, RoutesKept, daos \subseteq daos',
           \A n \in Node : dag_me[n] => dag_me'[n]
    PROVE  /\ \A d \in daos : GoodDao(d) => GoodDao(d)'
           /\ \A a \in acks : GoodAck(a) => GoodAck(a)'
  <1>1. \A d \in daos : d.src \in Node /\ d.dst \in Node /\ Targets(d) \in SUBSET Node
    BY DEF TypeOK, Dao, Targets
  <1>2. \A n, t \in Node : Edge(routes[n], t) => Edge(routes'[n], t)
    BY DEF RoutesKept, Edge
  <1>3. ASSUME NEW d \in daos, GoodDao(d) PROVE GoodDao(d)'
    BY <1>1, <1>2, <1>3 DEF GoodDao
  <1>4. ASSUME NEW a \in acks, GoodAck(a) PROVE GoodAck(a)'
    BY <1>1, <1>2, <1>4 DEF GoodAck, TypeOK, Ack
  <1> QED
    BY <1>3, <1>4

(* A route that is added leads to a node that can go on, and closes no loop: *)
(* the receiver had no route to that target, so no route led through it.   *)
LEMMA ReceiveDaoRoutes ==
    ASSUME TypeOK, RouteInv, NEW d \in daos, ReceiveDao(d), NEW t \in Node
    PROVE  /\ \A n \in Node : GoodRoute(n, t)'
           /\ NoRouteLoop(t)'
  <1>1. /\ d.src \in Node /\ d.dst \in Node /\ Targets(d) \in SUBSET Node
        /\ d.src # d.dst
        /\ \A m \in Node :
              routes'[m][t] = IF m = d.dst /\ t \in Targets(d)
                                 /\ routes[m][t] = NoNode
                              THEN d.src ELSE routes[m][t]
    BY ReceiveDaoFacts
  <1>2. \A m \in Node : Edge(routes[m], t) => Edge(routes'[m], t)
    BY <1>1 DEF Edge
  <1>3. \A m \in Node : routes[m][t] \in Node \cup {NoNode}
    BY DEF TypeOK
  <1>4. GoodDao(d) /\ NoRouteLoop(t) /\ \A n \in Node : GoodRoute(n, t)
    BY DEF RouteInv
  <1>5. CASE ~(t \in Targets(d) /\ routes[d.dst][t] = NoNode)
    <2>1. \A m \in Node : routes'[m][t] = routes[m][t]
      BY <1>1, <1>5
    <2> QED
      BY <1>3, <1>4, <2>1 DEF GoodRoute, NoRouteLoop, Edge
  <1>6. CASE t \in Targets(d) /\ routes[d.dst][t] = NoNode
    <2>1. /\ routes'[d.dst][t] = d.src
          /\ \A m \in Node : m # d.dst => routes'[m][t] = routes[m][t]
      BY <1>1, <1>6
    <2>2. ASSUME NEW n \in Node PROVE GoodRoute(n, t)'
      <3>1. CASE n = d.dst
        BY <1>1, <1>2, <1>4, <1>6, <2>1, <3>1 DEF GoodRoute, GoodDao, Edge
      <3>2. CASE n # d.dst
        BY <1>2, <1>3, <1>4, <2>1, <3>2 DEF GoodRoute, Edge
      <3> QED
        BY <3>1, <3>2
    <2>3. ASSUME NEW S \in SUBSET (Node \ {t}), S # {}
          PROVE  \E n \in S : routes'[n][t] \notin S
      <3>1. CASE d.dst \notin S
        BY <1>4, <2>1, <2>3, <3>1 DEF NoRouteLoop
      <3>2. CASE S = {d.dst}
        BY <1>1, <2>1, <3>2
      <3>3. CASE d.dst \in S /\ S # {d.dst}
        <4>1. PICK m \in S \ {d.dst} : routes[m][t] \notin S \ {d.dst}
          BY <1>4, <3>3 DEF NoRouteLoop
        <4>2. routes[m][t] # d.dst
          BY <1>1, <1>4, <1>6, <2>3, <3>3, <4>1, NodeAssumption DEF GoodRoute, Edge
        <4> QED
          BY <2>1, <4>1, <4>2
      <3> QED
        BY <3>1, <3>2, <3>3
    <2> QED
      BY <2>2, <2>3 DEF NoRouteLoop
  <1> QED
    BY <1>5, <1>6

(* A step that changes no route, no map of children and no ack, sends no DAO *)
(* and commits to no parent preserves RouteInv.                             *)
LEMMA RouteFrame ==
    ASSUME TypeOK, RouteInv,
           UNCHANGED <<dag_children, routes, daos, acks, dag_parent>>,
           \A n \in Node : dag_me[n] => dag_me'[n]
    PROVE  RouteInv'
  <1>1. \A d \in daos : d.dst \in Node
    BY DEF TypeOK, Dao
  <1>2. \A d \in daos' : GoodDao(d)'
    BY <1>1 DEF RouteInv, GoodDao
  <1> QED
    BY <1>2 DEF RouteInv, ChildrenRouted, GoodAck, GoodRoute, NoRouteLoop,
                ParentHasRoute

(* Initially there are no routes. *)
LEMMA InitRoute == Init => RouteInv
  <1> SUFFICES ASSUME Init PROVE RouteInv
    OBVIOUS
  <1>1. \A n, t \in Node : routes[n][t] = NoNode
    BY DEF Init
  <1>2. \A n \in Node : ChildrenRouted(n)
    BY DEF Init, ChildrenRouted, NoChild
  <1>3. \A t \in Node : NoRouteLoop(t)
    BY <1>1, NodeAssumption DEF NoRouteLoop
  <1>4. \A n, t \in Node : GoodRoute(n, t)
    BY <1>1 DEF GoodRoute, Edge
  <1> QED
    BY <1>2, <1>3, <1>4 DEF Init, RouteInv, ParentHasRoute, Edge

(* Every step preserves RouteInv. *)
LEMMA NextRoute == TypeOK /\ RankInv /\ RouteInv /\ [Next]_vars => RouteInv'
  <1> SUFFICES ASSUME TypeOK, RankInv, RouteInv, [Next]_vars PROVE RouteInv'
    OBVIOUS
  <1>1. ASSUME NEW n \in Node, SendDio(n) PROVE RouteInv'
    BY <1>1, RouteFrame DEF SendDio, downVars, upVars
  <1>2. ASSUME NEW n \in Node, SendDao(n) PROVE RouteInv'
    <2>1. /\ daos' = daos \cup {BuildDao(n)}
          /\ dag_bestparent[n] # NoNode
          /\ UNCHANGED <<dag_children, routes, acks, dag_parent, dag_me>>
      BY <1>2 DEF SendDao, upVars, downVars
    <2>2. /\ n # Root /\ dag_bestparent[n] \in Node /\ dag_bestparent[n] \in Nbr[n]
          /\ dag_me[dag_bestparent[n]]
      <3>1. n # Root /\ dag_bestparent[n] \in Node
        BY <2>1 DEF RankInv, RootRank, TypeOK
      <3>2. /\ mMyRank[n] = mBestRank[n] + 1 /\ dag_bestparent[n] \in Nbr[n]
            /\ mMyRank[dag_bestparent[n]] <= mBestRank[n]
        BY <2>1, <3>1 DEF RankInv, Inside
      <3>3. Joined(dag_bestparent[n])
        BY <3>1, <3>2 DEF Joined, TypeOK, Rank
      <3> QED
        BY <3>1, <3>2, <3>3 DEF RankInv, Member
    <2>3. /\ BuildDao(n).src = n /\ BuildDao(n).dst = dag_bestparent[n]
          /\ BuildDao(n).t3 = n /\ BuildDao(n).t1 = dag_children[n].second
          /\ BuildDao(n).t2 = dag_children[n].first
      BY DEF BuildDao
    <2>4. \A t \in Targets(BuildDao(n)) : t = n \/ Edge(routes[n], t)
      BY <2>3 DEF Targets, RouteInv, ChildrenRouted
    <2>5. GoodDao(BuildDao(n))
      BY <2>2, <2>3, <2>4 DEF GoodDao
    <2>6. \A d \in daos' : GoodDao(d)'
      BY <2>1, <2>5 DEF RouteInv, GoodDao
    <2>7. \A a \in acks' : GoodAck(a)'
      BY <2>1 DEF RouteInv, GoodAck
    <2> QED
      BY <2>1, <2>6, <2>7
         DEF RouteInv, ChildrenRouted, GoodRoute, NoRouteLoop, ParentHasRoute
  <1>3. ASSUME NEW n \in Node, NEW m \in Node, ReceiveDis(n, m) PROVE RouteInv'
    BY <1>3, RouteFrame DEF ReceiveDis, downVars, upVars, netVars
  <1>4. ASSUME NEW n \in Node, NEW d \in dios,
               DioTooOld(n, d) \/ DioIgnored(n, d)
        PROVE  RouteInv'
    BY <1>4, RouteFrame
       DEF DioTooOld, DioIgnored, vars, downVars, upVars, netVars
  <1>5. ASSUME NEW n \in Node, NEW d \in dios, DioAdopted(n, d) PROVE RouteInv'
    BY <1>5, RouteFrame DEF DioAdopted, ConfigureAddress, downVars, netVars, TypeOK
  <1>6. ASSUME NEW d \in daos, ReceiveDao(d) PROVE RouteInv'
    <2>1. /\ d.src \in Node /\ d.dst \in Node /\ Targets(d) \in SUBSET Node
          /\ \A m, t \in Node :
                routes'[m][t] = IF m = d.dst /\ t \in Targets(d)
                                   /\ routes[m][t] = NoNode
                                THEN d.src ELSE routes[m][t]
          /\ \A m \in Node : m # d.dst => dag_children'[m] = dag_children[m]
          /\ {dag_children'[d.dst].first, dag_children'[d.dst].second} \ {NoNode}
                \subseteq {dag_children[d.dst].first, dag_children[d.dst].second}
                            \cup Targets(d)
          /\ acks' = acks \cup {BuildDaoAck(d)}
          /\ UNCHANGED <<daos, dag_me, dag_parent>>
      BY <1>6, ReceiveDaoFacts
    <2>2. RoutesKept /\ \A n, t \in Node : Edge(routes[n], t) => Edge(routes'[n], t)
      BY <1>6, ReceiveDaoKeeps DEF RoutesKept, Edge
    <2>3. \A t \in Targets(d) : Edge(routes'[d.dst], t)
      BY <2>1, NodeAssumption DEF Edge
    <2>4. \A n \in Node : dag_children[n].first \in Node \cup {NoNode}
                         /\ dag_children[n].second \in Node \cup {NoNode}
      BY DEF TypeOK, ChildMap
    <2>5. ASSUME NEW n \in Node PROVE ChildrenRouted(n)'
      <3>1. CASE n = d.dst
        <4> SUFFICES ASSUME NEW c \in {dag_children'[n].first,
                                       dag_children'[n].second} \ {NoNode}
                     PROVE  Edge(routes'[n], c)
          BY DEF ChildrenRouted
        <4>1. CASE c \in Targets(d)
          BY <2>3, <3>1, <4>1
        <4>2. CASE c \notin Targets(d)
          <5>1. c \in {dag_children[n].first, dag_children[n].second} \ {NoNode}
            BY <2>1, <3>1, <4>2
          <5>2. Edge(routes[n], c) /\ c \in Node
            BY <2>4, <5>1 DEF RouteInv, ChildrenRouted
          <5> QED
            BY <2>2, <5>2
        <4> QED
          BY <4>1, <4>2
      <3>2. CASE n # d.dst
        <4>1. dag_children'[n] = dag_children[n] /\ ChildrenRouted(n)
          BY <2>1, <3>2 DEF RouteInv
        <4> QED
          BY <2>2, <2>4, <4>1 DEF ChildrenRouted
      <3> QED
        BY <3>1, <3>2
    <2>6. \A e \in daos' : GoodDao(e)'
      BY <2>1, <2>2, GoodStays DEF RouteInv
    <2>7. GoodAck(BuildDaoAck(d))'
      BY <2>1, <2>3 DEF GoodAck, BuildDaoAck
    <2>8. \A a \in acks' : GoodAck(a)'
      BY <2>1, <2>2, <2>7, GoodStays DEF RouteInv
    <2>9. /\ \A n, t \in Node : GoodRoute(n, t)'
          /\ \A t \in Node : NoRouteLoop(t)'
      BY <1>6, ReceiveDaoRoutes
    <2>10. ParentHasRoute'
      BY <2>1, <2>2 DEF RouteInv, ParentHasRoute, Edge, TypeOK
    <2> QED
      BY <2>5, <2>6, <2>8, <2>9, <2>10 DEF RouteInv
  <1>7. ASSUME NEW n \in Node, NEW a \in acks, ReceiveDaoAck(n, a) PROVE RouteInv'
    <2>1. /\ UNCHANGED <<dag_children, routes, daos, acks, dag_me>>
          /\ dag_parent' = [dag_parent EXCEPT ![n] = a.src]
          /\ a.dst = n
      BY <1>7 DEF ReceiveDaoAck, CommitParent, Accepts, downVars, netVars
    <2>2. Edge(routes[a.src], n)
      <3>1. PICK d \in daos : /\ d.src = a.dst
                              /\ \A t \in Targets(d) : Edge(routes[a.src], t)
        BY DEF RouteInv, GoodAck
      <3>2. n \in Targets(d)
        BY <2>1, <3>1, NodeAssumption DEF RouteInv, GoodDao, Targets
      <3> QED
        BY <3>1, <3>2
    <2>3. ParentHasRoute'
      BY <2>1, <2>2 DEF RouteInv, ParentHasRoute, Edge, TypeOK
    <2> QED
      BY <2>1, <2>3
         DEF RouteInv, ChildrenRouted, GoodDao, GoodAck, GoodRoute, NoRouteLoop
  <1>8. CASE UNCHANGED vars
    BY <1>8, RouteFrame DEF vars, downVars, upVars, netVars
  <1> QED
    BY <1>1, <1>2, <1>3, <1>4, <1>5, <1>6, <1>7, <1>8 DEF Next

(* The inductive invariant of the way down: every target of a DAO ever     *)
(* sent is within its sender's reach, whenever receive_dao handles it, and *)
(* an ack vouches for the routes of its DAO.                               *)
THEOREM RouteInvariant == Spec => [](TypeOK /\ RankInv /\ RouteInv)
  <1>1. Init => TypeOK /\ RankInv /\ RouteInv
    BY InitType, InitRank, InitRoute
  <1>2. TypeOK /\ RankInv /\ RouteInv /\ [Next]_vars => TypeOK' /\ RankInv' /\ RouteInv'
    BY NextType, NextRank, NextRoute
  <1> QED
    BY <1>1, <1>2, PTL DEF Spec

(* A node commits (receive_daoack) only to a parent that has a route to it, *)
(* and the parent keeps it.                                                 *)
THEOREM ParentsHaveRoutes == Spec => []ParentHasRoute
  <1>1. RouteInv => ParentHasRoute
    BY DEF RouteInv
  <1> QED
    BY <1>1, RouteInvariant, PTL

(* The downward routes that add_childnode installs deliver in any network: *)
(* hop by hop over links that exist, and without loops, although every     *)
(* node installs them on its own and in any order.                         *)
THEOREM Delivery == Spec => []RoutesDeliver
  <1>1. RouteInv => RoutesDeliver
    BY DEF RouteInv, RoutesDeliver, GoodRoute, NoRouteLoop, Edge
  <1> QED
    BY <1>1, RouteInvariant, PTL

(* add_route_via_node never dereferences a dag_me that is NULL. *)
THEOREM SourceAddresses == Spec => []SourceAddressReady
  <1>1. RouteInv => SourceAddressReady
    BY DEF RouteInv, GoodDao, SourceAddressReady
  <1> QED
    BY <1>1, RouteInvariant, PTL
----------------------------------------------------------------------------
(***************************************************************************)
(* The numbers of DAOs.  mDAOSequence counts the DAOs of a node, from 1,   *)
(* and the wire shows 8 bits of it; "no" tells the DAOs apart.             *)
(***************************************************************************)
GoodNumber(d) ==
    /\ d.no \in 1 .. daoCount[d.src]
    /\ d.no + 1 < ShortMod => d.seq = Byte(d.no + 1)

NumberInv ==
    /\ \A n \in Node : daoCount[n] + 1 < ShortMod =>
                        mDAOSequence[n] = daoCount[n] + 1
    /\ \A d \in daos : GoodNumber(d)
    /\ \A d, e \in daos : d.src = e.src /\ d.no = e.no => d = e

(* Every step preserves NumberInv. *)
LEMMA NextNumber == TypeOK /\ NumberInv /\ [Next]_vars => NumberInv'
  <1> SUFFICES ASSUME TypeOK, NumberInv, [Next]_vars PROVE NumberInv'
    OBVIOUS
  <1>1. CASE UNCHANGED <<mDAOSequence, daoCount, daos>>
    BY <1>1 DEF NumberInv, GoodNumber
  <1>2. ASSUME NEW n \in Node, SendDao(n) PROVE NumberInv'
    <2>1. /\ mDAOSequence' = [mDAOSequence EXCEPT ![n] = NextDAOSequence(n)]
          /\ daos' = daos \cup {BuildDao(n)}
          /\ daoCount' = [daoCount EXCEPT ![n] = @ + 1]
      BY <1>2 DEF SendDao
    <2>2. /\ \A m \in Node : daoCount[m] \in Nat
          /\ \A d \in daos : d.src \in Node
          /\ ShortMod \in Nat /\ ShortMod > 1
      BY WidthAssumption DEF TypeOK, Dao, INVALID_SEQUENCE
    <2>3. /\ daoCount'[n] = daoCount[n] + 1 /\ mDAOSequence'[n] = NextDAOSequence(n)
          /\ \A m \in Node : m # n => /\ daoCount'[m] = daoCount[m]
                                      /\ mDAOSequence'[m] = mDAOSequence[m]
      BY <2>1 DEF TypeOK
    <2>4. daoCount[n] + 2 < ShortMod => NextDAOSequence(n) = daoCount[n] + 2
      BY <2>2, ModRange DEF NumberInv, NextDAOSequence
    <2>5. PICK b \in daos' : /\ b.src = n /\ b.no = daoCount[n] + 1
                             /\ b.seq = Byte(NextDAOSequence(n))
                             /\ \A d \in daos' : d \in daos \/ d = b
      BY <2>1 DEF BuildDao
    <2>6. \A m \in Node : daoCount'[m] + 1 < ShortMod => mDAOSequence'[m] = daoCount'[m] + 1
      BY <2>2, <2>3, <2>4 DEF NumberInv
    <2>7. GoodNumber(b)'
      BY <2>2, <2>3, <2>4, <2>5 DEF GoodNumber
    <2>8. ASSUME NEW d \in daos PROVE GoodNumber(d)' /\ (d.src = n => d.no < daoCount[n] + 1)
      BY <2>2, <2>3 DEF NumberInv, GoodNumber
    <2>9. \A d, e \in daos' : d.src = e.src /\ d.no = e.no => d = e
      BY <2>2, <2>5, <2>8 DEF NumberInv, GoodNumber
    <2> QED
      BY <2>5, <2>6, <2>7, <2>8, <2>9 DEF NumberInv
  <1>3. ASSUME NEW n \in Node, SendDio(n) PROVE NumberInv'
    BY <1>1, <1>3 DEF SendDio
  <1>4. ASSUME NEW n \in Node, NEW m \in Node, ReceiveDis(n, m) PROVE NumberInv'
    BY <1>1, <1>4 DEF ReceiveDis, netVars
  <1>5. ASSUME NEW n \in Node, NEW d \in dios,
               DioTooOld(n, d) \/ DioIgnored(n, d) \/ DioAdopted(n, d)
        PROVE  NumberInv'
    BY <1>1, <1>5 DEF DioTooOld, DioIgnored, DioAdopted, vars, netVars
  <1>6. ASSUME NEW d \in daos, ReceiveDao(d) PROVE NumberInv'
    <2>1. UNCHANGED <<mDAOSequence, daoCount, daos>>
      BY <1>6 DEF ReceiveDao
    <2> QED
      BY <1>1, <2>1
  <1>7. ASSUME NEW n \in Node, NEW a \in acks, ReceiveDaoAck(n, a) PROVE NumberInv'
    BY <1>1, <1>7 DEF ReceiveDaoAck, netVars
  <1>8. CASE UNCHANGED vars
    BY <1>1, <1>8 DEF vars, netVars
  <1> QED
    BY <1>2, <1>3, <1>4, <1>5, <1>6, <1>7, <1>8 DEF Next

(* Initially nothing is numbered. *)
LEMMA InitNumber == Init => NumberInv
  BY DEF Init, NumberInv

(* As long as mDAOSequence has not wrapped, an ack that receive_daoack     *)
(* accepts answers the last DAO and none before it: 8 bits of an earlier   *)
(* number are less than the whole counter.                                 *)
LEMMA AcceptedIsLast ==
    ASSUME TypeOK, NumberInv, NEW n \in Node, daoCount[n] + 1 < ShortMod,
           NEW e \in daos, e.src = n, e.seq = mDAOSequence[n]
    PROVE  e.no = daoCount[n]
  <1>1. daoCount[n] \in Nat /\ e.no \in 1 .. daoCount[n]
    BY DEF TypeOK, NumberInv, GoodNumber
  <1>2. mDAOSequence[n] = daoCount[n] + 1
    BY DEF NumberInv
  <1>3. e.seq = (e.no + 1) % SeqMod
    BY <1>1, WidthAssumption DEF NumberInv, GoodNumber, Byte, INVALID_SEQUENCE
  <1>4. \A x, m \in Nat : m > 0 => x % m <= x
    OBVIOUS
  <1>5. e.seq <= e.no + 1
    BY <1>1, <1>3, <1>4, WidthAssumption
  <1> QED
    BY <1>1, <1>2, <1>5

(* When a node commits, its new parent has handled the last DAO it sent    *)
(* and has all the routes that DAO announced.                              *)
THEOREM CommitsCoverLastDao == Spec => CommitCoversLastDao
  <1>1. ASSUME TypeOK, RouteInv, NumberInv, [Next]_vars
        PROVE  [\A n \in Node :
                  dag_parent'[n] # dag_parent[n] /\ daoCount[n] + 1 < ShortMod =>
                     \A d \in daos :
                        d.src = n /\ d.no = daoCount[n] =>
                           /\ d.dst = dag_parent'[n]
                           /\ \A t \in Targets(d) : Edge(routes[d.dst], t)]_vars
    <2>1. ASSUME NEW n \in Node, NEW a \in acks, ReceiveDaoAck(n, a),
                 NEW m \in Node, dag_parent'[m] # dag_parent[m],
                 daoCount[m] + 1 < ShortMod,
                 NEW d \in daos, d.src = m, d.no = daoCount[m]
          PROVE  d.dst = dag_parent'[m] /\ \A t \in Targets(d) : Edge(routes[d.dst], t)
      <3>1. /\ dag_parent' = [dag_parent EXCEPT ![n] = a.src]
            /\ a.dst = n /\ a.seq = mDAOSequence[n]
        BY <2>1 DEF ReceiveDaoAck, CommitParent, Accepts
      <3>2. m = n /\ dag_parent'[m] = a.src
        BY <1>1, <2>1, <3>1 DEF TypeOK
      <3>3. PICK e \in daos :
               /\ e.dst = a.src /\ e.src = a.dst /\ e.seq = a.seq
               /\ \A t \in Targets(e) : Edge(routes[a.src], t)
        BY <1>1 DEF RouteInv, GoodAck
      <3>4. e.no = daoCount[n]
        BY <1>1, <2>1, <3>1, <3>2, <3>3, AcceptedIsLast
      <3>5. e = d
        BY <1>1, <2>1, <3>1, <3>2, <3>3, <3>4 DEF NumberInv
      <3> QED
        BY <3>2, <3>3, <3>5
    <2>2. ASSUME NEW n \in Node, SendDio(n) \/ SendDao(n)
          PROVE  dag_parent' = dag_parent
      BY <2>2 DEF SendDio, SendDao, upVars
    <2>3. ASSUME NEW n \in Node, NEW m \in Node, ReceiveDis(n, m)
          PROVE  dag_parent' = dag_parent
      BY <2>3 DEF ReceiveDis, upVars
    <2>4. ASSUME NEW n \in Node, NEW d \in dios,
                 DioTooOld(n, d) \/ DioIgnored(n, d) \/ DioAdopted(n, d)
          PROVE  dag_parent' = dag_parent
      BY <2>4 DEF DioTooOld, DioIgnored, DioAdopted, vars, upVars
    <2>5. ASSUME NEW d \in daos, ReceiveDao(d) PROVE dag_parent' = dag_parent
      BY <1>1, <2>5, ReceiveDaoFacts
    <2> QED
      BY <1>1, <2>1, <2>2, <2>3, <2>4, <2>5 DEF Next
  <1>2. Spec => [](TypeOK /\ RouteInv /\ NumberInv)
    <2>1. Init => TypeOK /\ RankInv /\ RouteInv /\ NumberInv
      BY InitType, InitRank, InitRoute, InitNumber
    <2>2. TypeOK /\ RankInv /\ RouteInv /\ NumberInv /\ [Next]_vars
             => TypeOK' /\ RankInv' /\ RouteInv' /\ NumberInv'
      BY NextType, NextRank, NextRoute, NextNumber
    <2> QED
      BY <2>1, <2>2, PTL DEF Spec
  <1> QED
    BY <1>1, <1>2, PTL DEF Spec, CommitCoversLastDao

----------------------------------------------------------------------------
(* The refinement of DodagAbs: an adoption is Choose, a DAO received is    *)
(* Register, a commitment is Commit, and every other step stutters.        *)

KnownMap == [n \in Node |-> Known(n)]

(* A step that changes no rank, no parent and no route stutters. *)
LEMMA AbsStutter ==
    ASSUME UNCHANGED <<mMyRank, dag_bestparent, dag_parent, routes>>
    PROVE  UNCHANGED <<mMyRank, dag_bestparent, dag_parent, KnownMap>>
  BY DEF KnownMap, Known

(* Every step of Dodag is one of DodagAbs. *)
LEMMA AbsStep ==
    ASSUME TypeOK, RankInv, RouteInv, [Next]_vars
    PROVE  [Abs!Next]_(<<mMyRank, dag_bestparent, dag_parent, KnownMap>>)
  <1>1. ASSUME NEW n \in Node, SendDio(n) \/ SendDao(n)
        PROVE  UNCHANGED <<mMyRank, dag_bestparent, dag_parent, KnownMap>>
    BY <1>1, AbsStutter DEF SendDio, SendDao, rankVars, upVars, downVars
  <1>2. ASSUME NEW n \in Node, NEW m \in Node, ReceiveDis(n, m)
        PROVE  UNCHANGED <<mMyRank, dag_bestparent, dag_parent, KnownMap>>
    BY <1>2, AbsStutter DEF ReceiveDis, rankVars, upVars, downVars
  <1>3. ASSUME NEW n \in Node, NEW d \in dios, DioTooOld(n, d) \/ DioIgnored(n, d)
        PROVE  UNCHANGED <<mMyRank, dag_bestparent, dag_parent, KnownMap>>
    BY <1>3, AbsStutter DEF DioTooOld, DioIgnored, vars, rankVars, upVars, downVars
  <1>4. ASSUME NEW n \in Node, NEW d \in dios, DioAdopted(n, d)
        PROVE  Abs!Next
    <2>1. /\ d.src \in Node /\ n # Root
          /\ d.rank \in Nat /\ d.rank >= 1 /\ d.rank + 1 < UINT_MAX
          /\ mMyRank[d.src] <= d.rank /\ d.rank < mMyRank[n]
          /\ mMyRank' = [mMyRank EXCEPT ![n] = d.rank + 1]
      BY <1>4, AdoptionFacts
    <2>2. mMyRank[n] \in Nat /\ mMyRank[d.src] \in Nat /\ UINT_MAX \in Nat
      BY <2>1, WidthAssumption DEF TypeOK, Rank
    <2>3. /\ d.rank + 1 \in 1 .. UINT_MAX - 1
          /\ mMyRank[d.src] < d.rank + 1 /\ d.rank + 1 <= mMyRank[n]
      BY <2>1, <2>2
    <2>4. /\ dag_bestparent' = [dag_bestparent EXCEPT ![n] = d.src]
          /\ dag_parent' = dag_parent /\ KnownMap' = KnownMap
      BY <1>4 DEF DioAdopted, downVars, KnownMap, Known
    <2>5. Abs!Choose(n, d.src)
      BY <2>1, <2>3, <2>4 DEF Abs!Choose, KnownMap
    <2> QED
      BY <2>1, <2>5 DEF Abs!Next
  <1>5. ASSUME NEW d \in daos, ReceiveDao(d) PROVE Abs!Next
    <2>1. /\ d.src \in Node /\ d.dst \in Node /\ Targets(d) \in SUBSET Node
          /\ \A m, t \in Node :
                routes'[m][t] = IF m = d.dst /\ t \in Targets(d)
                                   /\ routes[m][t] = NoNode
                                THEN d.src ELSE routes[m][t]
          /\ dag_parent' = dag_parent
      BY <1>5, ReceiveDaoFacts
    <2>2. mMyRank' = mMyRank /\ dag_bestparent' = dag_bestparent
      BY <1>5 DEF ReceiveDao, rankVars
    <2>3. Targets(d) \in SUBSET (Known(d.src) \cup {d.src})
      BY <2>1 DEF RouteInv, GoodDao, Known
    <2>4. \A m \in Node : Known(m)' = IF m = d.dst THEN Known(m) \cup Targets(d)
                                       ELSE Known(m)
      BY <2>1, NodeAssumption DEF Known, Edge
    <2>5. KnownMap' = [KnownMap EXCEPT ![d.dst] = @ \cup Targets(d)]
      BY <2>1, <2>4 DEF KnownMap
    <2>6. KnownMap[d.src] = Known(d.src)
      BY <2>1 DEF KnownMap
    <2>7. Abs!Register(d.dst, d.src)
      BY <2>1, <2>2, <2>3, <2>5, <2>6 DEF Abs!Register, KnownMap
    <2> QED
      BY <2>1, <2>7 DEF Abs!Next
  <1>6. ASSUME NEW n \in Node, NEW a \in acks, ReceiveDaoAck(n, a) PROVE Abs!Next
    <2>1. /\ dag_parent' = [dag_parent EXCEPT ![n] = dag_bestparent[n]]
          /\ a.src = dag_bestparent[n] /\ a.dst = n
          /\ mMyRank' = mMyRank /\ dag_bestparent' = dag_bestparent
          /\ KnownMap' = KnownMap
      BY <1>6 DEF ReceiveDaoAck, CommitParent, Accepts, rankVars, downVars,
                  KnownMap, Known
    <2>2. dag_bestparent[n] \in Node
      BY <2>1 DEF TypeOK, Ack
    <2>3. n # Root
      BY <2>2, NodeAssumption DEF RankInv, RootRank
    <2>4. n \in KnownMap[dag_bestparent[n]]
      <3>1. PICK d \in daos : /\ d.src = n
                              /\ \A t \in Targets(d) : Edge(routes[a.src], t)
        BY <2>1 DEF RouteInv, GoodAck
      <3>2. n \in Targets(d)
        BY <3>1, NodeAssumption DEF RouteInv, GoodDao, Targets
      <3> QED
        BY <2>1, <2>2, <3>1, <3>2 DEF KnownMap, Known
    <2>5. Abs!Commit(n)
      BY <2>1, <2>2, <2>4, NodeAssumption DEF Abs!Commit, KnownMap
    <2> QED
      BY <2>3, <2>5 DEF Abs!Next
  <1>7. CASE UNCHANGED vars
    BY <1>7, AbsStutter DEF vars, rankVars, upVars, downVars
  <1> QED
    BY <1>1, <1>2, <1>3, <1>4, <1>5, <1>6, <1>7 DEF Next

(* Forming a DODAG with DIOs, DAOs and acks that are delayed, repeated and *)
(* reordered implements what DodagAbs promises without any packets.        *)
THEOREM Refinement == Spec => ImplementsAbs
  <1>1. Init => Abs!Init
    BY DEF Init, Abs!Init, Known, Edge
  <1>2. TypeOK /\ RankInv /\ RouteInv /\ [Next]_vars => [Abs!Next]_(Abs!absVars)
    BY AbsStep DEF Abs!absVars, KnownMap
  <1> QED
    BY <1>1, <1>2, RouteInvariant, PTL DEF Spec, ImplementsAbs, Abs!Spec
=============================================================================
