--------------------------- MODULE SunshineProofs ---------------------------
(***************************************************************************)
(* Theorems about Sunshine, for any number of interfaces, neighbours, DAGs *)
(* and packets.                                                            *)
(***************************************************************************)
EXTENDS Sunshine, FiniteSetTheorems, NaturalsInduction, WellFoundedInduction,
        SequenceTheorems, TLAPS

(* The constants are numbers, in the order of their widths. *)
LEMMA Widths ==
    /\ SeqMod \in Nat /\ ShortMod \in Nat /\ RankMod \in Nat /\ UINT_MAX \in Nat
    /\ SeqMod > 0 /\ RankMod > 3
    /\ INVALID_SEQUENCE = SeqMod + 1 /\ RANK_INFINITE = RankMod + 1
    /\ ShortMod > SeqMod + 1 /\ UINT_MAX > RankMod + 1
    /\ MaxOptions \in Nat /\ MaxPackets \in Nat /\ MaxDao \in Nat /\ MaxDao < ShortMod
  BY SunshineAssumption DEF INVALID_SEQUENCE, RANK_INFINITE

(* Remainders, for a positive modulus. *)
LEMMA ModRange ==
    ASSUME NEW a \in Nat, NEW b \in Nat, b > 0
    PROVE  a % b \in 0 .. b - 1
  OBVIOUS

----------------------------------------------------------------------------
(* find_by_instanceid *)

(* No DAG made later has the instance of DAG k. *)
Newest(k) == \A l \in DOMAIN dags : l > k => dags[l].inst # dags[k].inst

(* The largest element of a set of indexes. *)
LEMMA LargestIndex ==
    ASSUME NEW n \in Nat, NEW S \in SUBSET (1 .. n), S # {}
    PROVE  \E x \in S : \A y \in S : x >= y
  <1> DEFINE R == {s \in Nat \X Nat : s[1] < s[2]}
             T == {n - x : x \in S}
  <1>1. IsWellFoundedOn(R, Nat)
    BY NatLessThanWellFounded DEF OpToRel
  <1>0. \A x \in S : x \in 1 .. n /\ x \in Int /\ n - x \in Nat
    OBVIOUS
  <1>2. T \in SUBSET Nat /\ T # {}
    BY <1>0
  <1>3. PICK t \in T : \A y \in T : <<y, t>> \notin R
    <2> HIDE DEF R, T
    <2> QED BY <1>1, <1>2, WFMin
  <1>4. \A y \in T : ~(y < t)
    BY <1>2, <1>3
  <1>5. PICK x \in S : t = n - x
    OBVIOUS
  <1>6. ASSUME NEW y \in S PROVE x >= y
    <2>1. n - y \in T
      OBVIOUS
    <2>2. ~(n - y < n - x)
      BY <2>1, <1>4, <1>5
    <2> QED
      BY <2>2, <1>0
  <1> QED
    BY <1>6

(* find_by_instanceid: the newest DAG of the instance, or none. *)
LEMMA FindFacts ==
    ASSUME dags \in Seq(Dag), NEW num
    PROVE  LET k == find_by_instanceid(num)
           IN  /\ k = 0 => \A l \in DOMAIN dags : dags[l].inst # num
               /\ k # 0 => k \in DOMAIN dags /\ dags[k].inst = num /\ Newest(k)
  <1> DEFINE I == {i \in 1 .. Len(dags) : dags[i].inst = num}
             k == find_by_instanceid(num)
  <1>1. k = IF I # {} THEN SE!Max(I) ELSE 0
    BY DEF find_by_instanceid, SE!SelectLastInSeq
  <1>2. DOMAIN dags = 1 .. Len(dags) /\ Len(dags) \in Nat
    OBVIOUS
  <1>3. CASE I = {}
    BY <1>1, <1>2, <1>3
  <1>4. CASE I # {}
    <2>1. \E x \in I : \A y \in I : x >= y
      BY <1>2, <1>4, LargestIndex
    <2>2. k \in I /\ \A y \in I : k >= y
      BY <1>1, <1>4, <2>1 DEF SE!Max
    <2>3. k # 0 /\ k \in DOMAIN dags /\ dags[k].inst = num
      BY <1>2, <2>2
    <2>4. Newest(k)
      BY <1>2, <2>2, <2>3 DEF Newest
    <2> QED
      BY <2>3, <2>4
  <1> QED
    BY <1>3, <1>4

----------------------------------------------------------------------------
(* What a handler does to one DAG. *)

(* Out of the protocol, with the mBestRank that keeps ScheduleDio from     *)
(* arming the timer.                                                       *)
Silent(d) ==
    /\ d.mMyRank = UINT_MAX /\ d.mBestRank = UINT_MAX /\ d.bestparent = NULL
    /\ d.children = NoChild /\ ~d.dioEvent /\ ~d.daoEvent

(* The rank is the parent's and one more, or there is none yet.            *)
FromParent(d) ==
    \/ d.mMyRank = UINT_MAX /\ d.mBestRank = UINT_MAX /\ ~d.dioEvent
    \/ d.mBestRank < RankMod /\ d.mMyRank = d.mBestRank + 1

Sound(d) == (~d.active => Silent(d)) /\ (~Ranked(d) => FromParent(d))

(* e is d after a packet that did not change its parent. *)
Kept(d, e) ==
    /\ e.inst = d.inst /\ e.active = d.active /\ e.settings = d.settings
    /\ e.mMyRank = d.mMyRank /\ e.mBestRank = d.mBestRank /\ e.bestparent = d.bestparent

(* e is d after it took from, of a lower rank, for its best parent. *)
Adopted(d, e, from, m) ==
    /\ d.active /\ e.active /\ e.inst = m.inst /\ e.settings = d.settings
    /\ e.bestparent = from
    /\ m.rank <= d.mBestRank /\ e.mBestRank = m.rank /\ e.mMyRank = m.rank + 1

(* schedule_dio: only a DAG with a rank gets a timer. *)
LEMMA ScheduleDioFacts ==
    ASSUME NEW d \in Dag, Sound(d)
    PROVE  ScheduleDio(d) \in Dag /\ Sound(ScheduleDio(d)) /\ Kept(d, ScheduleDio(d))
  <1> DEFINE x == d.dioEvent \/ d.mBestRank < RANK_INFINITE
             e == [d EXCEPT !.dioEvent = x]
  <1>1. ScheduleDio(d) = e
    BY DEF ScheduleDio, Dag
  <1>2. x \in BOOLEAN
    OBVIOUS
  <1>3. e \in Dag
    <2> HIDE DEF x
    <2> QED BY <1>2 DEF Dag
  <1>4. Kept(d, e) /\ e.children = d.children /\ e.daoEvent = d.daoEvent /\ e.dioEvent = x
    BY DEF Dag, Kept
  <1>5. d.mBestRank = UINT_MAX => ~(d.mBestRank < RANK_INFINITE)
    BY Widths
  <1>6. Sound(e)
    BY <1>4, <1>5 DEF Sound, Silent, FromParent, Ranked, Kept
  <1> QED
    BY <1>1, <1>3, <1>4, <1>6

(* maybe_schedule_dio *)
LEMMA MaybeScheduleDioFacts ==
    ASSUME NEW d \in Dag, Sound(d)
    PROVE  LET e == MaybeScheduleDio(d) IN e \in Dag /\ Sound(e) /\ Kept(d, e)
  <1> DEFINE c == ScheduleDio(d)
             e == [c EXCEPT !.lastparent = d.parent]
  <1>1. c \in Dag /\ Sound(c) /\ Kept(d, c)
    BY ScheduleDioFacts
  <1>2. d.parent \in Node \cup {NULL}
    BY DEF Dag
  <1> HIDE DEF c
  <1>3. e \in Dag
    BY <1>1, <1>2 DEF Dag
  <1>4. /\ Kept(c, e) /\ e.children = c.children
        /\ e.daoEvent = c.daoEvent /\ e.dioEvent = c.dioEvent
    BY <1>1 DEF Dag, Kept
  <1>5. Sound(e) /\ Kept(d, e)
    BY <1>1, <1>4 DEF Sound, Silent, FromParent, Ranked, Kept
  <1>6. MaybeScheduleDio(d) = e \/ MaybeScheduleDio(d) = d
    BY DEF MaybeScheduleDio, c
  <1>7. Kept(d, d)
    BY DEF Kept
  <1> HIDE DEF e
  <1> QED
    BY <1>3, <1>5, <1>6, <1>7

(* maybe_send_dao: a DAG without a parent sends none. *)
LEMMA MaybeSendDaoFacts ==
    ASSUME NEW d \in Dag, Sound(d)
    PROVE  LET e == MaybeSendDao(d) IN e \in Dag /\ Sound(e) /\ Kept(d, e)
  <1> DEFINE x == d.daoEvent \/ d.mMyRank # 1
             e == [d EXCEPT !.daoEvent = x, !.dao_needed = FALSE]
  <1>1. x \in BOOLEAN
    OBVIOUS
  <1>2. e \in Dag
    <2> HIDE DEF x
    <2> QED BY <1>1 DEF Dag
  <1>3. /\ Kept(d, e) /\ e.children = d.children /\ e.dioEvent = d.dioEvent
    BY DEF Dag, Kept
  <1>4. d.bestparent # NULL => Sound(e)
    BY <1>3 DEF Sound, Silent, FromParent, Ranked, Kept
  <1>5. MaybeSendDao(d) = IF d.dao_needed /\ d.bestparent # NULL THEN e ELSE d
    BY DEF MaybeSendDao, Dag
  <1>6. Kept(d, d)
    BY DEF Kept
  <1> HIDE DEF e
  <1> QED
    BY <1>2, <1>3, <1>4, <1>5, <1>6

(* potentially_lower_rank, on a DIO that is better. *)
LEMMA AdoptFacts ==
    ASSUME NEW d \in Dag, Sound(d), d.active, NEW from \in Node, NEW m \in Dio,
           Better(d, from, m)
    PROVE  LET e == Adopt(d, from, m)
           IN  e \in Dag /\ Sound(e) /\ Adopted(d, e, from, m)
  <1> DEFINE me == d.dag_me \/ "P" \notin d.settings
             c == [d EXCEPT !.mDTSN = m.dtsn, !.mBestRank = m.rank, !.mMyRank = m.rank + 1,
                            !.mGrounded = m.grounded, !.inst = m.inst, !.dagid = m.dagid,
                            !.bestparent = from, !.dao_needed = TRUE, !.dag_me = me]
  <1>1. me \in BOOLEAN
    OBVIOUS
  <1>2. /\ m.dtsn \in 0 .. ShortMod - 1 /\ m.rank \in 0 .. UINT_MAX
        /\ m.rank + 1 \in 0 .. UINT_MAX /\ m.grounded \in BOOLEAN /\ m.inst \in Inst
        /\ m.dagid \in DagId \cup {NoDagid} /\ m.rank < RankMod
    BY Widths DEF Dio
  <1>3. c \in Dag
    <2> HIDE DEF me
    <2> QED BY <1>1, <1>2 DEF Dag
  <1>4. /\ c.active = d.active /\ c.inst = m.inst /\ c.settings = d.settings
        /\ c.bestparent = from /\ c.mBestRank = m.rank /\ c.mMyRank = m.rank + 1
    BY DEF Dag
  <1>5. Sound(c)
    BY <1>2, <1>4 DEF Sound, FromParent, Ranked
  <1>6. Adopt(d, from, m) = MaybeSendDao(MaybeScheduleDio(c))
    BY DEF Adopt, Dag
  <1> HIDE DEF c
  <1>7. LET f == MaybeScheduleDio(c) IN f \in Dag /\ Sound(f) /\ Kept(c, f)
    BY <1>3, <1>5, MaybeScheduleDioFacts
  <1> DEFINE f == MaybeScheduleDio(c)
             e == MaybeSendDao(f)
  <1>8. f \in Dag /\ Sound(f) /\ Kept(c, f)
    BY <1>7
  <1>9. e \in Dag /\ Sound(e) /\ Kept(f, e)
    <2> HIDE DEF f
    <2> QED BY <1>8, MaybeSendDaoFacts
  <1>10. Adopt(d, from, m) = e
    BY <1>6
  <1> HIDE DEF f, e
  <1>11. Adopted(d, e, from, m)
    BY <1>4, <1>8, <1>9 DEF Adopted, Kept, Better
  <1> QED
    BY <1>9, <1>10, <1>11

(* receive_dio: the DAG stays as it was but for its notes, or adopts. *)
LEMMA ReceiveDioFacts ==
    ASSUME NEW d \in Dag, Sound(d), NEW i \in If, NEW from \in Node, NEW m \in Dio,
           m.inst = d.inst
    PROVE  LET e == ReceiveDio(d, i, from, m)
           IN  /\ e \in Dag /\ Sound(e)
               /\ Kept(d, e) \/ Adopted(d, e, from, m)
  <1> DEFINE own == [d EXCEPT !.seen = TRUE, !.self = @ \cup {from}]
             c   == [d EXCEPT !.seen = TRUE, !.lastSeq = m.dtsn]
  <1>1. own \in Dag
    BY DEF Dag
  <1>2. c \in Dag
    BY DEF Dag, Dio
  <1>3. /\ Kept(d, own) /\ own.children = d.children
        /\ own.daoEvent = d.daoEvent /\ own.dioEvent = d.dioEvent
    BY DEF Kept, Dag
  <1>4. /\ Kept(d, c) /\ c.children = d.children
        /\ c.daoEvent = d.daoEvent /\ c.dioEvent = d.dioEvent
        /\ c.parent = d.parent /\ c.mDTSN = d.mDTSN
    BY DEF Kept, Dag
  <1>5. /\ Sound(own) /\ Sound(c)
    BY <1>3, <1>4 DEF Sound, Silent, FromParent, Ranked, Kept
  <1>6. \/ ReceiveDio(d, i, from, m) \in {d, own, c}
        \/ d.active /\ Better(d, from, m) /\ ReceiveDio(d, i, from, m) = Adopt(c, from, m)
    BY DEF ReceiveDio
  <1>7. Kept(d, d)
    BY DEF Kept
  <1>8. ASSUME d.active, Better(d, from, m)
        PROVE  LET e == Adopt(c, from, m)
               IN  e \in Dag /\ Sound(e) /\ Adopted(d, e, from, m)
    <2> HIDE DEF c
    <2>1. Better(c, from, m) /\ c.active /\ Ranked(c) = Ranked(d)
      BY <1>4, <1>8 DEF Better, Kept, Ranked
    <2>4. LET e == Adopt(c, from, m)
          IN  e \in Dag /\ Sound(e) /\ Adopted(c, e, from, m)
      BY <1>2, <1>5, <2>1, AdoptFacts
    <2> DEFINE e == Adopt(c, from, m)
    <2>5. e \in Dag /\ Sound(e) /\ Adopted(c, e, from, m)
      BY <2>4
    <2> HIDE DEF e
    <2>6. Adopted(d, e, from, m)
      BY <2>5, <1>4 DEF Adopted, Kept
    <2> QED
      BY <2>5, <2>6 DEF e
  <1> HIDE DEF own, c
  <1>9. CASE ReceiveDio(d, i, from, m) \in {d, own, c}
    BY <1>1, <1>2, <1>3, <1>4, <1>5, <1>7, <1>9
  <1>10. CASE d.active /\ Better(d, from, m) /\ ReceiveDio(d, i, from, m) = Adopt(c, from, m)
    BY <1>8, <1>10
  <1> QED
    BY <1>6, <1>9, <1>10

(* operator[] of the prefix_map of children *)
LEMMA InsertType ==
    ASSUME NEW c \in ChildMap, NEW key \in Node
    PROVE  Insert(c, key) \in ChildMap
  BY DEF Insert, ChildMap

(* receive_dao *)
LEMMA ReceiveDaoFacts ==
    ASSUME NEW d \in Dag, Sound(d), NEW i \in If, NEW from \in Node
    PROVE  LET e == ReceiveDao(d, i, from) IN e \in Dag /\ Sound(e) /\ Kept(d, e)
  <1> DEFINE own == [d EXCEPT !.self = @ \cup {from}]
             x == d.dao_needed \/ IsNew(d.children, from)
             c == [d EXCEPT !.children = Insert(@, from), !.dao_needed = x]
  <1>1. own \in Dag
    BY DEF Dag
  <1>2. Insert(d.children, from) \in ChildMap
    BY InsertType DEF Dag
  <1>3. x \in BOOLEAN
    OBVIOUS
  <1>4. c \in Dag
    <2> HIDE DEF x
    <2> QED BY <1>2, <1>3 DEF Dag
  <1>5. /\ Kept(d, own) /\ own.children = d.children
        /\ own.daoEvent = d.daoEvent /\ own.dioEvent = d.dioEvent
    BY DEF Kept, Dag
  <1>6. Kept(d, c) /\ c.daoEvent = d.daoEvent /\ c.dioEvent = d.dioEvent
    BY DEF Kept, Dag
  <1>7. Sound(own)
    BY <1>5 DEF Sound, Silent, FromParent, Ranked, Kept
  <1>8. \/ ReceiveDao(d, i, from) \in {own, d}
        \/ d.active /\ ReceiveDao(d, i, from) = MaybeSendDao(c)
    <2>1. c = [d EXCEPT !.children = Insert(@, from),
                        !.dao_needed = @ \/ IsNew(d.children, from)]
      BY DEF Dag
    <2>2. ReceiveDao(d, i, from) =
            IF OwnPacket(d, i, from) THEN own ELSE IF ~d.active THEN d ELSE MaybeSendDao(c)
      BY <2>1, Zenon DEF ReceiveDao
    <2> HIDE DEF c, own
    <2> QED BY <2>2
  <1>9. ASSUME d.active
        PROVE  LET e == MaybeSendDao(c) IN e \in Dag /\ Sound(e) /\ Kept(d, e)
    <2>1. Sound(c)
      BY <1>6, <1>9 DEF Sound, FromParent, Ranked, Kept
    <2> HIDE DEF c
    <2> DEFINE e == MaybeSendDao(c)
    <2>2. e \in Dag /\ Sound(e) /\ Kept(c, e)
      BY <1>4, <2>1, MaybeSendDaoFacts
    <2> HIDE DEF e
    <2>3. Kept(d, e)
      BY <1>6, <2>2 DEF Kept
    <2> QED
      BY <2>2, <2>3 DEF e
  <1>10. Kept(d, d)
    BY DEF Kept
  <1> HIDE DEF own, c
  <1> QED
    BY <1>1, <1>5, <1>7, <1>8, <1>9, <1>10

(* receive_daoack, commit_parent: a DAG without a best parent commits to   *)
(* none, since no packet comes from the address NULL.                      *)
LEMMA ReceiveDaoackFacts ==
    ASSUME NEW d \in Dag, Sound(d), NEW from \in Node, NEW m
    PROVE  LET e == ReceiveDaoack(d, from, m) IN e \in Dag /\ Sound(e) /\ Kept(d, e)
  <1> DEFINE c == [d EXCEPT !.lastparent = d.parent, !.parent = d.bestparent]
  <1>1. c \in Dag
    BY DEF Dag
  <1>2. /\ Kept(d, c) /\ c.children = d.children
        /\ c.daoEvent = d.daoEvent /\ c.dioEvent = d.dioEvent
    BY DEF Kept, Dag
  <1>3. Sound(c)
    BY <1>2 DEF Sound, Silent, FromParent, Ranked, Kept
  <1>4. ReceiveDaoack(d, from, m) \in {d, MaybeScheduleDio(c)}
    BY DEF ReceiveDaoack
  <1> HIDE DEF c
  <1> DEFINE e == MaybeScheduleDio(c)
  <1>5. e \in Dag /\ Sound(e) /\ Kept(c, e)
    BY <1>1, <1>3, MaybeScheduleDioFacts
  <1>6. ReceiveDaoack(d, from, m) \in {d, e}
    BY <1>4
  <1> HIDE DEF e
  <1>7. Kept(d, e) /\ Kept(d, d)
    BY <1>2, <1>5 DEF Kept
  <1> QED
    BY <1>5, <1>6, <1>7

(* A DAG made for watching. *)
LEMMA InitDagFacts ==
    ASSUME NEW num \in Inst, NEW g \in DagId \cup {NoDagid}
    PROVE  LET d == init_dag(num, g)
           IN  /\ d \in Dag /\ Sound(d) /\ ~d.active /\ d.inst = num
               /\ [d EXCEPT !.active = TRUE] \in Dag
               /\ Sound([d EXCEPT !.active = TRUE])
  <1> DEFINE d == init_dag(num, g)
  <1>1. NoChild \in ChildMap /\ NULL \in Node \cup {NULL}
    BY DEF NoChild, ChildMap, NULL
  <1>2. /\ UINT_MAX \in 0 .. UINT_MAX /\ INVALID_SEQUENCE \in 0 .. ShortMod - 1
        /\ 0 \in 0 .. SeqMod - 1 /\ 1 \in 0 .. ShortMod - 1
    BY Widths
  <1>3. d \in Dag
    BY <1>1, <1>2 DEF init_dag, Dag
  <1>4. [d EXCEPT !.active = TRUE] \in Dag
    BY <1>3 DEF Dag
  <1>5. Sound(d) /\ Sound([d EXCEPT !.active = TRUE]) /\ ~d.active /\ d.inst = num
    BY DEF init_dag, Sound, Silent, FromParent, Ranked
  <1> QED
    BY <1>3, <1>4, <1>5

----------------------------------------------------------------------------
(* The invariant.  Only the newest DAG of an instance ever gets a timer,   *)
(* as main and find_by_instanceid only look at that one; so it alone has   *)
(* sent the DIOs of its instance, and hears them again.                    *)

Alone(k) == \A l \in DOMAIN dags : l # k => dags[l].inst # dags[k].inst

(* DAG k may have sent a, and does not adopt its sender unless the rank in  *)
(* it has wrapped to 0.                                                    *)
Sent(k, a) ==
    /\ Newest(k) /\ dags[k].inst = a.m.inst
    /\ Ranked(dags[k]) \/ a.m.rank > dags[k].mBestRank \/ a.m.rank = 0

DagsInv ==
    \A k \in DOMAIN dags :
        /\ Sound(dags[k])
        /\ dags[k].dioEvent => Newest(k)
        /\ ~dags[k].active => Alone(k)

OptionsInv ==
    phase = "options" =>
        air = {} /\ \A k \in DOMAIN dags : dags[k].active /\ ~dags[k].dioEvent

AirInv == \A a \in air : \E k \in DOMAIN dags : Sent(k, a)

SunInv == TypeOK /\ OptionsInv /\ DagsInv /\ AirInv

(* DAG k, which is the newest of its instance, becomes new. *)
LEMMA ReplaceDag ==
    ASSUME dags \in Seq(Dag), DagsInv, AirInv, NEW k \in DOMAIN dags, Newest(k),
           NEW new \in Dag, Sound(new), new.inst = dags[k].inst,
           new.active = dags[k].active, new.settings = dags[k].settings,
           new.mBestRank <= dags[k].mBestRank,
           dags' = [dags EXCEPT ![k] = new], air' = air,
           air \subseteq [from : If, m : Dio]
    PROVE  dags' \in Seq(Dag) /\ DagsInv' /\ AirInv'
  <1>1. /\ dags' \in Seq(Dag) /\ DOMAIN dags' = DOMAIN dags
        /\ \A j \in DOMAIN dags : dags'[j] = IF j = k THEN new ELSE dags[j]
    OBVIOUS
  <1>2. \A j \in DOMAIN dags : dags'[j].inst = dags[j].inst /\ dags'[j].active = dags[j].active
    BY <1>1
  <1>3. \A j \in DOMAIN dags : Newest(j) => Newest(j)'
    BY <1>1, <1>2 DEF Newest
  <1>4. \A j \in DOMAIN dags : Alone(j) => Alone(j)'
    BY <1>1, <1>2 DEF Alone
  <1>5. \A j \in DOMAIN dags : Sound(dags'[j]) /\ (dags'[j].dioEvent => Newest(j)')
    BY <1>1, <1>3 DEF DagsInv
  <1>6. DagsInv'
    BY <1>1, <1>2, <1>4, <1>5 DEF DagsInv
  <1>7. ASSUME NEW a \in air, NEW j \in DOMAIN dags, Sent(j, a)
        PROVE  Sent(j, a)'
    <2>0. a.m \in Dio /\ dags[j] \in Dag
      BY <1>7
    <2>1. a.m.rank \in Int /\ new.mBestRank \in Int /\ dags[j].mBestRank \in Int
      BY <2>0 DEF Dio, Dag
    <2>2. CASE j # k
      BY <1>1, <1>3, <1>7, <2>2 DEF Sent
    <2>3. CASE j = k
      BY <1>1, <1>3, <1>7, <2>1, <2>3 DEF Sent, Ranked
    <2> QED BY <2>2, <2>3
  <1> QED
    BY <1>1, <1>6, <1>7 DEF AirInv

(* A DAG of an instance that there is none of is made. *)
LEMMA AppendDag ==
    ASSUME dags \in Seq(Dag), DagsInv, AirInv, NEW new \in Dag, Sound(new),
           \A l \in DOMAIN dags : dags[l].inst # new.inst,
           dags' = Append(dags, new), air' = air
    PROVE  dags' \in Seq(Dag) /\ DagsInv' /\ AirInv'
  <1>0. PICK n \in Nat : n = Len(dags) + 1
    OBVIOUS
  <1>1. /\ dags' \in Seq(Dag)
        /\ DOMAIN dags' = DOMAIN dags \cup {n} /\ n \notin DOMAIN dags
        /\ dags'[n] = new /\ \A j \in DOMAIN dags : dags'[j] = dags[j] /\ j < n /\ j \in Nat
    BY <1>0
  <1>2. Newest(n)' /\ Alone(n)'
    BY <1>1 DEF Newest, Alone
  <1>3. \A j \in DOMAIN dags : Newest(j) => Newest(j)'
    BY <1>1 DEF Newest
  <1>4. \A j \in DOMAIN dags : Alone(j) => Alone(j)'
    BY <1>1 DEF Alone
  <1>5. DagsInv'
    BY <1>1, <1>2, <1>3, <1>4 DEF DagsInv
  <1>6. \A a \in air, j \in DOMAIN dags : Sent(j, a) => Sent(j, a)'
    BY <1>1, <1>3 DEF Sent
  <1> QED
    BY <1>1, <1>5, <1>6 DEF AirInv

(* Before main_loop nothing was sent and no timer is armed. *)
LEMMA OptionsEnough ==
    ASSUME air = {},
           \A k \in DOMAIN dags : Sound(dags[k]) /\ dags[k].active /\ ~dags[k].dioEvent
    PROVE  OptionsInv /\ DagsInv /\ AirInv
  BY DEF OptionsInv, DagsInv, AirInv

----------------------------------------------------------------------------
(* What arrives. *)

(* The addresses of the process and of its neighbours. *)
LEMMA Addresses ==
    /\ \A p \in Peer : p \in Node /\ p # NULL /\ p \notin If
    /\ \A i \in If : i \in Node /\ i # NULL /\ Addr(i) = i
  BY SunshineAssumption DEF Addr

(* A DIO is one of a neighbour or of the process itself.                   *)
LEMMA ArrivingFacts ==
    ASSUME TypeOK, NEW a \in Arriving
    PROVE  /\ a.from \in Node /\ a.from # NULL
           /\ a.m.type = "dio" => a.m \in Dio
           /\ a.m.type = "dao" => a.m.inst \in Inst /\ a.m.dagid \in DagId \cup {NoDagid}
           /\ a \notin air => a.from \in Peer
  <1>1. \A b \in air : /\ b.from \in If /\ b.m \in Dio /\ b.m.type = "dio"
                       /\ b.m.inst \in Inst /\ b.m.dagid \in DagId \cup {NoDagid}
    BY DEF TypeOK, Dio
  <1>2. CASE a \in air
    BY <1>1, <1>2, Addresses
  <1>3. CASE a \notin air
    <2>1. a \in [from : Peer, m : PeerMessage]
      BY <1>3 DEF Arriving
    <2>2. PICK m \in PeerMessage : a.from \in Peer /\ a.m = m
      BY <2>1
    <2>3. CASE m \in Dios
      <3>1. m \in Dio /\ m.type = "dio"
        <4>1. PICK n \in Inst, g \in DagId, r \in 0 .. RankMod - 1, q \in Dtsn :
                m = [type |-> "dio", inst |-> n, dagid |-> g, rank |-> r, dtsn |-> q,
                     grounded |-> TRUE]
          BY <2>3 DEF Dios
        <4>2. q \in 0 .. SeqMod - 1
          BY SunshineAssumption
        <4> QED
          BY <4>1, <4>2 DEF Dio
      <3> QED
        BY <2>2, <3>1, <1>3, Addresses
    <2>4. CASE m \notin Dios
      <3>1. m.type # "dio" /\ (m.type = "dao" => /\ m.inst \in Inst
                                                 /\ m.dagid \in DagId \cup {NoDagid})
        BY <2>2, <2>4, <1>1 DEF PeerMessage
      <3> QED
        BY <2>2, <3>1, <1>3, Addresses
    <2> QED BY <2>3, <2>4
  <1> QED BY <1>2, <1>3

(* One DAG is changed by a packet, or one is made and then changed. *)
ChangesOne(a) ==
    \E k \in DOMAIN dags, new \in Dag :
        /\ Newest(k) /\ dags[k].inst = a.m.inst /\ Sound(new)
        /\ dags' = [dags EXCEPT ![k] = new]
        /\ \/ Kept(dags[k], new)
           \/ a.m \in Dio /\ Adopted(dags[k], new, a.from, a.m)

MakesOne ==
    \E new \in Dag :
        /\ Sound(new) /\ \A l \in DOMAIN dags : dags[l].inst # new.inst
        /\ dags' = Append(dags, new)

(* A DAG that was made for a packet and has handled it. *)
LEMMA MadeDag ==
    ASSUME dags \in Seq(Dag), NEW x \in Dag, NEW new \in Dag
    PROVE  [Append(dags, x) EXCEPT ![Len(Append(dags, x))] = new] = Append(dags, new)
  <1> DEFINE n == Len(dags) + 1
             s == Append(dags, x)
             t == [s EXCEPT ![n] = new]
             u == Append(dags, new)
  <1>1. /\ s \in Seq(Dag) /\ Len(s) = n /\ n \in Nat /\ n \in 1 .. n
        /\ \A j \in 1 .. n - 1 : s[j] = dags[j]
    OBVIOUS
  <1>2. u \in Seq(Dag) /\ Len(u) = n /\ u[n] = new /\ \A j \in 1 .. n - 1 : u[j] = dags[j]
    OBVIOUS
  <1> HIDE DEF s, u, n
  <1>3. t \in Seq(Dag) /\ Len(t) = n /\ t[n] = new /\ \A j \in 1 .. n - 1 : t[j] = s[j]
    BY <1>1, ExceptSeq
  <1> HIDE DEF t
  <1>4. t = u
    BY <1>1, <1>2, <1>3, SeqEqual
  <1> QED
    BY <1>1, <1>4 DEF s, t, u

(* find_or_make_by_instanceid *)
LEMMA MakesDagFacts ==
    ASSUME SunInv, NEW i \in If, NEW a \in Arriving, MakesDag(a.m), ifs[i].watching
    PROVE  LET all == FindOrMake(i, a.m)
               d   == init_dag(a.m.inst, a.m.dagid)
           IN  /\ all = Append(dags, d) /\ Found(all, a.m) = Len(all) /\ Len(all) # 0
               /\ all[Len(all)] = d
               /\ d \in Dag /\ Sound(d) /\ ~d.active /\ d.inst = a.m.inst
               /\ d.mBestRank = UINT_MAX /\ d.settings = {}
               /\ \A l \in DOMAIN dags : dags[l].inst # a.m.inst
               /\ a \notin air
  <1> DEFINE d == init_dag(a.m.inst, a.m.dagid)
             all == FindOrMake(i, a.m)
  <1>1. a.m.type \in {"dio", "dao"} /\ find_by_instanceid(a.m.inst) = 0
    BY DEF MakesDag
  <1>2. a.m.inst \in Inst /\ a.m.dagid \in DagId \cup {NoDagid}
    BY <1>1, ArrivingFacts DEF SunInv, Dio
  <1>3. d \in Dag /\ Sound(d) /\ ~d.active /\ d.inst = a.m.inst
    BY <1>2, InitDagFacts
  <1>4. d.mBestRank = UINT_MAX /\ d.settings = {}
    BY DEF init_dag
  <1>5. all = Append(dags, d)
    BY DEF FindOrMake
  <1>6. dags \in Seq(Dag)
    BY DEF SunInv, TypeOK
  <1>7. \A l \in DOMAIN dags : dags[l].inst # a.m.inst
    BY <1>1, <1>6, FindFacts
  <1>8. a \notin air
    BY <1>7 DEF SunInv, AirInv, Sent
  <1> HIDE DEF d
  <1>9. all # dags /\ Len(all) # 0 /\ all[Len(all)] = d
    <2> HIDE DEF all
    <2>1. Len(all) = Len(dags) + 1 /\ Len(dags) \in Nat /\ all[Len(dags) + 1] = d
      BY <1>3, <1>5, <1>6
    <2> QED BY <2>1
  <1>10. Found(all, a.m) = Len(all)
    BY <1>9 DEF Found
  <1> QED
    BY <1>3, <1>4, <1>5, <1>7, <1>8, <1>9, <1>10 DEF d

(* The four handlers. *)
LEMMA ReceiveEffect ==
    ASSUME SunInv, NEW i \in If, NEW a \in Arriving, Receive(i, a)
    PROVE  (dags' = dags \/ ChangesOne(a) \/ MakesOne) /\ phase' \in {"run", "died"}
  <1> DEFINE m == a.m
             from == a.from
             all == FindOrMake(i, m)
             k == Found(all, m)
             f == find_by_instanceid(m.inst)
             d == init_dag(m.inst, m.dagid)
  <1>0. phase = "run" /\ dags \in Seq(Dag) /\ from \in Node
    BY ArrivingFacts DEF Receive, SunInv, TypeOK
  <1>1. f # 0 => /\ f \in DOMAIN dags /\ dags[f].inst = m.inst /\ Newest(f)
                 /\ dags[f] \in Dag /\ Sound(dags[f])
    BY <1>0, FindFacts DEF SunInv, DagsInv
  <1>2. ASSUME ~(ifs[i].watching /\ MakesDag(m))
        PROVE  all = dags /\ k = f
    BY <1>2 DEF FindOrMake, Found
  <1>3. ASSUME ifs[i].watching, MakesDag(m)
        PROVE  /\ all = Append(dags, d) /\ k = Len(all) /\ k # 0 /\ all[k] = d
               /\ d \in Dag /\ Sound(d) /\ ~d.active /\ d.inst = m.inst
               /\ d.mBestRank = UINT_MAX /\ d.settings = {}
               /\ \A l \in DOMAIN dags : dags[l].inst # m.inst
               /\ a \notin air
    BY <1>3, MakesDagFacts
  <1>4. ASSUME NEW new \in Dag, Sound(new), f # 0, dags' = [dags EXCEPT ![f] = new],
               \/ Kept(dags[f], new)
               \/ m \in Dio /\ Adopted(dags[f], new, from, m)
        PROVE  ChangesOne(a)
    BY <1>1, <1>4 DEF ChangesOne
  <1>5. ASSUME NEW new \in Dag, Sound(new), ifs[i].watching, MakesDag(m), new.inst = m.inst,
               dags' = [all EXCEPT ![k] = new]
        PROVE  MakesOne
    <2>1. dags' = Append(dags, new)
      <3> HIDE DEF all, k, d
      <3>1. all = Append(dags, d) /\ k = Len(all) /\ d \in Dag
        BY <1>3, <1>5
      <3> QED
        BY <3>1, <1>0, <1>5, MadeDag
    <2>2. \A l \in DOMAIN dags : dags[l].inst # new.inst
      BY <1>3, <1>5
    <2> QED
      BY <1>5, <2>1, <2>2 DEF MakesOne
  <1>6. CASE IfReceiveDio(i, from, m)
    <2>0. m.type = "dio" /\ m \in Dio /\ Handled(all, k, ReceiveDio(all[k], i, from, m))
          /\ phase' = phase
      BY <1>6, ArrivingFacts DEF IfReceiveDio, SunInv
    <2>1. CASE ifs[i].watching /\ MakesDag(m)
      <3> DEFINE new == ReceiveDio(d, i, from, m)
      <3>2. new \in Dag /\ Sound(new) /\ (Kept(d, new) \/ Adopted(d, new, from, m))
        <4> HIDE DEF d, m, from
        <4> QED BY <1>0, <1>3, <2>0, <2>1, ReceiveDioFacts
      <3>3. new.inst = m.inst
        <4> HIDE DEF new, d
        <4> QED BY <3>2, <1>3, <2>1 DEF Kept, Adopted
      <3>4. dags' = [all EXCEPT ![k] = new]
        <4> HIDE DEF all, k, d
        <4> QED BY <2>0, <2>1, <1>3 DEF Handled
      <3> HIDE DEF new
      <3> QED
        BY <1>0, <1>5, <2>0, <2>1, <3>2, <3>3, <3>4
    <2>2. CASE ~(ifs[i].watching /\ MakesDag(m))
      <3> DEFINE new == ReceiveDio(dags[f], i, from, m)
      <3>1. dags' = IF f = 0 THEN dags ELSE [dags EXCEPT ![f] = new]
        BY <2>0, <2>2, <1>2 DEF Handled
      <3>2. CASE f = 0
        BY <1>0, <2>0, <3>1, <3>2
      <3>3. CASE f # 0
        <4>2. /\ new \in Dag /\ Sound(new)
              /\ Kept(dags[f], new) \/ Adopted(dags[f], new, from, m)
          <5> HIDE DEF f, m, from
          <5> QED BY <1>0, <1>1, <2>0, <3>3, ReceiveDioFacts
        <4> HIDE DEF new
        <4> QED
          BY <1>0, <1>4, <2>0, <3>1, <3>3, <4>2
      <3> QED BY <3>2, <3>3
    <2> QED BY <2>1, <2>2
  <1>7. CASE IfReceiveDao(i, from, m)
    <2>0. \/ phase' = "died" /\ dags' = dags
          \/ Handled(all, k, ReceiveDao(all[k], i, from)) /\ phase' = phase
      BY <1>7 DEF IfReceiveDao
    <2>1. CASE phase' = "died" /\ dags' = dags
      BY <2>1
    <2>2. CASE /\ Handled(all, k, ReceiveDao(all[k], i, from)) /\ phase' = phase
               /\ ifs[i].watching /\ MakesDag(m)
      <3> DEFINE new == ReceiveDao(d, i, from)
      <3>2. new \in Dag /\ Sound(new) /\ Kept(d, new)
        <4> HIDE DEF d, m, from
        <4> QED BY <1>0, <1>3, <2>2, ReceiveDaoFacts
      <3>3. new.inst = m.inst
        <4> HIDE DEF new, d
        <4> QED BY <3>2, <1>3, <2>2 DEF Kept
      <3>4. dags' = [all EXCEPT ![k] = new]
        <4> HIDE DEF all, k, d
        <4> QED BY <2>2, <1>3 DEF Handled
      <3> HIDE DEF new
      <3> QED
        BY <1>0, <1>5, <2>2, <3>2, <3>3, <3>4
    <2>3. CASE /\ Handled(all, k, ReceiveDao(all[k], i, from)) /\ phase' = phase
               /\ ~(ifs[i].watching /\ MakesDag(m))
      <3> DEFINE new == ReceiveDao(dags[f], i, from)
      <3>1. dags' = IF f = 0 THEN dags ELSE [dags EXCEPT ![f] = new]
        BY <2>3, <1>2 DEF Handled
      <3>2. CASE f = 0
        BY <1>0, <2>3, <3>1, <3>2
      <3>3. CASE f # 0
        <4>2. /\ new \in Dag /\ Sound(new) /\ Kept(dags[f], new)
          <5> HIDE DEF f, m, from
          <5> QED BY <1>0, <1>1, <3>3, ReceiveDaoFacts
        <4> HIDE DEF new
        <4> QED
          BY <1>0, <1>4, <2>3, <3>1, <3>3, <4>2
      <3> QED BY <3>2, <3>3
    <2> QED BY <2>0, <2>1, <2>2, <2>3
  <1>8. CASE IfReceiveDaoack(i, from, m)
    <2> DEFINE new == ReceiveDaoack(dags[f], from, m)
    <2>1. phase' = phase /\ dags' = IF f = 0 THEN dags ELSE [dags EXCEPT ![f] = new]
      BY <1>8 DEF IfReceiveDaoack, Handled
    <2>2. CASE f = 0
      BY <1>0, <2>1, <2>2
    <2>3. CASE f # 0
      <3>1. /\ new \in Dag /\ Sound(new) /\ Kept(dags[f], new)
        <4> HIDE DEF f, m, from
        <4> QED BY <1>0, <1>1, <2>3, ReceiveDaoackFacts
      <3> HIDE DEF new
      <3> QED
        BY <1>0, <1>4, <2>1, <2>3, <3>1
    <2> QED BY <2>2, <2>3
  <1>9. CASE IfReceiveDis(i, from, m)
    <2> DEFINE new == ScheduleDio(dags[f])
    <2>1. phase' = phase /\ dags' = IF f = 0 THEN dags ELSE [dags EXCEPT ![f] = new]
      BY <1>9 DEF IfReceiveDis, Handled
    <2>2. CASE f = 0
      BY <1>0, <2>1, <2>2
    <2>3. CASE f # 0
      <3>1. /\ new \in Dag /\ Sound(new) /\ Kept(dags[f], new)
        <4> HIDE DEF f
        <4> QED BY <1>1, <2>3, ScheduleDioFacts
      <3> HIDE DEF new
      <3> QED
        BY <1>0, <1>4, <2>1, <2>3, <3>1
    <2> QED BY <2>2, <2>3
  <1> QED
    BY <1>6, <1>7, <1>8, <1>9 DEF Receive

----------------------------------------------------------------------------
(* Every step keeps SunInv. *)

(* Reception. *)
LEMMA ReceiveInv ==
    ASSUME SunInv, NEW i \in If, NEW a \in Arriving, Receive(i, a)
    PROVE  SunInv'
  <1>1. (dags' = dags \/ ChangesOne(a) \/ MakesOne) /\ phase' \in {"run", "died"}
    BY ReceiveEffect
  <1>2. UNCHANGED <<given, main, ifs, air>> /\ packets' \in 0 .. MaxPackets
    BY Widths DEF Receive, SunInv, TypeOK
  <1>3. /\ dags \in Seq(Dag) /\ air \subseteq [from : If, m : Dio] /\ air' = air
        /\ DagsInv /\ AirInv
    BY <1>2 DEF SunInv, TypeOK
  <1>4. dags' \in Seq(Dag) /\ DagsInv' /\ AirInv'
    <2>1. CASE dags' = dags
      BY <1>3, <2>1 DEF DagsInv, AirInv, Newest, Alone, Sent
    <2>2. CASE ChangesOne(a)
      <3>1. PICK k \in DOMAIN dags, new \in Dag :
              /\ Newest(k) /\ dags[k].inst = a.m.inst /\ Sound(new)
              /\ dags' = [dags EXCEPT ![k] = new]
              /\ \/ Kept(dags[k], new)
                 \/ a.m \in Dio /\ Adopted(dags[k], new, a.from, a.m)
        BY <2>2 DEF ChangesOne
      <3>2. dags[k] \in Dag /\ dags[k].mBestRank \in Int
        <4>1. dags[k] \in Dag
          BY <1>3
        <4> QED
          BY <4>1, Widths DEF Dag
      <3>3. /\ new.inst = dags[k].inst /\ new.active = dags[k].active
            /\ new.settings = dags[k].settings
        BY <3>1, <3>2 DEF Kept, Adopted, Dag
      <3>4. new.mBestRank <= dags[k].mBestRank
        <4>1. CASE Kept(dags[k], new)
          BY <4>1, <3>2 DEF Kept
        <4>2. CASE Adopted(dags[k], new, a.from, a.m)
          BY <4>2, <3>2 DEF Adopted
        <4> QED BY <3>1, <4>1, <4>2
      <3> QED
        BY <1>3, <3>1, <3>3, <3>4, ReplaceDag
    <2>3. CASE MakesOne
      BY <1>3, <2>3, AppendDag DEF MakesOne
    <2> QED BY <1>1, <2>1, <2>2, <2>3
  <1>5. OptionsInv'
    BY <1>1 DEF OptionsInv
  <1>6. TypeOK'
    BY <1>1, <1>2, <1>4 DEF SunInv, TypeOK, main
  <1> QED
    BY <1>4, <1>5, <1>6 DEF SunInv

(* build_dio *)
LEMMA BuildDioFacts ==
    ASSUME TypeOK, NEW d \in Dag, NEW i \in If
    PROVE  LET n == Cardinality({j \in Alive : j < i})
           IN  /\ BuildDio(d, n) \in Dio /\ BuildDio(d, n).inst = d.inst
               /\ n \in Nat /\ Cardinality(Alive) \in Nat
  <1> DEFINE n == Cardinality({j \in Alive : j < i})
  <1>1. n \in Nat /\ Cardinality(Alive) \in Nat
    <2>1. IsFiniteSet(If) /\ Alive \subseteq If /\ {j \in Alive : j < i} \subseteq If
      BY SunshineAssumption DEF Alive
    <2> QED
      BY <2>1, FS_Subset, FS_CardinalityType
  <1> HIDE DEF n
  <1>2. d.mMyRank \in Nat /\ d.mDTSN \in Nat /\ d.mDTSN + n \in Nat
    BY <1>1, Widths DEF Dag
  <1>3. d.mMyRank % RankMod \in 0 .. RankMod - 1
    BY <1>2, Widths, ModRange
  <1>4. (d.mDTSN + n) % ShortMod \in Nat
    BY <1>2, Widths, ModRange
  <1>5. Byte((d.mDTSN + n) % ShortMod) \in 0 .. SeqMod - 1
    BY <1>4, Widths, ModRange DEF Byte
  <1>7. Byte(d.inst) = d.inst /\ d.inst \in Inst
    <2>1. d.inst \in Inst
      BY DEF Dag
    <2>2. d.inst \in 0 .. SeqMod - 1 /\ SeqMod \in Nat
      BY <2>1, SunshineAssumption
    <2> QED BY <2>1, <2>2 DEF Byte
  <1>6. BuildDio(d, n) \in Dio /\ BuildDio(d, n).inst = d.inst
    BY <1>3, <1>5, <1>7 DEF BuildDio, Dio, Dag
  <1> QED
    BY <1>1, <1>6 DEF n

(* send_dio_all: what is sent is above the rank of the best parent, or 0. *)
LEMMA SendDioInv ==
    ASSUME SunInv, NEW k \in DOMAIN dags, SendDioAll(k)
    PROVE  SunInv'
  <1> DEFINE c == Cardinality(Alive)
             new == [dags[k] EXCEPT !.mDTSN = (@ + c) % ShortMod]
             before(i) == Cardinality({j \in Alive : j < i})
             dio(i) == [from |-> Addr(i), m |-> BuildDio(dags[k], before(i))]
             mine == {dio(i) : i \in Alive}
  <1>0. /\ phase = "run" /\ dags \in Seq(Dag) /\ dags[k] \in Dag /\ Sound(dags[k])
        /\ dags[k].dioEvent /\ Newest(k) /\ Alive \subseteq If /\ TypeOK
    BY DEF SendDioAll, SunInv, TypeOK, DagsInv, Alive
  <1>2. c \in Nat
    BY <1>0, SunshineAssumption, FS_Subset, FS_CardinalityType
  <1>3. (dags[k].mDTSN + c) % ShortMod \in 0 .. ShortMod - 1
    <2>0. dags[k].mDTSN \in Nat
      BY <1>0, Widths DEF Dag
    <2>1. dags[k].mDTSN + c \in Nat
      <3> HIDE DEF c
      <3> QED BY <1>2, <2>0
    <2> QED BY <2>1, Widths, ModRange
  <1>4. new \in Dag /\ Kept(dags[k], new) /\ new.dioEvent = dags[k].dioEvent
        /\ new.daoEvent = dags[k].daoEvent /\ new.children = dags[k].children
    BY <1>0, <1>3 DEF Dag, Kept
  <1>5. Sound(new)
    BY <1>0, <1>4 DEF Sound, Silent, FromParent, Ranked, Kept
  <1>6. dags' = [dags EXCEPT ![k] = new]
    BY <1>0 DEF SendDioAll
  <1>7. air' = air \cup mine
    BY DEF SendDioAll
  <1>8. ASSUME NEW a \in mine
        PROVE  /\ a \in [from : If, m : Dio]
               /\ a.m.inst = dags[k].inst /\ a.m.rank = dags[k].mMyRank % RankMod
    <2>1. PICK i \in Alive : a = dio(i)
      <3> HIDE DEF dio
      <3> QED BY <1>8
    <2>2. /\ BuildDio(dags[k], before(i)) \in Dio /\ Addr(i) \in If
          /\ BuildDio(dags[k], before(i)).inst = dags[k].inst
      BY <1>0, BuildDioFacts, Addresses
    <2>3. a.from = Addr(i) /\ a.m = BuildDio(dags[k], before(i)) /\ a = [from |-> a.from, m |-> a.m]
      <3> HIDE DEF before
      <3> QED BY <2>1
    <2> HIDE DEF before, dio
    <2> QED
      BY <2>2, <2>3 DEF BuildDio
  <1> HIDE DEF mine, new
  <1>9. ~Ranked(dags[k]) => \/ dags[k].mMyRank % RankMod > dags[k].mBestRank
                            \/ dags[k].mMyRank % RankMod = 0
    <2> SUFFICES ASSUME ~Ranked(dags[k])
                 PROVE  \/ dags[k].mMyRank % RankMod > dags[k].mBestRank
                        \/ dags[k].mMyRank % RankMod = 0
      OBVIOUS
    <2> DEFINE b == dags[k].mBestRank
    <2>1. b < RankMod /\ dags[k].mMyRank = b + 1
      BY <1>0 DEF Sound, FromParent
    <2>2. b \in Nat
      BY <1>0, Widths DEF Dag
    <2> HIDE DEF b
    <2>3. CASE b + 1 = RankMod
      BY <2>1, <2>2, <2>3, Widths
    <2>4. CASE b + 1 < RankMod
      <3>1. (b + 1) % RankMod = b + 1
        BY <2>2, <2>4, Widths
      <3> QED BY <2>1, <2>2, <3>1 DEF b
    <2> QED BY <2>1, <2>2, <2>3, <2>4, Widths
  <1>10. /\ dags' \in Seq(Dag) /\ DOMAIN dags' = DOMAIN dags
         /\ \A j \in DOMAIN dags : dags'[j] = IF j = k THEN new ELSE dags[j]
    BY <1>0, <1>4, <1>6
  <1>11. \A j \in DOMAIN dags : /\ dags'[j].inst = dags[j].inst
                                /\ dags'[j].active = dags[j].active
                                /\ dags'[j].settings = dags[j].settings
                                /\ dags'[j].mBestRank = dags[j].mBestRank
                                /\ dags'[j].dioEvent = dags[j].dioEvent
                                /\ Sound(dags'[j])
    BY <1>4, <1>5, <1>10 DEF Kept, SunInv, DagsInv
  <1>12. \A j \in DOMAIN dags : (Newest(j) => Newest(j)') /\ (Alone(j) => Alone(j)')
    BY <1>10, <1>11 DEF Newest, Alone
  <1>13. DagsInv'
    BY <1>10, <1>11, <1>12 DEF DagsInv, SunInv
  <1>14. AirInv'
    <2>1. ASSUME NEW a \in air PROVE \E j \in DOMAIN dags' : Sent(j, a)'
      <3>1. PICK j \in DOMAIN dags : Sent(j, a)
        BY <2>1 DEF SunInv, AirInv
      <3>2. Sent(j, a)'
        BY <3>1, <1>11, <1>12 DEF Sent, Ranked
      <3> QED BY <3>1, <3>2, <1>10
    <2>2. ASSUME NEW a \in mine PROVE Sent(k, a)'
      BY <2>2, <1>0, <1>8, <1>9, <1>11, <1>12 DEF Sent, Ranked
    <2> QED
      BY <2>1, <2>2, <1>7, <1>10 DEF AirInv
  <1>15. OptionsInv' /\ phase' = phase
    BY <1>0 DEF SendDioAll, OptionsInv
  <1>16. air' \subseteq [from : If, m : Dio]
    BY <1>7, <1>8, <1>0 DEF TypeOK
  <1>17. TypeOK'
    BY <1>0, <1>10, <1>15, <1>16 DEF SendDioAll, TypeOK, main
  <1> QED
    BY <1>13, <1>14, <1>15, <1>17 DEF SunInv

(* The other steps that leave the DAGs alone. *)
LEMMA SameDagsInv ==
    ASSUME SunInv, dags' = dags, air' = air, phase' = "options" => phase = "options"
    PROVE  OptionsInv' /\ DagsInv' /\ AirInv' /\ dags' \in Seq(Dag)
  BY DEF SunInv, TypeOK, OptionsInv, DagsInv, AirInv, Newest, Alone, Sent

(* send_dao *)
LEMMA SendDaoInv ==
    ASSUME SunInv, NEW k \in DOMAIN dags, SendDao(k)
    PROVE  SunInv'
  <1> DEFINE new == [dags[k] EXCEPT !.mDAOSequence = @ + 1]
  <1>0. /\ phase = "run" /\ phase' = phase /\ dags \in Seq(Dag) /\ dags[k] \in Dag
        /\ Sound(dags[k]) /\ dags[k].bestparent # NULL /\ dags[k].mDAOSequence < MaxDao
        /\ air' = air /\ air \subseteq [from : If, m : Dio] /\ DagsInv /\ AirInv
    BY DEF SendDao, SunInv, TypeOK, DagsInv
  <1>1. dags[k].mDAOSequence + 1 \in 0 .. ShortMod - 1
    <2>1. dags[k].mDAOSequence \in Nat
      BY <1>0, Widths DEF Dag
    <2> QED
      BY <1>0, <2>1, Widths
  <1>2. new \in Dag /\ Kept(dags[k], new) /\ new.dioEvent = dags[k].dioEvent
        /\ new.daoEvent = dags[k].daoEvent /\ new.children = dags[k].children
    BY <1>0, <1>1 DEF Dag, Kept
  <1>3. Sound(new)
    BY <1>0, <1>2 DEF Sound, Silent, FromParent, Ranked, Kept
  <1>4. dags' = [dags EXCEPT ![k] = new]
    BY <1>0 DEF SendDao
  <1> HIDE DEF new
  <1>5. /\ dags' \in Seq(Dag) /\ DOMAIN dags' = DOMAIN dags
        /\ \A j \in DOMAIN dags : dags'[j] = IF j = k THEN new ELSE dags[j]
    BY <1>0, <1>2, <1>4
  <1>6. \A j \in DOMAIN dags : /\ dags'[j].inst = dags[j].inst
                               /\ dags'[j].active = dags[j].active
                               /\ dags'[j].settings = dags[j].settings
                               /\ dags'[j].mBestRank = dags[j].mBestRank
                               /\ dags'[j].dioEvent = dags[j].dioEvent
                               /\ Sound(dags'[j])
    BY <1>0, <1>2, <1>3, <1>5 DEF Kept, DagsInv
  <1>7. \A j \in DOMAIN dags : (Newest(j) => Newest(j)') /\ (Alone(j) => Alone(j)')
    BY <1>5, <1>6 DEF Newest, Alone
  <1>8. DagsInv'
    BY <1>0, <1>5, <1>6, <1>7 DEF DagsInv
  <1>9. \A a \in air, j \in DOMAIN dags : Sent(j, a) => Sent(j, a)'
    BY <1>6, <1>7 DEF Sent, Ranked
  <1>10. AirInv'
    BY <1>0, <1>5, <1>9 DEF AirInv
  <1>11. TypeOK' /\ OptionsInv'
    BY <1>0, <1>5 DEF SunInv, SendDao, TypeOK, OptionsInv, main
  <1> QED
    BY <1>8, <1>10, <1>11 DEF SunInv

(* An option that is for the DAG made last. *)
LEMMA ToDagInv ==
    ASSUME SunInv, phase = "options", NEW new, ToDag(new), air' = air,
           dags # <<>> => new \in Dag /\ Sound(new) /\ new.active /\ ~new.dioEvent
    PROVE  /\ dags' \in Seq(Dag) /\ OptionsInv' /\ DagsInv' /\ AirInv'
           /\ phase' \in {"options", "exited"}
  <1>1. CASE dags = <<>>
    BY <1>1, SameDagsInv DEF ToDag
  <1>2. CASE dags # <<>>
    <2>1. dags \in Seq(Dag) /\ Len(dags) \in DOMAIN dags /\ phase' = phase
      BY <1>2 DEF SunInv, TypeOK, ToDag
    <2>2. dags' = [dags EXCEPT ![Len(dags)] = new]
      BY <1>2 DEF ToDag
    <2>3. /\ dags' \in Seq(Dag) /\ DOMAIN dags' = DOMAIN dags
          /\ \A j \in DOMAIN dags : dags'[j] = IF j = Len(dags) THEN new ELSE dags[j]
      BY <1>2, <2>1, <2>2
    <2>4. /\ air' = {}
          /\ \A j \in DOMAIN dags' : /\ Sound(dags'[j])
                                     /\ dags'[j].active /\ ~dags'[j].dioEvent
      BY <1>2, <2>3 DEF SunInv, OptionsInv, DagsInv
    <2>5. OptionsInv' /\ DagsInv' /\ AirInv'
      BY <2>4 DEF OptionsInv, DagsInv, AirInv
    <2> QED BY <2>1, <2>3, <2>5
  <1> QED BY <1>1, <1>2

(* The DAG made last, before main_loop. *)
LEMMA CurFacts ==
    ASSUME SunInv, phase = "options", dags # <<>>
    PROVE  cur \in Dag /\ Sound(cur) /\ cur.active /\ ~cur.dioEvent /\ Len(dags) \in DOMAIN dags
  <1>1. dags \in Seq(Dag)
    BY DEF SunInv, TypeOK
  <1>2. Len(dags) \in DOMAIN dags /\ dags[Len(dags)] \in Dag
    BY <1>1
  <1> QED
    BY <1>2 DEF cur, SunInv, OptionsInv, DagsInv

(* main: every option keeps SunInv. *)
LEMMA OptionsStepInv ==
    ASSUME SunInv, Options
    PROVE  SunInv'
  <1>o. \A o : Option(o) => phase = "options" /\ given' \in 0 .. MaxOptions
    BY Widths DEF Option, SunInv, TypeOK
  <1>t. ASSUME phase = "options", given' \in 0 .. MaxOptions, UNCHANGED <<air, packets>>,
               iface' \in If \cup {NULL},
               {grounded', loaded', registrar', justkidding'} \subseteq BOOLEAN,
               ifs' \in [If -> [alive : BOOLEAN, watching : BOOLEAN, client : BOOLEAN]],
               phase' \in {"options", "exited"},
               dags' \in Seq(Dag), OptionsInv', DagsInv', AirInv'
        PROVE  SunInv'
    BY <1>t DEF SunInv, TypeOK
  <1>m. /\ iface \in If \cup {NULL}
        /\ {grounded, loaded, registrar, justkidding} \subseteq BOOLEAN
        /\ ifs \in [If -> [alive : BOOLEAN, watching : BOOLEAN, client : BOOLEAN]]
    BY DEF SunInv, TypeOK
  <1>1. ASSUME NEW n \in Inst, NewDag(n) PROVE SunInv'
    <2> DEFINE new == [init_dag(n, NoDagid) EXCEPT !.active = TRUE]
    <2>1. new \in Dag /\ Sound(new)
      BY InitDagFacts
    <2>2. new.active /\ ~new.dioEvent
      BY DEF init_dag
    <2>3. /\ phase = "options" /\ given' \in 0 .. MaxOptions /\ dags' = Append(dags, new)
          /\ UNCHANGED <<phase, main, ifs, air, packets>>
      BY <1>o, <1>1 DEF NewDag
    <2> HIDE DEF new
    <2>4. dags \in Seq(Dag)
      BY DEF SunInv, TypeOK
    <2>5. /\ dags' \in Seq(Dag)
          /\ \A j \in DOMAIN dags' : dags'[j] = new \/ (j \in DOMAIN dags /\ dags'[j] = dags[j])
      BY <2>1, <2>3, <2>4
    <2>6. air' = {} /\ \A j \in DOMAIN dags' : /\ Sound(dags'[j])
                                               /\ dags'[j].active /\ ~dags'[j].dioEvent
      BY <2>1, <2>2, <2>3, <2>5 DEF SunInv, OptionsInv, DagsInv
    <2>7. OptionsInv' /\ DagsInv' /\ AirInv'
      BY <2>6 DEF OptionsInv, DagsInv, AirInv
    <2> QED
      BY <1>t, <1>m, <2>3, <2>5, <2>7 DEF main
  <1>2. CASE Prefix
    <2> DEFINE new == [cur EXCEPT !.mGrounded = TRUE, !.mMyRank = 1, !.mBestRank = 1,
                                  !.settings = @ \cup {"p"}]
    <2>1. phase = "options" /\ given' \in 0 .. MaxOptions
      BY <1>o, <1>2 DEF Prefix
    <2>2. ASSUME dags # <<>> PROVE new \in Dag /\ Sound(new) /\ new.active /\ ~new.dioEvent
      <3>1. cur \in Dag /\ cur.active /\ ~cur.dioEvent /\ 1 \in 0 .. UINT_MAX
        BY <2>1, <2>2, CurFacts, Widths
      <3> HIDE DEF cur
      <3>2. new \in Dag
        BY <3>1 DEF Dag
      <3>3. new.active /\ ~new.dioEvent /\ Ranked(new)
        BY <3>1 DEF Dag, Ranked
      <3> QED
        BY <3>2, <3>3 DEF Sound
    <2>3. ToDag(new) /\ UNCHANGED <<iface, loaded, registrar, justkidding, ifs, air, packets>>
      BY <1>2 DEF Prefix
    <2> HIDE DEF new
    <2>4. /\ dags' \in Seq(Dag) /\ OptionsInv' /\ DagsInv' /\ AirInv'
          /\ phase' \in {"options", "exited"}
      BY <2>1, <2>2, <2>3, ToDagInv
    <2>5. grounded' \in BOOLEAN
      BY <1>2 DEF Prefix
    <2> QED
      BY <1>t, <1>m, <2>1, <2>3, <2>4, <2>5
  <1>3. CASE SetRank(2)
    <2> DEFINE new == [cur EXCEPT !.mMyRank = 2, !.mBestRank = 2, !.mDTSN = 1,
                                  !.settings = @ \cup {"R"}]
    <2>1. phase = "options" /\ given' \in 0 .. MaxOptions
      BY <1>o, <1>3 DEF SetRank
    <2>2. ASSUME dags # <<>> PROVE new \in Dag /\ Sound(new) /\ new.active /\ ~new.dioEvent
      <3>1. /\ cur \in Dag /\ cur.active /\ ~cur.dioEvent
            /\ 2 \in 0 .. UINT_MAX /\ 1 \in 0 .. ShortMod - 1
        BY <2>1, <2>2, CurFacts, Widths
      <3> HIDE DEF cur
      <3>2. new \in Dag
        BY <3>1 DEF Dag
      <3>3. new.active /\ ~new.dioEvent /\ Ranked(new)
        BY <3>1 DEF Dag, Ranked
      <3> QED
        BY <3>2, <3>3 DEF Sound
    <2>3. ToDag(new) /\ UNCHANGED <<main, ifs, air, packets>>
      BY <1>3 DEF SetRank
    <2> HIDE DEF new
    <2>4. /\ dags' \in Seq(Dag) /\ OptionsInv' /\ DagsInv' /\ AirInv'
          /\ phase' \in {"options", "exited"}
      BY <2>1, <2>2, <2>3, ToDagInv
    <2> QED
      BY <1>t, <1>m, <2>1, <2>3, <2>4 DEF main
  <1>4. ASSUME NEW g \in DagId, SetDagid(g) PROVE SunInv'
    <2> DEFINE new == [cur EXCEPT !.dagid = g]
    <2>1. phase = "options" /\ given' \in 0 .. MaxOptions
      BY <1>o, <1>4 DEF SetDagid
    <2>2. ASSUME dags # <<>> PROVE new \in Dag /\ Sound(new) /\ new.active /\ ~new.dioEvent
      <3>1. cur \in Dag /\ cur.active /\ ~cur.dioEvent /\ Sound(cur)
        BY <2>1, <2>2, CurFacts
      <3> HIDE DEF cur
      <3>2. new \in Dag
        BY <3>1 DEF Dag
      <3>3. Kept(cur, new) /\ new.dioEvent = cur.dioEvent
        BY <3>1 DEF Dag, Kept
      <3> HIDE DEF new
      <3> QED
        BY <3>1, <3>2, <3>3 DEF Sound, FromParent, Kept, Ranked
    <2>3. ToDag(new) /\ UNCHANGED <<main, ifs, air, packets>>
      BY <1>4 DEF SetDagid
    <2> HIDE DEF new
    <2>4. /\ dags' \in Seq(Dag) /\ OptionsInv' /\ DagsInv' /\ AirInv'
          /\ phase' \in {"options", "exited"}
      BY <2>1, <2>2, <2>3, ToDagInv
    <2> QED
      BY <1>t, <1>m, <2>1, <2>3, <2>4 DEF main
  <1>5. ASSUME NEW o \in {"W", "A", "a", "P", "m"}, Setting(o) PROVE SunInv'
    <2> DEFINE new == [cur EXCEPT !.settings = @ \cup {o}]
    <2>1. phase = "options" /\ given' \in 0 .. MaxOptions
      BY <1>o, <1>5 DEF Setting
    <2>2. ASSUME dags # <<>> PROVE new \in Dag /\ Sound(new) /\ new.active /\ ~new.dioEvent
      <3>1. cur \in Dag /\ cur.active /\ ~cur.dioEvent /\ Sound(cur)
        BY <2>1, <2>2, CurFacts
      <3> HIDE DEF cur
      <3>2. new \in Dag
        BY <3>1 DEF Dag
      <3>3. /\ new.mMyRank = cur.mMyRank /\ new.mBestRank = cur.mBestRank
            /\ new.active = cur.active /\ new.dioEvent = cur.dioEvent
            /\ new.settings = cur.settings \cup {o}
        BY <3>1 DEF Dag
      <3> HIDE DEF new
      <3>4. Ranked(cur) => Ranked(new)
        BY <3>3 DEF Ranked
      <3> QED
        BY <3>1, <3>2, <3>3, <3>4 DEF Sound, FromParent
    <2>3. ToDag(new) /\ UNCHANGED <<main, ifs, air, packets>>
      BY <1>5 DEF Setting
    <2> HIDE DEF new
    <2>4. /\ dags' \in Seq(Dag) /\ OptionsInv' /\ DagsInv' /\ AirInv'
          /\ phase' \in {"options", "exited"}
      BY <2>1, <2>2, <2>3, ToDagInv
    <2> QED
      BY <1>t, <1>m, <2>1, <2>3, <2>4 DEF main
  <1>6. ASSUME NEW o \in {"l", "6", "d"}, Identity(o) PROVE SunInv'
    <2> DEFINE new == IF o = "d" THEN cur ELSE SetAcpIdentity(cur)
    <2>1. phase = "options" /\ given' \in 0 .. MaxOptions
      BY <1>o, <1>6 DEF Identity
    <2>2. ASSUME dags # <<>> PROVE new \in Dag /\ Sound(new) /\ new.active /\ ~new.dioEvent
      <3>1. cur \in Dag /\ cur.active /\ ~cur.dioEvent /\ Sound(cur)
        BY <2>1, <2>2, CurFacts
      <3> HIDE DEF cur
      <3> DEFINE e == SetAcpIdentity(cur)
      <3>2. e \in Dag
        BY <3>1 DEF Dag, SetAcpIdentity
      <3>3. Kept(cur, e) /\ e.dioEvent = cur.dioEvent
        BY <3>1 DEF Dag, Kept, SetAcpIdentity
      <3> HIDE DEF e
      <3>4. Sound(e) /\ e.active /\ ~e.dioEvent
        BY <3>1, <3>2, <3>3 DEF Sound, FromParent, Kept, Ranked
      <3>5. new \in {cur, e}
        BY DEF e
      <3> HIDE DEF new
      <3> QED
        BY <3>1, <3>2, <3>4, <3>5
    <2>3. ToDag(new) /\ UNCHANGED <<iface, grounded, registrar, justkidding, ifs, air, packets>>
      BY <1>6 DEF Identity
    <2> HIDE DEF new
    <2>4. /\ dags' \in Seq(Dag) /\ OptionsInv' /\ DagsInv' /\ AirInv'
          /\ phase' \in {"options", "exited"}
      BY <2>1, <2>2, <2>3, ToDagInv
    <2>5. loaded' \in BOOLEAN
      BY <1>6 DEF Identity
    <2> QED
      BY <1>t, <1>m, <2>1, <2>3, <2>4, <2>5
  <1>7. ASSUME NEW o \in {"r", "n"}, Flag(o) PROVE SunInv'
    <2>1. /\ phase = "options" /\ given' \in 0 .. MaxOptions
          /\ UNCHANGED <<phase, dags, iface, grounded, loaded, ifs, air, packets>>
      BY <1>o, <1>7 DEF Flag
    <2>2. registrar' \in BOOLEAN /\ justkidding' \in BOOLEAN
      BY <1>7 DEF Flag
    <2>3. OptionsInv' /\ DagsInv' /\ AirInv' /\ dags' \in Seq(Dag)
      BY <2>1, SameDagsInv
    <2> QED
      BY <1>t, <1>m, <2>1, <2>2, <2>3
  <1>8. CASE Leave
    <2>1. /\ phase = "options" /\ given' \in 0 .. MaxOptions /\ phase' = "exited"
          /\ UNCHANGED <<dags, main, ifs, air, packets>>
      BY <1>o, <1>8 DEF Leave
    <2>2. OptionsInv' /\ DagsInv' /\ AirInv' /\ dags' \in Seq(Dag)
      BY <2>1, SameDagsInv
    <2> QED
      BY <1>t, <1>m, <2>1, <2>2 DEF main
  <1>9. ASSUME NEW i \in If \cup {NULL}, Interface(i) PROVE SunInv'
    <2>1. /\ phase = "options" /\ given' \in 0 .. MaxOptions /\ iface' = i
          /\ UNCHANGED <<phase, dags, grounded, loaded, registrar, justkidding, air, packets>>
      BY <1>o, <1>9 DEF Interface
    <2>2. ifs' \in [If -> [alive : BOOLEAN, watching : BOOLEAN, client : BOOLEAN]]
      <3>1. CASE i = NULL
        BY <1>m, <1>9, <3>1 DEF Interface
      <3>2. CASE i # NULL
        <4> DEFINE c == ifs[i].client \/ registrar
        <4>1. c \in BOOLEAN /\ ifs[i] \in [alive : BOOLEAN, watching : BOOLEAN, client : BOOLEAN]
          BY <1>m, <3>2
        <4>2. [ifs[i] EXCEPT !.alive = TRUE, !.client = c]
                 \in [alive : BOOLEAN, watching : BOOLEAN, client : BOOLEAN]
          <5> HIDE DEF c
          <5> QED BY <4>1
        <4>3. ifs' = [ifs EXCEPT ![i] = [ifs[i] EXCEPT !.alive = TRUE, !.client = c]]
          BY <1>m, <1>9, <3>2 DEF Interface
        <4> QED
          BY <1>m, <4>2, <4>3
      <3> QED BY <3>1, <3>2
    <2>3. OptionsInv' /\ DagsInv' /\ AirInv' /\ dags' \in Seq(Dag)
      BY <2>1, SameDagsInv
    <2> QED
      BY <1>t, <1>m, <2>1, <2>2, <2>3
  <1> QED
    BY <1>1, <1>2, <1>3, <1>4, <1>5, <1>6, <1>7, <1>8, <1>9 DEF Options

(* The end of main. *)
LEMMA StartInv ==
    ASSUME SunInv, Start
    PROVE  SunInv'
  <1>1. /\ phase = "options" /\ UNCHANGED <<given, main, air, packets>>
        /\ phase' \in {"died", "exited", "run"}
    BY DEF Start
  <1>2. ifs' \in [If -> [alive : BOOLEAN, watching : BOOLEAN, client : BOOLEAN]]
    <2>1. ifs' = ifs \/ ifs' = [i \in If |-> [ifs[i] EXCEPT !.alive = TRUE]]
      BY DEF Start
    <2> QED
      BY <2>1 DEF SunInv, TypeOK
  <1>3. /\ dags \in Seq(Dag) /\ air \subseteq [from : If, m : Dio] /\ air' = air
        /\ DagsInv /\ AirInv /\ iface \in If \cup {NULL}
    BY <1>1 DEF SunInv, TypeOK
  <1>4. dags' \in Seq(Dag) /\ DagsInv' /\ AirInv'
    <2>1. CASE dags = <<>>
      BY <1>1, <2>1, SameDagsInv DEF Start
    <2>2. CASE dags # <<>>
      <3> DEFINE S == IF iface = NULL \/ SelfIdentity THEN If
                      ELSE IF grounded /\ loaded THEN {iface} ELSE {}
                 d == IF S = {} THEN cur ELSE AddSelfPrefix(cur, S)
                 new == ScheduleDio(d)
      <3>1. cur \in Dag /\ Sound(cur) /\ Len(dags) \in DOMAIN dags
        BY <1>1, <2>2, CurFacts
      <3>2. S \subseteq If
        BY <1>3
      <3>3. dags' = [dags EXCEPT ![Len(dags)] = new]
        BY <2>2 DEF Start
      <3> HIDE DEF S
      <3>4. AddSelfPrefix(cur, S) \in Dag /\ Kept(cur, AddSelfPrefix(cur, S))
            /\ Sound(AddSelfPrefix(cur, S))
        <4> DEFINE e == AddSelfPrefix(cur, S)
        <4>1. cur.self \cup {Addr(i) : i \in S} \in SUBSET Node
          <5>1. cur.self \subseteq Node
            BY <3>1 DEF Dag
          <5> QED BY <5>1, <3>2, Addresses
        <4> HIDE DEF cur
        <4>2. e \in Dag
          BY <3>1, <4>1 DEF Dag, AddSelfPrefix
        <4>3. /\ Kept(cur, e) /\ e.dioEvent = cur.dioEvent
              /\ e.daoEvent = cur.daoEvent /\ e.children = cur.children
          BY <3>1 DEF Dag, Kept, AddSelfPrefix
        <4> HIDE DEF e
        <4>4. Sound(e)
          BY <3>1, <4>3 DEF Sound, Silent, FromParent, Kept, Ranked
        <4> QED
          BY <4>2, <4>3, <4>4 DEF e
      <3>5. d \in Dag /\ Sound(d) /\ Kept(cur, d)
        <4>1. Kept(cur, cur)
          BY DEF Kept
        <4> HIDE DEF cur
        <4> QED BY <3>1, <3>4, <4>1
      <3> HIDE DEF d
      <3>6. new \in Dag /\ Sound(new) /\ Kept(d, new)
        BY <3>5, ScheduleDioFacts
      <3> HIDE DEF new
      <3>7. Kept(cur, new)
        BY <3>5, <3>6 DEF Kept
      <3>8. Newest(Len(dags))
        BY <1>3 DEF Newest
      <3>9. PICK k \in DOMAIN dags : k = Len(dags) /\ dags[k] = cur
        BY <3>1 DEF cur
      <3>10. /\ new.inst = dags[k].inst /\ new.active = dags[k].active
             /\ new.settings = dags[k].settings /\ new.mBestRank = dags[k].mBestRank
        BY <3>7, <3>9 DEF Kept
      <3>11. new.mBestRank <= dags[k].mBestRank
        <4>1. new.mBestRank \in Int
          BY <3>6, Widths DEF Dag
        <4> QED
          BY <3>10, <4>1
      <3>12. dags' = [dags EXCEPT ![k] = new] /\ Newest(k)
        BY <3>3, <3>8, <3>9
      <3> QED
        BY <1>3, <3>6, <3>10, <3>11, <3>12, ReplaceDag
    <2> QED BY <2>1, <2>2
  <1>5. OptionsInv'
    BY <1>1 DEF OptionsInv
  <1>6. TypeOK'
    BY <1>1, <1>2, <1>4 DEF SunInv, TypeOK, main
  <1> QED
    BY <1>4, <1>5, <1>6 DEF SunInv

(* Every step keeps SunInv. *)
LEMMA NextInv ==
    ASSUME SunInv, [Next]_vars
    PROVE  SunInv'
  <1>1. CASE LookForNew
    <2>1. /\ phase' = phase /\ UNCHANGED <<given, dags, main, air, packets>>
          /\ ifs' = [i \in If |-> [ifs[i] EXCEPT !.alive = TRUE]]
      BY <1>1 DEF LookForNew
    <2>2. ifs' \in [If -> [alive : BOOLEAN, watching : BOOLEAN, client : BOOLEAN]]
      BY <2>1 DEF SunInv, TypeOK
    <2>3. OptionsInv' /\ DagsInv' /\ AirInv'
      BY <2>1, SameDagsInv
    <2> QED
      BY <2>1, <2>2, <2>3 DEF SunInv, TypeOK, main
  <1>2. CASE ReceiveOther
    <2>1. /\ UNCHANGED <<phase, given, dags, main, ifs, air>> /\ packets' \in 0 .. MaxPackets
      BY <1>2, Widths DEF ReceiveOther, SunInv, TypeOK
    <2>2. OptionsInv' /\ DagsInv' /\ AirInv'
      BY <2>1, SameDagsInv
    <2> QED
      BY <2>1, <2>2 DEF SunInv, TypeOK, main
  <1>3. CASE UNCHANGED vars
    <2>1. UNCHANGED <<phase, given, dags, main, ifs, air, packets>>
      BY <1>3 DEF vars
    <2>2. OptionsInv' /\ DagsInv' /\ AirInv'
      BY <2>1, SameDagsInv
    <2> QED
      BY <2>1, <2>2 DEF SunInv, TypeOK, main
  <1> QED
    BY <1>1, <1>2, <1>3, OptionsStepInv, StartInv, SendDioInv, SendDaoInv, ReceiveInv
    DEF Next

(* The initial state has no DAG and has sent nothing. *)
LEMMA InitInv == Init => SunInv
  <1> SUFFICES ASSUME Init PROVE SunInv
    OBVIOUS
  <1>1. dags = <<>> /\ air = {} /\ phase = "options" /\ given = 0 /\ packets = 0
        /\ iface = NULL /\ grounded = FALSE /\ loaded = FALSE /\ registrar = FALSE
        /\ justkidding = FALSE
    BY DEF Init
  <1>2. ifs \in [If -> [alive : BOOLEAN, watching : BOOLEAN, client : BOOLEAN]]
    <2>1. PICK w \in [If -> BOOLEAN] :
            ifs = [i \in If |-> [alive |-> FALSE, watching |-> w[i], client |-> FALSE]]
      BY DEF Init
    <2>2. \A i \in If : w[i] \in BOOLEAN
      BY <2>1, Zenon
    <2> QED
      BY <2>1, <2>2
  <1>3. dags \in Seq(Dag) /\ DOMAIN dags = {}
    BY <1>1
  <1>4. TypeOK
    <2>1. {grounded, loaded, registrar, justkidding} \subseteq BOOLEAN
      BY <1>1, Zenon
    <2>2. given \in 0 .. MaxOptions /\ packets \in 0 .. MaxPackets
      BY <1>1, Widths
    <2> QED
      BY <1>1, <1>2, <1>3, <2>1, <2>2 DEF TypeOK
  <1>5. OptionsInv /\ DagsInv /\ AirInv
    BY <1>1, <1>3 DEF OptionsInv, DagsInv, AirInv
  <1> QED
    BY <1>4, <1>5 DEF SunInv

(* SunInv is an invariant. *)
THEOREM SunshineInvariant == Spec => []SunInv
  <1>1. SunInv /\ [Next]_vars => SunInv'
    BY NextInv
  <1> QED
    BY InitInv, <1>1, PTL DEF Spec

(* Types: ranks and sequence numbers keep the widths the code gives them,  *)
(* whatever options, DIOs, DAOs, acks and DIS come in whatever order.      *)
THEOREM TypeCorrect == Spec => []TypeOK
  <1>1. SunInv => TypeOK
    BY DEF SunInv
  <1> QED
    BY SunshineInvariant, <1>1, PTL

(* Watching, which an uninitialised member may turn on for any interface,  *)
(* makes at most one DAG for an instance, beside no other, and that DAG    *)
(* stays silent for ever.                                                  *)
THEOREM WatchersStayApart == Spec => []WatchersApart
  <1>1. SunInv => WatchersApart
    BY DEF SunInv, DagsInv, Sound, Silent, Alone, WatchersApart, WatchOnlySilent, OneWatcher
  <1> QED
    BY SunshineInvariant, <1>1, PTL

(* A DAG that has its rank from a parent never takes one of the process's  *)
(* own addresses for its best parent, on however many interfaces it hears  *)
(* itself, however often mDTSN wraps and whatever ranks the neighbours     *)
(* announce, but by a DIO in which its rank has wrapped to 0.              *)
THEOREM NoOwnParent == Spec => NeverOwnParent
  <1> DEFINE A == \A k \in DOMAIN dags :
                    ~Ranked(dags[k]) /\ dags'[k].bestparent \in {Addr(i) : i \in If} \ {dags[k].bestparent} =>
                        dags'[k].mBestRank = 0
  <1>1. SunInv /\ [Next]_vars => [A]_vars
    <2> SUFFICES ASSUME SunInv, Next, NEW k \in DOMAIN dags, ~Ranked(dags[k]),
                        dags'[k].bestparent \in {Addr(i) : i \in If} \ {dags[k].bestparent},
                        dags'[k].mBestRank # 0
                 PROVE  FALSE
      OBVIOUS
    <2>1. dags'[k].bestparent \in If /\ dags'[k].bestparent # dags[k].bestparent
      BY Addresses
    <2>2. dags \in Seq(Dag) /\ dags[k] \in Dag /\ Len(dags) \in Nat /\ DOMAIN dags = 1 .. Len(dags)
      BY DEF SunInv, TypeOK
    <2>3. ASSUME NEW j \in DOMAIN dags, NEW new, dags' = [dags EXCEPT ![j] = new],
                 new.bestparent = dags[j].bestparent
          PROVE  FALSE
      BY <2>1, <2>2, <2>3
    <2>4. dags' # dags
      BY <2>1
    <2>5. ASSUME NEW new, ToDag(new), phase = "options",
                 dags # <<>> => new.bestparent = cur.bestparent
          PROVE  FALSE
      <3>1. dags # <<>> /\ dags' = [dags EXCEPT ![Len(dags)] = new]
        BY <2>4, <2>5 DEF ToDag
      <3>2. Len(dags) \in DOMAIN dags
        BY <2>2, <3>1
      <3> QED
        BY <2>3, <2>5, <3>1, <3>2 DEF cur
    <2>c. ASSUME phase = "options", dags # <<>> PROVE cur \in Dag
      BY <2>c, CurFacts
    <2>6. CASE Options
      <3>1. phase = "options"
        BY <2>6 DEF Options, NewDag, Prefix, SetRank, SetDagid, Setting, Identity, Flag,
                    Leave, Interface, Option
      <3>2. ASSUME NEW n \in Inst, NewDag(n) PROVE FALSE
        BY <2>1, <2>2, <3>2 DEF NewDag
      <3>3. CASE Prefix
        BY <3>1, <3>3, <2>5, <2>c DEF Prefix, Dag
      <3>4. CASE SetRank(2)
        BY <3>1, <3>4, <2>5, <2>c DEF SetRank, Dag
      <3>5. ASSUME NEW g \in DagId, SetDagid(g) PROVE FALSE
        BY <3>1, <3>5, <2>5, <2>c DEF SetDagid, Dag
      <3>6. ASSUME NEW o \in {"W", "A", "a", "P", "m"}, Setting(o) PROVE FALSE
        BY <3>1, <3>6, <2>5, <2>c DEF Setting, Dag
      <3>7. ASSUME NEW o \in {"l", "6", "d"}, Identity(o) PROVE FALSE
        BY <3>1, <3>7, <2>5, <2>c DEF Identity, SetAcpIdentity, Dag
      <3>8. ~(\E o \in {"r", "n"} : Flag(o)) /\ ~Leave /\ ~(\E i \in If \cup {NULL} : Interface(i))
        BY <2>4 DEF Flag, Leave, Interface
      <3> QED
        BY <2>6, <3>2, <3>3, <3>4, <3>5, <3>6, <3>7, <3>8 DEF Options
    <2>7. CASE Start
      <3>1. PICK S : LET d == IF S = {} THEN cur ELSE AddSelfPrefix(cur, S)
                     IN  dags # <<>> /\ dags' = [dags EXCEPT ![Len(dags)] = ScheduleDio(d)]
        BY <2>4, <2>7 DEF Start
      <3>2. cur \in Dag /\ phase = "options" /\ Len(dags) \in DOMAIN dags /\ cur = dags[Len(dags)]
        BY <2>7, <3>1, <2>2, CurFacts DEF Start, cur
      <3>3. cur.bestparent = AddSelfPrefix(cur, S).bestparent
            /\ AddSelfPrefix(cur, S) = [cur EXCEPT !.self = @ \cup {Addr(i) : i \in S},
                                                  !.dao_needed = TRUE, !.dag_me = TRUE]
        BY <3>2 DEF AddSelfPrefix, Dag
      <3> DEFINE d == IF S = {} THEN cur ELSE AddSelfPrefix(cur, S)
      <3>4. ScheduleDio(d).bestparent = cur.bestparent
        BY <3>2, <3>3 DEF ScheduleDio, Dag
      <3> QED
        BY <2>3, <3>1, <3>2, <3>4
    <2>8. ~LookForNew /\ ~ReceiveOther
      BY <2>4 DEF LookForNew, ReceiveOther
    <2>9. ASSUME NEW j \in DOMAIN dags, SendDioAll(j) \/ SendDao(j) PROVE FALSE
      <3>1. dags[j] \in Dag
        BY <2>2
      <3> DEFINE dtsn == (dags[j].mDTSN + Cardinality(Alive)) % ShortMod
                 seq == dags[j].mDAOSequence + 1
                 dio == [dags[j] EXCEPT !.mDTSN = dtsn]
                 dao == [dags[j] EXCEPT !.mDAOSequence = seq]
      <3>3. dags' = [dags EXCEPT ![j] = dio] \/ dags' = [dags EXCEPT ![j] = dao]
        BY <2>2, <2>9, <3>1 DEF SendDioAll, SendDao
      <3>4. dio.bestparent = dags[j].bestparent /\ dao.bestparent = dags[j].bestparent
        <4> HIDE DEF dtsn, seq
        <4> QED BY <3>1 DEF Dag
      <3> HIDE DEF dio, dao
      <3>2. PICK new : dags' = [dags EXCEPT ![j] = new] /\ new.bestparent = dags[j].bestparent
        BY <3>3, <3>4
      <3> QED
        BY <2>3, <3>2
    <2>10. ASSUME NEW i \in If, NEW a \in Arriving, Receive(i, a) PROVE FALSE
      <3>1. ChangesOne(a) \/ MakesOne
        BY <2>4, <2>10, ReceiveEffect
      <3>2. CASE MakesOne
        BY <2>1, <2>2, <3>2 DEF MakesOne
      <3>3. CASE ChangesOne(a)
        <4>1. PICK j \in DOMAIN dags, new \in Dag :
                /\ Newest(j) /\ dags[j].inst = a.m.inst
                /\ dags' = [dags EXCEPT ![j] = new]
                /\ \/ Kept(dags[j], new)
                   \/ a.m \in Dio /\ Adopted(dags[j], new, a.from, a.m)
          BY <3>3 DEF ChangesOne
        <4>2. new.bestparent # dags[j].bestparent
          BY <2>3, <4>1
        <4>3. Adopted(dags[j], new, a.from, a.m) /\ a.m \in Dio
          BY <4>1, <4>2 DEF Kept
        <4>4. j = k /\ dags'[k] = new
          BY <2>1, <2>2, <4>1
        <4>5. a.from \in If /\ a.m.rank <= dags[k].mBestRank /\ a.m.rank # 0
          BY <4>3, <4>4, <2>1 DEF Adopted
        <4>6. a \in air
          BY <4>5, ArrivingFacts, Addresses DEF SunInv
        <4>7. PICK l \in DOMAIN dags : Sent(l, a)
          BY <4>6 DEF SunInv, AirInv
        <4>8. l = k
          BY <2>2, <4>1, <4>4, <4>7 DEF Sent, Newest
        <4>9. a.m.rank \in Int /\ dags[k].mBestRank \in Int
          <5>1. a.m.rank \in Int
            BY <4>3, Widths DEF Dio
          <5>2. dags[k].mBestRank \in Int
            BY <2>2, Widths DEF Dag
          <5> QED BY <5>1, <5>2
        <4> QED
          BY <4>5, <4>7, <4>8, <4>9 DEF Sent
      <3> QED BY <3>1, <3>2, <3>3
    <2> QED
      BY <2>6, <2>7, <2>8, <2>9, <2>10 DEF Next
  <1> QED
    BY SunshineInvariant, <1>1, PTL DEF Spec, NeverOwnParent
=============================================================================
