-------------------------- MODULE InterfacesProofs --------------------------
(***************************************************************************)
(* Theorems about Interfaces, for any number of links, objects, messages,  *)
(* signals and failures.                                                   *)
(***************************************************************************)
EXTENDS Interfaces, FiniteSetTheorems, NaturalsInduction, WellFoundedInduction,
        SequenceTheorems, TLAPS

(* The indexes of the objects in the list. *)
Known == {iface[o].index : o \in Live}

(* Every object of the list stands for a link, and no other one for the    *)
(* same: neither the objects nor their indexes are repeated.               *)
ListInv ==
    /\ Known \subseteq Link
    /\ \A j, k \in DOMAIN all_if : all_if[j] = all_if[k] => j = k
    /\ \A o, p \in Live : iface[o].index = iface[p].index => o = p

(* A rescan uses up a signal, and makes two requests. *)
DumpInv ==
    /\ signal_usr1 => count.signal > 0
    /\ pc = "scan" => dump = 0 /\ ~signal_usr1
    /\ pc # "scan" => dump > 0
    /\ pc = "links0" => dump = 1
    /\ pc \in {"addrs0", "setup"} => dump = 2
    /\ pc = "links" => signal_usr1 /\ dump < 2 * (1 + count.signal)
    /\ pc = "addrs" => signal_usr1 /\ dump <= 2 * (1 + count.signal)
    /\ pc \in {"poll", "listen", "look"} =>
          dump <= 2 * (1 + count.signal) - (IF signal_usr1 THEN 2 ELSE 0)
    /\ pc \in {"setup", "look"} => pos > 0

(* What the socket holds of the answer to a request ends with its DONE. *)
Answer == IF pc \in {"links0", "links"} THEN "NEWLINK" ELSE "NEWADDR"

AnswerInv ==
    /\ \A k \in DOMAIN socket : socket[k].seq # 0 =>
          Scanning /\ socket[k].seq = dump /\ socket[k].type \in {Answer, "DONE"}
    /\ \A j, k \in DOMAIN socket : socket[j].type = "DONE" /\ j < k => socket[k].seq = 0
    /\ Scanning => \E k \in DOMAIN socket : socket[k] = Done(dump)

(* The kernel's side. *)
KernelInv ==
    /\ link[Lo] = "up"
    /\ \A i \in address : link[i] = "up"
    /\ \A k \in DOMAIN socket : socket[k].type = "DELLINK" => link[socket[k].idx] = "gone"
    /\ parentlink # NULL => Present(parentlink)

(* Message k reaches gather_linkinfo in the dump that is being read, or    *)
(* comes after it.                                                         *)
Handed(k) == socket[k].seq = dump \/ \E d \in 1..(k - 1) : socket[d].type = "DONE"

LinkNews(i, k) ==
    /\ socket[k].type = "NEWLINK" /\ socket[k].idx = i /\ socket[k].up
    /\ pc \in {"links0", "links"} => Handed(k)

AddressNews(i, k) ==
    /\ socket[k].type = "NEWADDR" /\ socket[k].idx = i
    /\ pc \in {"addrs0", "addrs"} => Handed(k)
    /\ i \in Known \/ \E j \in 1..(k - 1) : LinkNews(i, j)

(* A link that is up is in the list, or will be. *)
UpFollowed(i) ==
    link[i] = "up" =>
        pc = "scan" \/ i \in Known \/ \E k \in DOMAIN socket : LinkNews(i, k)

(* A link that is gone is not in the list, or will not be. *)
GoneFollowed(i) ==
    ~Present(i) =>
        \/ \E k \in DOMAIN socket :
              /\ socket[k].type = "DELLINK" /\ socket[k].idx = i
              /\ \A l \in DOMAIN socket : l > k => ~(socket[l].type = "NEWLINK" /\ socket[l].idx = i)
        \/ /\ i \notin Known
           /\ \A l \in DOMAIN socket : ~(socket[l].type = "NEWLINK" /\ socket[l].idx = i)

(* An address is announced, or will be when its link is known. *)
AddressFollowed(i) ==
    i \in address \cap Matching /\ i # Lo =>
        \/ i \in dag_announced \/ pc \in {"scan", "links0", "links"}
        \/ \E k \in DOMAIN socket : AddressNews(i, k)

FollowInv == \A i \in Link \ lost : UpFollowed(i) /\ GoneFollowed(i) /\ AddressFollowed(i)

(* The loopback is in the list when the first dump of the links is done. *)
LoInv ==
    \/ pc = "scan" \/ Lo \in Known
    \/ pc = "links0" /\ \E k \in DOMAIN socket :
          socket[k].type = "NEWLINK" /\ socket[k].idx = Lo /\ socket[k].up /\ socket[k].seq = dump

(* Only the interface of -i has a GRASP client. *)
ClientInv == \A o \in Live : iface[o].client => iface[o].index = Chosen

Queue == TypeOK /\ AnswerInv /\ KernelInv /\ FollowInv /\ LoInv

ObjectInv == ClientInv /\ ParentIfIsItsLink

IfInv == Queue /\ ListInv /\ DumpInv /\ ObjectInv

----------------------------------------------------------------------------
(* The list. *)

(* The smallest element of a set of indexes. *)
LEMMA SmallestIndex ==
    ASSUME NEW S \in SUBSET Nat, S # {}
    PROVE  Min(S) \in S /\ \A y \in S : Min(S) <= y
  <1> DEFINE R == {s \in Nat \X Nat : s[1] < s[2]}
  <1>1. IsWellFoundedOn(R, Nat)
    BY NatLessThanWellFounded DEF OpToRel
  <1>2. PICK t \in S : \A y \in S : <<y, t>> \notin R
    <2> HIDE DEF R
    <2> QED BY <1>1, WFMin
  <1>0. S \in SUBSET Nat
    OBVIOUS
  <1>3. \A y \in S : ~(y < t)
    BY <1>0, <1>2
  <1>4. \A y \in S : t <= y
    BY <1>0, <1>3
  <1> QED
    BY <1>4 DEF Min

IfaceRec == [index : Link \cup {NULL, -1}, alive : BOOLEAN, disabled : BOOLEAN,
             loopback : BOOLEAN, client : BOOLEAN]

(* find_by_ifindex finds the object of a link, if there is one. *)
LEMMA FindFacts ==
    ASSUME all_if \in Seq(Obj), NEW i
    PROVE  LET o == find_by_ifindex(i)
           IN  /\ o = NULL <=> i \notin Known
               /\ o # NULL => o \in Live /\ o \in Obj /\ iface[o].index = i
  <1> DEFINE I == {k \in 1 .. Len(all_if) : iface[all_if[k]].index = i}
             at == IF I # {} THEN Min(I) ELSE 0
  <1>1. find_by_ifindex(i) = IF at = 0 THEN NULL ELSE all_if[at]
    BY DEF find_by_ifindex, SelectInSeq
  <1>2. DOMAIN all_if = 1 .. Len(all_if) /\ Len(all_if) \in Nat
    OBVIOUS
  <1>3. CASE I = {}
    BY <1>1, <1>2, <1>3 DEF Known, Live, Range
  <1>4. CASE I # {}
    <2>0. I \in SUBSET Nat
      BY <1>2
    <2>1. Min(I) \in I
      <3> HIDE DEF I
      <3> QED BY <2>0, <1>4, SmallestIndex
    <2>2. at \in DOMAIN all_if /\ at # 0 /\ iface[all_if[at]].index = i
      <3>1. at = Min(I)
        <4> HIDE DEF I
        <4> QED BY <1>4
      <3> HIDE DEF at
      <3>2. at \in 1 .. Len(all_if) /\ iface[all_if[at]].index = i
        BY <2>1, <3>1
      <3> QED BY <1>2, <3>2
    <2>3. all_if[at] \in Obj /\ all_if[at] # NULL
      BY <2>2, LinkAssumption
    <2> QED
      BY <1>1, <2>2, <2>3 DEF Known, Live, Range
  <1> QED
    BY <1>3, <1>4

(* remove_from_list takes out one object. *)
LEMMA RemoveFacts ==
    ASSUME all_if \in Seq(Obj), NEW o \in Live,
           \A j, k \in DOMAIN all_if : all_if[j] = all_if[k] => j = k
    PROVE  /\ RemoveFirst(all_if, o) \in Seq(Obj)
           /\ Range(RemoveFirst(all_if, o)) = Live \ {o}
           /\ \A j, k \in DOMAIN RemoveFirst(all_if, o) :
                 RemoveFirst(all_if, o)[j] = RemoveFirst(all_if, o)[k] => j = k
  <1> DEFINE I == {k \in 1 .. Len(all_if) : all_if[k] = o}
             at == Min(I)
             r == RemoveFirst(all_if, o)
             old(k) == IF k < at THEN k ELSE k + 1
  <1>1. DOMAIN all_if = 1 .. Len(all_if) /\ Len(all_if) \in Nat
    OBVIOUS
  <1>2. I # {} /\ I \in SUBSET Nat
    BY <1>1 DEF Live, Range
  <1>3. at \in 1 .. Len(all_if) /\ all_if[at] = o
    BY <1>2, SmallestIndex
  <1>4. r = SubSeq(all_if, 1, at - 1) \o SubSeq(all_if, at + 1, Len(all_if))
    BY <1>2 DEF RemoveFirst, RemoveAt, SelectInSeq
  <1> HIDE DEF at
  <1>5. /\ r \in Seq(Obj) /\ Len(r) = Len(all_if) - 1
        /\ \A k \in 1 .. Len(r) : r[k] = all_if[old(k)]
    <2> DEFINE a == SubSeq(all_if, 1, at - 1)
               b == SubSeq(all_if, at + 1, Len(all_if))
    <2>1. /\ a \in Seq(Obj) /\ Len(a) = at - 1
          /\ \A k \in 1 .. at - 1 : a[k] = all_if[k]
      BY <1>1, <1>3, SubSeqProperties
    <2>2. /\ b \in Seq(Obj) /\ Len(b) = Len(all_if) - at
          /\ \A k \in 1 .. Len(all_if) - at : b[k] = all_if[k + at]
      <3>1. at + 1 \in Int /\ Len(all_if) \in Int /\ \A k \in at + 1 .. Len(all_if) : all_if[k] \in Obj
        BY <1>1, <1>3
      <3>2. /\ b \in Seq(Obj)
            /\ Len(b) = IF at + 1 <= Len(all_if) THEN Len(all_if) - (at + 1) + 1 ELSE 0
            /\ \A k \in 1 .. Len(all_if) - (at + 1) + 1 : b[k] = all_if[(at + 1) + k - 1]
        BY <3>1, SubSeqProperties
      <3> HIDE DEF b
      <3>3. Len(b) = Len(all_if) - at
        <4>1. at \in Int /\ at <= Len(all_if) /\ Len(all_if) \in Int
          BY <1>1, <1>3
        <4>2. CASE at + 1 <= Len(all_if)
          BY <3>2, <4>1, <4>2
        <4>3. CASE ~(at + 1 <= Len(all_if))
          BY <3>2, <4>1, <4>3
        <4> QED BY <4>2, <4>3
      <3>4. ASSUME NEW k \in 1 .. Len(all_if) - at PROVE b[k] = all_if[k + at]
        <4>1. k \in 1 .. Len(all_if) - (at + 1) + 1 /\ (at + 1) + k - 1 = k + at
          BY <1>1, <1>3
        <4>2. b[k] = all_if[(at + 1) + k - 1]
          BY <3>2, <4>1
        <4> QED BY <4>1, <4>2
      <3> QED BY <3>2, <3>3, <3>4
    <2> HIDE DEF a, b
    <2>3. r = a \o b
      BY <1>4 DEF a, b
    <2> HIDE DEF r
    <2>4. r \in Seq(Obj) /\ Len(r) = Len(all_if) - 1
      <3>1. r \in Seq(Obj) /\ Len(r) = Len(a) + Len(b)
        BY <2>1, <2>2, <2>3, ConcatProperties
      <3> QED BY <1>1, <1>3, <2>1, <2>2, <3>1
    <2>5. ASSUME NEW k \in 1 .. Len(r) PROVE r[k] = all_if[old(k)]
      <3>1. CASE k < at
        BY <1>1, <1>3, <2>1, <2>2, <2>3, <2>4, <3>1
      <3>2. CASE ~(k < at)
        <4>1. r[k] = b[k - (at - 1)]
          BY <1>1, <1>3, <2>1, <2>2, <2>3, <2>4, <3>2
        <4>2. k - (at - 1) \in 1 .. Len(all_if) - at
          BY <1>1, <1>3, <2>4, <3>2
        <4> QED
          BY <1>3, <2>2, <3>2, <4>1, <4>2
      <3> QED BY <3>1, <3>2
    <2> QED
      BY <2>4, <2>5
  <1> HIDE DEF r
  <1>6. DOMAIN r = 1 .. Len(r)
    BY <1>5
  <1>7. \A k \in DOMAIN r : old(k) \in DOMAIN all_if /\ old(k) # at
    BY <1>1, <1>3, <1>5, <1>6
  <1>8. \A j \in DOMAIN all_if : j # at => \E k \in DOMAIN r : old(k) = j
    <2> SUFFICES ASSUME NEW j \in DOMAIN all_if, j # at PROVE \E k \in DOMAIN r : old(k) = j
      OBVIOUS
    <2>1. CASE j < at
      BY <1>1, <1>3, <1>5, <1>6, <2>1
    <2>2. CASE j > at
      <3>1. j - 1 \in DOMAIN r /\ old(j - 1) = j
        BY <1>1, <1>3, <1>5, <1>6, <2>2
      <3> QED BY <3>1
    <2> QED BY <1>1, <1>3, <2>1, <2>2
  <1>9. \A j, k \in DOMAIN r : old(j) = old(k) => j = k
    BY <1>1, <1>3, <1>5, <1>6
  <1> HIDE DEF old
  <1>10. \A k \in DOMAIN r : r[k] = all_if[old(k)]
    BY <1>5, <1>6
  <1>11. \A j, k \in DOMAIN r : r[j] = r[k] => j = k
    BY <1>7, <1>9, <1>10
  <1>12. Range(r) = Live \ {o}
    BY <1>3, <1>1, <1>7, <1>8, <1>10 DEF Range, Live
  <1> QED
    BY <1>5, <1>11, <1>12 DEF r

(* A list whose objects keep their indexes. *)
LEMMA SameList ==
    ASSUME ListInv, all_if' = all_if, \A o \in Live : iface'[o].index = iface[o].index
    PROVE  ListInv' /\ Known' = Known /\ Live' = Live
  BY DEF ListInv, Known, Live

(* What a message makes of the list. *)
After(m) ==
    IF m.type = "NEWLINK" /\ m.up THEN Known \cup {m.idx}
    ELSE IF m.type = "DELLINK" THEN Known \ {m.idx}
    ELSE Known

ListStep(m) ==
    /\ all_if' \in Seq(Obj) /\ iface' \in [Obj -> IfaceRec]
    /\ ListInv' /\ Known' = After(m)
    /\ \A o \in Live' : iface'[o].client =>
          o \in Live /\ iface[o].client /\ iface'[o].index = iface[o].index
    /\ \A o \in Live : m.type # "DELLINK" \/ iface[o].index # m.idx =>
          o \in Live' /\ iface'[o].index = iface[o].index

(* add_linkinfo adds at most the link of its message. *)
LEMMA AddLinkinfoList ==
    ASSUME all_if \in Seq(Obj), iface \in [Obj -> IfaceRec], ListInv,
           NEW m, m.idx \in Link, AddLinkinfo(m)
    PROVE  ListStep(m) /\ (loopback_interface' \in Obj \/ loopback_interface' = loopback_interface)
  <1>0. m.type = "NEWLINK" /\ Live \subseteq Obj /\ Live = Range(all_if)
    <2>1. m.type = "NEWLINK"
      BY DEF AddLinkinfo
    <2> QED BY <2>1 DEF Live, Range
  <1>1. CASE ~m.up
    <2>1. UNCHANGED listvars
      BY <1>1 DEF AddLinkinfo
    <2> QED
      BY <1>0, <1>1, <2>1, SameList DEF ListStep, After, listvars
  <1>2. CASE m.up
    <2> DEFINE known == find_by_ifindex(m.idx)
               looked == m.idx \notin Dummy
               enabled == looked /\ m.idx \notin off
               isLo == enabled /\ m.idx = Lo
               new == known = NULL
    <2>1. PICK o \in IF known # NULL THEN {known} ELSE Cells :
             LET was == IF new THEN NewInterface(m.idx) ELSE iface[o]
             IN  /\ all_if' = IF new THEN <<o>> \o all_if ELSE all_if
                 /\ iface' = [iface EXCEPT ![o] =
                        [was EXCEPT !.disabled = @ \/ (looked /\ ~enabled),
                                    !.loopback = @ \/ isLo]]
                 /\ loopback_interface' = IF isLo THEN o ELSE loopback_interface
      BY <1>2 DEF AddLinkinfo
    <2> DEFINE was == IF new THEN NewInterface(m.idx) ELSE iface[o]
               dis == was.disabled \/ (looked /\ ~enabled)
               lo == was.loopback \/ isLo
               now == [was EXCEPT !.disabled = dis, !.loopback = lo]
    <2>2. iface' = [iface EXCEPT ![o] = now]
      BY <2>1
    <2>3. /\ new <=> m.idx \notin Known
          /\ ~new => known \in Live /\ known \in Obj /\ iface[known].index = m.idx
      BY FindFacts
    <2>4. o \in Obj /\ (new => o \notin Live) /\ (~new => o = known)
      <3>1. CASE ~new
        BY <2>1, <2>3, <3>1
      <3>2. CASE new
        <4> HIDE DEF known
        <4>1. o \in Cells
          BY <2>1, <3>2
        <4>2. \A x \in Live : iface[x].index # NULL
          <5>1. \A x \in Live : iface[x].index \in Link
            BY DEF ListInv, Known
          <5> QED BY <5>1, LinkAssumption
        <4>3. o \in Obj /\ o \notin Live
          BY <4>1, <4>2 DEF Cells
        <4> QED BY <3>2, <4>3
      <3> QED BY <3>1, <3>2
    <2>5. was \in IfaceRec /\ was.index = m.idx /\ (new => ~was.client)
          /\ (~new => was.client = iface[o].client)
      <3>1. CASE new
        BY <3>1 DEF NewInterface, IfaceRec
      <3>2. CASE ~new
        BY <2>3, <2>4, <3>2
      <3> QED BY <3>1, <3>2
    <2>6. dis \in BOOLEAN /\ lo \in BOOLEAN
      <3>1. was.disabled \in BOOLEAN /\ was.loopback \in BOOLEAN
        BY <2>5 DEF IfaceRec
      <3> HIDE DEF was
      <3> QED BY <3>1
    <2> HIDE DEF dis, lo, was
    <2>7. now \in IfaceRec /\ now.index = m.idx /\ now.client = was.client
      BY <2>5, <2>6 DEF IfaceRec
    <2> HIDE DEF now
    <2>8. /\ iface' \in [Obj -> IfaceRec] /\ iface'[o] = now
          /\ \A x \in Obj : x # o => iface'[x] = iface[x]
      BY <2>2, <2>4, <2>7
    <2>9. all_if' \in Seq(Obj) /\ Live' = Live \cup {o}
          /\ \A j, k \in DOMAIN all_if' : all_if'[j] = all_if'[k] => j = k
      <3>1. CASE new
        <4>1. all_if' = <<o>> \o all_if
          BY <2>1, <3>1
        <4>2. <<o>> \in Seq(Obj) /\ Len(<<o>>) = 1 /\ <<o>>[1] = o
          BY <2>4
        <4>3. /\ all_if' \in Seq(Obj) /\ Len(all_if') = 1 + Len(all_if)
              /\ \A k \in 1 .. 1 + Len(all_if) :
                    all_if'[k] = IF k <= 1 THEN <<o>>[k] ELSE all_if[k - 1]
          BY <4>1, <4>2, ConcatProperties
        <4>4. /\ DOMAIN all_if' = 1 .. Len(all_if) + 1 /\ DOMAIN all_if = 1 .. Len(all_if)
              /\ Len(all_if) \in Nat
          BY <4>3
        <4>5. all_if'[1] = o /\ \A k \in 1 .. Len(all_if) : all_if'[k + 1] = all_if[k]
          BY <4>2, <4>3, <4>4
        <4>6. \A k \in DOMAIN all_if' : k = 1 \/ (k - 1 \in DOMAIN all_if /\ all_if'[k] = all_if[k - 1])
          BY <4>3, <4>4
        <4>7. Live' = Live \cup {o}
          <5>1. \A k \in DOMAIN all_if' : all_if'[k] \in Live \cup {o}
            BY <4>5, <4>6 DEF Live, Range
          <5>2. o \in Live' /\ \A k \in DOMAIN all_if : all_if[k] \in Live'
            BY <4>4, <4>5 DEF Live, Range
          <5> QED BY <5>1, <5>2 DEF Live, Range
        <4>8. \A k \in DOMAIN all_if : all_if[k] # o
          BY <2>4, <3>1 DEF Live, Range
        <4>9. \A j, k \in DOMAIN all_if : all_if[j] = all_if[k] => j = k
          BY DEF ListInv
        <4>10. ASSUME NEW j \in DOMAIN all_if', NEW k \in DOMAIN all_if', all_if'[j] = all_if'[k]
               PROVE  j = k
          <5>1. CASE j = 1 \/ k = 1
            BY <4>5, <4>6, <4>8, <4>10, <5>1
          <5>2. CASE j # 1 /\ k # 1
            <6>1. j - 1 = k - 1
              BY <4>6, <4>9, <4>10, <5>2
            <6> QED BY <4>4, <6>1
          <5> QED BY <5>1, <5>2
        <4> QED BY <4>3, <4>7, <4>10
      <3>2. CASE ~new
        BY <2>1, <2>3, <2>4, <3>2 DEF ListInv, Live
      <3> QED BY <3>1, <3>2
    <2>10. \A x \in Live : x # o => iface'[x] = iface[x]
      BY <1>0, <2>8
    <2>11. \A x \in Live : x # o => iface[x].index # m.idx
      BY <2>3, <2>4 DEF Known, ListInv
    <2>12. Known' = Known \cup {m.idx}
      <3>1. iface'[o].index = m.idx /\ (o \in Live => iface[o].index = m.idx)
        BY <2>3, <2>4, <2>7, <2>8
      <3> QED BY <2>9, <2>10, <3>1 DEF Known
    <2>13. ListInv'
      <3>1. \A x, y \in Live' : iface'[x].index = iface'[y].index => x = y
        <4>1. \A x, y \in Live : iface[x].index = iface[y].index => x = y
          BY DEF ListInv
        <4> QED BY <2>7, <2>8, <2>9, <2>10, <2>11, <4>1
      <3>2. Known' \subseteq Link
        BY <2>12 DEF ListInv
      <3> QED BY <2>9, <3>1, <3>2 DEF ListInv
    <2>14. \A x \in Live' : iface'[x].client =>
              x \in Live /\ iface[x].client /\ iface'[x].index = iface[x].index
      BY <2>3, <2>4, <2>5, <2>7, <2>8, <2>9, <2>10
    <2>15. \A x \in Live : x \in Live' /\ iface'[x].index = iface[x].index
      BY <2>3, <2>4, <2>7, <2>8, <2>9, <2>10
    <2>16. loopback_interface' \in Obj \/ loopback_interface' = loopback_interface
      BY <2>1, <2>4
    <2> QED
      BY <1>0, <1>2, <2>8, <2>9, <2>12, <2>13, <2>14, <2>15, <2>16 DEF ListStep, After
  <1> QED
    BY <1>1, <1>2

(* del_linkinfo takes out at most the link of its message. *)
LEMMA DelLinkinfoList ==
    ASSUME all_if \in Seq(Obj), iface \in [Obj -> IfaceRec], ListInv,
           NEW m, m.idx \in Link, DelLinkinfo(m)
    PROVE  ListStep(m)
  <1> DEFINE o == find_by_ifindex(m.idx)
  <1>0. m.type = "DELLINK" /\ Live \subseteq Obj
    BY DEF DelLinkinfo, Live, Range
  <1>1. /\ o = NULL <=> m.idx \notin Known
        /\ o # NULL => o \in Live /\ o \in Obj /\ iface[o].index = m.idx
    BY FindFacts
  <1>2. CASE o = NULL
    <2>1. UNCHANGED <<iface, all_if>>
      BY <1>2 DEF DelLinkinfo
    <2> QED
      BY <1>0, <1>1, <1>2, <2>1, SameList DEF ListStep, After
  <1>3. CASE o # NULL
    <2>1. all_if' = RemoveFirst(all_if, o) /\ iface' = [iface EXCEPT ![o] = Freed]
      BY <1>3 DEF DelLinkinfo, Destroyed
    <2> HIDE DEF o
    <2>2. Freed \in IfaceRec
      BY LinkAssumption DEF Freed, NewInterface, IfaceRec
    <2>3. /\ iface' \in [Obj -> IfaceRec]
          /\ \A x \in Obj : x # o => iface'[x] = iface[x]
      BY <2>1, <2>2, <1>1, <1>3
    <2>4. \A j, k \in DOMAIN all_if : all_if[j] = all_if[k] => j = k
      BY DEF ListInv
    <2>5. /\ all_if' \in Seq(Obj) /\ Live' = Live \ {o}
          /\ \A j, k \in DOMAIN all_if' : all_if'[j] = all_if'[k] => j = k
      BY <1>1, <1>3, <2>1, <2>4, RemoveFacts DEF Live
    <2>6. \A x \in Live' : x \in Live /\ iface'[x] = iface[x]
      BY <1>0, <2>3, <2>5
    <2>7. \A x, y \in Live : iface[x].index = iface[y].index => x = y
      BY DEF ListInv
    <2>8. \A x \in Live : x # o <=> iface[x].index # m.idx
      BY <1>1, <1>3, <2>7
    <2>9. Known' = Known \ {m.idx}
      BY <2>5, <2>6, <2>8 DEF Known
    <2>10. ListInv'
      BY <2>5, <2>6, <2>7, <2>9 DEF ListInv
    <2>11. \A x \in Live : iface[x].index # m.idx => x \in Live' /\ iface'[x].index = iface[x].index
      BY <2>5, <2>6, <2>8
    <2> QED
      BY <1>0, <2>3, <2>5, <2>6, <2>9, <2>10, <2>11 DEF ListStep, After
  <1> QED
    BY <1>2, <1>3

(* gather_linkinfo keeps the list in order. *)
LEMMA GatherList ==
    ASSUME all_if \in Seq(Obj), iface \in [Obj -> IfaceRec], ListInv,
           loopback_interface \in Obj \cup {NULL},
           NEW m, m.idx \in Link, GatherLinkinfo(m)
    PROVE  ListStep(m) /\ loopback_interface' \in Obj \cup {NULL}
  <1>1. CASE AddLinkinfo(m)
    BY <1>1, AddLinkinfoList
  <1>2. CASE DelLinkinfo(m)
    <2>1. UNCHANGED loopback_interface
      BY <1>2 DEF DelLinkinfo
    <2> QED BY <1>2, <2>1, DelLinkinfoList
  <1>3. CASE AdddelIpinfo(m) \/ DelAddrIgnored(m)
    <2>1. m.type \in {"NEWADDR", "DELADDR"} /\ UNCHANGED <<iface, all_if, loopback_interface>>
      BY <1>3 DEF AdddelIpinfo, DelAddrIgnored, listvars
    <2> QED BY <2>1, SameList DEF ListStep, After
  <1> QED
    BY <1>1, <1>2, <1>3 DEF GatherLinkinfo
----------------------------------------------------------------------------
(* The messages. *)

Limit == 2 * (1 + MaxSignals)

(* The last sequence number of a request. *)
LEMMA LimitFacts == Limit \in Nat /\ MaxSignals \in Nat /\ Limit = 2 * (1 + MaxSignals) /\ Limit >= 2
  <1>1. MaxSignals \in Nat
    BY LinkAssumption
  <1> QED BY <1>1 DEF Limit

(* The notifications of the kernel are messages. *)
LEMMA MsgType ==
    /\ \A t \in {"NEWLINK", "DELLINK", "NEWADDR", "DELADDR"}, i \in Link, u \in BOOLEAN,
          s \in 0 .. Limit : Msg(t, i, u, s) \in Message
    /\ \A s \in 1 .. Limit : Done(s) \in Message
  BY DEF Message, Msg, Limit

(* A message that is not a DONE is about a link. *)
LEMMA MessageFacts ==
    ASSUME NEW m \in Message
    PROVE  /\ m.type \in {"NEWLINK", "DELLINK", "NEWADDR", "DELADDR", "DONE"}
           /\ m.type # "DONE" => m.idx \in Link
           /\ m.up \in BOOLEAN /\ m.seq \in 0 .. Limit
           /\ m.type = "DONE" => m.seq # 0 /\ m = Done(m.seq)
  <1>1. CASE m \in [type : {"NEWLINK", "DELLINK", "NEWADDR", "DELADDR"}, idx : Link,
                    up : BOOLEAN, seq : 0 .. Limit]
    BY <1>1
  <1>2. ASSUME NEW s \in 1 .. Limit, m = Done(s)
        PROVE  m.type = "DONE" /\ m.up \in BOOLEAN /\ m.seq = s
    BY <1>2 DEF Done, Msg
  <1>3. \A s \in 1 .. Limit : s \in 0 .. Limit /\ s # 0
    BY LimitFacts
  <1>4. m \in [type : {"NEWLINK", "DELLINK", "NEWADDR", "DELADDR"}, idx : Link,
               up : BOOLEAN, seq : 0 .. Limit] \cup {Done(s) : s \in 1 .. Limit}
    BY DEF Message, Limit
  <1> QED
    BY <1>1, <1>2, <1>3, <1>4

(* SetToSeq enumerates a finite set. *)
LEMMA Enumeration ==
    ASSUME NEW S, IsFiniteSet(S)
    PROVE  /\ Cardinality(S) \in Nat
           /\ SetToSeq(S) \in [1 .. Cardinality(S) -> S]
           /\ \A x \in S : \E k \in 1 .. Cardinality(S) : SetToSeq(S)[k] = x
  <1> DEFINE n == Cardinality(S)
             f == SetToSeq(S)
  <1>1. n \in Nat /\ ExistsBijection(1 .. n, S)
    BY FS_CardinalityType
  <1>2. PICK g \in [1 .. n -> S] : IsInjective(g)
    BY <1>1 DEF ExistsBijection, Bijection, Injection
  <1>3. f \in [1 .. n -> S] /\ IsInjective(f)
    BY <1>2 DEF SetToSeq
  <1> HIDE DEF f
  <1>4. f \in Injection(1 .. n, S)
    BY <1>3 DEF Injection
  <1>5. Cardinality(1 .. n) = n
    <2>1. Cardinality(1 .. n) = IF 1 > n THEN 0 ELSE n - 1 + 1
      BY <1>1, FS_Interval
    <2> QED BY <1>1, <2>1
  <1>6. f \in Surjection(1 .. n, S)
    BY <1>4, <1>5, FS_Injection
  <1> QED
    BY <1>1, <1>3, <1>6 DEF Surjection, f

(* The answer to a request. *)
LEMMA DumpedFacts ==
    ASSUME NEW t \in {"NEWLINK", "NEWADDR"}, NEW S \in SUBSET Link, NEW s \in 1 .. Limit
    PROVE  LET q == Dumped(t, S, s)
           IN  /\ q \in Seq(Message) /\ Len(q) \in Nat /\ Len(q) >= 1 /\ q[Len(q)] = Done(s)
               /\ \A k \in 1 .. Len(q) : k # Len(q) =>
                     /\ q[k].type = t /\ q[k].seq = s /\ q[k].idx \in S
                     /\ q[k].up = (link[q[k].idx] = "up")
               /\ \A i \in S : \E k \in 1 .. Len(q) : k # Len(q) /\ q[k].idx = i
  <1> DEFINE n == Cardinality(S)
             e == SetToSeq(S)
             a == [k \in 1 .. n |-> Msg(t, e[k], link[e[k]] = "up", s)]
             b == <<Done(s)>>
             q == Dumped(t, S, s)
  <1>1. IsFiniteSet(S)
    BY LinkAssumption, FS_Subset
  <1>2. n \in Nat /\ e \in [1 .. n -> S] /\ \A x \in S : \E k \in 1 .. n : e[k] = x
    BY <1>1, Enumeration
  <1>3. q = a \o b
    BY DEF Dumped
  <1> HIDE DEF n, e, q
  <1>4. \A k \in 1 .. n : a[k] \in Message /\ a[k].type = t /\ a[k].seq = s /\ a[k].idx = e[k]
                          /\ a[k].up = (link[e[k]] = "up") /\ e[k] \in S
    <2> SUFFICES ASSUME NEW k \in 1 .. n
                 PROVE  a[k] \in Message /\ a[k].type = t /\ a[k].seq = s /\ a[k].idx = e[k]
                        /\ a[k].up = (link[e[k]] = "up") /\ e[k] \in S
      OBVIOUS
    <2>1. e[k] \in S /\ e[k] \in Link /\ (link[e[k]] = "up") \in BOOLEAN /\ s \in 0 .. Limit
      BY <1>2, LimitFacts
    <2>2. a[k] = Msg(t, e[k], link[e[k]] = "up", s)
      OBVIOUS
    <2>3. a[k] \in Message
      BY <2>1, <2>2, MsgType
    <2> QED BY <2>1, <2>2, <2>3 DEF Msg
  <1>5. a \in Seq(Message) /\ Len(a) = n
    <2>1. a \in [1 .. n -> Message]
      BY <1>4
    <2> QED BY <1>2, <2>1
  <1>6. b \in Seq(Message) /\ Len(b) = 1 /\ b[1] = Done(s)
    BY MsgType
  <1> HIDE DEF a, b
  <1>7. /\ q \in Seq(Message) /\ Len(q) = n + 1
        /\ \A k \in 1 .. n + 1 : q[k] = IF k <= n THEN a[k] ELSE b[k - n]
    <2>1. Len(a) + Len(b) = n + 1
      BY <1>5, <1>6
    <2>2. /\ a \o b \in Seq(Message) /\ Len(a \o b) = Len(a) + Len(b)
          /\ \A k \in 1 .. Len(a) + Len(b) :
                (a \o b)[k] = IF k <= Len(a) THEN a[k] ELSE b[k - Len(a)]
      BY <1>5, <1>6, ConcatProperties
    <2> QED BY <1>3, <1>5, <2>1, <2>2
  <1>8. q[n + 1] = Done(s) /\ \A k \in 1 .. n : q[k] = a[k]
    <2>1. n + 1 \in 1 .. n + 1 /\ ~(n + 1 <= n) /\ (n + 1) - n = 1
      BY <1>2
    <2>2. q[n + 1] = b[(n + 1) - n]
      BY <1>7, <2>1
    <2>3. \A k \in 1 .. n : k \in 1 .. n + 1 /\ k <= n
      BY <1>2
    <2> QED BY <1>6, <1>7, <2>1, <2>2, <2>3
  <1>9. \A k \in 1 .. Len(q) : k # Len(q) => k \in 1 .. n
    BY <1>2, <1>7
  <1>10. \A i \in S : \E k \in 1 .. Len(q) : k # Len(q) /\ q[k].idx = i
    <2> SUFFICES ASSUME NEW i \in S PROVE \E k \in 1 .. Len(q) : k # Len(q) /\ q[k].idx = i
      OBVIOUS
    <2>1. PICK k \in 1 .. n : e[k] = i
      BY <1>2
    <2>2. k \in 1 .. Len(q) /\ k # Len(q)
      BY <1>2, <1>7
    <2> QED BY <1>4, <1>8, <2>1, <2>2
  <1>11. Len(q) \in Nat /\ Len(q) >= 1 /\ q[Len(q)] = Done(s)
    BY <1>2, <1>7, <1>8
  <1>12. \A k \in 1 .. Len(q) : k # Len(q) =>
            /\ q[k].type = t /\ q[k].seq = s /\ q[k].idx \in S
            /\ q[k].up = (link[q[k].idx] = "up")
    BY <1>4, <1>8, <1>9
  <1> QED
    BY <1>7, <1>10, <1>11, <1>12 DEF q

----------------------------------------------------------------------------
(* The queue. *)

(* The first message is read. *)
LEMMA ReadFacts ==
    ASSUME socket \in Seq(Message), socket # <<>>, NEW t, t = Tail(socket)
    PROVE  /\ t \in Seq(Message) /\ Len(socket) \in Nat /\ Len(socket) >= 1
           /\ Len(t) = Len(socket) - 1
           /\ DOMAIN socket = 1 .. Len(socket) /\ DOMAIN t = 1 .. (Len(socket) - 1)
           /\ Head(socket) = socket[1] /\ 1 \in DOMAIN socket /\ Head(socket) \in Message
           /\ \A k \in DOMAIN t : k + 1 \in DOMAIN socket /\ t[k] = socket[k + 1]
           /\ \A k \in DOMAIN socket : k # 1 => k - 1 \in DOMAIN t /\ t[k - 1] = socket[k]
           /\ \A k \in DOMAIN socket : k \in Int /\ k >= 1 /\ (k - 1) + 1 = k
  <1>1. Len(socket) \in Nat /\ DOMAIN socket = 1 .. Len(socket) /\ Len(socket) >= 1
    BY EmptySeq
  <1>2. /\ Head(socket) \in Message /\ t \in Seq(Message)
        /\ Len(t) = Len(socket) - 1
        /\ \A i \in 1 .. Len(t) : t[i] = socket[i + 1]
    BY HeadTailProperties
  <1>3. DOMAIN t = 1 .. (Len(socket) - 1)
    BY <1>2
  <1>4. \A k \in DOMAIN t : k + 1 \in DOMAIN socket /\ t[k] = socket[k + 1]
    BY <1>1, <1>2, <1>3
  <1>5. \A k \in DOMAIN socket : k \in Int /\ k >= 1 /\ (k - 1) + 1 = k
    BY <1>1
  <1>6. ASSUME NEW k \in DOMAIN socket, k # 1
        PROVE  k - 1 \in DOMAIN t /\ t[k - 1] = socket[k]
    <2>1. k - 1 \in DOMAIN t
      BY <1>1, <1>3, <1>6
    <2> QED BY <1>4, <1>5, <2>1
  <1>7. Head(socket) = socket[1] /\ 1 \in DOMAIN socket
    BY <1>1
  <1> QED
    BY <1>1, <1>2, <1>3, <1>4, <1>5, <1>6, <1>7

(* A message is queued, or dropped. *)
LEMMA NotifyFacts ==
    ASSUME socket \in Seq(Message), NEW m \in Message, Notify(m)
    PROVE  /\ \/ socket' = socket /\ lost' = lost \cup {m.idx}
              \/ /\ lost' = lost /\ DOMAIN socket' = 1 .. (Len(socket) + 1)
                 /\ socket'[Len(socket) + 1] = m
           /\ socket' \in Seq(Message) /\ Len(socket) \in Nat /\ DOMAIN socket = 1 .. Len(socket)
           /\ \A k \in DOMAIN socket : k \in DOMAIN socket' /\ socket'[k] = socket[k]
           /\ \A k \in DOMAIN socket' : k \in DOMAIN socket \/ (k = Len(socket) + 1 /\ socket'[k] = m)
  <1>1. Len(socket) \in Nat /\ DOMAIN socket = 1 .. Len(socket)
    OBVIOUS
  <1>2. \/ socket' = socket /\ lost' = lost \cup {m.idx}
        \/ lost' = lost /\ socket' = Append(socket, m)
    BY DEF Notify
  <1>3. CASE socket' = socket /\ lost' = lost \cup {m.idx}
    BY <1>1, <1>3
  <1>4. CASE lost' = lost /\ socket' = Append(socket, m)
    <2>1. /\ socket' \in Seq(Message) /\ Len(socket') = Len(socket) + 1
          /\ \A i \in 1 .. Len(socket) : socket'[i] = socket[i]
          /\ socket'[Len(socket) + 1] = m
      BY <1>4, AppendProperties
    <2>2. DOMAIN socket' = 1 .. (Len(socket) + 1)
      BY <2>1
    <2> QED BY <1>1, <1>4, <2>1, <2>2
  <1> QED
    BY <1>2, <1>3, <1>4

(* A request is answered; r was in the socket before. *)
LEMMA RequestFacts ==
    ASSUME NEW r \in Seq(Message), NEW t \in {"NEWLINK", "NEWADDR"}, NEW S \in SUBSET Link,
           dump + 1 \in 1 .. Limit, Request(r, t, S)
    PROVE  /\ dump' = dump + 1 /\ socket' \in Seq(Message) /\ Len(r) \in Nat
           /\ DOMAIN r = 1 .. Len(r) /\ Len(socket') \in Nat /\ Len(socket') > Len(r)
           /\ DOMAIN socket' = 1 .. Len(socket') /\ socket'[Len(socket')] = Done(dump')
           /\ \A k \in DOMAIN r : k \in DOMAIN socket' /\ socket'[k] = r[k] /\ k <= Len(r)
           /\ \A k \in DOMAIN socket' : k \in DOMAIN r \/ k > Len(r)
           /\ \A k \in DOMAIN socket' : k > Len(r) /\ k # Len(socket') =>
                 /\ socket'[k].type = t /\ socket'[k].seq = dump' /\ socket'[k].idx \in S
                 /\ socket'[k].up = (link[socket'[k].idx] = "up")
           /\ \A i \in S : \E k \in DOMAIN socket' :
                 k > Len(r) /\ k # Len(socket') /\ socket'[k].idx = i
  <1> DEFINE q == Dumped(t, S, dump + 1)
  <1>1. /\ q \in Seq(Message) /\ Len(q) \in Nat /\ Len(q) >= 1 /\ q[Len(q)] = Done(dump + 1)
        /\ \A k \in 1 .. Len(q) : k # Len(q) =>
              /\ q[k].type = t /\ q[k].seq = dump + 1 /\ q[k].idx \in S
              /\ q[k].up = (link[q[k].idx] = "up")
        /\ \A i \in S : \E k \in 1 .. Len(q) : k # Len(q) /\ q[k].idx = i
    BY DumpedFacts
  <1>2. dump' = dump + 1 /\ socket' = r \o q
    BY DEF Request
  <1> HIDE DEF q
  <1>3. Len(r) \in Nat /\ DOMAIN r = 1 .. Len(r)
    OBVIOUS
  <1>4. /\ r \o q \in Seq(Message) /\ Len(r \o q) = Len(r) + Len(q)
        /\ \A k \in 1 .. Len(r) + Len(q) :
              (r \o q)[k] = IF k <= Len(r) THEN r[k] ELSE q[k - Len(r)]
    BY <1>1, ConcatProperties
  <1>5. /\ socket' \in Seq(Message) /\ Len(socket') = Len(r) + Len(q)
        /\ DOMAIN socket' = 1 .. Len(socket') /\ Len(socket') \in Nat /\ Len(socket') > Len(r)
    BY <1>1, <1>2, <1>3, <1>4
  <1>6. \A k \in DOMAIN socket' : k <= Len(r) => socket'[k] = r[k]
    BY <1>2, <1>4, <1>5
  <1>7. \A k \in DOMAIN socket' : k > Len(r) => socket'[k] = q[k - Len(r)]
    <2> SUFFICES ASSUME NEW k \in DOMAIN socket', k > Len(r) PROVE socket'[k] = q[k - Len(r)]
      OBVIOUS
    <2>1. k \in 1 .. Len(r) + Len(q) /\ ~(k <= Len(r))
      BY <1>3, <1>5
    <2> QED BY <1>2, <1>4, <2>1
  <1>8. \A k \in DOMAIN socket' : k > Len(r) =>
           k - Len(r) \in 1 .. Len(q) /\ (k # Len(socket') => k - Len(r) # Len(q))
    <2> SUFFICES ASSUME NEW k \in DOMAIN socket', k > Len(r)
                 PROVE  k - Len(r) \in 1 .. Len(q) /\ (k # Len(socket') => k - Len(r) # Len(q))
      OBVIOUS
    <2>1. k \in Int /\ k <= Len(r) + Len(q) /\ Len(r) \in Int /\ Len(q) \in Int
      BY <1>1, <1>3, <1>5
    <2>2. k - Len(r) \in 1 .. Len(q)
      BY <2>1
    <2> QED BY <1>5, <2>1, <2>2
  <1>9. \A k \in DOMAIN r : k \in DOMAIN socket' /\ socket'[k] = r[k] /\ k <= Len(r)
    BY <1>3, <1>5, <1>6
  <1>10. \A k \in DOMAIN socket' : k \in DOMAIN r \/ k > Len(r)
    BY <1>3, <1>5
  <1>11. \A k \in DOMAIN socket' : k > Len(r) /\ k # Len(socket') =>
            /\ socket'[k].type = t /\ socket'[k].seq = dump' /\ socket'[k].idx \in S
            /\ socket'[k].up = (link[socket'[k].idx] = "up")
    BY <1>1, <1>2, <1>7, <1>8
  <1>12. socket'[Len(socket')] = Done(dump')
    <2>1. Len(socket') \in DOMAIN socket' /\ Len(socket') - Len(r) = Len(q)
      BY <1>1, <1>3, <1>5
    <2> QED BY <1>1, <1>2, <1>5, <1>7, <2>1
  <1>13. ASSUME NEW i \in S
         PROVE  \E k \in DOMAIN socket' : k > Len(r) /\ k # Len(socket') /\ socket'[k].idx = i
    <2>1. PICK k \in 1 .. Len(q) : k # Len(q) /\ q[k].idx = i
      BY <1>1
    <2>2. /\ k + Len(r) \in DOMAIN socket' /\ k + Len(r) > Len(r) /\ k + Len(r) # Len(socket')
          /\ (k + Len(r)) - Len(r) = k
      BY <1>1, <1>3, <1>5, <2>1
    <2>3. socket'[k + Len(r)] = q[k]
      BY <1>7, <2>2
    <2> QED BY <2>1, <2>2, <2>3
  <1> QED
    BY <1>2, <1>3, <1>5, <1>9, <1>10, <1>11, <1>12, <1>13

----------------------------------------------------------------------------
(* Reading a message. *)

(* The program reads message m of the socket, and hands it to              *)
(* gather_linkinfo or skips it.                                            *)
Reads(m) ==
    /\ socket # <<>> /\ m = Head(socket) /\ socket' = Tail(socket) /\ m.type # "DONE"
    /\ dump' = dump /\ link' = link /\ address' = address /\ parentlink' = parentlink
    /\ \/ pc' = pc /\ Scanning
       \/ pc \in {"poll", "listen"} /\ pc' = "listen"
    /\ lost \subseteq lost' /\ dag_announced \subseteq dag_announced'

Handles(m) ==
    /\ Known' = After(m)
    /\ m.type = "NEWADDR" /\ m.idx \in Known \cap Matching /\ m.idx # Lo => m.idx \in dag_announced'

Skips(m) ==
    /\ Scanning /\ m.seq # dump /\ Known' = Known
    /\ Repeated(m) \/ m.idx \in lost'

(* A message that is read leaves the rest of the answer as it was. *)
LEMMA ReadAnswer ==
    ASSUME Queue, NEW m, Reads(m)
    PROVE  AnswerInv' /\ KernelInv'
  <1>1. socket \in Seq(Message) /\ socket # <<>> /\ socket' = Tail(socket)
    BY DEF Queue, TypeOK, Reads
  <1>2. /\ DOMAIN socket = 1 .. Len(socket) /\ m = socket[1] /\ 1 \in DOMAIN socket
        /\ \A k \in DOMAIN socket' : k + 1 \in DOMAIN socket /\ socket'[k] = socket[k + 1]
        /\ \A k \in DOMAIN socket : k # 1 => k - 1 \in DOMAIN socket' /\ socket'[k - 1] = socket[k]
        /\ DOMAIN socket' = 1 .. (Len(socket) - 1) /\ Len(socket) \in Nat
    BY <1>1, ReadFacts DEF Reads
  <1>3. Scanning' = Scanning /\ (Scanning => Answer' = Answer) /\ dump' = dump
    BY DEF Reads, Scanning, Answer
  <1>4. \A k \in DOMAIN socket' : socket'[k].seq # 0 =>
           Scanning' /\ socket'[k].seq = dump' /\ socket'[k].type \in {Answer', "DONE"}
    <2>1. \A k \in DOMAIN socket : socket[k].seq # 0 =>
             Scanning /\ socket[k].seq = dump /\ socket[k].type \in {Answer, "DONE"}
      BY DEF Queue, AnswerInv
    <2> QED BY <1>2, <1>3, <2>1
  <1>5. ASSUME NEW j \in DOMAIN socket', NEW k \in DOMAIN socket',
               socket'[j].type = "DONE", j < k
        PROVE  socket'[k].seq = 0
    <2>1. j + 1 \in DOMAIN socket /\ k + 1 \in DOMAIN socket /\ j + 1 < k + 1
      BY <1>2, <1>5
    <2> QED BY <1>2, <1>5, <2>1 DEF Queue, AnswerInv
  <1>6. ASSUME Scanning' PROVE \E k \in DOMAIN socket' : socket'[k] = Done(dump')
    <2>1. PICK k \in DOMAIN socket : socket[k] = Done(dump)
      BY <1>3, <1>6 DEF Queue, AnswerInv
    <2>2. k # 1
      BY <1>2, <2>1 DEF Reads, Done, Msg
    <2> QED BY <1>2, <1>3, <2>1, <2>2
  <1>7. AnswerInv'
    BY <1>4, <1>5, <1>6 DEF AnswerInv
  <1>8. KernelInv'
    <2>1. UNCHANGED <<link, address, parentlink>>
      BY DEF Reads
    <2>2. \A k \in DOMAIN socket : socket[k].type = "DELLINK" => link[socket[k].idx] = "gone"
      BY DEF Queue, KernelInv
    <2>3. \A k \in DOMAIN socket' : socket'[k].type = "DELLINK" => link'[socket'[k].idx] = "gone"
      BY <1>2, <2>1, <2>2
    <2> QED BY <2>1, <2>3 DEF KernelInv, Present, Queue
  <1> QED BY <1>7, <1>8

(* Messages keep their meaning when the first one is read. *)
LEMMA ReadNews ==
    ASSUME Queue, NEW m, Reads(m), NEW i, NEW k \in DOMAIN socket, k # 1
    PROVE  /\ Handed(k) => Handed(k - 1)'
           /\ LinkNews(i, k) => LinkNews(i, k - 1)'
  <1>1. socket \in Seq(Message) /\ socket # <<>> /\ socket' = Tail(socket)
    BY DEF Queue, TypeOK, Reads
  <1>2. /\ DOMAIN socket = 1 .. Len(socket) /\ m = socket[1]
        /\ \A j \in DOMAIN socket : j # 1 => j - 1 \in DOMAIN socket' /\ socket'[j - 1] = socket[j]
        /\ Len(socket) \in Nat
    BY <1>1, ReadFacts DEF Reads
  <1>3. dump' = dump /\ m.type # "DONE" /\ (pc' \in {"links0", "links"} <=> pc \in {"links0", "links"})
    BY DEF Reads, Scanning
  <1>4. ASSUME Handed(k) PROVE Handed(k - 1)'
    <2>1. CASE socket[k].seq = dump
      BY <1>2, <1>3, <2>1 DEF Handed
    <2>2. CASE \E d \in 1 .. (k - 1) : socket[d].type = "DONE"
      <3>1. PICK d \in 1 .. (k - 1) : socket[d].type = "DONE"
        BY <2>2
      <3>2. d # 1 /\ d \in DOMAIN socket
        BY <1>2, <1>3, <3>1
      <3>3. d - 1 \in 1 .. ((k - 1) - 1)
        BY <1>2, <3>1, <3>2
      <3> QED BY <1>2, <3>1, <3>2, <3>3 DEF Handed
    <2> QED BY <1>4, <2>1, <2>2 DEF Handed
  <1> QED
    BY <1>2, <1>3, <1>4 DEF LinkNews

(* A message that is read is in the list then, or lost. *)
LEMMA ReadFollow ==
    ASSUME Queue, NEW m, Reads(m), Handles(m) \/ Skips(m)
    PROVE  FollowInv' /\ LoInv'
  <1>0. socket \in Seq(Message) /\ socket # <<>> /\ socket' = Tail(socket)
        /\ link \in [Link -> {"absent", "down", "up", "gone"}]
    BY DEF Queue, TypeOK, Reads
  <1>1. /\ DOMAIN socket = 1 .. Len(socket) /\ Len(socket) \in Nat
        /\ m = socket[1] /\ 1 \in DOMAIN socket /\ m \in Message
        /\ \A k \in DOMAIN socket' : k + 1 \in DOMAIN socket /\ socket'[k] = socket[k + 1]
        /\ \A k \in DOMAIN socket : k # 1 => k - 1 \in DOMAIN socket' /\ socket'[k - 1] = socket[k]
        /\ DOMAIN socket' = 1 .. (Len(socket) - 1)
    BY <1>0, ReadFacts DEF Reads
  <1>2. /\ dump' = dump /\ link' = link /\ address' = address /\ lost \subseteq lost'
        /\ m.type # "DONE" /\ m.idx \in Link /\ pc # "scan"
        /\ pc' \in {"links0", "links"} <=> pc \in {"links0", "links"}
        /\ pc' \in {"addrs0", "addrs"} <=> pc \in {"addrs0", "addrs"}
    <2>1. m.idx \in Link
      BY <1>1, MessageFacts DEF Reads
    <2> QED BY <2>1 DEF Reads, Scanning
  <1>3. \A i \in Link : link[i] = "up" /\ i \in Known => i \in Known'
    <2> SUFFICES ASSUME NEW i \in Link, link[i] = "up", i \in Known PROVE i \in Known'
      OBVIOUS
    <2>1. ~(m.type = "DELLINK" /\ m.idx = i)
      BY <1>1 DEF Queue, KernelInv
    <2> QED BY <2>1 DEF Handles, Skips, After
  <1>4. ASSUME NEW i \in Link, i \notin lost', LinkNews(i, 1) PROVE i \in Known'
    <2>1. m.type = "NEWLINK" /\ m.idx = i /\ m.up
      BY <1>1, <1>4 DEF LinkNews
    <2>2. CASE Handles(m)
      BY <2>1, <2>2 DEF Handles, After
    <2>3. CASE Skips(m)
      <3>1. m.seq # dump /\ Scanning /\ Repeated(m)
        BY <1>4, <2>1, <2>3 DEF Skips
      <3>2. pc \in {"links0", "links"}
        BY <2>1, <3>1 DEF Repeated
      <3>3. Handed(1)
        BY <1>4, <3>2 DEF LinkNews
      <3> QED BY <1>1, <3>1, <3>3 DEF Handed
    <2> QED BY <2>2, <2>3
  <1>5. ASSUME NEW i \in Link, i \notin lost' PROVE UpFollowed(i)'
    <2> SUFFICES ASSUME link'[i] = "up"
                 PROVE  i \in Known' \/ \E k \in DOMAIN socket' : LinkNews(i, k)'
      BY DEF UpFollowed
    <2>1. i \in Known \/ \E k \in DOMAIN socket : LinkNews(i, k)
      BY <1>2, <1>5 DEF Queue, FollowInv, UpFollowed
    <2>2. CASE i \in Known
      BY <1>2, <1>3, <2>2
    <2>3. ASSUME NEW k \in DOMAIN socket, LinkNews(i, k)
          PROVE  i \in Known' \/ \E l \in DOMAIN socket' : LinkNews(i, l)'
      <3>1. CASE k = 1
        BY <1>4, <1>5, <2>3, <3>1
      <3>2. CASE k # 1
        <4>1. LinkNews(i, k - 1)' /\ k - 1 \in DOMAIN socket'
          BY <1>1, <2>3, <3>2, ReadNews
        <4> QED BY <4>1
      <3> QED BY <3>1, <3>2
    <2> QED BY <2>1, <2>2, <2>3
  <1>6. ASSUME NEW i \in Link, i \notin lost' PROVE GoneFollowed(i)'
    <2> DEFINE New(k) == socket[k].type = "NEWLINK" /\ socket[k].idx = i
               Del(k) == socket[k].type = "DELLINK" /\ socket[k].idx = i
    <2> SUFFICES ASSUME ~Present(i)'
                 PROVE  \/ \E k \in DOMAIN socket' :
                              Del(k)' /\ \A l \in DOMAIN socket' : l > k => ~New(l)'
                        \/ i \notin Known' /\ \A l \in DOMAIN socket' : ~New(l)'
      BY DEF GoneFollowed
    <2>1. \/ \E k \in DOMAIN socket : Del(k) /\ \A l \in DOMAIN socket : l > k => ~New(l)
          \/ i \notin Known /\ \A l \in DOMAIN socket : ~New(l)
      BY <1>2, <1>6 DEF Queue, FollowInv, GoneFollowed, Present
    <2>2. /\ \A k \in DOMAIN socket' : New(k)' => New(k + 1)
          /\ \A k \in DOMAIN socket : k # 1 /\ Del(k) => Del(k - 1)'
      BY <1>1
    <2>3. CASE i \notin Known /\ \A l \in DOMAIN socket : ~New(l)
      <3>1. ~New(1)
        BY <1>1, <2>3
      <3>2. i \notin Known'
        BY <1>1, <2>3, <3>1 DEF Handles, Skips, After
      <3>3. \A l \in DOMAIN socket' : ~New(l)'
        <4> HIDE DEF New
        <4> QED BY <1>1, <2>2, <2>3
      <3> QED BY <3>2, <3>3
    <2>4. ASSUME NEW k \in DOMAIN socket, Del(k), \A l \in DOMAIN socket : l > k => ~New(l)
          PROVE  \/ \E j \in DOMAIN socket' :
                       Del(j)' /\ \A l \in DOMAIN socket' : l > j => ~New(l)'
                 \/ i \notin Known' /\ \A l \in DOMAIN socket' : ~New(l)'
      <3>1. CASE k = 1
        <4>1. m.type = "DELLINK" /\ m.idx = i
          BY <1>1, <2>4, <3>1
        <4>2. Handles(m)
          BY <1>6, <4>1 DEF Skips, Repeated
        <4>3. i \notin Known'
          BY <4>1, <4>2 DEF Handles, After
        <4>4. \A l \in DOMAIN socket' : l + 1 \in DOMAIN socket /\ l + 1 > 1
          BY <1>1
        <4>5. \A l \in DOMAIN socket' : ~New(l)'
          <5> HIDE DEF New
          <5> QED BY <2>2, <2>4, <3>1, <4>4
        <4> QED BY <4>3, <4>5
      <3>2. CASE k # 1
        <4>1. k - 1 \in DOMAIN socket' /\ Del(k - 1)'
          BY <1>1, <2>2, <2>4, <3>2
        <4>2. \A l \in DOMAIN socket' : l > k - 1 => l + 1 \in DOMAIN socket /\ l + 1 > k
          BY <1>1
        <4>3. \A l \in DOMAIN socket' : l > k - 1 => ~New(l)'
          <5> HIDE DEF New
          <5> QED BY <2>2, <2>4, <4>2
        <4> HIDE DEF New, Del
        <4> QED BY <4>1, <4>3
      <3> QED BY <3>1, <3>2
    <2> HIDE DEF New, Del
    <2> QED BY <2>1, <2>3, <2>4
  <1>7. ASSUME NEW i \in Link, i \notin lost' PROVE AddressFollowed(i)'
    <2> SUFFICES ASSUME i \in address', i \in Matching, i # Lo,
                        pc' \notin {"scan", "links0", "links"}
                 PROVE  i \in dag_announced' \/ \E k \in DOMAIN socket' : AddressNews(i, k)'
      BY DEF AddressFollowed
    <2>0. link[i] = "up" /\ pc \notin {"scan", "links0", "links"}
      BY <1>2 DEF Queue, KernelInv
    <2>1. i \in dag_announced \/ \E k \in DOMAIN socket : AddressNews(i, k)
      BY <1>2, <1>7, <2>0 DEF Queue, FollowInv, AddressFollowed
    <2>2. CASE i \in dag_announced
      BY <2>2 DEF Reads
    <2>3. ASSUME NEW k \in DOMAIN socket, AddressNews(i, k)
          PROVE  i \in dag_announced' \/ \E l \in DOMAIN socket' : AddressNews(i, l)'
      <3>1. CASE k = 1
        <4>1. m.type = "NEWADDR" /\ m.idx = i /\ i \in Known
          BY <1>1, <2>3, <3>1 DEF AddressNews
        <4>2. CASE Handles(m)
          BY <4>1, <4>2 DEF Handles
        <4>3. CASE Skips(m)
          <5>1. pc \in {"addrs0", "addrs"} /\ m.seq # dump
            BY <2>0, <4>3 DEF Skips, Scanning
          <5>2. Handed(1)
            BY <2>3, <3>1, <5>1 DEF AddressNews
          <5> QED BY <1>1, <5>1, <5>2 DEF Handed
        <4> QED BY <4>2, <4>3
      <3>2. CASE k # 1
        <4>1. k - 1 \in DOMAIN socket' /\ socket'[k - 1] = socket[k]
          BY <1>1, <3>2
        <4>2. pc' \in {"addrs0", "addrs"} => Handed(k - 1)'
          BY <1>2, <2>3, <3>2, ReadNews DEF AddressNews
        <4>3. i \in Known' \/ \E j \in 1 .. ((k - 1) - 1) : LinkNews(i, j)'
          <5>1. CASE i \in Known
            BY <1>3, <2>0, <5>1
          <5>2. ASSUME NEW j \in 1 .. (k - 1), LinkNews(i, j)
                PROVE  i \in Known' \/ \E l \in 1 .. ((k - 1) - 1) : LinkNews(i, l)'
            <6>1. CASE j = 1
              BY <1>4, <1>7, <5>2, <6>1
            <6>2. CASE j # 1
              <7>1. j \in DOMAIN socket /\ j - 1 \in 1 .. ((k - 1) - 1)
                BY <1>1, <6>2
              <7>2. LinkNews(i, j - 1)'
                BY <5>2, <6>2, <7>1, ReadNews
              <7> QED BY <7>1, <7>2
            <6> QED BY <6>1, <6>2
          <5> QED BY <2>3, <5>1, <5>2 DEF AddressNews
        <4>4. AddressNews(i, k - 1)'
          BY <2>3, <4>1, <4>2, <4>3 DEF AddressNews
        <4> QED BY <4>1, <4>4
      <3> QED BY <3>1, <3>2
    <2> QED BY <2>1, <2>2, <2>3
  <1>8. FollowInv'
    BY <1>5, <1>6, <1>7 DEF FollowInv
  <1>9. LoInv'
    <2> DEFINE L(k) == /\ socket[k].type = "NEWLINK" /\ socket[k].idx = Lo /\ socket[k].up
                       /\ socket[k].seq = dump
    <2>0. Lo \in Link /\ link[Lo] = "up"
      BY LinkAssumption DEF Queue, KernelInv
    <2>1. Lo \in Known \/ (pc = "links0" /\ \E k \in DOMAIN socket : L(k))
      BY <1>2 DEF Queue, LoInv
    <2>2. CASE Lo \in Known
      BY <1>3, <2>0, <2>2 DEF LoInv
    <2>3. ASSUME pc = "links0", NEW k \in DOMAIN socket, L(k) PROVE LoInv'
      <3>1. CASE k = 1
        BY <1>1, <2>3, <3>1 DEF LoInv, Handles, Skips, After
      <3>2. CASE k # 1
        <4>1. k - 1 \in DOMAIN socket' /\ socket'[k - 1] = socket[k] /\ pc' = "links0"
          BY <1>1, <2>3, <3>2 DEF Reads
        <4> QED BY <1>2, <2>3, <4>1 DEF LoInv
      <3> QED BY <3>1, <3>2
    <2> HIDE DEF L
    <2> QED BY <2>1, <2>2, <2>3
  <1> QED
    BY <1>8, <1>9

----------------------------------------------------------------------------
(* The kernel queues a notification. *)

(* Message m, about link i, is queued or dropped, and the program does     *)
(* nothing meanwhile.                                                      *)
Tells(m, i) ==
    /\ m \in Message /\ m.type # "DONE" /\ m.idx = i /\ m.seq = 0 /\ i \in Link
    /\ Notify(m)
    /\ dump' = dump /\ pc' = pc /\ Known' = Known /\ dag_announced' = dag_announced
    /\ \A j \in Link : j # i => link'[j] = link[j] /\ (j \in address' <=> j \in address)

(* A notification comes after the answer, and is none of it. *)
LEMMA TellAnswer ==
    ASSUME Queue, NEW m, NEW i, Tells(m, i)
    PROVE  AnswerInv'
  <1>1. /\ \A k \in DOMAIN socket : k \in DOMAIN socket' /\ socket'[k] = socket[k]
        /\ \A k \in DOMAIN socket' : k \in DOMAIN socket \/ (k = Len(socket) + 1 /\ socket'[k] = m)
        /\ DOMAIN socket = 1 .. Len(socket) /\ Len(socket) \in Nat
    BY NotifyFacts DEF Queue, TypeOK, Tells
  <1>2. Scanning' = Scanning /\ Answer' = Answer /\ dump' = dump /\ m.seq = 0 /\ m.type # "DONE"
    BY DEF Tells, Scanning, Answer
  <1>3. \A k \in DOMAIN socket : socket[k].seq # 0 =>
           Scanning /\ socket[k].seq = dump /\ socket[k].type \in {Answer, "DONE"}
    BY DEF Queue, AnswerInv
  <1>4. \A k \in DOMAIN socket' : socket'[k].seq # 0 =>
           Scanning' /\ socket'[k].seq = dump' /\ socket'[k].type \in {Answer', "DONE"}
    BY <1>1, <1>2, <1>3
  <1>5. ASSUME NEW j \in DOMAIN socket', NEW k \in DOMAIN socket', socket'[j].type = "DONE", j < k
        PROVE  socket'[k].seq = 0
    <2>1. j \in DOMAIN socket
      BY <1>1, <1>2, <1>5
    <2> QED BY <1>1, <1>2, <1>5, <2>1 DEF Queue, AnswerInv
  <1>6. Scanning' => \E k \in DOMAIN socket' : socket'[k] = Done(dump')
    BY <1>1, <1>2 DEF Queue, AnswerInv
  <1> QED
    BY <1>4, <1>5, <1>6 DEF AnswerInv

(* Messages keep their meaning when another one is queued. *)
LEMMA TellNews ==
    ASSUME Queue, NEW m, NEW i, Tells(m, i), NEW j
    PROVE  /\ \A k \in DOMAIN socket : LinkNews(j, k) => LinkNews(j, k)'
           /\ \A k \in DOMAIN socket : AddressNews(j, k) => AddressNews(j, k)'
  <1>1. /\ \A k \in DOMAIN socket : k \in DOMAIN socket' /\ socket'[k] = socket[k]
        /\ DOMAIN socket = 1 .. Len(socket) /\ Len(socket) \in Nat
    BY NotifyFacts DEF Queue, TypeOK, Tells
  <1>2. dump' = dump /\ pc' = pc /\ Known' = Known
    BY DEF Tells
  <1>3. \A k \in DOMAIN socket : \A d \in 1 .. (k - 1) : d \in DOMAIN socket
    BY <1>1
  <1>4. \A k \in DOMAIN socket : Handed(k) => Handed(k)'
    BY <1>1, <1>2, <1>3 DEF Handed
  <1>5. \A k \in DOMAIN socket : LinkNews(j, k) => LinkNews(j, k)'
    BY <1>1, <1>2, <1>4 DEF LinkNews
  <1>6. \A k \in DOMAIN socket : AddressNews(j, k) => AddressNews(j, k)'
    BY <1>1, <1>2, <1>3, <1>4, <1>5 DEF AddressNews
  <1> QED
    BY <1>5, <1>6

(* The other links are followed as before. *)
LEMMA TellOthers ==
    ASSUME Queue, NEW m, NEW i, Tells(m, i), NEW j \in Link \ lost', j # i
    PROVE  UpFollowed(j)' /\ GoneFollowed(j)' /\ AddressFollowed(j)'
  <1>1. /\ \A k \in DOMAIN socket : k \in DOMAIN socket' /\ socket'[k] = socket[k]
        /\ \A k \in DOMAIN socket' : k \in DOMAIN socket \/ (k = Len(socket) + 1 /\ socket'[k] = m)
        /\ DOMAIN socket = 1 .. Len(socket) /\ Len(socket) \in Nat /\ lost \subseteq lost'
    BY NotifyFacts DEF Queue, TypeOK, Tells
  <1>2. /\ pc' = pc /\ Known' = Known /\ dag_announced' = dag_announced /\ m.idx = i
        /\ link'[j] = link[j] /\ (j \in address' <=> j \in address)
    BY DEF Tells
  <1>3. UpFollowed(j) /\ GoneFollowed(j) /\ AddressFollowed(j)
    BY <1>1 DEF Queue, FollowInv
  <1>4. UpFollowed(j)'
    BY <1>1, <1>2, <1>3, TellNews DEF UpFollowed
  <1>5. GoneFollowed(j)'
    BY <1>1, <1>2, <1>3 DEF GoneFollowed, Present
  <1>6. AddressFollowed(j)'
    BY <1>1, <1>2, <1>3, TellNews DEF AddressFollowed
  <1> QED
    BY <1>4, <1>5, <1>6

(* LoInv does not depend on notifications. *)
LEMMA TellLo ==
    ASSUME Queue, NEW m, NEW i, Tells(m, i)
    PROVE  LoInv'
  <1>1. \A k \in DOMAIN socket : k \in DOMAIN socket' /\ socket'[k] = socket[k]
    BY NotifyFacts DEF Queue, TypeOK, Tells
  <1>2. pc' = pc /\ Known' = Known /\ dump' = dump
    BY DEF Tells
  <1> QED
    BY <1>1, <1>2 DEF Queue, LoInv

(* The message that was queued. *)
LEMMA TellLast ==
    ASSUME Queue, NEW m, NEW i, Tells(m, i), i \notin lost'
    PROVE  \E n \in DOMAIN socket' :
              /\ n = Len(socket) + 1 /\ socket'[n] = m /\ lost' = lost
              /\ \A k \in DOMAIN socket' : ~(k > n)
              /\ Scanning => Handed(n)'
  <1>1. /\ \/ socket' = socket /\ lost' = lost \cup {i}
           \/ /\ lost' = lost /\ DOMAIN socket' = 1 .. (Len(socket) + 1)
              /\ socket'[Len(socket) + 1] = m
        /\ Len(socket) \in Nat
    BY NotifyFacts DEF Queue, TypeOK, Tells
  <1>2. /\ lost' = lost /\ DOMAIN socket' = 1 .. (Len(socket) + 1)
        /\ socket'[Len(socket) + 1] = m
    BY <1>1
  <1>3. PICK n \in Nat : n = Len(socket) + 1
    BY <1>1
  <1>4. n \in DOMAIN socket' /\ \A k \in DOMAIN socket' : ~(k > n)
    BY <1>1, <1>2, <1>3
  <1>5. Scanning => Handed(n)'
    <2>1. Scanning => \E k \in DOMAIN socket : socket[k] = Done(dump)
      BY DEF Queue, AnswerInv
    <2>2. /\ \A k \in DOMAIN socket : k \in DOMAIN socket' /\ socket'[k] = socket[k]
          /\ DOMAIN socket = 1 .. Len(socket)
      BY NotifyFacts DEF Queue, TypeOK, Tells
    <2>3. Scanning => \E k \in 1 .. (n - 1) : socket'[k].type = "DONE"
      BY <1>1, <1>3, <2>1, <2>2 DEF Done, Msg
    <2> QED BY <2>3 DEF Handed
  <1> QED
    BY <1>2, <1>3, <1>4, <1>5

(* The steps of the kernel. *)
KernelFrame ==
    /\ pc' = pc /\ dump' = dump /\ all_if' = all_if /\ iface' = iface
    /\ dag_announced' = dag_announced

(* What the steps of the kernel have in common. *)
LEMMA KernelTells ==
    ASSUME Queue, ListInv, KernelFrame, NEW i \in Link,
           NEW t \in {"NEWLINK", "DELLINK", "NEWADDR", "DELADDR"}, NEW u \in BOOLEAN,
           Notify(Msg(t, i, u, 0)),
           \A j \in Link : j # i => link'[j] = link[j] /\ (j \in address' <=> j \in address)
    PROVE  Tells(Msg(t, i, u, 0), i)
  <1>1. Msg(t, i, u, 0) \in Message
    BY MsgType, LimitFacts
  <1>2. Known' = Known
    BY SameList DEF KernelFrame
  <1> QED
    BY <1>1, <1>2 DEF Tells, KernelFrame, Msg

(* A step of the kernel that tells of link i keeps the invariants, if it   *)
(* does so for i.                                                          *)
LEMMA TellQueue ==
    ASSUME Queue, NEW m, NEW i, Tells(m, i),
           i \notin lost' => UpFollowed(i)' /\ GoneFollowed(i)' /\ AddressFollowed(i)'
    PROVE  AnswerInv' /\ FollowInv' /\ LoInv'
  <1>1. FollowInv'
    BY TellOthers DEF FollowInv
  <1> QED
    BY <1>1, TellAnswer, TellLo

(* The kernel's part of the invariant. *)
LEMMA TellKernel ==
    ASSUME Queue, NEW m, NEW i, Tells(m, i), i # Lo \/ link'[i] = "up",
           i \in address' => link'[i] = "up",
           m.type = "DELLINK" => link'[i] = "gone",
           link[i] = "gone" => link'[i] = "gone",
           address' \subseteq Link,
           parentlink' # NULL => parentlink' = parentlink /\ (parentlink = i => Present(i)')
    PROVE  KernelInv'
  <1>0. Lo \in Link /\ parentlink \in Link \cup {NULL} /\ link[Lo] = "up"
    BY LinkAssumption DEF Queue, KernelInv, TypeOK
  <1>1. /\ \A k \in DOMAIN socket : k \in DOMAIN socket' /\ socket'[k] = socket[k]
        /\ \A k \in DOMAIN socket' : k \in DOMAIN socket \/ (k = Len(socket) + 1 /\ socket'[k] = m)
    BY NotifyFacts DEF Queue, TypeOK, Tells
  <1>2. \A j \in Link : j # i => link'[j] = link[j] /\ (j \in address' <=> j \in address)
    BY DEF Tells
  <1>3. link'[Lo] = "up"
    BY <1>0, <1>2
  <1>4. \A j \in address' : link'[j] = "up"
    BY <1>2 DEF Queue, KernelInv
  <1>5. \A k \in DOMAIN socket' : socket'[k].type = "DELLINK" => link'[socket'[k].idx] = "gone"
    <2> SUFFICES ASSUME NEW k \in DOMAIN socket', socket'[k].type = "DELLINK"
                 PROVE  link'[socket'[k].idx] = "gone"
      OBVIOUS
    <2>1. CASE k \in DOMAIN socket
      <3>1. link[socket[k].idx] = "gone" /\ socket[k].type = "DELLINK" /\ socket[k] = socket'[k]
        BY <1>1, <2>1 DEF Queue, KernelInv
      <3>2. socket[k].idx \in Link
        <4>1. socket[k] \in Message
          BY <2>1 DEF Queue, TypeOK
        <4> QED BY <3>1, <4>1, MessageFacts
      <3> QED BY <1>2, <3>1, <3>2
    <2>2. CASE socket'[k] = m
      BY <2>2 DEF Tells
    <2> QED BY <1>1, <2>1, <2>2
  <1>6. parentlink' # NULL => Present(parentlink)'
    BY <1>0, <1>2 DEF Queue, KernelInv, Present
  <1> QED
    BY <1>3, <1>4, <1>5, <1>6 DEF KernelInv

(* A link comes up: it is known, or its notification is the last. *)
LEMMA LinkUpQueue ==
    ASSUME Queue, ListInv, NEW i \in Link, LinkUp(i)
    PROVE  AnswerInv' /\ KernelInv' /\ FollowInv' /\ LoInv'
  <1> DEFINE m == Msg("NEWLINK", i, TRUE, 0)
  <1>0. link \in [Link -> {"absent", "down", "up", "gone"}] /\ address \subseteq Link
    BY DEF Queue, TypeOK
  <1>1. /\ KernelFrame /\ Notify(m) /\ link' = [link EXCEPT ![i] = "up"] /\ address' = address
        /\ parentlink' = parentlink /\ link[i] \in {"absent", "down"}
    BY DEF LinkUp, Change, KernelFrame, listvars
  <1>2. link'[i] = "up" /\ \A j \in Link : j # i => link'[j] = link[j]
    BY <1>0, <1>1
  <1>3. Tells(m, i)
    BY <1>1, <1>2, KernelTells
  <1>4. i \notin address
    BY <1>1 DEF Queue, KernelInv
  <1>5. ASSUME i \notin lost' PROVE UpFollowed(i)' /\ GoneFollowed(i)' /\ AddressFollowed(i)'
    <2>1. PICK n \in DOMAIN socket' : socket'[n] = m /\ (Scanning => Handed(n)')
      BY <1>3, <1>5, TellLast
    <2>2. pc' \in {"links0", "links"} => Scanning
      BY <1>1 DEF KernelFrame, Scanning
    <2>3. LinkNews(i, n)'
      BY <2>1, <2>2 DEF LinkNews, Msg
    <2> QED BY <1>1, <1>2, <1>4, <2>3 DEF UpFollowed, GoneFollowed, AddressFollowed, Present
  <1>6. KernelInv'
    BY <1>0, <1>1, <1>2, <1>3, <1>4, TellKernel DEF Msg, Present
  <1> QED
    BY <1>3, <1>5, <1>6, TellQueue

(* A link goes down, and its addresses with it. *)
LEMMA LinkDownQueue ==
    ASSUME Queue, ListInv, NEW i \in Link, LinkDown(i)
    PROVE  AnswerInv' /\ KernelInv' /\ FollowInv' /\ LoInv'
  <1> DEFINE m == Msg("NEWLINK", i, FALSE, 0)
  <1>0. link \in [Link -> {"absent", "down", "up", "gone"}] /\ address \subseteq Link
    BY DEF Queue, TypeOK
  <1>1. /\ KernelFrame /\ Notify(m) /\ link' = [link EXCEPT ![i] = "down"]
        /\ address' = address \ {i} /\ i # Lo
        /\ parentlink' = parentlink /\ link[i] \in {"absent", "up"}
    BY DEF LinkDown, Change, KernelFrame, listvars
  <1>2. link'[i] = "down" /\ \A j \in Link : j # i => link'[j] = link[j]
    BY <1>0, <1>1
  <1>3. Tells(m, i)
    BY <1>1, <1>2, KernelTells
  <1>5. UpFollowed(i)' /\ GoneFollowed(i)' /\ AddressFollowed(i)'
    BY <1>1, <1>2 DEF UpFollowed, GoneFollowed, AddressFollowed, Present
  <1>6. KernelInv'
    BY <1>0, <1>1, <1>2, <1>3, TellKernel DEF Msg, Present
  <1> QED
    BY <1>3, <1>5, <1>6, TellQueue

(* A link is deleted: no NEWLINK follows its DELLINK. *)
LEMMA LinkDeletedQueue ==
    ASSUME Queue, ListInv, NEW i \in Link, LinkDeleted(i)
    PROVE  AnswerInv' /\ KernelInv' /\ FollowInv' /\ LoInv'
  <1> DEFINE m == Msg("DELLINK", i, FALSE, 0)
  <1>0. link \in [Link -> {"absent", "down", "up", "gone"}] /\ address \subseteq Link
    BY DEF Queue, TypeOK
  <1>1. /\ KernelFrame /\ Notify(m) /\ link' = [link EXCEPT ![i] = "gone"]
        /\ address' = address \ {i} /\ i # Lo
        /\ parentlink' = IF parentlink = i THEN NULL ELSE parentlink
    BY DEF LinkDeleted, Change, KernelFrame, listvars
  <1>2. link'[i] = "gone" /\ \A j \in Link : j # i => link'[j] = link[j]
    BY <1>0, <1>1
  <1>3. Tells(m, i)
    BY <1>1, <1>2, KernelTells
  <1>5. ASSUME i \notin lost' PROVE UpFollowed(i)' /\ GoneFollowed(i)' /\ AddressFollowed(i)'
    <2>1. PICK n \in DOMAIN socket' : socket'[n] = m /\ \A k \in DOMAIN socket' : ~(k > n)
      BY <1>3, <1>5, TellLast
    <2>2. GoneFollowed(i)'
      BY <2>1 DEF GoneFollowed, Msg
    <2> QED BY <1>1, <1>2, <2>2 DEF UpFollowed, AddressFollowed
  <1>6. KernelInv'
    BY <1>0, <1>1, <1>2, <1>3, TellKernel DEF Msg, Present
  <1> QED
    BY <1>3, <1>5, <1>6, TellQueue

(* A new address: the link it is on was announced before it. *)
LEMMA AddressAddedQueue ==
    ASSUME Queue, ListInv, NEW i \in Link, AddressAdded(i)
    PROVE  AnswerInv' /\ KernelInv' /\ FollowInv' /\ LoInv'
  <1> DEFINE m == Msg("NEWADDR", i, TRUE, 0)
  <1>0. link \in [Link -> {"absent", "down", "up", "gone"}] /\ address \subseteq Link
    BY DEF Queue, TypeOK
  <1>1. /\ KernelFrame /\ Notify(m) /\ link' = link /\ address' = address \cup {i}
        /\ parentlink' = parentlink /\ link[i] = "up"
    BY DEF AddressAdded, Change, KernelFrame, listvars
  <1>3. Tells(m, i)
    BY <1>1, KernelTells
  <1>5. ASSUME i \notin lost' PROVE UpFollowed(i)' /\ GoneFollowed(i)' /\ AddressFollowed(i)'
    <2>1. PICK n \in DOMAIN socket' :
             n = Len(socket) + 1 /\ socket'[n] = m /\ lost' = lost /\ (Scanning => Handed(n)')
      BY <1>3, <1>5, TellLast
    <2>2. /\ \A k \in DOMAIN socket : k \in DOMAIN socket' /\ k \in 1 .. (n - 1)
          /\ \A k \in DOMAIN socket : LinkNews(i, k) => LinkNews(i, k)'
      <3>1. /\ \A k \in DOMAIN socket : k \in DOMAIN socket'
            /\ Len(socket) \in Nat /\ DOMAIN socket = 1 .. Len(socket)
        BY <1>3, NotifyFacts DEF Queue, TypeOK, Tells
      <3>2. \A k \in DOMAIN socket : k \in 1 .. (n - 1)
        BY <2>1, <3>1
      <3> QED BY <1>3, <3>1, <3>2, TellNews
    <2>3. UpFollowed(i)
      BY <1>5, <2>1 DEF Queue, FollowInv
    <2>4. pc' = pc /\ Known' = Known
      BY <1>3 DEF Tells
    <2>5. UpFollowed(i)'
      BY <1>1, <2>2, <2>3, <2>4 DEF UpFollowed
    <2>6. AddressFollowed(i)'
      <3>1. CASE pc = "scan"
        BY <2>4, <3>1 DEF AddressFollowed
      <3>2. CASE pc # "scan"
        <4>1. i \in Known' \/ \E j \in 1 .. (n - 1) : LinkNews(i, j)'
          BY <1>1, <2>2, <2>3, <2>4, <3>2 DEF UpFollowed
        <4>2. pc' \in {"addrs0", "addrs"} => Handed(n)'
          BY <2>1, <2>4 DEF Scanning
        <4>3. AddressNews(i, n)'
          BY <2>1, <4>1, <4>2 DEF AddressNews, Msg
        <4> QED BY <4>3 DEF AddressFollowed
      <3> QED BY <3>1, <3>2
    <2> QED BY <1>1, <2>5, <2>6 DEF GoneFollowed, Present
  <1>6. KernelInv'
    BY <1>0, <1>1, <1>3, TellKernel DEF Msg, Present
  <1> QED
    BY <1>3, <1>5, <1>6, TellQueue

(* An address goes away, of which the program takes no notice. *)
LEMMA AddressRemovedQueue ==
    ASSUME Queue, ListInv, NEW i \in Link, AddressRemoved(i)
    PROVE  AnswerInv' /\ KernelInv' /\ FollowInv' /\ LoInv'
  <1> DEFINE m == Msg("DELADDR", i, TRUE, 0)
  <1>0. address \subseteq Link
    BY DEF Queue, TypeOK
  <1>1. /\ KernelFrame /\ Notify(m) /\ link' = link /\ address' = address \ {i}
        /\ parentlink' = parentlink /\ link[i] = "up"
    BY DEF AddressRemoved, Change, KernelFrame, listvars, Queue, KernelInv
  <1>3. Tells(m, i)
    BY <1>1, KernelTells
  <1>5. ASSUME i \notin lost' PROVE UpFollowed(i)' /\ GoneFollowed(i)' /\ AddressFollowed(i)'
    <2>1. lost' = lost
      BY <1>3, <1>5, TellLast
    <2>2. \A k \in DOMAIN socket : k \in DOMAIN socket'
      BY <1>3, NotifyFacts DEF Queue, TypeOK, Tells
    <2>3. UpFollowed(i)
      BY <1>5, <2>1 DEF Queue, FollowInv
    <2>4. pc' = pc /\ Known' = Known
      BY <1>3 DEF Tells
    <2>5. UpFollowed(i)'
      BY <1>1, <1>3, <2>2, <2>3, <2>4, TellNews DEF UpFollowed
    <2> QED BY <1>1, <2>5 DEF GoneFollowed, AddressFollowed, Present
  <1>6. KernelInv'
    BY <1>0, <1>1, <1>3, TellKernel DEF Msg, Present
  <1> QED
    BY <1>3, <1>5, <1>6, TellQueue

----------------------------------------------------------------------------
(* The requests, and the end of their answers. *)

(* The socket after a request is what was left in it, which is all of      *)
(* notifications, and the answer.                                          *)
LEMMA RequestAnswer ==
    ASSUME NEW r \in Seq(Message), NEW t \in {"NEWLINK", "NEWADDR"}, NEW S \in SUBSET Link,
           dump \in Nat, dump + 1 \in 1 .. Limit, Request(r, t, S),
           \A k \in DOMAIN r : r[k].seq = 0, Scanning', Answer' = t
    PROVE  AnswerInv'
  <1>1. /\ dump' = dump + 1 /\ socket' \in Seq(Message) /\ Len(r) \in Nat
        /\ DOMAIN r = 1 .. Len(r) /\ Len(socket') \in Nat /\ Len(socket') > Len(r)
        /\ DOMAIN socket' = 1 .. Len(socket') /\ socket'[Len(socket')] = Done(dump')
        /\ \A k \in DOMAIN r : k \in DOMAIN socket' /\ socket'[k] = r[k] /\ k <= Len(r)
        /\ \A k \in DOMAIN socket' : k \in DOMAIN r \/ k > Len(r)
        /\ \A k \in DOMAIN socket' : k > Len(r) /\ k # Len(socket') =>
              socket'[k].type = t /\ socket'[k].seq = dump'
    BY RequestFacts
  <1>2. Done(dump').type = "DONE" /\ Done(dump').seq = dump'
    BY DEF Done, Msg
  <1>3. \A k \in DOMAIN socket' : socket'[k].seq # 0 =>
           Scanning' /\ socket'[k].seq = dump' /\ socket'[k].type \in {Answer', "DONE"}
    BY <1>1, <1>2
  <1>4. \A j \in DOMAIN socket' : socket'[j].type = "DONE" => j = Len(socket')
    <2> SUFFICES ASSUME NEW j \in DOMAIN socket', socket'[j].type = "DONE", j # Len(socket')
                 PROVE  FALSE
      OBVIOUS
    <2>1. CASE j \in DOMAIN r
      <3>1. r[j] \in Message /\ r[j].type = "DONE" /\ r[j].seq = 0
        BY <1>1, <2>1
      <3> QED BY <3>1, MessageFacts
    <2>2. CASE j > Len(r)
      BY <1>1, <2>2
    <2> QED BY <1>1, <2>1, <2>2
  <1>5. \A j, k \in DOMAIN socket' : socket'[j].type = "DONE" /\ j < k => socket'[k].seq = 0
    BY <1>1, <1>4
  <1>6. Len(socket') \in DOMAIN socket'
    BY <1>1
  <1> QED
    BY <1>1, <1>3, <1>5, <1>6 DEF AnswerInv

(* The first request asks for every link that is up. *)
LEMMA ScanStartQueue ==
    ASSUME Queue, ListInv, ScanStart, dump \in Nat, dump + 1 \in 1 .. Limit
    PROVE  /\ AnswerInv' /\ KernelInv' /\ FollowInv' /\ LoInv'
           /\ socket' \in Seq(Message) /\ dump' = dump + 1
  <1> DEFINE S == {i \in Link : Present(i)}
  <1>1. /\ Request(socket, "NEWLINK", S) /\ pc' = (IF pc = "scan" THEN "links0" ELSE "links")
        /\ pc \in {"scan", "poll"} /\ UNCHANGED <<link, address, parentlink, lost, dag_announced>>
        /\ all_if' = all_if /\ iface' = iface
    BY DEF ScanStart, program, kernel, listvars
  <1>2. socket \in Seq(Message) /\ S \in SUBSET Link
    BY DEF Queue, TypeOK
  <1>3. /\ dump' = dump + 1 /\ socket' \in Seq(Message) /\ Len(socket) \in Nat
        /\ Len(socket') \in Nat /\ Len(socket') > Len(socket)
        /\ DOMAIN socket' = 1 .. Len(socket') /\ socket'[Len(socket')] = Done(dump')
        /\ \A k \in DOMAIN socket : k \in DOMAIN socket' /\ socket'[k] = socket[k]
        /\ \A k \in DOMAIN socket' : k \in DOMAIN socket \/ k > Len(socket)
        /\ \A k \in DOMAIN socket' : k > Len(socket) /\ k # Len(socket') =>
              /\ socket'[k].type = "NEWLINK" /\ socket'[k].seq = dump' /\ socket'[k].idx \in S
              /\ socket'[k].up = (link[socket'[k].idx] = "up")
        /\ \A i \in S : \E k \in DOMAIN socket' :
              k > Len(socket) /\ k # Len(socket') /\ socket'[k].idx = i
    <2> HIDE DEF S
    <2> QED BY <1>1, <1>2, RequestFacts
  <1>4. Known' = Known
    BY <1>1, SameList
  <1>5. AnswerInv'
    <2>1. \A k \in DOMAIN socket : socket[k].seq = 0
      BY <1>1 DEF Queue, AnswerInv, Scanning
    <2>2. Scanning' /\ Answer' = "NEWLINK"
      BY <1>1 DEF Scanning, Answer
    <2> HIDE DEF S
    <2> QED BY <1>1, <1>2, <2>1, <2>2, RequestAnswer
  <1>6. Done(dump').type = "DONE"
    BY DEF Done, Msg
  <1>7. KernelInv'
    <2>1. \A k \in DOMAIN socket' : socket'[k].type = "DELLINK" => k \in DOMAIN socket
      BY <1>3, <1>6
    <2>2. \A k \in DOMAIN socket' : socket'[k].type = "DELLINK" => link'[socket'[k].idx] = "gone"
      BY <1>1, <1>3, <2>1 DEF Queue, KernelInv
    <2> QED BY <1>1, <2>2 DEF KernelInv, Queue, Present
  <1>8. ASSUME NEW i \in Link, link[i] = "up"
        PROVE  \E k \in DOMAIN socket' : /\ socket'[k].type = "NEWLINK" /\ socket'[k].idx = i
                                         /\ socket'[k].up /\ socket'[k].seq = dump'
    <2>1. i \in S
      BY <1>8 DEF Present
    <2>2. PICK k \in DOMAIN socket' : k > Len(socket) /\ k # Len(socket') /\ socket'[k].idx = i
      BY <1>3, <2>1
    <2>3. /\ socket'[k].type = "NEWLINK" /\ socket'[k].seq = dump'
          /\ socket'[k].up = (link[i] = "up")
      BY <1>3, <2>2
    <2>4. socket'[k].up
      BY <1>8, <2>3, Zenon
    <2> QED BY <2>2, <2>3, <2>4
  <1>9. ASSUME NEW i \in Link \ lost'
        PROVE  UpFollowed(i)' /\ GoneFollowed(i)' /\ AddressFollowed(i)'
    <2>1. UpFollowed(i)'
      BY <1>1, <1>8 DEF UpFollowed, LinkNews, Handed
    <2>2. GoneFollowed(i)'
      <3> DEFINE New(k) == socket[k].type = "NEWLINK" /\ socket[k].idx = i
      <3> SUFFICES ASSUME ~Present(i)
                   PROVE  \/ \E k \in DOMAIN socket' :
                                /\ socket'[k].type = "DELLINK" /\ socket'[k].idx = i
                                /\ \A l \in DOMAIN socket' : l > k => ~New(l)'
                          \/ i \notin Known' /\ \A l \in DOMAIN socket' : ~New(l)'
        BY <1>1 DEF GoneFollowed, Present
      <3>1. \A k \in DOMAIN socket' : New(k)' => k \in DOMAIN socket /\ New(k)
        BY <1>3, <1>6
      <3>2. GoneFollowed(i)
        BY <1>1, <1>9 DEF Queue, FollowInv
      <3>3. \/ \E k \in DOMAIN socket :
                  /\ socket[k].type = "DELLINK" /\ socket[k].idx = i
                  /\ \A l \in DOMAIN socket : l > k => ~New(l)
            \/ i \notin Known /\ \A l \in DOMAIN socket : ~New(l)
        BY <3>2 DEF GoneFollowed
      <3> HIDE DEF New
      <3> QED BY <1>3, <1>4, <3>1, <3>3
    <2>3. AddressFollowed(i)'
      BY <1>1 DEF AddressFollowed
    <2> QED BY <2>1, <2>2, <2>3
  <1>10. LoInv'
    <2>1. CASE pc = "scan"
      <3>1. link[Lo] = "up" /\ Lo \in Link
        BY LinkAssumption DEF Queue, KernelInv
      <3> QED BY <1>1, <1>8, <2>1, <3>1 DEF LoInv
    <2>2. CASE pc = "poll"
      BY <1>4, <2>2 DEF Queue, LoInv
    <2> QED BY <1>1, <2>1, <2>2
  <1> QED
    BY <1>3, <1>5, <1>7, <1>9, <1>10 DEF FollowInv

(* The DONE is read: what remains is notifications. *)
LEMMA DoneRead ==
    ASSUME Queue, socket # <<>>, Head(socket) = Done(dump), NEW r, r = Tail(socket)
    PROVE  /\ r \in Seq(Message) /\ \A k \in DOMAIN r : r[k].seq = 0
           /\ DOMAIN r = 1 .. (Len(socket) - 1) /\ Len(socket) \in Nat
           /\ \A k \in DOMAIN r : k + 1 \in DOMAIN socket /\ r[k] = socket[k + 1]
           /\ \A k \in DOMAIN socket : k # 1 => k - 1 \in DOMAIN r /\ r[k - 1] = socket[k]
           /\ DOMAIN socket = 1 .. Len(socket)
           /\ socket[1] = Done(dump) /\ socket[1].type = "DONE"
           /\ \A k \in DOMAIN socket : k # 1 => socket[k].seq = 0
  <1>1. /\ DOMAIN socket = 1 .. Len(socket) /\ Len(socket) \in Nat
        /\ Head(socket) = socket[1] /\ 1 \in DOMAIN socket /\ r \in Seq(Message)
        /\ \A k \in DOMAIN r : k + 1 \in DOMAIN socket /\ r[k] = socket[k + 1]
        /\ \A k \in DOMAIN socket : k # 1 => k - 1 \in DOMAIN r /\ r[k - 1] = socket[k]
        /\ DOMAIN r = 1 .. (Len(socket) - 1)
    BY ReadFacts DEF Queue, TypeOK
  <1>2. socket[1].type = "DONE"
    BY <1>1 DEF Done, Msg
  <1>3. \A k \in DOMAIN socket : k # 1 => 1 < k
    BY <1>1
  <1>4. \A k \in DOMAIN socket : k # 1 => socket[k].seq = 0
    BY <1>1, <1>2, <1>3 DEF Queue, AnswerInv
  <1>5. \A k \in DOMAIN r : r[k].seq = 0
    <2>1. \A k \in DOMAIN r : k + 1 # 1
      BY <1>1
    <2> QED BY <1>1, <1>4, <2>1
  <1> QED
    BY <1>1, <1>2, <1>4, <1>5

(* The addresses that the second request asks for are of links that are    *)
(* known, or whose notification comes before.                              *)
LEMMA LinksDoneQueue ==
    ASSUME Queue, ListInv, LinksDone, dump \in Nat \ {0}, dump + 1 \in 1 .. Limit
    PROVE  /\ AnswerInv' /\ KernelInv' /\ FollowInv' /\ LoInv'
           /\ socket' \in Seq(Message) /\ dump' = dump + 1
  <1> DEFINE r == Tail(socket)
  <1>1. /\ Request(r, "NEWADDR", address)
        /\ pc' = (IF pc = "links0" THEN "addrs0" ELSE "addrs") /\ pc \in {"links0", "links"}
        /\ UNCHANGED <<link, address, parentlink, lost, dag_announced>>
        /\ all_if' = all_if /\ iface' = iface /\ socket # <<>> /\ Head(socket) = Done(dump)
    BY DEF LinksDone, program, kernel, listvars
  <1>2. /\ r \in Seq(Message) /\ \A k \in DOMAIN r : r[k].seq = 0
        /\ DOMAIN r = 1 .. (Len(socket) - 1) /\ Len(socket) \in Nat
        /\ \A k \in DOMAIN r : k + 1 \in DOMAIN socket /\ r[k] = socket[k + 1]
        /\ \A k \in DOMAIN socket : k # 1 => k - 1 \in DOMAIN r /\ r[k - 1] = socket[k]
        /\ DOMAIN socket = 1 .. Len(socket)
        /\ socket[1] = Done(dump) /\ socket[1].type = "DONE"
        /\ \A k \in DOMAIN socket : k # 1 => socket[k].seq = 0
    BY <1>1, DoneRead
  <1> HIDE DEF r
  <1>3. /\ dump' = dump + 1 /\ socket' \in Seq(Message) /\ Len(r) \in Nat
        /\ Len(socket') \in Nat /\ Len(socket') > Len(r)
        /\ DOMAIN socket' = 1 .. Len(socket') /\ socket'[Len(socket')] = Done(dump')
        /\ \A k \in DOMAIN r : k \in DOMAIN socket' /\ socket'[k] = r[k] /\ k <= Len(r)
        /\ \A k \in DOMAIN socket' : k \in DOMAIN r \/ k > Len(r)
        /\ \A k \in DOMAIN socket' : k > Len(r) /\ k # Len(socket') =>
              socket'[k].type = "NEWADDR" /\ socket'[k].seq = dump'
        /\ \A i \in address : \E k \in DOMAIN socket' :
              k > Len(r) /\ k # Len(socket') /\ socket'[k].idx = i
    <2>1. address \in SUBSET Link
      BY DEF Queue, TypeOK
    <2> QED BY <1>1, <1>2, <2>1, RequestFacts
  <1>4. Known' = Known
    BY <1>1, SameList
  <1>5. AnswerInv'
    <2>1. Scanning' /\ Answer' = "NEWADDR"
      BY <1>1 DEF Scanning, Answer
    <2>2. address \in SUBSET Link
      BY DEF Queue, TypeOK
    <2> QED BY <1>1, <1>2, <2>1, <2>2, RequestAnswer
  <1>6. Done(dump').type = "DONE"
    BY DEF Done, Msg
  <1>7. KernelInv'
    <2>1. \A k \in DOMAIN socket' : socket'[k].type = "DELLINK" => k \in DOMAIN r
      BY <1>3, <1>6
    <2>2. \A k \in DOMAIN socket' : socket'[k].type = "DELLINK" => link'[socket'[k].idx] = "gone"
      BY <1>1, <1>2, <1>3, <2>1 DEF Queue, KernelInv
    <2> QED BY <1>1, <2>2 DEF KernelInv, Queue, Present
  <1>8. ASSUME NEW i, NEW k \in DOMAIN socket, LinkNews(i, k)
        PROVE  /\ k # 1 /\ k - 1 \in DOMAIN socket' /\ LinkNews(i, k - 1)' /\ k - 1 <= Len(r)
    <2>1. k # 1
      BY <1>2, <1>8 DEF LinkNews
    <2>2. k - 1 \in DOMAIN socket' /\ socket'[k - 1] = socket[k] /\ k - 1 <= Len(r)
      BY <1>2, <1>3, <2>1
    <2>3. pc' \notin {"links0", "links"}
      BY <1>1
    <2> QED BY <1>8, <2>1, <2>2, <2>3 DEF LinkNews
  <1>9. ASSUME NEW i \in Link \ lost'
        PROVE  UpFollowed(i)' /\ GoneFollowed(i)' /\ AddressFollowed(i)'
    <2>0. UpFollowed(i) /\ GoneFollowed(i) /\ AddressFollowed(i)
      BY <1>1, <1>9 DEF Queue, FollowInv
    <2>1. UpFollowed(i)'
      BY <1>1, <1>4, <1>8, <2>0 DEF UpFollowed
    <2>2. GoneFollowed(i)'
      <3> DEFINE New(k) == socket[k].type = "NEWLINK" /\ socket[k].idx = i
                 Del(k) == socket[k].type = "DELLINK" /\ socket[k].idx = i
      <3> SUFFICES ASSUME ~Present(i)
                   PROVE  \/ \E k \in DOMAIN socket' :
                                Del(k)' /\ \A l \in DOMAIN socket' : l > k => ~New(l)'
                          \/ i \notin Known' /\ \A l \in DOMAIN socket' : ~New(l)'
        BY <1>1 DEF GoneFollowed, Present
      <3>1. \A k \in DOMAIN socket' : New(k)' => k \in Int /\ k + 1 \in DOMAIN socket /\ New(k + 1)
        <4>1. \A k \in DOMAIN socket' : New(k)' => k \in DOMAIN r
          BY <1>3, <1>6
        <4>2. \A k \in DOMAIN r : k \in Int
          BY <1>2
        <4> QED BY <1>2, <1>3, <4>1, <4>2
      <3>2. \A k \in DOMAIN socket : Del(k) => k - 1 \in DOMAIN socket' /\ Del(k - 1)' /\ k \in Int
        <4>1. \A k \in DOMAIN socket : Del(k) => k # 1
          BY <1>2
        <4> QED BY <1>2, <1>3, <4>1
      <3>3. \/ \E k \in DOMAIN socket : Del(k) /\ \A l \in DOMAIN socket : l > k => ~New(l)
            \/ i \notin Known /\ \A l \in DOMAIN socket : ~New(l)
        BY <2>0 DEF GoneFollowed
      <3> HIDE DEF New, Del
      <3>4. ASSUME NEW k \in DOMAIN socket, Del(k), \A l \in DOMAIN socket : l > k => ~New(l)
            PROVE  \A l \in DOMAIN socket' : l > k - 1 => ~New(l)'
        <4> SUFFICES ASSUME NEW l \in DOMAIN socket', l > k - 1, New(l)' PROVE FALSE
          OBVIOUS
        <4>1. l \in Int /\ k \in Int /\ l + 1 \in DOMAIN socket /\ New(l + 1)
          BY <3>1, <3>2, <3>4
        <4>2. l + 1 > k
          BY <4>1
        <4> QED BY <3>4, <4>1, <4>2
      <3> QED BY <1>4, <3>1, <3>2, <3>3, <3>4
    <2>3. AddressFollowed(i)'
      <3> SUFFICES ASSUME i \in address PROVE \E k \in DOMAIN socket' : AddressNews(i, k)'
        BY <1>1 DEF AddressFollowed
      <3>1. PICK k \in DOMAIN socket' : k > Len(r) /\ k # Len(socket') /\ socket'[k].idx = i
        BY <1>3
      <3>2. link[i] = "up"
        BY DEF Queue, KernelInv
      <3>3. i \in Known \/ \E j \in DOMAIN socket : LinkNews(i, j)
        BY <1>1, <2>0, <3>2 DEF UpFollowed
      <3>4. i \in Known' \/ \E j \in 1 .. (k - 1) : LinkNews(i, j)'
        <4>1. \A j \in DOMAIN socket' : j <= Len(r) => j \in 1 .. (k - 1)
          BY <1>3, <3>1
        <4> QED BY <1>4, <1>8, <3>3, <4>1
      <3>5. AddressNews(i, k)'
        BY <1>3, <3>1, <3>4 DEF AddressNews, Handed
      <3> QED BY <3>5
    <2> QED BY <2>1, <2>2, <2>3
  <1>10. LoInv'
    <2>1. Lo \in Known
      <3>1. \A k \in DOMAIN socket : ~(socket[k].type = "NEWLINK" /\ socket[k].seq = dump)
        BY <1>2
      <3> QED BY <1>1, <3>1 DEF Queue, LoInv
    <2> QED BY <1>4, <2>1 DEF LoInv
  <1> QED
    BY <1>3, <1>5, <1>7, <1>9, <1>10 DEF FollowInv

(* The DONE of the addresses: what follows is for rtnl_listen. *)
LEMMA AddrsDoneQueue ==
    ASSUME Queue, ListInv, AddrsDone
    PROVE  /\ AnswerInv' /\ KernelInv' /\ FollowInv' /\ LoInv' /\ socket' \in Seq(Message)
  <1>1. /\ socket' = Tail(socket) /\ dump' = dump
        /\ pc' \in {"setup", "poll"} /\ pc \in {"addrs0", "addrs"}
        /\ UNCHANGED <<link, address, parentlink, lost, dag_announced>>
        /\ all_if' = all_if /\ iface' = iface /\ socket # <<>> /\ Head(socket) = Done(dump)
    BY DEF AddrsDone, program, kernel, listvars
  <1>2. /\ socket' \in Seq(Message) /\ \A k \in DOMAIN socket' : socket'[k].seq = 0
        /\ DOMAIN socket' = 1 .. (Len(socket) - 1) /\ Len(socket) \in Nat
        /\ \A k \in DOMAIN socket' : k + 1 \in DOMAIN socket /\ socket'[k] = socket[k + 1]
        /\ \A k \in DOMAIN socket : k # 1 => k - 1 \in DOMAIN socket' /\ socket'[k - 1] = socket[k]
        /\ DOMAIN socket = 1 .. Len(socket)
        /\ socket[1] = Done(dump) /\ socket[1].type = "DONE"
    BY <1>1, DoneRead
  <1>4. Known' = Known
    BY <1>1, SameList
  <1>5. AnswerInv'
    <2>1. ~Scanning'
      BY <1>1 DEF Scanning
    <2> QED BY <1>2, <2>1 DEF AnswerInv
  <1>7. KernelInv'
    <2>2. \A k \in DOMAIN socket' : socket'[k].type = "DELLINK" => link'[socket'[k].idx] = "gone"
      BY <1>1, <1>2 DEF Queue, KernelInv
    <2> QED BY <1>1, <2>2 DEF KernelInv, Queue, Present
  <1>8. ASSUME NEW i, NEW k \in DOMAIN socket, LinkNews(i, k)
        PROVE  /\ k # 1 /\ k - 1 \in DOMAIN socket' /\ LinkNews(i, k - 1)'
    <2>1. k # 1
      BY <1>2, <1>8 DEF LinkNews
    <2>2. k - 1 \in DOMAIN socket' /\ socket'[k - 1] = socket[k]
      BY <1>2, <2>1
    <2>3. pc' \notin {"links0", "links"}
      BY <1>1
    <2> QED BY <1>8, <2>1, <2>2, <2>3 DEF LinkNews
  <1>9. ASSUME NEW i \in Link \ lost'
        PROVE  UpFollowed(i)' /\ GoneFollowed(i)' /\ AddressFollowed(i)'
    <2>0. UpFollowed(i) /\ GoneFollowed(i) /\ AddressFollowed(i)
      BY <1>1, <1>9 DEF Queue, FollowInv
    <2>1. UpFollowed(i)'
      BY <1>1, <1>4, <1>8, <2>0 DEF UpFollowed
    <2>2. GoneFollowed(i)'
      <3> DEFINE New(k) == socket[k].type = "NEWLINK" /\ socket[k].idx = i
                 Del(k) == socket[k].type = "DELLINK" /\ socket[k].idx = i
      <3> SUFFICES ASSUME ~Present(i)
                   PROVE  \/ \E k \in DOMAIN socket' :
                                Del(k)' /\ \A l \in DOMAIN socket' : l > k => ~New(l)'
                          \/ i \notin Known' /\ \A l \in DOMAIN socket' : ~New(l)'
        BY <1>1 DEF GoneFollowed, Present
      <3>1. \A k \in DOMAIN socket' : New(k)' => k \in Int /\ k + 1 \in DOMAIN socket /\ New(k + 1)
        BY <1>2
      <3>2. \A k \in DOMAIN socket : Del(k) => k - 1 \in DOMAIN socket' /\ Del(k - 1)' /\ k \in Int
        <4>1. \A k \in DOMAIN socket : Del(k) => k # 1
          BY <1>2
        <4> QED BY <1>2, <4>1
      <3>3. \/ \E k \in DOMAIN socket : Del(k) /\ \A l \in DOMAIN socket : l > k => ~New(l)
            \/ i \notin Known /\ \A l \in DOMAIN socket : ~New(l)
        BY <2>0 DEF GoneFollowed
      <3> HIDE DEF New, Del
      <3>4. ASSUME NEW k \in DOMAIN socket, Del(k), \A l \in DOMAIN socket : l > k => ~New(l)
            PROVE  \A l \in DOMAIN socket' : l > k - 1 => ~New(l)'
        <4> SUFFICES ASSUME NEW l \in DOMAIN socket', l > k - 1, New(l)' PROVE FALSE
          OBVIOUS
        <4>1. l \in Int /\ k \in Int /\ l + 1 \in DOMAIN socket /\ New(l + 1)
          BY <3>1, <3>2, <3>4
        <4>2. l + 1 > k
          BY <4>1
        <4> QED BY <3>4, <4>1, <4>2
      <3> QED BY <1>4, <3>1, <3>2, <3>3, <3>4
    <2>3. AddressFollowed(i)'
      <3> SUFFICES ASSUME i \in address, i \in Matching, i # Lo, i \notin dag_announced
                   PROVE  \E k \in DOMAIN socket' : AddressNews(i, k)'
        BY <1>1 DEF AddressFollowed
      <3>1. PICK k \in DOMAIN socket : AddressNews(i, k)
        BY <1>1, <2>0 DEF AddressFollowed
      <3>2. k # 1 /\ k - 1 \in DOMAIN socket' /\ socket'[k - 1] = socket[k]
        BY <1>2, <3>1 DEF AddressNews
      <3>3. i \in Known' \/ \E j \in 1 .. ((k - 1) - 1) : LinkNews(i, j)'
        <4>1. ASSUME NEW j \in 1 .. (k - 1), LinkNews(i, j)
              PROVE  \E l \in 1 .. ((k - 1) - 1) : LinkNews(i, l)'
          <5>1. j \in DOMAIN socket
            BY <1>2
          <5>2. j # 1 /\ LinkNews(i, j - 1)'
            BY <1>8, <4>1, <5>1
          <5>3. j - 1 \in 1 .. ((k - 1) - 1)
            BY <1>2, <5>2
          <5> QED BY <5>2, <5>3
        <4> QED BY <1>4, <3>1, <4>1 DEF AddressNews
      <3>4. pc' \notin {"addrs0", "addrs"}
        BY <1>1
      <3>5. AddressNews(i, k - 1)'
        BY <3>1, <3>2, <3>3, <3>4 DEF AddressNews
      <3> QED BY <3>2, <3>5
    <2> QED BY <2>1, <2>2, <2>3
  <1>10. LoInv'
    BY <1>1, <1>4 DEF Queue, LoInv
  <1> QED
    BY <1>2, <1>5, <1>7, <1>9, <1>10 DEF FollowInv

(* Steps that leave the links, the list and the socket alone. *)
LEMMA FrameQueue ==
    ASSUME Queue, ListInv, UNCHANGED <<link, address, socket, dump, all_if, dag_announced, lost>>,
           \A o \in Live : iface'[o].index = iface[o].index,
           pc' = pc \/ {pc, pc'} \subseteq {"setup", "poll", "listen", "look"},
           parentlink' # NULL => Present(parentlink')
    PROVE  AnswerInv' /\ KernelInv' /\ FollowInv' /\ LoInv' /\ ListInv' /\ Known' = Known
  <1>1. ListInv' /\ Known' = Known
    BY SameList
  <1>2. /\ Scanning' = Scanning /\ Answer' = Answer
        /\ \A S \in SUBSET {"scan", "links0", "links", "addrs0", "addrs"} : pc' \in S <=> pc \in S
    BY DEF Scanning, Answer
  <1>3. AnswerInv'
    BY <1>2 DEF Queue, AnswerInv
  <1>4. KernelInv'
    BY DEF Queue, KernelInv, Present
  <1>5. \A k : Handed(k)' <=> Handed(k)
    BY DEF Handed
  <1>6. \A i, k : LinkNews(i, k)' <=> LinkNews(i, k)
    <2>1. pc' \in {"links0", "links"} <=> pc \in {"links0", "links"}
      BY <1>2
    <2> QED BY <1>5, <2>1 DEF LinkNews
  <1>7. \A i, k : AddressNews(i, k)' <=> AddressNews(i, k)
    <2>1. pc' \in {"addrs0", "addrs"} <=> pc \in {"addrs0", "addrs"}
      BY <1>2
    <2> QED BY <1>1, <1>5, <1>6, <2>1 DEF AddressNews
  <1>8. /\ pc' = "scan" <=> pc = "scan"
        /\ pc' = "links0" <=> pc = "links0"
        /\ pc' \in {"scan", "links0", "links"} <=> pc \in {"scan", "links0", "links"}
    OBVIOUS
  <1>9. FollowInv'
    <2> SUFFICES ASSUME NEW i \in Link \ lost
                 PROVE  UpFollowed(i)' /\ GoneFollowed(i)' /\ AddressFollowed(i)'
      BY DEF FollowInv
    <2>1. UpFollowed(i) /\ GoneFollowed(i) /\ AddressFollowed(i)
      BY DEF Queue, FollowInv
    <2>2. UpFollowed(i)'
      BY <1>1, <1>6, <1>8, <2>1 DEF UpFollowed
    <2>3. GoneFollowed(i)'
      BY <1>1, <2>1 DEF GoneFollowed, Present
    <2>4. AddressFollowed(i)'
      BY <1>7, <1>8, <2>1 DEF AddressFollowed
    <2> QED BY <2>2, <2>3, <2>4
  <1>10. LoInv'
    BY <1>1, <1>8 DEF Queue, LoInv
  <1> QED
    BY <1>1, <1>3, <1>4, <1>9, <1>10

----------------------------------------------------------------------------
(* setup and send_raw_icmp. *)

GoodPort(p) ==
    /\ p \in [alive : BOOLEAN, open : BOOLEAN, joined : BOOLEAN, there : BOOLEAN,
              ok : BOOLEAN, failed : {0, 1}]
    /\ p.failed = 1 => count.failure < MaxFailures

(* The port that setup starts from. *)
LEMMA PortGood ==
    ASSUME TypeOK, NEW o \in Obj
    PROVE  GoodPort(Port(o))
  <1>1. iface[o].alive \in BOOLEAN /\ nd_socket \in BOOLEAN
    BY DEF TypeOK
  <1> QED
    BY <1>1 DEF GoodPort, Port, Present

(* Joining the group keeps the ranges of a port. *)
LEMMA JoinGood ==
    ASSUME NEW p, GoodPort(p)
    PROVE  GoodPort(Join(p)) /\ GoodPort(CheckMembership(p))
  BY DEF GoodPort, Join, CheckMembership

(* setup fails no more often than the bound allows. *)
LEMMA SetupGood ==
    ASSUME NEW p, GoodPort(p), NEW q \in Setup(p)
    PROVE  GoodPort(q)
  <1> DEFINE a == [p EXCEPT !.alive = TRUE]
             b == [a EXCEPT !.open = TRUE]
  <1>1. GoodPort(a) /\ GoodPort(b)
    BY DEF GoodPort
  <1>2. CASE p.alive
    BY <1>2 DEF Setup
  <1>3. CASE ~p.alive /\ p.open
    <2>1. q = Join(a)
      BY <1>3 DEF Setup
    <2> QED BY <1>1, <2>1, JoinGood
  <1>4. CASE ~p.alive /\ ~p.open
    <2>1. \/ q = Join(b)
          \/ /\ count.failure < MaxFailures
             /\ q \in {[a EXCEPT !.ok = FALSE, !.failed = 1],
                       [a EXCEPT !.ok = FALSE, !.failed = 1, !.open = TRUE]}
      BY <1>4 DEF Setup
    <2>2. CASE q = Join(b)
      BY <1>1, <2>2, JoinGood
    <2>3. CASE /\ count.failure < MaxFailures
               /\ q \in {[a EXCEPT !.ok = FALSE, !.failed = 1],
                         [a EXCEPT !.ok = FALSE, !.failed = 1, !.open = TRUE]}
      BY <1>1, <2>3 DEF GoodPort
    <2> QED BY <2>1, <2>2, <2>3
  <1> QED
    BY <1>2, <1>3, <1>4

(* send_raw_icmp, likewise. *)
LEMMA SendGood ==
    ASSUME NEW p, GoodPort(p), NEW q \in SendRawIcmp(p)
    PROVE  GoodPort(q)
  <1>1. PICK s \in Setup(p) : q = IF s.ok THEN CheckMembership(s) ELSE s
    BY DEF SendRawIcmp
  <1> QED
    BY <1>1, SetupGood, JoinGood

(* What a transmission changes. *)
PortFrame ==
    /\ iface' \in [Obj -> IfaceRec]
    /\ \A o \in Obj : iface'[o].index = iface[o].index /\ iface'[o].client = iface[o].client
    /\ nd_socket' \in BOOLEAN /\ members' \subseteq Link
    /\ count' \in [change : 0..MaxChanges, signal : 0..MaxSignals, failure : 0..MaxFailures,
                   adoption : 0..MaxAdoptions]
    /\ count'.signal = count.signal

(* setup and transmissions change no object's index or client. *)
LEMMA PortEffect ==
    ASSUME TypeOK, ListInv, NEW o \in Live, NEW p, GoodPort(p), PortIs(o, p)
    PROVE  PortFrame
  <1>1. o \in Obj /\ iface[o].index \in Link
    BY DEF TypeOK, ListInv, Known, Live, Range
  <1>2. iface \in [Obj -> IfaceRec] /\ members \subseteq Link
    BY DEF TypeOK, IfaceRec
  <1>3. p.alive \in BOOLEAN /\ p.open \in BOOLEAN /\ p.failed \in {0, 1}
        /\ (p.failed = 1 => count.failure < MaxFailures)
    BY DEF GoodPort
  <1>4. /\ iface' \in [Obj -> IfaceRec]
        /\ \A x \in Obj : iface'[x].index = iface[x].index /\ iface'[x].client = iface[x].client
    <2>1. iface' = [iface EXCEPT ![o].alive = p.alive]
      BY DEF PortIs
    <2>2. [iface[o] EXCEPT !.alive = p.alive] \in IfaceRec
      BY <1>1, <1>2, <1>3 DEF IfaceRec
    <2> QED BY <1>1, <1>2, <2>1, <2>2 DEF IfaceRec
  <1>5. count' \in [change : 0..MaxChanges, signal : 0..MaxSignals, failure : 0..MaxFailures,
                    adoption : 0..MaxAdoptions] /\ count'.signal = count.signal
    <2>1. count' = [count EXCEPT !.failure = @ + p.failed]
      BY DEF PortIs
    <2>2. count \in [change : 0..MaxChanges, signal : 0..MaxSignals, failure : 0..MaxFailures,
                     adoption : 0..MaxAdoptions]
      BY DEF TypeOK
    <2>3. count.failure + p.failed \in 0 .. MaxFailures
      <3>1. MaxFailures \in Nat /\ count.failure \in 0 .. MaxFailures
        BY <2>2, LinkAssumption
      <3> QED BY <1>3, <3>1
    <2> QED BY <2>1, <2>2, <2>3
  <1> QED
    BY <1>1, <1>2, <1>3, <1>4, <1>5 DEF PortFrame, PortIs

(* A step that keeps the list, and the indexes and clients of its objects. *)
LEMMA ObjectFrame ==
    ASSUME ObjectInv, all_if' = all_if, NEW S, Live \subseteq S,
           \A o \in S : iface'[o].index = iface[o].index /\ iface'[o].client = iface[o].client,
           parentlink' \in {NULL, parentlink}, dag_bestparentif' = dag_bestparentif
    PROVE  ObjectInv' /\ \A o \in Live : iface'[o].index = iface[o].index
  <1>1. Live' = Live
    BY DEF Live
  <1>2. ClientInv'
    BY <1>1 DEF ObjectInv, ClientInv
  <1>3. ParentIfIsItsLink'
    BY <1>1 DEF ObjectInv, ParentIfIsItsLink
  <1> QED
    BY <1>2, <1>3 DEF ObjectInv

----------------------------------------------------------------------------
(* Every step keeps IfInv. *)

Counts == [change : 0..MaxChanges, signal : 0..MaxSignals, failure : 0..MaxFailures,
           adoption : 0..MaxAdoptions]

(* The ranges of the counters. *)
LEMMA CountFacts ==
    /\ MaxChanges \in Nat /\ MaxSignals \in Nat /\ MaxFailures \in Nat /\ MaxAdoptions \in Nat
    /\ TypeOK => count \in Counts
  BY LinkAssumption DEF TypeOK, Counts

(* The kernel.  The program's own variables keep their values. *)
LEMMA KernelStep ==
    ASSUME IfInv, NEW i \in Link,
           LinkUp(i) \/ LinkDown(i) \/ LinkDeleted(i) \/ AddressAdded(i) \/ AddressRemoved(i)
           \/ Ipv6Enabled(i)
    PROVE  IfInv'
  <1>1. Queue /\ ListInv /\ DumpInv /\ ObjectInv /\ TypeOK
    BY DEF IfInv, Queue
  <1>2. Change
    BY DEF LinkUp, LinkDown, LinkDeleted, AddressAdded, AddressRemoved, Ipv6Enabled
  <1>3. /\ count.change < MaxChanges /\ count' = [count EXCEPT !.change = @ + 1]
        /\ UNCHANGED <<pc, pos, dump, iface, all_if, loopback_interface, nd_socket, dag_bestparentif,
                       dag_parentif, dag_announced, dao_needed, events, signal_usr1, dead>>
    BY <1>2 DEF Change, listvars
  <1>4. count' \in Counts /\ count'.signal = count.signal
    <2>1. count.change + 1 \in 0 .. MaxChanges /\ count \in Counts
      <3>1. count \in Counts /\ count.change \in 0 .. MaxChanges
        BY <1>1, CountFacts DEF Counts
      <3> QED BY <1>3, <3>1, CountFacts
    <2> QED BY <1>3, <2>1 DEF Counts
  <1>5. /\ link' \in [Link -> {"absent", "down", "up", "gone"}] /\ address' \subseteq Link
        /\ off' \subseteq Link /\ members' \subseteq Link /\ parentlink' \in {NULL, parentlink}
    <2>1. /\ link \in [Link -> {"absent", "down", "up", "gone"}] /\ address \subseteq Link
          /\ off \subseteq Link /\ members \subseteq Link
      BY <1>1 DEF TypeOK
    <2> QED BY <2>1 DEF LinkUp, LinkDown, LinkDeleted, AddressAdded, AddressRemoved, Ipv6Enabled
  <1>6. socket' \in Seq(Message) /\ lost' \subseteq Link
    <2>0. socket \in Seq(Message) /\ lost \subseteq Link
      BY <1>1 DEF TypeOK
    <2>1. ASSUME NEW t \in {"NEWLINK", "DELLINK", "NEWADDR", "DELADDR"}, NEW u \in BOOLEAN,
                 Notify(Msg(t, i, u, 0))
          PROVE  socket' \in Seq(Message) /\ lost' \subseteq Link
      <3>1. Msg(t, i, u, 0) \in Message /\ Msg(t, i, u, 0).idx = i
        BY MsgType, LimitFacts DEF Msg
      <3> QED BY <2>0, <2>1, <3>1, NotifyFacts
    <2>2. CASE Ipv6Enabled(i)
      BY <2>0, <2>2 DEF Ipv6Enabled
    <2> QED BY <2>1, <2>2 DEF LinkUp, LinkDown, LinkDeleted, AddressAdded, AddressRemoved
  <1>7. TypeOK'
    <2>1. parentlink' \in Link \cup {NULL}
      BY <1>1, <1>5 DEF TypeOK
    <2> QED BY <1>1, <1>3, <1>4, <1>5, <1>6, <2>1 DEF TypeOK, Counts
  <1>8. DumpInv'
    BY <1>1, <1>3, <1>4 DEF DumpInv
  <1>9. ObjectInv' /\ ListInv'
    BY <1>1, <1>3, <1>5, ObjectFrame, SameList
  <1>10. AnswerInv' /\ KernelInv' /\ FollowInv' /\ LoInv'
    <2>1. CASE Ipv6Enabled(i)
      <3>1. UNCHANGED <<link, address, socket, lost, parentlink>>
        BY <2>1 DEF Ipv6Enabled
      <3>2. parentlink' # NULL => Present(parentlink')
        BY <1>1, <3>1 DEF Queue, KernelInv
      <3> QED BY <1>1, <1>3, <3>1, <3>2, FrameQueue
    <2> QED BY <1>1, <2>1, LinkUpQueue, LinkDownQueue, LinkDeletedQueue, AddressAddedQueue,
               AddressRemovedQueue
  <1> QED
    BY <1>7, <1>8, <1>9, <1>10 DEF IfInv, Queue

(* SIGUSR1 *)
LEMMA SignalStep ==
    ASSUME IfInv, Signal
    PROVE  IfInv'
  <1>1. Queue /\ ListInv /\ DumpInv /\ ObjectInv /\ TypeOK
    BY DEF IfInv, Queue
  <1>2. /\ count.signal < MaxSignals /\ count' = [count EXCEPT !.signal = @ + 1]
        /\ signal_usr1' = TRUE /\ pc # "scan"
        /\ UNCHANGED <<link, address, off, members, socket, pc, pos, dump, iface, all_if,
                       loopback_interface, nd_socket, dag_bestparentif, dag_parentif,
                       dag_announced, dao_needed, events, parentlink, dead, lost>>
    BY DEF Signal, kernel, listvars, dagvars
  <1>3. count' \in Counts /\ count'.signal = count.signal + 1 /\ count.signal \in Nat
    <2>1. count \in Counts /\ count.signal \in 0 .. MaxSignals
      BY <1>1, CountFacts DEF Counts
    <2>2. count.signal + 1 \in 0 .. MaxSignals
      BY <1>2, <2>1, CountFacts
    <2> QED BY <1>2, <2>1, <2>2, CountFacts DEF Counts
  <1>4. TypeOK'
    BY <1>1, <1>2, <1>3 DEF TypeOK, Counts
  <1>5. DumpInv'
    <2>1. dump \in Nat
      BY <1>1, LimitFacts DEF TypeOK, Limit
    <2> QED BY <1>1, <1>2, <1>3, <2>1 DEF DumpInv
  <1>6. ObjectInv' /\ ListInv'
    BY <1>1, <1>2, ObjectFrame, SameList
  <1>7. AnswerInv' /\ KernelInv' /\ FollowInv' /\ LoInv'
    <2>1. parentlink' # NULL => Present(parentlink')
      BY <1>1, <1>2 DEF Queue, KernelInv
    <2> QED BY <1>1, <1>2, <2>1, FrameQueue
  <1> QED
    BY <1>4, <1>5, <1>6, <1>7 DEF IfInv, Queue

(* A rescan was asked for by a signal, and a request is one of two of it. *)
LEMMA DumpBound ==
    ASSUME IfInv
    PROVE  /\ dump \in Nat /\ count.signal \in Nat
           /\ pc = "scan" \/ (pc = "poll" /\ signal_usr1) => dump + 2 \in 1 .. Limit
           /\ pc \in {"links0", "links"} => dump + 1 \in 1 .. Limit /\ dump # 0
  <1>1. dump \in Nat /\ count.signal \in Nat /\ count.signal <= MaxSignals
    <2>1. count.signal \in 0 .. MaxSignals /\ dump \in 0 .. Limit
      BY CountFacts DEF IfInv, Queue, TypeOK, Counts, Limit
    <2> QED BY <2>1, LimitFacts
  <1>2. 2 * (1 + count.signal) <= Limit
    BY <1>1, LimitFacts
  <1>3. pc = "scan" => dump + 2 \in 1 .. Limit
    BY <1>1, LimitFacts DEF IfInv, DumpInv
  <1>4. pc = "poll" /\ signal_usr1 => dump + 2 \in 1 .. Limit
    BY <1>1, <1>2, LimitFacts DEF IfInv, DumpInv
  <1>5. pc = "links0" => dump + 1 \in 1 .. Limit /\ dump # 0
    BY <1>1, LimitFacts DEF IfInv, DumpInv
  <1>6. pc = "links" => dump + 1 \in 1 .. Limit /\ dump # 0
    BY <1>1, <1>2, LimitFacts DEF IfInv, DumpInv
  <1> QED
    BY <1>1, <1>3, <1>4, <1>5, <1>6

(* What the steps of the netlink socket leave alone. *)
NetlinkFrame ==
    /\ UNCHANGED <<link, address, off, members, nd_socket, count, parentlink, dag_bestparentif,
                   dag_parentif>>

(* scan_devices begins. *)
LEMMA ScanStartStep ==
    ASSUME IfInv, ScanStart
    PROVE  IfInv'
  <1>1. Queue /\ ListInv /\ DumpInv /\ ObjectInv /\ TypeOK
    BY DEF IfInv, Queue
  <1>2. /\ NetlinkFrame /\ pc' = (IF pc = "scan" THEN "links0" ELSE "links")
        /\ pc = "scan" \/ (pc = "poll" /\ signal_usr1)
        /\ UNCHANGED <<pos, iface, all_if, loopback_interface, dag_announced, dao_needed, events,
                       signal_usr1, dead, lost>>
    BY DEF ScanStart, NetlinkFrame, program, kernel, listvars
  <1>3. dump \in Nat /\ count.signal \in Nat /\ dump + 2 \in 1 .. Limit
    BY <1>2, DumpBound
  <1>4. dump + 1 \in 1 .. Limit
    BY <1>3, LimitFacts
  <1>5. /\ AnswerInv' /\ KernelInv' /\ FollowInv' /\ LoInv'
        /\ socket' \in Seq(Message) /\ dump' = dump + 1
    BY <1>1, <1>3, <1>4, ScanStartQueue
  <1>6. TypeOK'
    <2>1. dump' \in 0 .. 2 * (1 + MaxSignals)
      BY <1>4, <1>5, LimitFacts
    <2> QED BY <1>1, <1>2, <1>5, <2>1 DEF TypeOK, NetlinkFrame
  <1>7. DumpInv'
    <2>1. CASE pc = "scan"
      BY <1>1, <1>2, <1>3, <1>5, <2>1 DEF DumpInv, NetlinkFrame
    <2>2. CASE pc = "poll" /\ signal_usr1
      BY <1>1, <1>2, <1>3, <1>5, <2>2 DEF DumpInv, NetlinkFrame
    <2> QED BY <1>2, <2>1, <2>2
  <1>8. ObjectInv' /\ ListInv'
    BY <1>1, <1>2, ObjectFrame, SameList DEF NetlinkFrame
  <1> QED
    BY <1>5, <1>6, <1>7, <1>8 DEF IfInv, Queue

(* The first dump is done, and the second one asked for. *)
LEMMA LinksDoneStep ==
    ASSUME IfInv, LinksDone
    PROVE  IfInv'
  <1>1. Queue /\ ListInv /\ DumpInv /\ ObjectInv /\ TypeOK
    BY DEF IfInv, Queue
  <1>2. /\ NetlinkFrame /\ pc' = (IF pc = "links0" THEN "addrs0" ELSE "addrs")
        /\ pc \in {"links0", "links"}
        /\ UNCHANGED <<pos, iface, all_if, loopback_interface, dag_announced, dao_needed, events,
                       signal_usr1, dead, lost>>
    BY DEF LinksDone, NetlinkFrame, program, kernel, listvars
  <1>3. dump \in Nat \ {0} /\ count.signal \in Nat /\ dump + 1 \in 1 .. Limit
    BY <1>2, DumpBound
  <1>5. /\ AnswerInv' /\ KernelInv' /\ FollowInv' /\ LoInv'
        /\ socket' \in Seq(Message) /\ dump' = dump + 1
    BY <1>1, <1>3, LinksDoneQueue
  <1>6. TypeOK'
    <2>1. dump' \in 0 .. 2 * (1 + MaxSignals)
      BY <1>3, <1>5, LimitFacts
    <2> QED BY <1>1, <1>2, <1>5, <2>1 DEF TypeOK, NetlinkFrame
  <1>7. DumpInv'
    BY <1>1, <1>2, <1>3, <1>5 DEF DumpInv, NetlinkFrame
  <1>8. ObjectInv' /\ ListInv'
    BY <1>1, <1>2, ObjectFrame, SameList DEF NetlinkFrame
  <1> QED
    BY <1>5, <1>6, <1>7, <1>8 DEF IfInv, Queue

(* The second dump is done. *)
LEMMA AddrsDoneStep ==
    ASSUME IfInv, AddrsDone
    PROVE  IfInv'
  <1>1. Queue /\ ListInv /\ DumpInv /\ ObjectInv /\ TypeOK
    BY DEF IfInv, Queue
  <1>2. /\ NetlinkFrame /\ pc \in {"addrs0", "addrs"}
        /\ UNCHANGED <<dump, iface, all_if, loopback_interface, dag_announced, dead, lost>>
        /\ \/ pc = "addrs0" /\ pc' = "setup" /\ pos' = 1 /\ UNCHANGED <<dao_needed, events, signal_usr1>>
           \/ pc = "addrs" /\ pc' = "poll" /\ signal_usr1' = FALSE /\ MaybeSendDao /\ UNCHANGED pos
    BY DEF AddrsDone, NetlinkFrame, program, kernel, listvars
  <1>3. dump \in Nat /\ count.signal \in Nat
    BY DumpBound
  <1>4. AnswerInv' /\ KernelInv' /\ FollowInv' /\ LoInv' /\ socket' \in Seq(Message)
    BY <1>1, AddrsDoneQueue
  <1>5. /\ pos' \in Nat /\ dao_needed' \in BOOLEAN /\ signal_usr1' \in BOOLEAN
        /\ events' \subseteq {"dio", "dao"}
    <2>1. /\ pos \in Nat /\ dao_needed \in BOOLEAN /\ signal_usr1 \in BOOLEAN
          /\ events \subseteq {"dio", "dao"}
      BY <1>1 DEF TypeOK
    <2>2. CASE pc = "addrs0"
      <3>1. pos' = 1 /\ dao_needed' = dao_needed /\ signal_usr1' = signal_usr1 /\ events' = events
        BY <1>2, <2>2
      <3>2. dao_needed' \in BOOLEAN /\ signal_usr1' \in BOOLEAN
        BY <2>1, <3>1
      <3> QED BY <2>1, <3>1, <3>2
    <2>3. CASE pc = "addrs"
      <3>1. pos' = pos /\ signal_usr1' = FALSE /\ MaybeSendDao
        BY <1>2, <2>3
      <3>2. dao_needed' \in BOOLEAN
        BY <3>1, Zenon DEF MaybeSendDao
      <3>3. events' \subseteq {"dio", "dao"}
        BY <2>1, <3>1 DEF MaybeSendDao
      <3> QED BY <2>1, <3>1, <3>2, <3>3
    <2> QED BY <1>2, <2>2, <2>3
  <1>6. TypeOK'
    BY <1>1, <1>2, <1>4, <1>5 DEF TypeOK, NetlinkFrame
  <1>7. DumpInv'
    BY <1>1, <1>2, <1>3 DEF DumpInv, NetlinkFrame
  <1>8. ObjectInv' /\ ListInv'
    BY <1>1, <1>2, ObjectFrame, SameList DEF NetlinkFrame
  <1> QED
    BY <1>4, <1>6, <1>7, <1>8 DEF IfInv, Queue

(* A notification is dropped by rtnl_dump_filter. *)
LEMMA SkipStep ==
    ASSUME IfInv, SkipIt
    PROVE  IfInv'
  <1> DEFINE m == Head(socket)
  <1>1. Queue /\ ListInv /\ DumpInv /\ ObjectInv /\ TypeOK
    BY DEF IfInv, Queue
  <1>2. /\ NetlinkFrame /\ Scanning /\ socket # <<>> /\ m.seq # dump /\ socket' = Tail(socket)
        /\ lost' = IF Repeated(m) THEN lost ELSE lost \cup {m.idx}
        /\ UNCHANGED <<pc, pos, dump, iface, all_if, loopback_interface, dag_announced, dao_needed,
                       events, signal_usr1, dead>>
    BY DEF SkipIt, NetlinkFrame, program, kernel, listvars
  <1>3. socket' \in Seq(Message) /\ m \in Message /\ m = socket[1] /\ 1 \in DOMAIN socket
    BY <1>1, <1>2, ReadFacts DEF TypeOK
  <1>4. m.type # "DONE" /\ m.idx \in Link
    <2>1. m.seq # 0 => m.seq = dump
      BY <1>1, <1>3 DEF Queue, AnswerInv
    <2>2. m.seq = 0
      BY <1>2, <2>1
    <2> QED BY <1>3, <2>2, MessageFacts
  <1>5. lost \subseteq lost' /\ lost' \subseteq Link
    BY <1>1, <1>2, <1>4 DEF TypeOK
  <1>6. ObjectInv' /\ ListInv' /\ Known' = Known
    BY <1>1, <1>2, ObjectFrame, SameList DEF NetlinkFrame
  <1>7. Reads(m) /\ Skips(m)
    BY <1>2, <1>4, <1>5, <1>6 DEF Reads, Skips, NetlinkFrame
  <1>8. AnswerInv' /\ KernelInv' /\ FollowInv' /\ LoInv'
    BY <1>1, <1>7, ReadAnswer, ReadFollow
  <1>9. TypeOK'
    BY <1>1, <1>2, <1>3, <1>5 DEF TypeOK, NetlinkFrame
  <1>10. DumpInv'
    BY <1>1, <1>2 DEF DumpInv, NetlinkFrame
  <1> QED
    BY <1>6, <1>8, <1>9, <1>10 DEF IfInv, Queue

(* A message is handed to gather_linkinfo. *)
LEMMA GatherStep ==
    ASSUME IfInv, Filtered \/ Listen
    PROVE  IfInv'
  <1> DEFINE m == Head(socket)
  <1>1. Queue /\ ListInv /\ DumpInv /\ ObjectInv /\ TypeOK
    BY DEF IfInv, Queue
  <1>2. /\ socket # <<>> /\ socket' = Tail(socket)
        /\ GatherLinkinfo(m)
        /\ UNCHANGED <<link, address, off, members, nd_socket, count, parentlink, pos, dump,
                       signal_usr1, lost>>
        /\ \/ pc' = pc /\ Scanning
           \/ pc \in {"poll", "listen"} /\ pc' = "listen"
    BY DEF Filtered, Listen, program, kernel
  <1>3. socket' \in Seq(Message) /\ m \in Message /\ m = socket[1] /\ 1 \in DOMAIN socket
    BY <1>1, <1>2, ReadFacts DEF TypeOK
  <1>4. m.type # "DONE" /\ m.idx \in Link
    <2>1. m.type \in {"NEWLINK", "DELLINK", "NEWADDR", "DELADDR"}
      BY <1>2 DEF GatherLinkinfo, AddLinkinfo, DelLinkinfo, AdddelIpinfo, DelAddrIgnored
    <2> QED BY <1>3, <2>1, MessageFacts
  <1>5. ListStep(m) /\ loopback_interface' \in Obj \cup {NULL}
    <2>1. all_if \in Seq(Obj) /\ iface \in [Obj -> IfaceRec] /\ loopback_interface \in Obj \cup {NULL}
      BY <1>1 DEF TypeOK, IfaceRec
    <2> HIDE DEF m
    <2> QED BY <1>1, <1>2, <1>4, <2>1, GatherList
  <1>6. /\ UNCHANGED <<dag_bestparentif, dag_parentif>> /\ dag_announced \subseteq dag_announced'
        /\ dag_announced' \subseteq Link /\ dao_needed' \in BOOLEAN
        /\ events' \subseteq {"dio", "dao"} /\ dead' \in BOOLEAN
    <2>0. /\ dao_needed \in BOOLEAN /\ events \subseteq {"dio", "dao"} /\ dead \in BOOLEAN
          /\ dag_announced \subseteq Link
      BY <1>1 DEF TypeOK
    <2> HIDE DEF m
    <2>1. CASE AddLinkinfo(m)
      BY <2>0, <2>1 DEF AddLinkinfo
    <2>2. CASE DelLinkinfo(m)
      BY <2>0, <2>2 DEF DelLinkinfo, Destroyed
    <2>3. CASE AdddelIpinfo(m)
      BY <1>4, <2>0, <2>3 DEF AdddelIpinfo, MaybeSendDao
    <2>4. CASE DelAddrIgnored(m)
      BY <2>0, <2>4 DEF DelAddrIgnored
    <2> QED BY <1>2, <2>1, <2>2, <2>3, <2>4 DEF GatherLinkinfo
  <1>7. Reads(m) /\ Handles(m)
    <2>1. m.type = "NEWADDR" /\ m.idx \in Known \cap Matching /\ m.idx # Lo => m.idx \in dag_announced'
      <3> HIDE DEF m
      <3> SUFFICES ASSUME m.type = "NEWADDR", m.idx \in Known, m.idx \in Matching, m.idx # Lo
                   PROVE  m.idx \in dag_announced'
        OBVIOUS
      <3>1. AdddelIpinfo(m)
        BY <1>2 DEF GatherLinkinfo, AddLinkinfo, DelLinkinfo, DelAddrIgnored
      <3>2. find_by_ifindex(m.idx) # NULL
        BY <1>1, FindFacts DEF TypeOK
      <3> QED BY <3>1, <3>2 DEF AdddelIpinfo
    <2> QED BY <1>2, <1>4, <1>5, <1>6, <2>1 DEF Reads, Handles, ListStep
  <1>8. AnswerInv' /\ KernelInv' /\ FollowInv' /\ LoInv'
    BY <1>1, <1>7, ReadAnswer, ReadFollow
  <1>9. TypeOK'
    <2>1. /\ pc' \in {"scan", "links0", "addrs0", "setup", "poll", "listen", "look", "links", "addrs"}
          /\ all_if' \in Seq(Obj)
          /\ iface' \in [Obj -> [index : Link \cup {NULL, -1}, alive : BOOLEAN, disabled : BOOLEAN,
                                 loopback : BOOLEAN, client : BOOLEAN]]
      BY <1>1, <1>2, <1>5 DEF TypeOK, ListStep, IfaceRec
    <2> QED BY <1>1, <1>2, <1>3, <1>5, <1>6, <2>1 DEF TypeOK
  <1>10. DumpInv'
    BY <1>1, <1>2 DEF DumpInv, Scanning
  <1>11. ClientInv'
    BY <1>1, <1>5 DEF ObjectInv, ClientInv, ListStep
  <1>12. ParentIfIsItsLink'
    <2> SUFFICES ASSUME parentlink # NULL
                 PROVE  dag_bestparentif \in Live' /\ iface'[dag_bestparentif].index = parentlink
      BY <1>2, <1>6 DEF ParentIfIsItsLink
    <2>1. dag_bestparentif \in Live /\ iface[dag_bestparentif].index = parentlink
      BY <1>1 DEF ObjectInv, ParentIfIsItsLink
    <2>2. ~(m.type = "DELLINK" /\ m.idx = parentlink)
      BY <1>1, <1>3 DEF Queue, KernelInv, Present
    <2> QED BY <1>5, <2>1, <2>2 DEF ListStep
  <1> QED
    BY <1>5, <1>8, <1>9, <1>10, <1>11, <1>12 DEF IfInv, Queue, ObjectInv, ListStep

(* A step of a walk along the list, or a transmission. *)
LEMMA PortStep ==
    ASSUME IfInv, PortFrame, pos' \in {pos, pos + 1}, dead' \in BOOLEAN,
           UNCHANGED <<link, address, off, socket, pc, dump, all_if, loopback_interface,
                       dag_bestparentif, dag_parentif, dag_announced, dao_needed, events,
                       parentlink, signal_usr1, lost>>
    PROVE  IfInv'
  <1>1. Queue /\ ListInv /\ DumpInv /\ ObjectInv /\ TypeOK
    BY DEF IfInv, Queue
  <1>2. Live \subseteq Obj
    BY <1>1 DEF TypeOK, Live, Range
  <1>3. /\ \A o \in Obj : iface'[o].index = iface[o].index /\ iface'[o].client = iface[o].client
        /\ count'.signal = count.signal
    BY DEF PortFrame
  <1>4. ObjectInv' /\ \A o \in Live : iface'[o].index = iface[o].index
    BY <1>1, <1>2, <1>3, ObjectFrame
  <1>5. AnswerInv' /\ KernelInv' /\ FollowInv' /\ LoInv' /\ ListInv'
    <2>1. parentlink' # NULL => Present(parentlink')
      BY <1>1 DEF Queue, KernelInv
    <2> QED BY <1>1, <1>4, <2>1, FrameQueue
  <1>6. pos \in Nat /\ pos' \in Nat /\ (pos > 0 => pos' > 0)
    <2>1. pos \in Nat
      BY <1>1 DEF TypeOK
    <2> QED BY <2>1
  <1>7. TypeOK'
    BY <1>1, <1>6 DEF TypeOK, PortFrame, IfaceRec
  <1>8. DumpInv'
    BY <1>1, <1>3, <1>6 DEF DumpInv
  <1> QED
    BY <1>4, <1>5, <1>7, <1>8 DEF IfInv, Queue

(* Nothing sent. *)
LEMMA NoPort ==
    ASSUME TypeOK, UNCHANGED <<iface, nd_socket, members, count>>
    PROVE  PortFrame
  BY DEF TypeOK, PortFrame, IfaceRec

(* Where a walk stands. *)
LEMMA WalkFacts ==
    ASSUME IfInv, pc \in {"setup", "look"}, pos <= Len(all_if)
    PROVE  all_if[pos] \in Live /\ all_if[pos] \in Obj
  <1>1. pos \in Nat /\ pos > 0 /\ all_if \in Seq(Obj)
    BY DEF IfInv, Queue, TypeOK, DumpInv
  <1>2. pos \in DOMAIN all_if
    BY <1>1
  <1> QED
    BY <1>1, <1>2 DEF Live, Range

(* One interface of the walk at the start. *)
LEMMA SetupStepStep ==
    ASSUME IfInv, SetupStep
    PROVE  IfInv'
  <1> DEFINE o == all_if[pos]
  <1>1. TypeOK /\ ListInv
    BY DEF IfInv, Queue
  <1>2. /\ pc = "setup" /\ pos <= Len(all_if) /\ pos' = pos + 1
        /\ UNCHANGED <<link, address, off, socket, pc, dump, all_if, loopback_interface,
                       dag_bestparentif, dag_parentif, dag_announced, dao_needed, events,
                       parentlink, signal_usr1, dead, lost>>
        /\ \/ \E p \in Setup(Port(o)) : PortIs(o, p)
           \/ UNCHANGED <<iface, nd_socket, members, count>>
    BY DEF SetupStep, dagvars
  <1>3. o \in Live /\ o \in Obj
    BY <1>2, WalkFacts
  <1> HIDE DEF o
  <1>4. PortFrame
    <2>1. ASSUME NEW p \in Setup(Port(o)), PortIs(o, p) PROVE PortFrame
      <3>1. GoodPort(p)
        BY <1>1, <1>3, PortGood, SetupGood
      <3> QED BY <1>1, <1>3, <2>1, <3>1, PortEffect
    <2> QED BY <1>1, <1>2, <2>1, NoPort
  <1>5. dead' \in BOOLEAN
    BY <1>1, <1>2 DEF TypeOK
  <1> QED
    BY <1>2, <1>4, <1>5, PortStep

(* One interface of look_for_new_interfaces. *)
LEMMA LookStepStep ==
    ASSUME IfInv, LookStep
    PROVE  IfInv'
  <1> DEFINE o == all_if[pos]
  <1>1. TypeOK /\ ListInv
    BY DEF IfInv, Queue
  <1>2. /\ pc = "look" /\ pos <= Len(all_if) /\ pos' = pos + 1
        /\ UNCHANGED <<link, address, off, socket, pc, dump, all_if, loopback_interface,
                       dag_bestparentif, dag_parentif, dag_announced, dao_needed, events,
                       parentlink, signal_usr1, dead, lost>>
        /\ \/ \E p \in Setup(Port(o)) : \E q \in SendRawIcmp([p EXCEPT !.ok = TRUE]) : PortIs(o, q)
           \/ UNCHANGED <<iface, nd_socket, members, count>>
    BY DEF LookStep, dagvars
  <1>3. o \in Live /\ o \in Obj
    BY <1>2, WalkFacts
  <1> HIDE DEF o
  <1>4. PortFrame
    <2>1. ASSUME NEW p \in Setup(Port(o)), NEW q \in SendRawIcmp([p EXCEPT !.ok = TRUE]), PortIs(o, q)
          PROVE  PortFrame
      <3>1. GoodPort(p)
        BY <1>1, <1>3, PortGood, SetupGood
      <3>2. GoodPort([p EXCEPT !.ok = TRUE])
        BY <3>1 DEF GoodPort
      <3>3. GoodPort(q)
        BY <3>2, SendGood
      <3> QED BY <1>1, <1>3, <2>1, <3>3, PortEffect
    <2> QED BY <1>1, <1>2, <2>1, NoPort
  <1>5. dead' \in BOOLEAN
    BY <1>1, <1>2 DEF TypeOK
  <1> QED
    BY <1>2, <1>4, <1>5, PortStep

(* A DAO through dag_bestparentif, whatever that points to. *)
LEMMA SendDaoStep ==
    ASSUME IfInv, SendDao
    PROVE  IfInv'
  <1> DEFINE o == dag_bestparentif
  <1>1. TypeOK /\ ListInv /\ Live \subseteq Obj
    BY DEF IfInv, Queue, TypeOK, Live, Range
  <1>2. /\ UNCHANGED <<link, address, off, socket, pc, pos, dump, all_if, loopback_interface,
                       dag_bestparentif, dag_parentif, dag_announced, dao_needed, events,
                       parentlink, signal_usr1, lost>>
        /\ \/ o \in Live /\ UNCHANGED dead /\ \E p \in SendRawIcmp(Port(o)) : PortIs(o, p)
           \/ dead' \in BOOLEAN /\ UNCHANGED <<iface, nd_socket, members, count>>
    BY DEF SendDao, dagvars
  <1>3. PortFrame
    <2>1. ASSUME o \in Live, NEW p \in SendRawIcmp(Port(o)), PortIs(o, p) PROVE PortFrame
      <3>0. o \in Obj
        BY <1>1, <2>1
      <3>1. GoodPort(p)
        BY <1>1, <3>0, PortGood, SendGood
      <3> QED BY <1>1, <2>1, <3>1, PortEffect
    <2> QED BY <1>1, <1>2, <2>1, NoPort
  <1>4. dead' \in BOOLEAN
    BY <1>1, <1>2 DEF TypeOK
  <1> QED
    BY <1>2, <1>3, <1>4, PortStep

(* A DIO on every active interface. *)
LEMMA SendDioAllStep ==
    ASSUME IfInv, SendDioAll
    PROVE  IfInv'
  <1>1. TypeOK /\ ListInv
    BY DEF IfInv, Queue
  <1>2. /\ iface' = [o \in Obj |-> IF o \in Sending
                               THEN [iface[o] EXCEPT !.alive = CheckMembership(Port(o)).alive]
                               ELSE iface[o]]
        /\ members' = members \cup {iface[o].index : o \in {x \in Sending : CheckMembership(Port(x)).joined}}
        /\ UNCHANGED <<link, address, off, socket, pc, pos, dump, all_if, loopback_interface,
                       dag_bestparentif, dag_parentif, dag_announced, dao_needed, events,
                       parentlink, signal_usr1, lost, nd_socket, dead, count>>
    BY DEF SendDioAll, dagvars
  <1>3. iface \in [Obj -> IfaceRec] /\ members \subseteq Link
    BY <1>1 DEF TypeOK, IfaceRec
  <1>4. \A o \in Obj : CheckMembership(Port(o)).alive \in BOOLEAN
    <2>1. \A o \in Obj : GoodPort(CheckMembership(Port(o)))
      BY <1>1, PortGood, JoinGood
    <2> QED BY <2>1 DEF GoodPort
  <1>5. ASSUME NEW o \in Obj
        PROVE  iface'[o] \in IfaceRec /\ iface'[o].index = iface[o].index
               /\ iface'[o].client = iface[o].client
    <2>1. iface[o] \in IfaceRec /\ CheckMembership(Port(o)).alive \in BOOLEAN
      BY <1>3, <1>4
    <2>2. iface'[o] = IF o \in Sending
                      THEN [iface[o] EXCEPT !.alive = CheckMembership(Port(o)).alive]
                      ELSE iface[o]
      BY <1>2
    <2> QED BY <2>1, <2>2 DEF IfaceRec
  <1>6. members' \subseteq Link
    <2>1. \A o \in Sending : iface[o].index \in Link
      BY <1>1 DEF Sending, ListInv, Known
    <2> QED BY <1>2, <1>3, <2>1
  <1>7. iface' \in [Obj -> IfaceRec]
    BY <1>2, <1>5
  <1>8. PortFrame
    BY <1>1, <1>2, <1>5, <1>6, <1>7 DEF PortFrame, TypeOK
  <1>9. dead' \in BOOLEAN
    BY <1>1, <1>2 DEF TypeOK
  <1> QED
    BY <1>2, <1>8, <1>9, PortStep

(* The walk of main ends: -i gave its interface a GRASP client. *)
LEMMA SetupEndStep ==
    ASSUME IfInv, SetupEnd
    PROVE  IfInv'
  <1>1. Queue /\ ListInv /\ DumpInv /\ ObjectInv /\ TypeOK
    BY DEF IfInv, Queue
  <1>2. /\ NetlinkFrame /\ pc = "setup" /\ pc' = "poll" /\ pos' = 0 /\ events' = {"dio"}
        /\ iface' = [o \in Obj |-> [iface[o] EXCEPT !.client =
                        Chosen # NULL /\ o = find_by_ifindex(Chosen)]]
        /\ UNCHANGED <<socket, dump, all_if, loopback_interface, dag_announced, dao_needed,
                       signal_usr1, dead, lost>>
    BY DEF SetupEnd, NetlinkFrame, program, kernel
  <1>3. iface \in [Obj -> IfaceRec] /\ all_if \in Seq(Obj) /\ Live \subseteq Obj
    BY <1>1 DEF TypeOK, IfaceRec, Live, Range
  <1>4. ASSUME NEW o \in Obj
        PROVE  /\ iface'[o] \in IfaceRec /\ iface'[o].index = iface[o].index
               /\ iface'[o].client => Chosen # NULL /\ o = find_by_ifindex(Chosen)
    <2> DEFINE c == Chosen # NULL /\ o = find_by_ifindex(Chosen)
    <2>1. c \in BOOLEAN
      OBVIOUS
    <2>2. iface'[o] = [iface[o] EXCEPT !.client = c] /\ iface[o] \in IfaceRec
      BY <1>2, <1>3
    <2>3. c => Chosen # NULL /\ o = find_by_ifindex(Chosen)
      OBVIOUS
    <2> HIDE DEF c
    <2> QED BY <2>1, <2>2, <2>3 DEF IfaceRec
  <1>5. iface' \in [Obj -> IfaceRec]
    BY <1>2, <1>4
  <1>6. Live' = Live
    BY <1>2 DEF Live
  <1>7. ClientInv'
    <2> SUFFICES ASSUME NEW o \in Live, iface'[o].client PROVE iface'[o].index = Chosen
      BY <1>6 DEF ClientInv
    <2>1. o = find_by_ifindex(Chosen) /\ o # NULL /\ iface'[o].index = iface[o].index
      BY <1>3, <1>4, LinkAssumption
    <2> QED BY <1>3, <2>1, FindFacts
  <1>8. ParentIfIsItsLink'
    BY <1>1, <1>2, <1>3, <1>4, <1>6 DEF ObjectInv, ParentIfIsItsLink, NetlinkFrame
  <1>9. AnswerInv' /\ KernelInv' /\ FollowInv' /\ LoInv' /\ ListInv'
    <2>1. parentlink' # NULL => Present(parentlink')
      BY <1>1, <1>2 DEF Queue, KernelInv, NetlinkFrame
    <2>2. \A o \in Live : iface'[o].index = iface[o].index
      BY <1>3, <1>4
    <2>3. {pc, pc'} \subseteq {"setup", "poll", "listen", "look"}
      BY <1>2
    <2> QED BY <1>1, <1>2, <2>1, <2>2, <2>3, FrameQueue DEF NetlinkFrame
  <1>10. TypeOK'
    BY <1>1, <1>2, <1>5 DEF TypeOK, NetlinkFrame, IfaceRec
  <1>11. DumpInv'
    <2>1. dump \in Nat /\ count.signal \in Nat
      BY DumpBound
    <2> QED BY <1>1, <1>2, <2>1 DEF DumpInv, NetlinkFrame
  <1> QED
    BY <1>7, <1>8, <1>9, <1>10, <1>11 DEF IfInv, Queue, ObjectInv

(* rtnl_listen returns, and look_for_new_interfaces ends. *)
LEMMA WalkStep ==
    ASSUME IfInv, ListenEnd \/ LookEnd
    PROVE  IfInv'
  <1>1. Queue /\ ListInv /\ DumpInv /\ ObjectInv /\ TypeOK
    BY DEF IfInv, Queue
  <1>2. /\ NetlinkFrame
        /\ \/ pc = "listen" /\ pc' = "look" /\ pos' = 1
           \/ pc = "look" /\ pc' = "poll" /\ pos' = 0
        /\ UNCHANGED <<socket, dump, iface, all_if, loopback_interface, dag_announced, dao_needed,
                       events, signal_usr1, dead, lost>>
    BY DEF ListenEnd, LookEnd, NetlinkFrame, program, kernel, listvars
  <1>3. ObjectInv'
    BY <1>1, <1>2, ObjectFrame DEF NetlinkFrame
  <1>4. AnswerInv' /\ KernelInv' /\ FollowInv' /\ LoInv' /\ ListInv'
    <2>1. parentlink' # NULL => Present(parentlink')
      BY <1>1, <1>2 DEF Queue, KernelInv, NetlinkFrame
    <2>2. {pc, pc'} \subseteq {"setup", "poll", "listen", "look"}
      BY <1>2
    <2> QED BY <1>1, <1>2, <2>1, <2>2, FrameQueue DEF NetlinkFrame
  <1>5. TypeOK'
    BY <1>1, <1>2 DEF TypeOK, NetlinkFrame
  <1>6. DumpInv'
    BY <1>1, <1>2 DEF DumpInv, NetlinkFrame
  <1> QED
    BY <1>3, <1>4, <1>5, <1>6 DEF IfInv, Queue

(* The object that a DIO is handled by is that of the link it came on. *)
LEMMA ReceiveDioStep ==
    ASSUME IfInv, NEW i \in Link, ReceiveDio(i)
    PROVE  IfInv'
  <1>1. Queue /\ ListInv /\ DumpInv /\ ObjectInv /\ TypeOK
    BY DEF IfInv, Queue
  <1>2. /\ count.adoption < MaxAdoptions /\ count' = [count EXCEPT !.adoption = @ + 1]
        /\ link[i] = "up" /\ find_by_ifindex(i) # NULL
        /\ dag_bestparentif' = find_by_ifindex(i) /\ parentlink' = i
        /\ dao_needed' = FALSE /\ events' = events \cup {"dao"}
        /\ UNCHANGED <<link, address, off, members, socket, pc, pos, dump, iface, all_if,
                       loopback_interface, nd_socket, dag_parentif, dag_announced, signal_usr1,
                       dead, lost>>
    BY DEF ReceiveDio, kernel, listvars
  <1>3. /\ dag_bestparentif' \in Live /\ dag_bestparentif' \in Obj
        /\ iface[dag_bestparentif'].index = i
    BY <1>1, <1>2, FindFacts DEF TypeOK
  <1>4. Live' = Live
    BY <1>2 DEF Live
  <1>5. ClientInv' /\ ParentIfIsItsLink'
    BY <1>1, <1>2, <1>3, <1>4 DEF ObjectInv, ClientInv, ParentIfIsItsLink
  <1>6. AnswerInv' /\ KernelInv' /\ FollowInv' /\ LoInv' /\ ListInv'
    <2>1. Present(parentlink')
      BY <1>2 DEF Present
    <2> QED BY <1>1, <1>2, <2>1, FrameQueue
  <1>7. count' \in Counts /\ count'.signal = count.signal
    <2>1. count.adoption + 1 \in 0 .. MaxAdoptions /\ count \in Counts
      <3>1. count \in Counts /\ count.adoption \in 0 .. MaxAdoptions
        BY <1>1, CountFacts DEF Counts
      <3> QED BY <1>2, <3>1, CountFacts
    <2> QED BY <1>2, <2>1 DEF Counts
  <1>8. TypeOK'
    BY <1>1, <1>2, <1>3, <1>7 DEF TypeOK, Counts
  <1>9. DumpInv'
    BY <1>1, <1>2, <1>7 DEF DumpInv
  <1> QED
    BY <1>5, <1>6, <1>8, <1>9 DEF IfInv, Queue, ObjectInv

(* dag_parentif becomes dag_bestparentif. *)
LEMMA CommitParentStep ==
    ASSUME IfInv, CommitParent
    PROVE  IfInv'
  <1>1. Queue /\ ListInv /\ DumpInv /\ ObjectInv /\ TypeOK
    BY DEF IfInv, Queue
  <1>2. /\ dag_parentif' = dag_bestparentif
        /\ UNCHANGED dead \/ dead' \in BOOLEAN
        /\ UNCHANGED <<link, address, off, members, nd_socket, count, parentlink, socket, pos, pc,
                       dump, iface, all_if, loopback_interface, dag_bestparentif, dag_announced,
                       dao_needed, events, signal_usr1, lost>>
    BY DEF CommitParent, program, kernel, listvars
  <1>3. ObjectInv'
    BY <1>1, <1>2, ObjectFrame
  <1>4. AnswerInv' /\ KernelInv' /\ FollowInv' /\ LoInv' /\ ListInv'
    <2>1. parentlink' # NULL => Present(parentlink')
      BY <1>1, <1>2 DEF Queue, KernelInv
    <2> QED BY <1>1, <1>2, <2>1, FrameQueue
  <1>5. dead' \in BOOLEAN
    BY <1>1, <1>2 DEF TypeOK
  <1>6. TypeOK'
    BY <1>1, <1>2, <1>5 DEF TypeOK
  <1>7. DumpInv'
    BY <1>1, <1>2 DEF DumpInv
  <1> QED
    BY <1>3, <1>4, <1>6, <1>7 DEF IfInv, Queue

(* A stuttering step. *)
LEMMA StutterStep ==
    ASSUME IfInv, UNCHANGED vars
    PROVE  IfInv'
  <1>1. Queue /\ ListInv /\ DumpInv /\ ObjectInv /\ TypeOK
    BY DEF IfInv, Queue
  <1>2. UNCHANGED <<link, address, off, members, nd_socket, count, parentlink, socket, pos, pc,
                    dump, iface, all_if, loopback_interface, dag_bestparentif, dag_parentif,
                    dag_announced, dao_needed, events, signal_usr1, dead, lost>>
    BY DEF vars, kernel, listvars, dagvars
  <1>3. PortFrame
    BY <1>1, <1>2, NoPort
  <1>4. dead' \in BOOLEAN
    BY <1>1, <1>2 DEF TypeOK
  <1> QED
    BY <1>2, <1>3, <1>4, PortStep

(* Every step keeps IfInv. *)
LEMMA NextInv ==
    ASSUME IfInv, [Next]_vars
    PROVE  IfInv'
  <1>1. CASE UNCHANGED vars
    BY <1>1, StutterStep
  <1>2. CASE Kernel
    BY <1>2, KernelStep DEF Kernel
  <1>3. CASE Signal
    BY <1>3, SignalStep
  <1>4. CASE Loop
    BY <1>4, ScanStartStep, SkipStep, GatherStep, LinksDoneStep, AddrsDoneStep, SetupStepStep,
       SetupEndStep, WalkStep, LookStepStep DEF Loop
  <1>5. CASE SendDioAll \/ SendDao \/ CommitParent \/ \E i \in Link : ReceiveDio(i)
    BY <1>5, SendDioAllStep, SendDaoStep, CommitParentStep, ReceiveDioStep
  <1> QED
    BY <1>1, <1>2, <1>3, <1>4, <1>5 DEF Next

(* IfInv holds at first. *)
LEMMA InitInv ==
    ASSUME Init
    PROVE  IfInv
  <1>1. /\ Live = {} /\ Known = {} /\ socket = <<>> /\ DOMAIN socket = {} /\ DOMAIN all_if = {}
        /\ pc = "scan" /\ all_if = <<>>
    BY DEF Init, Live, Known, Range
  <1>2. TypeOK
    <2>1. AtStart \subseteq Link /\ Ipv6Off \subseteq Link /\ Dirty \subseteq Link
      BY LinkAssumption
    <2>2. /\ link \in [Link -> {"absent", "down", "up", "gone"}] /\ off \subseteq Link
          /\ address \subseteq Link /\ members \subseteq Link
      BY <2>1 DEF Init
    <2>3. iface \in [Obj -> [index : Link \cup {NULL, -1}, alive : BOOLEAN, disabled : BOOLEAN,
                             loopback : BOOLEAN, client : BOOLEAN]]
      <3>1. NewInterface(NULL) \in [index : Link \cup {NULL, -1}, alive : BOOLEAN, disabled : BOOLEAN,
                             loopback : BOOLEAN, client : BOOLEAN]
        BY DEF NewInterface
      <3> QED BY <3>1 DEF Init
    <2>4. socket \in Seq(Message) /\ all_if \in Seq(Obj)
      BY <1>1
    <2>5. count \in [change : 0..MaxChanges, signal : 0..MaxSignals, failure : 0..MaxFailures,
                     adoption : 0..MaxAdoptions]
      BY CountFacts DEF Init
    <2>6. pos \in Nat /\ dump \in 0..2 * (1 + MaxSignals)
      BY LimitFacts DEF Init
    <2>7. {nd_socket, dao_needed, signal_usr1, dead} \subseteq BOOLEAN
      BY DEF Init
    <2>8. /\ {loopback_interface, dag_bestparentif, dag_parentif} \subseteq Obj \cup {NULL}
          /\ dag_announced \subseteq Link /\ parentlink \in Link \cup {NULL} /\ lost \subseteq Link
          /\ events \subseteq {"dio", "dao"}
      BY DEF Init
    <2> QED BY <1>1, <2>2, <2>3, <2>4, <2>5, <2>6, <2>7, <2>8 DEF TypeOK
  <1>3. AnswerInv
    BY <1>1 DEF AnswerInv, Scanning
  <1>4. KernelInv
    <2>1. link[Lo] = "up"
      BY LinkAssumption DEF Init
    <2> QED BY <1>1, <2>1 DEF Init, KernelInv
  <1>5. FollowInv
    BY <1>1 DEF FollowInv, UpFollowed, GoneFollowed, AddressFollowed
  <1>6. LoInv
    BY <1>1 DEF LoInv
  <1>7. ListInv
    BY <1>1 DEF ListInv
  <1>8. DumpInv
    BY DEF Init, DumpInv
  <1>9. ObjectInv
    BY <1>1 DEF Init, ObjectInv, ClientInv, ParentIfIsItsLink
  <1> QED
    BY <1>2, <1>3, <1>4, <1>5, <1>6, <1>7, <1>8, <1>9 DEF IfInv, Queue

(* IfInv is an invariant of the program and the kernel, whatever links come *)
(* and go while scan_devices and rtnl_listen read the socket.               *)
THEOREM InterfacesInvariant == Spec => []IfInv
  <1>1. Init => IfInv
    BY InitInv
  <1>2. IfInv /\ [Next]_vars => IfInv'
    BY NextInv
  <1> QED
    BY <1>1, <1>2, PTL DEF Spec

(* Interfaces and messages stay within their types. *)
THEOREM TypeCorrect == Spec => []TypeOK
  <1>1. IfInv => TypeOK
    BY DEF IfInv, Queue
  <1> QED
    BY <1>1, InterfacesInvariant, PTL

(* While the best parent's link exists, dag_bestparentif is the object of   *)
(* that link, however del_linkinfo and add_linkinfo reuse memory.           *)
THEOREM ParentOnItsLink == Spec => []ParentIfIsItsLink
  <1>1. IfInv => ParentIfIsItsLink
    BY DEF IfInv, ObjectInv
  <1> QED
    BY <1>1, InterfacesInvariant, PTL

(* When all messages are read, the list has one object for every link that  *)
(* is up and none for a link that is gone, and the addresses are announced. *)
LEMMA QuietFollowed ==
    ASSUME IfInv
    PROVE  KernelFollowed
  <1>1. ListInv /\ FollowInv
    BY DEF IfInv, Queue
  <1>2. ASSUME Quiet, NEW i \in Link \ lost
        PROVE  /\ link[i] = "up" => i \in Known
               /\ ~Present(i) => i \notin Known
               /\ i \in address \cap Matching /\ i # Lo => i \in dag_announced
    <2>1. DOMAIN socket = {} /\ pc = "poll"
      BY <1>2 DEF Quiet
    <2>2. UpFollowed(i) /\ GoneFollowed(i) /\ AddressFollowed(i)
      BY <1>1 DEF FollowInv
    <2> QED BY <2>1, <2>2 DEF UpFollowed, GoneFollowed, AddressFollowed
  <1>3. ASSUME NEW i \in Known
        PROVE  Cardinality({k \in DOMAIN all_if : iface[all_if[k]].index = i}) = 1
    <2>1. PICK k \in DOMAIN all_if : iface[all_if[k]].index = i
      BY DEF Known, Live, Range
    <2>2. \A j \in DOMAIN all_if : iface[all_if[j]].index = i => j = k
      BY <1>1, <2>1 DEF ListInv, Live, Range
    <2>3. {j \in DOMAIN all_if : iface[all_if[j]].index = i} = {k}
      BY <2>1, <2>2
    <2> QED BY <2>3, FS_Singleton
  <1>4. ASSUME NEW i, i \notin Known
        PROVE  Cardinality({k \in DOMAIN all_if : iface[all_if[k]].index = i}) = 0
    <2>1. {k \in DOMAIN all_if : iface[all_if[k]].index = i} = {}
      BY <1>4 DEF Known, Live, Range
    <2> QED BY <2>1, FS_EmptySet
  <1>5. ListFollowsKernel
    BY <1>2, <1>3, <1>4 DEF ListFollowsKernel
  <1>6. AddressesAnnounced
    <2> SUFFICES ASSUME Quiet, NEW i \in (address \cap Matching) \ (lost \cup {Lo})
                 PROVE  i \in dag_announced
      BY DEF AddressesAnnounced
    <2>1. i \in Link
      BY DEF IfInv, Queue, TypeOK
    <2> QED BY <1>2, <2>1
  <1> QED
    BY <1>5, <1>6 DEF KernelFollowed

(* In whatever order links and addresses came and went while they were read *)
(* (gather_linkinfo), the program knows them once the socket is empty.      *)
THEOREM FollowsKernel == Spec => []KernelFollowed
  BY QuietFollowed, InterfacesInvariant, PTL

(* The interface with a GRASP client is one of at least two in the list,    *)
(* the other being the loopback's.                                          *)
LEMMA ClientsFit ==
    ASSUME IfInv, Chosen # Lo
    PROVE  PollWithinArrays
  <1> DEFINE C == {o \in Live : iface[o].client}
  <1> SUFFICES ASSUME pc = "poll" PROVE 2 + Cardinality(C) <= 1 + Len(all_if)
    BY DEF PollWithinArrays, all_grasp_size
  <1>1. ListInv /\ LoInv /\ ClientInv /\ all_if \in Seq(Obj)
    BY DEF IfInv, Queue, ObjectInv, TypeOK
  <1>2. PICK l \in DOMAIN all_if : iface[all_if[l]].index = Lo
    BY <1>1 DEF LoInv, Known, Live, Range
  <1>3. Len(all_if) \in Nat /\ DOMAIN all_if = 1 .. Len(all_if)
    BY <1>1
  <1>4. CASE C = {}
    <2>1. Cardinality(C) = 0
      <3> HIDE DEF C
      <3> QED BY <1>4, FS_EmptySet
    <2> HIDE DEF C
    <2> QED BY <1>2, <1>3, <2>1
  <1>5. CASE C # {}
    <2>1. PICK c \in C : TRUE
      BY <1>5
    <2>2. C = {c}
      BY <1>1, <2>1 DEF ListInv, ClientInv
    <2>3. Cardinality(C) = 1
      <3> HIDE DEF C
      <3> QED BY <2>2, FS_Singleton
    <2>4. PICK j \in DOMAIN all_if : all_if[j] = c
      BY <2>1 DEF Live, Range
    <2>5. j # l
      BY <1>1, <1>2, <2>1, <2>4 DEF ClientInv
    <2> HIDE DEF C
    <2> QED BY <1>2, <1>3, <2>3, <2>4, <2>5
  <1> QED
    BY <1>4, <1>5

(* The arrays of main_loop have room for every GRASP client, unless -i names *)
(* the loopback: then its object may be the only one of the list.            *)
THEOREM PollArrays ==
    ASSUME Chosen # Lo
    PROVE  Spec => []PollWithinArrays
  <1>1. IfInv => PollWithinArrays
    BY ClientsFit
  <1> QED
    BY <1>1, InterfacesInvariant, PTL
====
