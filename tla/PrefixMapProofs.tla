-------------------------- MODULE PrefixMapProofs --------------------------
(***************************************************************************)
(* Theorems about PrefixMap, for any keys and any number of insertions:    *)
(* what Dodag and Sunshine take ChildMap for is what std::map does.        *)
(***************************************************************************)
EXTENDS PrefixMap, TLAPS

TreeNode == [key : Key, left : Nat, right : Nat, parent : Nat]

(* The tree never gets deeper than two: the first key is the root, every   *)
(* later one was its left child once, and only the last of them still is.  *)
Shape ==
    /\ root = 1 /\ rightmost = 1
    /\ leftmost = IF Len(tree) = 1 THEN 1 ELSE 2
    /\ tree[1].parent = End /\ tree[1].right = End
    /\ tree[1].left = IF Len(tree) = 1 THEN End ELSE Len(tree)
    /\ \A x \in Nodes : x # 1 =>
          /\ tree[x].left = End /\ tree[x].right = End /\ tree[x].parent = 1
          /\ tree[x].key # tree[1].key

TreeInv ==
    /\ tree \in Seq(TreeNode)
    /\ tree = <<>> => root = End /\ leftmost = End /\ rightmost = End /\ slots = NoChild
    /\ tree # <<>> =>
          /\ Shape
          /\ slots = [first |-> tree[1].key,
                      second |-> IF Len(tree) = 1 THEN NoKey ELSE tree[2].key]

----------------------------------------------------------------------------
(* Short walks. *)

(* The equation that defines a walk. *)
Steps(f, x, next, stop) ==
    f = [i \in 1..(Len(tree) + 1) |->
            IF i = 1 THEN x
            ELSE IF f[i - 1] \in stop THEN f[i - 1] ELSE next[f[i - 1]]]

(* A walk satisfies its equation, if anything does. *)
LEMMA WalkSteps ==
    ASSUME NEW x, NEW next, NEW stop, \E f : Steps(f, x, next, stop)
    PROVE  \E f : /\ Steps(f, x, next, stop)
                  /\ Walk(x, next, stop) =
                        [i \in 1..Min({i \in 1..(Len(tree) + 1) : f[i] \in stop}) |-> f[i]]
  <1> DEFINE g == CHOOSE f : Steps(f, x, next, stop)
  <1>1. Steps(g, x, next, stop)
    BY Zenon
  <1>2. Walk(x, next, stop) = [i \in 1..Min({i \in 1..(Len(tree) + 1) : g[i] \in stop}) |-> g[i]]
    BY DEF Walk, Steps
  <1> QED
    BY <1>1, <1>2

(* The smallest of a set of numbers. *)
LEMMA MinIs ==
    ASSUME NEW S \in SUBSET Int, NEW n \in S, \A y \in S : n <= y
    PROVE  Min(S) = n
  <1>1. \A x \in S : (\A y \in S : x <= y) => x = n
    OBVIOUS
  <1> QED
    BY <1>1 DEF Min

(* A walk that has nowhere to go. *)
LEMMA WalkOne ==
    ASSUME tree \in Seq(TreeNode), NEW x, NEW next, NEW stop, x \in stop
    PROVE  Walk(x, next, stop) = [i \in 1..1 |-> x]
  <1> DEFINE N == Len(tree) + 1
  <1>0. N \in Nat /\ N >= 1
    OBVIOUS
  <1>1. \E f : Steps(f, x, next, stop)
    <2> DEFINE h == [i \in 1..N |-> x]
    <2>1. \A i \in 1..N : i # 1 => i - 1 \in 1..N
      BY <1>0
    <2>2. h = [i \in 1..N |-> IF i = 1 THEN x
                              ELSE IF h[i - 1] \in stop THEN h[i - 1] ELSE next[h[i - 1]]]
      BY <2>1
    <2>3. Steps(h, x, next, stop)
      BY <2>2 DEF Steps
    <2> QED BY <2>3
  <1>2. PICK f : /\ Steps(f, x, next, stop)
                 /\ Walk(x, next, stop) = [i \in 1..Min({i \in 1..N : f[i] \in stop}) |-> f[i]]
    BY ONLY <1>1, WalkSteps
  <1>3. f[1] = x
    BY <1>0, <1>2 DEF Steps
  <1> DEFINE S == {i \in 1..N : f[i] \in stop}
  <1>4. Min(S) = 1
    <2>1. S \in SUBSET Int /\ 1 \in S /\ \A y \in S : 1 <= y
      BY <1>0, <1>3
    <2> HIDE DEF S
    <2> QED BY <2>1, MinIs
  <1>5. Walk(x, next, stop) = [i \in 1..Min(S) |-> f[i]]
    BY <1>2
  <1> HIDE DEF S
  <1>6. Walk(x, next, stop) = [i \in 1..1 |-> f[i]]
    BY <1>4, <1>5
  <1> QED
    BY <1>3, <1>6

(* A walk of one step. *)
LEMMA WalkTwo ==
    ASSUME tree \in Seq(TreeNode), Len(tree) >= 1,
           NEW x, NEW next, NEW stop, x \notin stop, next[x] \in stop
    PROVE  Walk(x, next, stop) = [i \in 1..2 |-> IF i = 1 THEN x ELSE next[x]]
  <1> DEFINE N == Len(tree) + 1
  <1>0. N \in Nat /\ N >= 2
    OBVIOUS
  <1>1. \E f : Steps(f, x, next, stop)
    <2> DEFINE h == [i \in 1..N |-> IF i = 1 THEN x ELSE next[x]]
    <2>1. \A i \in 1..N : i # 1 => i - 1 \in 1..N
      BY <1>0
    <2>2. h = [i \in 1..N |-> IF i = 1 THEN x
                              ELSE IF h[i - 1] \in stop THEN h[i - 1] ELSE next[h[i - 1]]]
      BY <2>1
    <2>3. Steps(h, x, next, stop)
      BY <2>2 DEF Steps
    <2> QED BY <2>3
  <1>2. PICK f : /\ Steps(f, x, next, stop)
                 /\ Walk(x, next, stop) = [i \in 1..Min({i \in 1..N : f[i] \in stop}) |-> f[i]]
    BY ONLY <1>1, WalkSteps
  <1>3. f[1] = x /\ f[2] = next[x]
    BY <1>0, <1>2 DEF Steps
  <1> DEFINE S == {i \in 1..N : f[i] \in stop}
  <1>4. Min(S) = 2
    <2>1. S \in SUBSET Int /\ 2 \in S /\ \A y \in S : 2 <= y
      BY <1>0, <1>3
    <2> HIDE DEF S
    <2> QED BY <2>1, MinIs
  <1>5. Walk(x, next, stop) = [i \in 1..Min(S) |-> f[i]]
    BY <1>2
  <1> HIDE DEF S
  <1>6. Walk(x, next, stop) = [i \in 1..2 |-> f[i]]
    BY <1>4, <1>5
  <1> QED
    BY <1>3, <1>6

(* A walk of two steps. *)
LEMMA WalkThree ==
    ASSUME tree \in Seq(TreeNode), Len(tree) >= 2, NEW x, NEW next, NEW stop,
           x \notin stop, next[x] \notin stop, next[next[x]] \in stop
    PROVE  Walk(x, next, stop) =
              [i \in 1..3 |-> IF i = 1 THEN x ELSE IF i = 2 THEN next[x] ELSE next[next[x]]]
  <1> DEFINE N == Len(tree) + 1
  <1>0. N \in Nat /\ N >= 3
    OBVIOUS
  <1>1. \E f : Steps(f, x, next, stop)
    <2> DEFINE h == [i \in 1..N |-> IF i = 1 THEN x ELSE IF i = 2 THEN next[x] ELSE next[next[x]]]
    <2>1. \A i \in 1..N : i # 1 => i - 1 \in 1..N /\ (i - 1 = 1 <=> i = 2)
      BY <1>0
    <2>2. ASSUME NEW i \in 1..N
          PROVE  h[i] = IF i = 1 THEN x
                        ELSE IF h[i - 1] \in stop THEN h[i - 1] ELSE next[h[i - 1]]
      <3>1. CASE i = 1
        BY <3>1
      <3>2. CASE i = 2
        BY <2>1, <3>2
      <3>3. CASE i # 1 /\ i # 2
        <4>1. h[i - 1] = IF i = 3 THEN next[x] ELSE next[next[x]]
          BY <1>0, <2>1, <3>3
        <4> QED BY <3>3, <4>1
      <3> QED BY <3>1, <3>2, <3>3
    <2>3. h = [i \in 1..N |-> h[i]]
      OBVIOUS
    <2> HIDE DEF h
    <2>4. Steps(h, x, next, stop)
      BY <2>2, <2>3 DEF Steps
    <2> QED BY <2>4
  <1>2. PICK f : /\ Steps(f, x, next, stop)
                 /\ Walk(x, next, stop) = [i \in 1..Min({i \in 1..(Len(tree) + 1) : f[i] \in stop}) |-> f[i]]
    BY ONLY <1>1, WalkSteps
  <1>3. f[1] = x /\ f[2] = next[x] /\ f[3] = next[next[x]]
    BY <1>0, <1>2 DEF Steps
  <1> DEFINE S == {i \in 1..N : f[i] \in stop}
  <1>4. Min(S) = 3
    <2>1. S \in SUBSET Int /\ 3 \in S /\ \A y \in S : 3 <= y
      BY <1>0, <1>3
    <2> HIDE DEF S
    <2> QED BY <2>1, MinIs
  <1>5. Walk(x, next, stop) = [i \in 1..Min(S) |-> f[i]]
    BY <1>2
  <1> HIDE DEF S
  <1>6. Walk(x, next, stop) = [i \in 1..3 |-> f[i]]
    BY <1>4, <1>5
  <1> QED
    BY <1>3, <1>6

----------------------------------------------------------------------------
(* The map. *)

(* prefix_less calls every two different keys less than each other. *)
LEMMA LessIsDifferent ==
    ASSUME NEW x \in Key, NEW y \in Key
    PROVE  PrefixLess(x, y) <=> x # y
  <1>1. x.addr \in Int /\ y.addr \in Int /\ x.maskbits \in Int /\ y.maskbits \in Int
    <2>1. x.addr \in Addr /\ y.addr \in Addr /\ x.maskbits \in MaskBits /\ y.maskbits \in MaskBits
      BY DEF Key
    <2>2. \A a \in Addr \cup MaskBits : a \in Int
      BY KeyAssumption
    <2> QED BY <2>1, <2>2
  <1>2. x = y <=> x.addr = y.addr /\ x.maskbits = y.maskbits
    BY DEF Key
  <1> QED
    BY <1>1, <1>2 DEF PrefixLess

(* What TreeInv says of a tree that is not empty. *)
LEMMA ShapeFacts ==
    ASSUME TreeInv, tree # <<>>
    PROVE  /\ Shape /\ Len(tree) \in Nat /\ Len(tree) >= 1 /\ Nodes = 1..Len(tree) /\ 1 \in Nodes
           /\ \A x \in Nodes : tree[x] \in TreeNode /\ tree[x].key \in Key
           /\ tree[1].key # NoKey
  <1>1. /\ Shape /\ Len(tree) \in Nat /\ Len(tree) >= 1 /\ Nodes = 1..Len(tree) /\ 1 \in Nodes
        /\ \A x \in Nodes : tree[x] \in TreeNode
    BY DEF TreeInv, Nodes
  <1>2. \A x \in Nodes : tree[x].key \in Key
    BY <1>1 DEF TreeNode
  <1> QED
    BY <1>1, <1>2, KeyAssumption

(* lower_bound finds the root for the key of the root, and end() for all   *)
(* others.                                                                 *)
LEMMA LowerBoundIs ==
    ASSUME TreeInv, NEW k \in Key
    PROVE  LowerBound(k) = IF tree # <<>> /\ k = tree[1].key THEN 1 ELSE End
  <1> DEFINE less == {x \in Nodes : PrefixLess(tree[x].key, k)}
             next == [x \in Nodes |-> IF x \in less THEN tree[x].right ELSE tree[x].left]
             w == Walk(root, next, {End})
             kept == {i \in DOMAIN w : w[i] \notin less \cup {End}}
  <1>0. tree \in Seq(TreeNode)
    BY DEF TreeInv
  <1>1. LowerBound(k) = IF kept = {} THEN End ELSE w[Max(kept)]
    BY DEF LowerBound
  <1>2. CASE tree = <<>>
    <2>1. root \in {End}
      BY <1>2 DEF TreeInv
    <2> HIDE DEF next
    <2>2. w = [i \in 1..1 |-> root]
      BY <1>0, <2>1, WalkOne
    <2> HIDE DEF w
    <2>3. kept = {}
      BY <2>1, <2>2
    <2> QED BY <1>1, <1>2, <2>3
  <1>3. CASE tree # <<>>
    <2>0. /\ Shape /\ Len(tree) \in Nat /\ Len(tree) >= 1 /\ Nodes = 1..Len(tree) /\ 1 \in Nodes
          /\ \A x \in Nodes : tree[x] \in TreeNode /\ tree[x].key \in Key
      BY <1>3, ShapeFacts
    <2>1. \A x \in Nodes : x \in less <=> tree[x].key # k
      BY <2>0, LessIsDifferent
    <2>2. \A x \in Nodes : next[x] = IF tree[x].key # k THEN tree[x].right ELSE tree[x].left
      BY <2>1
    <2>3. root = 1 /\ root \notin {End} /\ tree[1].right = End
          /\ tree[1].left = IF Len(tree) = 1 THEN End ELSE Len(tree)
      BY <2>0 DEF Shape, End
    <2> HIDE DEF next
    <2>4. CASE k # tree[1].key
      <3>1. next[root] = End
        BY <2>0, <2>2, <2>3, <2>4
      <3>2. w = [i \in 1..2 |-> IF i = 1 THEN root ELSE next[root]]
        BY <1>0, <2>0, <2>3, <3>1, WalkTwo
      <3>3. 1 \in less
        BY <2>0, <2>1, <2>4
      <3> HIDE DEF w, less
      <3>4. kept = {}
        BY <2>3, <3>1, <3>2, <3>3
      <3> QED BY <1>1, <2>4, <3>4
    <2>5. CASE k = tree[1].key
      <3>0. 1 \notin less
        BY <2>0, <2>1, <2>5
      <3>1. kept = {1} /\ w[1] = 1
        <4>1. CASE Len(tree) = 1
          <5>1. next[root] = End
            BY <2>0, <2>2, <2>3, <2>5, <4>1
          <5>2. w = [i \in 1..2 |-> IF i = 1 THEN root ELSE next[root]]
            BY <1>0, <2>0, <2>3, <5>1, WalkTwo
          <5> HIDE DEF w, less
          <5> QED BY <2>3, <3>0, <5>1, <5>2 DEF End
        <4>2. CASE Len(tree) # 1
          <5>1. next[root] = Len(tree) /\ Len(tree) \in Nodes /\ Len(tree) >= 2
            BY <2>0, <2>2, <2>3, <2>5, <4>2
          <5>2. tree[Len(tree)].key # k /\ tree[Len(tree)].right = End
            BY <2>0, <2>5, <4>2, <5>1 DEF Shape
          <5>3. next[next[root]] = End /\ Len(tree) \in less
            BY <2>1, <2>2, <5>1, <5>2
          <5>4. next[root] \notin {End}
            BY <5>1 DEF End
          <5>5. w = [i \in 1..3 |-> IF i = 1 THEN root
                                    ELSE IF i = 2 THEN next[root] ELSE next[next[root]]]
            BY <1>0, <2>3, <5>1, <5>3, <5>4, WalkThree
          <5> HIDE DEF w, less
          <5>6. \A i \in 1..3 : i = 1 \/ w[i] \in less \cup {End}
            BY <5>1, <5>3, <5>5
          <5> QED BY <2>3, <3>0, <5>5, <5>6 DEF End
        <4> QED BY <4>1, <4>2
      <3>2. Max({1}) = 1
        BY DEF Max
      <3> HIDE DEF w, kept
      <3> QED BY <1>1, <1>3, <2>5, <3>1, <3>2
    <2> QED BY <2>4, <2>5
  <1> QED
    BY <1>2, <1>3

(* operator[] finds the key that came first. *)
LEMMA FindIs ==
    ASSUME TreeInv, NEW k \in Key
    PROVE  Find(k) # End <=> tree # <<>> /\ k = tree[1].key
  <1>1. LowerBound(k) = IF tree # <<>> /\ k = tree[1].key THEN 1 ELSE End
    BY LowerBoundIs
  <1>2. CASE tree # <<>> /\ k = tree[1].key
    <2>1. ~PrefixLess(k, tree[1].key)
      BY <1>2, LessIsDifferent
    <2> QED BY <1>1, <1>2, <2>1 DEF Find, End
  <1>3. CASE ~(tree # <<>> /\ k = tree[1].key)
    BY <1>1, <1>3 DEF Find
  <1> QED
    BY <1>2, <1>3

(* operator++ goes to the parent: no node has a right child. *)
LEMMA SuccessorIs ==
    ASSUME TreeInv, tree # <<>>, NEW x \in Nodes
    PROVE  Successor(x) = tree[x].parent
  <1> DEFINE right == {y \in Nodes : tree[y].parent # End /\ y = tree[tree[y].parent].right}
             up == [y \in Nodes |-> tree[y].parent]
             w == Walk(x, up, Nodes \ right)
  <1>0. /\ Shape /\ Len(tree) \in Nat /\ Len(tree) >= 1 /\ Nodes = 1..Len(tree) /\ 1 \in Nodes
        /\ tree \in Seq(TreeNode)
    BY ShapeFacts DEF TreeInv
  <1>1. \A y \in Nodes : tree[y].right = End /\ tree[y].parent \in {End, 1}
    BY <1>0 DEF Shape
  <1>2. right = {}
    BY <1>0, <1>1 DEF End
  <1>3. w = [i \in 1..1 |-> x]
    <2> HIDE DEF right, up
    <2>1. x \in Nodes \ right
      BY <1>2
    <2> QED BY <1>0, <2>1, WalkOne
  <1>4. Climb(x) = tree[Last(w)].parent
    BY DEF Climb
  <1> HIDE DEF w
  <1>5. Last(w) = x
    BY <1>3 DEF Last
  <1> QED
    BY <1>1, <1>4, <1>5 DEF Successor

(* The keys from begin() to end(). *)
LEMMA IterationIs ==
    ASSUME TreeInv
    PROVE  Iteration = IF tree = <<>> THEN <<>>
                       ELSE IF Len(tree) = 1 THEN <<tree[1].key>>
                       ELSE <<tree[2].key, tree[1].key>>
  <1> DEFINE next == [x \in Nodes |-> Successor(x)]
             w == Walk(leftmost, next, {End})
  <1>0. tree \in Seq(TreeNode)
    BY DEF TreeInv
  <1>1. Iteration = [i \in 1..(Len(w) - 1) |-> tree[w[i]].key]
    BY DEF Iteration
  <1>2. CASE tree = <<>>
    <2>1. leftmost \in {End}
      BY <1>2 DEF TreeInv
    <2> HIDE DEF next
    <2>2. w = [i \in 1..1 |-> leftmost]
      BY <1>0, <2>1, WalkOne
    <2> HIDE DEF w
    <2>3. 1..(Len(w) - 1) = {}
      <3>1. Len(w) = 1
        BY <2>2
      <3> QED BY <3>1
    <2>4. Iteration = [i \in {} |-> tree[w[i]].key]
      BY <1>1, <2>3
    <2> QED BY <1>2, <2>4
  <1>3. CASE tree # <<>>
    <2>0. /\ Shape /\ Len(tree) \in Nat /\ Len(tree) >= 1 /\ Nodes = 1..Len(tree) /\ 1 \in Nodes
      BY <1>3, ShapeFacts
    <2>1. \A x \in Nodes : next[x] = tree[x].parent
      BY <1>3, SuccessorIs
    <2>2. next[1] = End
      BY <2>0, <2>1 DEF Shape
    <2> HIDE DEF next
    <2>3. CASE Len(tree) = 1
      <3>1. leftmost = 1 /\ leftmost \notin {End}
        BY <2>0, <2>3 DEF Shape, End
      <3>2. w = [i \in 1..2 |-> IF i = 1 THEN leftmost ELSE next[leftmost]]
        BY <1>0, <2>0, <2>2, <3>1, WalkTwo
      <3> HIDE DEF w
      <3>3. Len(w) - 1 = 1 /\ w[1] = 1
        BY <3>1, <3>2
      <3>4. Iteration = [i \in 1..1 |-> tree[w[i]].key]
        BY <1>1, <3>3
      <3>5. Iteration = <<tree[1].key>>
        BY <3>3, <3>4
      <3> QED BY <1>3, <2>3, <3>5
    <2>4. CASE Len(tree) # 1
      <3>1. leftmost = 2 /\ leftmost \notin {End} /\ 1 \notin {End} /\ 2 \in Nodes /\ Len(tree) >= 2
        BY <2>0, <2>4 DEF Shape, End
      <3>2. next[leftmost] = 1
        BY <2>0, <2>1, <3>1 DEF Shape
      <3>3. w = [i \in 1..3 |-> IF i = 1 THEN leftmost
                                ELSE IF i = 2 THEN next[leftmost] ELSE next[next[leftmost]]]
        BY <1>0, <2>2, <3>1, <3>2, WalkThree
      <3> HIDE DEF w
      <3>4. Len(w) - 1 = 2 /\ w[1] = 2 /\ w[2] = 1
        BY <3>1, <3>2, <3>3
      <3>5. Iteration = [i \in 1..2 |-> tree[w[i]].key]
        BY <1>1, <3>4
      <3>6. Iteration = <<tree[2].key, tree[1].key>>
        BY <3>4, <3>5
      <3> QED BY <1>3, <2>4, <3>6
    <2> QED BY <2>3, <2>4
  <1> QED
    BY <1>2, <1>3

----------------------------------------------------------------------------
(* Insertions. *)

(* The first key becomes the root. *)
LEMMA InsertFirst ==
    ASSUME TreeInv, NEW k \in Key, InsertNode(k), tree = <<>>
    PROVE  TreeInv' /\ Len(tree') = 1
  <1>1. LowerBound(k) = End
    BY LowerBoundIs
  <1>2. rightmost = End /\ slots = NoChild
    BY DEF TreeInv
  <1>3. InsertParent(LowerBound(k)) = End
    BY <1>1, <1>2 DEF InsertParent
  <1>4. /\ tree' = <<Fresh(k, End)>> /\ root' = 1 /\ leftmost' = 1 /\ rightmost' = 1
        /\ slots' = Insert(slots, k)
    BY <1>3 DEF InsertNode
  <1>5. k # NoKey
    BY KeyAssumption
  <1>6. slots' = [first |-> k, second |-> NoKey]
    BY <1>2, <1>4, <1>5 DEF Insert, NoChild
  <1>7. Fresh(k, End) \in TreeNode /\ Fresh(k, End).key = k /\ Fresh(k, End).left = End
        /\ Fresh(k, End).right = End /\ Fresh(k, End).parent = End
    BY DEF Fresh, TreeNode, End
  <1> HIDE DEF Fresh
  <1>8. tree' \in Seq(TreeNode) /\ tree' # <<>> /\ Len(tree') = 1 /\ tree'[1] = Fresh(k, End)
    BY <1>4, <1>7
  <1>9. Shape'
    BY <1>4, <1>7, <1>8 DEF Shape, Nodes
  <1> QED
    BY <1>6, <1>7, <1>8, <1>9 DEF TreeInv

(* Every other key becomes the left child of the root. *)
LEMMA InsertLater ==
    ASSUME TreeInv, NEW k \in Key, InsertNode(k), tree # <<>>
    PROVE  TreeInv' /\ tree'[Len(tree')].parent = root' /\ Len(tree') = Len(tree) + 1
  <1> DEFINE z == Len(tree) + 1
             linked == [tree EXCEPT ![1].left = z]
  <1>0. /\ Shape /\ Len(tree) \in Nat /\ Len(tree) >= 1 /\ Nodes = 1..Len(tree) /\ 1 \in Nodes
        /\ \A x \in Nodes : tree[x] \in TreeNode /\ tree[x].key \in Key
        /\ tree[1].key # NoKey /\ tree \in Seq(TreeNode)
    BY ShapeFacts DEF TreeInv
  <1>1. k # tree[1].key
    BY FindIs DEF InsertNode
  <1>2. LowerBound(k) = End
    BY <1>1, LowerBoundIs
  <1>3. InsertParent(LowerBound(k)) = 1
    BY <1>0, <1>2 DEF InsertParent, Shape
  <1>4. PrefixLess(k, tree[1].key)
    BY <1>0, <1>1, LessIsDifferent
  <1>5. /\ tree' = Append(linked, Fresh(k, 1)) /\ root' = root
        /\ leftmost' = IF 1 = leftmost THEN z ELSE leftmost
        /\ rightmost' = rightmost /\ slots' = Insert(slots, k)
    BY <1>3, <1>4 DEF InsertNode, End
  <1>6. /\ Fresh(k, 1) \in TreeNode /\ Fresh(k, 1).key = k /\ Fresh(k, 1).left = End
        /\ Fresh(k, 1).right = End /\ Fresh(k, 1).parent = 1
    BY DEF Fresh, TreeNode, End
  <1>7. /\ linked \in Seq(TreeNode) /\ Len(linked) = Len(tree)
        /\ \A x \in Nodes : x # 1 => linked[x] = tree[x]
        /\ linked[1].key = tree[1].key /\ linked[1].left = z
        /\ linked[1].right = tree[1].right /\ linked[1].parent = tree[1].parent
    <2>1. z \in Nat
      BY <1>0
    <2> HIDE DEF z
    <2>2. [tree[1] EXCEPT !.left = z] \in TreeNode
      BY <1>0, <2>1 DEF TreeNode
    <2>3. /\ [tree[1] EXCEPT !.left = z].key = tree[1].key /\ [tree[1] EXCEPT !.left = z].left = z
          /\ [tree[1] EXCEPT !.left = z].right = tree[1].right
          /\ [tree[1] EXCEPT !.left = z].parent = tree[1].parent
      BY <1>0 DEF TreeNode
    <2>4. linked = [tree EXCEPT ![1] = [tree[1] EXCEPT !.left = z]]
      OBVIOUS
    <2> QED BY <1>0, <2>2, <2>3, <2>4
  <1> HIDE DEF linked, Fresh
  <1>8. /\ tree' \in Seq(TreeNode) /\ Len(tree') = z /\ tree' # <<>>
        /\ \A x \in Nodes : tree'[x] = linked[x]
        /\ tree'[z] = Fresh(k, 1)
    BY <1>0, <1>5, <1>6, <1>7
  <1>9. Nodes' = Nodes \cup {z} /\ z \notin Nodes /\ z # 1 /\ (1 = leftmost <=> Len(tree) = 1)
    <2>1. Nodes' = 1..z
      BY <1>8 DEF Nodes
    <2> QED BY <1>0, <2>1 DEF Shape
  <1>10. tree'[1].key = tree[1].key /\ tree'[1].left = z /\ tree'[1].right = End
         /\ tree'[1].parent = End
    BY <1>0, <1>7, <1>8 DEF Shape
  <1>11. \A x \in Nodes' : x # 1 =>
            /\ tree'[x].left = End /\ tree'[x].right = End /\ tree'[x].parent = 1
            /\ tree'[x].key # tree'[1].key
    BY <1>0, <1>1, <1>6, <1>7, <1>8, <1>9, <1>10 DEF Shape
  <1>12. leftmost' = 2
    BY <1>0, <1>5, <1>9 DEF Shape
  <1>13. Shape'
    <2>1. Len(tree') = z /\ z # 1
      BY <1>8, <1>9
    <2>2. root' = 1 /\ rightmost' = 1
      BY <1>0, <1>5 DEF Shape
    <2> HIDE DEF z
    <2> QED BY <1>10, <1>11, <1>12, <2>1, <2>2 DEF Shape
  <1>14. slots' = [first |-> tree'[1].key, second |-> tree'[2].key]
    <2>1. /\ slots = [first |-> tree[1].key,
                      second |-> IF Len(tree) = 1 THEN NoKey ELSE tree[2].key]
          /\ k # NoKey
      BY KeyAssumption DEF TreeInv
    <2>2. CASE Len(tree) = 1
      <3>1. tree'[2].key = k
        BY <1>6, <1>8, <2>2
      <3>2. slots = [first |-> tree[1].key, second |-> NoKey] /\ slots' = Insert(slots, k)
        BY <1>5, <2>1, <2>2
      <3>3. slots' = [first |-> tree[1].key, second |-> k]
        BY <1>0, <1>1, <2>1, <3>2 DEF Insert
      <3> QED BY <1>10, <3>1, <3>3
    <2>3. CASE Len(tree) # 1
      <3>1. 2 \in Nodes
        <4>1. \A n \in Nat : n >= 1 /\ n # 1 => 2 \in 1..n
          OBVIOUS
        <4> QED BY <1>0, <2>3, <4>1
      <3>2. tree[2].key \in Key
        BY <1>0, <3>1
      <3>3. tree[2].key # NoKey
        BY <3>2, KeyAssumption
      <3>4. tree'[2].key = tree[2].key
        BY <1>7, <1>8, <3>1
      <3> QED BY <1>0, <1>1, <1>5, <1>10, <2>1, <2>3, <3>3, <3>4 DEF Insert
    <2> QED BY <2>2, <2>3
  <1>15. TreeInv'
    BY <1>0, <1>8, <1>13, <1>14 DEF TreeInv
  <1>16. tree'[Len(tree')].parent = root'
    BY <1>0, <1>5, <1>6, <1>8 DEF Shape
  <1> QED
    BY <1>8, <1>15, <1>16

(* A key that is found changes nothing. *)
LEMMA FoundFirst ==
    ASSUME TreeInv, NEW k \in Key, FoundNode(k)
    PROVE  UNCHANGED vars
  <1>1. tree # <<>> /\ k = tree[1].key
    BY FindIs DEF FoundNode
  <1>2. slots.first = k
    BY <1>1 DEF TreeInv
  <1> QED
    BY <1>2 DEF FoundNode, Insert, vars

(* Every step keeps TreeInv, and inserts below the root. *)
LEMMA NextInv ==
    ASSUME TreeInv, [Next]_vars
    PROVE  TreeInv' /\ (Len(tree') > 1 /\ Len(tree') > Len(tree) => tree'[Len(tree')].parent = root')
  <1>0. Len(tree) \in Nat
    BY DEF TreeInv
  <1>1. CASE UNCHANGED vars
    <2>1. TreeInv'
      BY <1>1 DEF vars, TreeInv, Shape, Nodes
    <2>2. Len(tree') = Len(tree)
      BY <1>1 DEF vars
    <2> QED BY <1>0, <2>1, <2>2
  <1>2. ASSUME NEW k \in Key, InsertNode(k)
        PROVE  TreeInv' /\ (Len(tree') > 1 => tree'[Len(tree')].parent = root')
    <2>1. CASE tree = <<>>
      <3>1. TreeInv' /\ Len(tree') = 1
        BY <1>2, <2>1, InsertFirst
      <3> QED BY <3>1
    <2>2. CASE tree # <<>>
      BY <1>2, <2>2, InsertLater
    <2> QED BY <2>1, <2>2
  <1>3. ASSUME NEW k \in Key, FoundNode(k) PROVE UNCHANGED vars
    BY <1>3, FoundFirst
  <1> QED
    BY <1>1, <1>2, <1>3 DEF Next

(* TreeInv is an invariant of the map, whatever is inserted in whatever    *)
(* order.                                                                  *)
THEOREM TreeInvariant == Spec => []TreeInv
  <1>1. Init => TreeInv
    BY DEF Init, TreeInv
  <1>2. TreeInv /\ [Next]_vars => TreeInv'
    BY NextInv
  <1> QED
    BY <1>1, <1>2, PTL DEF Spec

(* For any keys, operator[] finds the first key and no other, and an       *)
(* iteration, as in build_dao, yields the second key and then the first:   *)
(* the std::map under prefix_less is ChildMap.                             *)
THEOREM MapIsChildMap == Spec => []IsChildMap
  <1>1. TreeInv => IsChildMap
    <2> SUFFICES ASSUME TreeInv PROVE IsChildMap
      OBVIOUS
    <2>1. OnlyFirstFound
      <3> SUFFICES ASSUME NEW k \in Key PROVE Find(k) # End <=> k = slots.first
        BY DEF OnlyFirstFound
      <3>1. Find(k) # End <=> tree # <<>> /\ k = tree[1].key
        BY FindIs
      <3>2. CASE tree = <<>>
        BY <3>1, <3>2, KeyAssumption DEF TreeInv, NoChild
      <3>3. CASE tree # <<>>
        BY <3>1, <3>3 DEF TreeInv
      <3> QED BY <3>2, <3>3
    <2>2. IterationIsTwoSlots
      <3>1. Iteration = IF tree = <<>> THEN <<>>
                        ELSE IF Len(tree) = 1 THEN <<tree[1].key>>
                        ELSE <<tree[2].key, tree[1].key>>
        BY IterationIs
      <3>2. CASE tree = <<>>
        BY <3>1, <3>2 DEF IterationIsTwoSlots, TreeInv, NoChild
      <3>3. CASE tree # <<>>
        <4>1. tree[1].key # NoKey /\ (Len(tree) # 1 => tree[2].key # NoKey)
          <5>1. /\ Len(tree) \in Nat /\ Len(tree) >= 1 /\ Nodes = 1..Len(tree)
                /\ \A x \in Nodes : tree[x].key \in Key
            BY <3>3, ShapeFacts
          <5>2. Len(tree) # 1 => 2 \in Nodes
            BY <5>1
          <5>3. 1 \in Nodes
            BY <5>1
          <5> QED BY <5>1, <5>2, <5>3, KeyAssumption
        <4>2. /\ slots.first = tree[1].key
              /\ slots.second = IF Len(tree) = 1 THEN NoKey ELSE tree[2].key
          BY <3>3 DEF TreeInv
        <4> QED BY <3>1, <3>3, <4>1, <4>2 DEF IterationIsTwoSlots
      <3> QED BY <3>2, <3>3
    <2> QED BY <2>1, <2>2 DEF IsChildMap
  <1> QED
    BY <1>1, TreeInvariant, PTL

(* For any keys in any order, what is found is the prefix that was asked   *)
(* for, and an iteration yields it once.                                   *)
THEOREM FoundOnce == Spec => []FoundIsIterated
  <1>1. TreeInv => FoundIsIterated
    <2> SUFFICES ASSUME TreeInv, NEW k \in Key, Find(k) # End
                 PROVE  /\ tree[Find(k)].key = k
                        /\ \E i \in DOMAIN Iteration : \A j \in DOMAIN Iteration : Iteration[j] = k <=> j = i
      BY DEF FoundIsIterated
    <2>1. tree # <<>> /\ k = tree[1].key /\ Find(k) = 1
      <3>1. tree # <<>> /\ k = tree[1].key
        BY FindIs
      <3>2. LowerBound(k) = 1
        BY <3>1, LowerBoundIs
      <3> QED BY <3>1, <3>2 DEF Find
    <2>2. Iteration = IF Len(tree) = 1 THEN <<tree[1].key>> ELSE <<tree[2].key, tree[1].key>>
      BY <2>1, IterationIs
    <2>3. CASE Len(tree) = 1
      BY <2>1, <2>2, <2>3
    <2>4. CASE Len(tree) # 1
      <3>1. tree[2].key # k
        <4>1. Shape /\ Len(tree) \in Nat /\ Len(tree) >= 1 /\ Nodes = 1..Len(tree)
          BY <2>1, ShapeFacts
        <4>2. 2 \in Nodes
          <5>1. \A n \in Nat : n >= 1 /\ n # 1 => 2 \in 1..n
            OBVIOUS
          <5> QED BY <2>4, <4>1, <5>1
        <4> QED BY <2>1, <4>1, <4>2 DEF Shape
      <3>2. DOMAIN Iteration = {1, 2} /\ Iteration[1] = tree[2].key /\ Iteration[2] = k
        BY <2>1, <2>2, <2>4
      <3> QED BY <2>1, <3>1, <3>2
    <2> QED BY <2>3, <2>4
  <1> QED
    BY <1>1, TreeInvariant, PTL

(* Every insertion is below the root, so that std::map never rebalances    *)
(* the tree.                                                               *)
THEOREM NeverRebalanced == Spec => InsertedUnderRoot
  <1>1. TreeInv /\ [Next]_vars =>
           [Len(tree') > 1 /\ Len(tree') > Len(tree) => tree'[Len(tree')].parent = root']_vars
    BY NextInv
  <1> QED
    BY <1>1, TreeInvariant, PTL DEF Spec, InsertedUnderRoot
====
