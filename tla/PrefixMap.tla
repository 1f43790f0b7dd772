----------------------------- MODULE PrefixMap -----------------------------
(***************************************************************************)
(* The search tree behind a prefix_map: std::map as libstdc++ builds it,   *)
(* under the order prefix_less gives it.  The tree is a sequence of nodes  *)
(* in the order they were allocated; 0 is the header, that is end().       *)
(* The colours are left out: no insertion ever asks for rebalancing        *)
(* (InsertedUnderRoot).                                                    *)
(***************************************************************************)
EXTENDS Integers, Sequences, SequencesExt

CONSTANTS Addr,         \* the addresses, numbers for memcmp to compare
          MaskBits,     \* the prefix lengths
          NoKey,
          MaxEntries    \* bound: how many entries are ever allocated

Key == [addr : Addr, maskbits : MaskBits]

ASSUME KeyAssumption == /\ Addr \subseteq Nat /\ MaskBits \subseteq Nat
                        /\ NoKey \notin Key /\ MaxEntries \in Nat

INSTANCE ChildMap WITH Node <- Key, NoNode <- NoKey

VARIABLES tree,                     \* the nodes: key, left, right, parent
          root, leftmost, rightmost,  \* the three links of the header
          slots                     \* the ChildMap the same calls make

vars == <<tree, root, leftmost, rightmost, slots>>

(* An int returned as a bool: true unless it is 0. *)
MutPrefixLessNoMask(x, y) == x.addr - y.addr # 0
MutPrefixLessGreater(x, y) ==
    LET match == x.addr - y.addr
    IN  IF match # 0 THEN match > 0 ELSE x.maskbits - y.maskbits > 0
PrefixLess(x, y) ==
    LET match == x.addr - y.addr
    IN  IF match # 0 THEN match # 0 ELSE x.maskbits - y.maskbits # 0

End == 0

Nodes == 1..Len(tree)

(* The nodes a loop visits: from x on by next, up to one in stop. *)
Walk(x, next, stop) ==
    LET at[i \in 1..(Len(tree) + 1)] ==
            IF i = 1 THEN x
            ELSE IF at[i - 1] \in stop THEN at[i - 1] ELSE next[at[i - 1]]
        n == Min({i \in 1..(Len(tree) + 1) : at[i] \in stop})
    IN  [i \in 1..n |-> at[i]]

(* lower_bound: the last node of the descent that is not less than k. *)
LowerBound(k) ==
    LET less    == {x \in Nodes : PrefixLess(tree[x].key, k)}
        descent == Walk(root, [x \in Nodes |-> IF x \in less THEN tree[x].right ELSE tree[x].left],
                        {End})
        kept    == {i \in DOMAIN descent : descent[i] \notin less \cup {End}}
    IN  IF kept = {} THEN End ELSE descent[Max(kept)]

Find(k) ==
    LET i == LowerBound(k)
    IN  IF i = End \/ PrefixLess(k, tree[i].key) THEN End ELSE i

Rightmost(x) ==
    Last(Walk(x, [y \in Nodes |-> tree[y].right], {y \in Nodes : tree[y].right = End}))

(* Where the hint lower_bound makes the fresh node a child: last of all    *)
(* when the hint is end(), just before the hint otherwise.                 *)
InsertParent(hint) ==
    IF hint = End THEN rightmost
    ELSE IF tree[hint].left = End THEN hint ELSE Rightmost(tree[hint].left)

Fresh(k, parent) ==
    [key |-> k, left |-> End, right |-> End, parent |-> parent]

(* operator[] on a key that is not found.  Inserting on the left replaces  *)
(* whatever link was there.                                                *)
InsertNode(k) ==
    LET z    == Len(tree) + 1
        p    == InsertParent(LowerBound(k))
        left == PrefixLess(k, tree[p].key)
        linked == IF left THEN [tree EXCEPT ![p].left = z] ELSE [tree EXCEPT ![p].right = z]
    IN  /\ Find(k) = End
        /\ Len(tree) < MaxEntries
        /\ IF p = End
           THEN /\ tree' = <<Fresh(k, End)>>
                /\ root' = z /\ leftmost' = z /\ rightmost' = z
           ELSE /\ tree' = Append(linked, Fresh(k, p))
                /\ leftmost' = IF left /\ p = leftmost THEN z ELSE leftmost
                /\ rightmost' = IF ~left /\ p = rightmost THEN z ELSE rightmost
                /\ UNCHANGED root
        /\ slots' = Insert(slots, k)

(* operator[] on a key that is found *)
FoundNode(k) ==
    /\ Find(k) # End
    /\ slots' = Insert(slots, k)
    /\ UNCHANGED <<tree, root, leftmost, rightmost>>

Init ==
    /\ tree = <<>>
    /\ root = End /\ leftmost = End /\ rightmost = End
    /\ slots = NoChild

Next == \E k \in Key : InsertNode(k) \/ FoundNode(k)

Spec == Init /\ [][Next]_vars

----------------------------------------------------------------------------
Leftmost(x) ==
    Last(Walk(x, [y \in Nodes |-> tree[y].left], {y \in Nodes : tree[y].left = End}))

(* Up, for as long as it is from a right child. *)
Climb(x) ==
    LET right == {y \in Nodes : tree[y].parent # End /\ y = tree[tree[y].parent].right}
    IN  tree[Last(Walk(x, [y \in Nodes |-> tree[y].parent], Nodes \ right))].parent

(* operator++ *)
Successor(x) ==
    IF tree[x].right # End THEN Leftmost(tree[x].right) ELSE Climb(x)

(* The keys from begin() to end(). *)
Iteration ==
    LET w == Walk(leftmost, [x \in Nodes |-> Successor(x)], {End})
    IN  [i \in 1..(Len(w) - 1) |-> tree[w[i]].key]

(* As build_dao meets prefix_less: an iteration yields exactly the two     *)
(* entries ChildMap keeps, the later one first, whatever was inserted.     *)
IterationIsTwoSlots ==
    Iteration = IF slots.first = NoKey THEN <<>>
                ELSE IF slots.second = NoKey THEN <<slots.first>>
                ELSE <<slots.second, slots.first>>

(* As add_childnode meets it: operator[] finds the key that was inserted   *)
(* first, and no other.                                                    *)
OnlyFirstFound == \A k \in Key : Find(k) # End <=> k = slots.first

(* Under prefix_less, whatever is inserted in whatever order, the map is   *)
(* to its users, build_dao and add_childnode, what ChildMap is.            *)
IsChildMap == IterationIsTwoSlots /\ OnlyFirstFound

(* What add_childnode finds is the entry of the prefix it asks for, and    *)
(* build_dao, which iterates, announces that prefix exactly once, whatever *)
(* was inserted before and after it.                                       *)
FoundIsIterated ==
    \A k \in Key : Find(k) # End =>
        /\ tree[Find(k)].key = k
        /\ \E i \in DOMAIN Iteration : \A j \in DOMAIN Iteration : Iteration[j] = k <=> j = i

(* "a PREFIX ma can be iterated": as many entries as there are.            *)
CanBeIterated == Len(Iteration) = Len(tree)

(* Every insertion is below the root, which is black, so that the tree is  *)
(* never rebalanced.                                                       *)
InsertedUnderRoot ==
    [][Len(tree') > 1 /\ Len(tree') > Len(tree) =>
          tree'[Len(tree')].parent = root']_vars
=============================================================================
