------------------------------ MODULE ChildMap ------------------------------
(***************************************************************************)
(* What a prefix_map (include/prefix.h) is to the code that uses it.  It   *)
(* is a std::map ordered by prefix_less, which calls every two different   *)
(* keys less than each other.  Module PrefixMap shows what that makes of   *)
(* the map: only the key inserted first is ever found again, and an        *)
(* iteration yields the second and then the first one.  Later entries are  *)
(* never seen again, so the first two are all the state.                   *)
(***************************************************************************)
CONSTANTS Node,     \* the prefixes (in Dodag, the /128 addresses of nodes)
          NoNode    \* no such entry

ChildMap == [first : Node \cup {NoNode}, second : Node \cup {NoNode}]
NoChild  == [first |-> NoNode, second |-> NoNode]

(* operator[], for an optional key *)
Insert(m, key) ==
    IF key = NoNode \/ key = m.first THEN m
    ELSE IF m.first = NoNode THEN [m EXCEPT !.first = key]
    ELSE IF m.second = NoNode THEN [m EXCEPT !.second = key]
    ELSE m

(* Whether operator[] made a fresh entry, which is not installed yet. *)
IsNew(m, key) == key # NoNode /\ key # m.first
=============================================================================
