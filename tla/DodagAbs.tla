------------------------------ MODULE DodagAbs ------------------------------
(***************************************************************************)
(* What forming a DODAG promises, without packets, timers or sequence      *)
(* numbers: a node moves its rank only downwards and only below a member   *)
(* of the DODAG; it is registered with a parent before it commits to it;   *)
(* and a node learns addresses only from a node that can reach them.       *)
(* Dodag implements this specification.                                    *)
(***************************************************************************)
EXTENDS Integers

CONSTANTS Node, Root, NoNode, NoRank

VARIABLES
    rank,       \* rank[n], NoRank while n is in no DODAG
    best,       \* the parent n has chosen
    parent,     \* the parent n has committed to
    known       \* known[n]: the addresses n can forward to

absVars == <<rank, best, parent, known>>

Init ==
    /\ rank = [n \in Node |-> IF n = Root THEN 1 ELSE NoRank]
    /\ best = [n \in Node |-> NoNode]
    /\ parent = [n \in Node |-> NoNode]
    /\ known = [n \in Node |-> {}]

(* n takes a rank that is larger than p's and not larger than its own. *)
Choose(n, p) ==
    /\ \E k \in 1 .. NoRank - 1 :
          /\ rank[p] < k /\ k <= rank[n]
          /\ rank' = [rank EXCEPT ![n] = k]
    /\ best' = [best EXCEPT ![n] = p]
    /\ UNCHANGED <<parent, known>>

(* p learns from its neighbour q of q itself and of what q knows. *)
Register(p, q) ==
    /\ \E T \in SUBSET (known[q] \cup {q}) :
          known' = [known EXCEPT ![p] = @ \cup T]
    /\ UNCHANGED <<rank, best, parent>>

Commit(n) ==
    /\ best[n] # NoNode
    /\ n \in known[best[n]]
    /\ parent' = [parent EXCEPT ![n] = best[n]]
    /\ UNCHANGED <<rank, best, known>>

Next ==
    \/ \E n \in Node \ {Root}, p \in Node : Choose(n, p)
    \/ \E p, q \in Node : Register(p, q)
    \/ \E n \in Node \ {Root} : Commit(n)

Spec == Init /\ [][Next]_absVars
=============================================================================
