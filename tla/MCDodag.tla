------------------------------ MODULE MCDodag ------------------------------
(* Instances of Dodag for TLC. *)
EXTENDS Dodag, TLC

CONSTANTS r, a, b, c

Mesh == [n \in Node |-> Node \ {n}]

(* r - a - b - c *)
Line == (r :> {a}) @@ (a :> {r, b}) @@ (b :> {a, c}) @@ (c :> {b})

(* r, a, b and a, b, c are triangles. *)
Diamond == (r :> {a, b}) @@ (a :> {r, b, c}) @@ (b :> {r, a, c}) @@ (c :> {a, b})
=============================================================================
