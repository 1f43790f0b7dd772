-------------------------- MODULE AlgorithmsProofs --------------------------
(***************************************************************************)
(* What the algorithms of the program compute, for inputs of every length. *)
(* A fold is turned into its run, the function of its intermediate states, *)
(* and induction over the length is the fact that a set that holds 0 and,  *)
(* with k - 1, also k, holds all numbers of an interval (UpToInduction).   *)
(* The invariants of Algorithms follow for its inputs.                     *)
(***************************************************************************)
EXTENDS Algorithms, FiniteSetTheorems, NaturalsInduction, WellFoundedInduction, TLAPS

(* Induction up to n, for a property given as the set of its numbers. *)
LEMMA UpToInduction ==
    ASSUME NEW n \in Nat, NEW P, 0 \in P,
           \A k \in 1..n : k - 1 \in P => k \in P
    PROVE  \A k \in 0..n : k \in P
  <1> DEFINE T == {k \in 0..n : k \notin P}
             R == {s \in Nat \X Nat : s[1] < s[2]}
  <1>1. IsWellFoundedOn(R, Nat)
    BY NatLessThanWellFounded DEF OpToRel
  <1> SUFFICES ASSUME T # {} PROVE FALSE
    OBVIOUS
  <1>3. T \subseteq Nat
    OBVIOUS
  <1>4. PICK x \in T : \A y \in T : <<y, x>> \notin R
    <2> HIDE DEF R, T
    <2> QED BY <1>1, <1>3, WFMin
  <1>5. x # 0 /\ x \in 1..n /\ x - 1 \in 0..n
    OBVIOUS
  <1>6. x - 1 \notin T
    <2>1. <<x - 1, x>> \in R
      BY <1>5
    <2> QED BY <1>4, <2>1
  <1> QED
    BY <1>5, <1>6

(* The largest of a set of numbers. *)
LEMMA MaxIs ==
    ASSUME NEW S \in SUBSET Int, NEW n \in S, \A y \in S : y <= n
    PROVE  Max(S) = n
  <1>1. \A x \in S : (\A y \in S : x >= y) => x = n
    OBVIOUS
  <1>2. \E x \in S : \A y \in S : x >= y
    OBVIOUS
  <1> QED
    BY <1>1, <1>2 DEF Max

(* The largest element of a nonempty set of positions. *)
LEMMA MaxTop ==
    ASSUME NEW n \in Nat, NEW s \in SUBSET (1..n), s # {}
    PROVE  Max(s) \in s /\ \A y \in s : y <= Max(s)
  <1> DEFINE Q == {k \in 0..n : s \cap ((n + 1 - k)..n) # {} => \E x \in s : \A y \in s : y <= x}
  <1>1. 0 \in Q
    BY (n + 1)..n = {}
  <1>2. ASSUME NEW k \in 1..n, k - 1 \in Q PROVE k \in Q
    <2>1. CASE s \cap ((n + 1 - (k - 1))..n) # {}
      BY <1>2, <2>1
    <2>2. CASE s \cap ((n + 1 - (k - 1))..n) = {} /\ n + 1 - k \in s
      <3>1. \A y \in s : y <= n + 1 - k
        <4> SUFFICES ASSUME NEW y \in s, ~(y <= n + 1 - k) PROVE FALSE
          OBVIOUS
        <4>1. y \in (n + 1 - (k - 1))..n
          OBVIOUS
        <4> QED BY <2>2, <4>1
      <3> QED BY <2>2, <3>1
    <2>3. CASE s \cap ((n + 1 - (k - 1))..n) = {} /\ n + 1 - k \notin s
      <3>1. \A i \in (n + 1 - k)..n : i = n + 1 - k \/ i \in (n + 1 - (k - 1))..n
        OBVIOUS
      <3> QED BY <2>3, <3>1
    <2> QED BY <2>1, <2>2, <2>3
  <1>3. n \in Q
    <2>1. \A k \in 1..n : k - 1 \in Q => k \in Q
      BY <1>2
    <2> HIDE DEF Q
    <2>2. \A k \in 0..n : k \in Q
      BY <1>1, <2>1, UpToInduction
    <2> QED BY <2>2
  <1>4. s \cap ((n + 1 - n)..n) # {}
    BY n + 1 - n = 1
  <1>5. \E x \in s : \A y \in s : x >= y
    BY <1>3, <1>4
  <1>6. Max(s) \in s /\ \A y \in s : Max(s) >= y
    BY <1>5 DEF Max
  <1> HIDE DEF Max
  <1> QED
    BY <1>6

(* It is an element. *)
LEMMA MaxIn ==
    ASSUME NEW n \in Nat, NEW s \in SUBSET (1..n), s # {}
    PROVE  Max(s) \in s
  BY MaxTop

(* The table of the values of a fold over a sequence, with its step as a function:
   the set of positions that were folded, and the value. *)
IsTable(f, S, step, base, n, seq) ==
    /\ f \in [SUBSET (1..n) -> S]
    /\ \A s \in SUBSET (1..n) :
          f[s] = IF s = {} THEN base ELSE step[f[s \ {Max(s)}]][seq[Max(s)]]

(* The values of a fold after each position. *)
IsRun(r, S, step, base, n, seq) ==
    /\ r \in [0..n -> S]
    /\ r[0] = base
    /\ \A k \in 1..n : r[k] = step[r[k - 1]][seq[k]]

(* What a fold over a sequence computes makes such a table where it has the type. *)
Follows(g, S, step, base, n, seq) ==
    /\ g[{}] = base
    /\ \A s \in SUBSET (1..n) : s # {} /\ g[s \ {Max(s)}] \in S =>
          g[s] = step[g[s \ {Max(s)}]][seq[Max(s)]]

RunOf(g, n) == [k \in 0..n |-> g[1..k]]

(* A table exists. *)
LEMMA FoldTable ==
    ASSUME NEW S, NEW E, NEW step \in [S -> [E -> S]], NEW base \in S,
           NEW n \in Nat, NEW seq \in [1..n -> E]
    PROVE  \E f : IsTable(f, S, step, base, n, seq)
  <1> DEFINE P == {m \in 0..n : \E f : IsTable(f, S, step, base, m, seq)}
  <1>1. 0 \in P
    <2> DEFINE f == [s \in SUBSET (1..0) |-> base]
    <2>1. IsTable(f, S, step, base, 0, seq)
      BY 1..0 = {} DEF IsTable
    <2> HIDE DEF f
    <2> QED BY <2>1
  <1>2. ASSUME NEW m \in 1..n, m - 1 \in P PROVE m \in P
    <2>1. PICK g : IsTable(g, S, step, base, m - 1, seq)
      BY <1>2
    <2> DEFINE f == [s \in SUBSET (1..m) |-> IF m \in s THEN step[g[s \ {m}]][seq[m]] ELSE g[s]]
    <2>0. \A i \in 1..m : i # m => i \in 1..(m - 1)
      OBVIOUS
    <2>2. \A s \in SUBSET (1..m) : s \ {m} \in SUBSET (1..(m - 1))
      BY <2>0
    <2>3. \A s \in SUBSET (1..m) : m \notin s => s \in SUBSET (1..(m - 1))
      BY <2>0
    <2>4. f \in [SUBSET (1..m) -> S]
      <3>1. g \in [SUBSET (1..(m - 1)) -> S] /\ seq[m] \in E
        BY <2>1 DEF IsTable
      <3> QED BY <2>2, <2>3, <3>1
    <2>5. ASSUME NEW s \in SUBSET (1..m)
          PROVE  f[s] = IF s = {} THEN base ELSE step[f[s \ {Max(s)}]][seq[Max(s)]]
      <3>1. CASE m \in s
        <4>1. Max(s) = m
          <5>1. s \in SUBSET Int /\ \A y \in s : y <= m
            OBVIOUS
          <5> QED BY <3>1, <5>1, MaxIs
        <4>2. f[s \ {m}] = g[s \ {m}]
          OBVIOUS
        <4> QED BY <3>1, <4>1, <4>2
      <3>2. CASE m \notin s
        <4>1. s \in SUBSET (1..(m - 1)) /\ s \ {Max(s)} \in SUBSET (1..m)
          BY <2>3, <3>2
        <4>2. f[s] = g[s] /\ f[s \ {Max(s)}] = g[s \ {Max(s)}]
          BY <3>2, <4>1
        <4>3. g[s] = IF s = {} THEN base ELSE step[g[s \ {Max(s)}]][seq[Max(s)]]
          BY <2>1, <4>1 DEF IsTable
        <4> QED BY <4>2, <4>3
      <3> QED BY <3>1, <3>2
    <2>6. IsTable(f, S, step, base, m, seq)
      BY <2>4, <2>5 DEF IsTable
    <2> HIDE DEF f
    <2> QED BY <2>6
  <1>3. n \in P
    <2>1. \A m \in 1..n : m - 1 \in P => m \in P
      BY <1>2
    <2> HIDE DEF P
    <2>2. \A m \in 0..n : m \in P
      BY <1>1, <2>1, UpToInduction
    <2> QED BY <2>2
  <1> QED
    BY <1>3


(* The positions up to one. *)
LEMMA PositionsUpTo ==
    ASSUME NEW n \in Nat, NEW k \in 1..n
    PROVE  /\ 1..k \in SUBSET (1..n) /\ 1..k # {}
           /\ Max(1..k) = k
           /\ (1..k) \ {Max(1..k)} = 1..(k - 1)
  <1>1. Max(1..k) = k
    <2> DEFINE S == 1..k
    <2>1. S \in SUBSET Int /\ k \in S /\ \A y \in S : y <= k
      OBVIOUS
    <2> HIDE DEF S
    <2>2. Max(S) = k
      BY <2>1, MaxIs
    <2> QED BY <2>2 DEF S
  <1>2. \A i \in Int : i \in 1..k /\ i # k <=> i \in 1..(k - 1)
    OBVIOUS
  <1>3. 1..k \in SUBSET (1..n) /\ 1..k # {}
    OBVIOUS
  <1>4. (1..k) \ {k} = 1..(k - 1)
    BY <1>2
  <1>5. (1..k) \ {Max(1..k)} = 1..(k - 1)
    BY <1>1, <1>4
  <1> QED
    BY <1>1, <1>3, <1>5, Zenon


(* A table whose entries follow from each other by the step contains the values of
   the fold one after the other. *)
LEMMA TableRun ==
    ASSUME NEW S, NEW E, NEW step \in [S -> [E -> S]], NEW base \in S,
           NEW n \in Nat, NEW seq \in [1..n -> E],
           NEW g, Follows(g, S, step, base, n, seq)
    PROVE  IsRun(RunOf(g, n), S, step, base, n, seq)
  <1> DEFINE r == [k \in 0..n |-> g[1..k]]
             P == {k \in 0..n : g[1..k] \in S}
  <1>1. ASSUME NEW k \in 1..n, g[1..(k - 1)] \in S
        PROVE  g[1..k] = step[g[1..(k - 1)]][seq[k]]
    <2> DEFINE s == 1..k
    <2>1. s \in SUBSET (1..n) /\ s # {} /\ Max(s) = k /\ s \ {Max(s)} = 1..(k - 1)
      BY PositionsUpTo
    <2> HIDE DEF s
    <2>2. g[s] = step[g[s \ {Max(s)}]][seq[Max(s)]]
      BY <1>1, <2>1 DEF Follows
    <2>3. g[s] = step[g[1..(k - 1)]][seq[k]]
      BY <2>1, <2>2
    <2> QED BY <2>3 DEF s
  <1>2. 0 \in P
    BY 1..0 = {} DEF Follows
  <1>3. \A k \in 1..n : k - 1 \in P => k \in P
    <2> SUFFICES ASSUME NEW k \in 1..n, k - 1 \in P PROVE k \in P
      OBVIOUS
    <2>1. g[1..k] = step[g[1..(k - 1)]][seq[k]]
      BY <1>1
    <2>2. g[1..(k - 1)] \in S /\ seq[k] \in E
      OBVIOUS
    <2> QED BY <2>1, <2>2
  <1>4. \A k \in 0..n : k \in P
    <2> HIDE DEF P
    <2> QED BY <1>2, <1>3, UpToInduction
  <1>5. r \in [0..n -> S]
    BY <1>4
  <1>6. r[0] = base
    BY 1..0 = {} DEF Follows
  <1>7. ASSUME NEW k \in 1..n PROVE r[k] = step[r[k - 1]][seq[k]]
    <2>1. g[1..(k - 1)] \in S /\ k - 1 \in 0..n /\ k \in 0..n
      BY <1>4
    <2>2. g[1..k] = step[g[1..(k - 1)]][seq[k]]
      BY <1>1, <2>1
    <2> QED BY <2>1, <2>2
  <1> HIDE DEF r
  <1>8. IsRun(r, S, step, base, n, seq)
    BY <1>5, <1>6, <1>7 DEF IsRun
  <1> QED
    BY <1>8 DEF r, RunOf

(* An input stays what it was chosen to be. *)
LEMMA InputStays == Spec => []Init
  <1>1. Init /\ [Next]_<<kind, input>> => Init'
    BY DEF Next, Init
  <1> QED
    BY <1>1, PTL DEF Spec

(* Tuples of at most some length are sequences. *)
LEMMA UpToSeq ==
    ASSUME NEW S, NEW n \in Nat, NEW s \in UpTo(S, n)
    PROVE  s \in Seq(S) /\ Len(s) \in 0..n
  BY DEF UpTo, Tuples

-----------------------------------------------------------------------------
(* The first m elements of e are those of d after the first l. *)
Segment(e, m, d, l) ==
    /\ m \in Nat /\ l \in Nat /\ Len(d) \in Nat /\ Len(e) \in Nat
    /\ l + m <= Len(d) /\ m <= Len(e)
    /\ \A k \in 1..m : e[k] = d[l + k]

(* A run over a segment, from where the run over the whole is. *)
Continues(q, e, r, d, l, S, step) ==
    /\ Segment(e, Len(e), d, l)
    /\ IsRun(r, S, step, r[0], Len(d), d)
    /\ IsRun(q, S, step, r[l], Len(e), e)

(* The run of a segment from where the run of the whole stands ends where that one does. *)
LEMMA RunContinues ==
    ASSUME NEW q, NEW e, NEW r, NEW d, NEW l, NEW S, NEW step, Continues(q, e, r, d, l, S, step)
    PROVE  q[Len(e)] = r[l + Len(e)]
  <1> DEFINE m == Len(e)
  <1>0. /\ m \in Nat /\ l \in Nat /\ Len(d) \in Nat /\ l + m <= Len(d)
        /\ \A k \in 1..m : e[k] = d[l + k]
    BY DEF Continues, Segment
  <1>1. /\ q[0] = r[l]
        /\ \A k \in 1..m : q[k] = step[q[k - 1]][e[k]]
        /\ \A k \in 1..Len(d) : r[k] = step[r[k - 1]][d[k]]
    BY DEF Continues, IsRun
  <1> HIDE DEF m
  <1> DEFINE P == {k \in 0..m : q[k] = r[l + k]}
  <1>2. 0 \in P
    BY <1>0, <1>1
  <1>3. \A k \in 1..m : k - 1 \in P => k \in P
    <2> SUFFICES ASSUME NEW k \in 1..m, k - 1 \in P PROVE q[k] = r[l + k]
      BY <1>0
    <2>1. l + k \in 1..Len(d) /\ l + k - 1 = l + (k - 1)
      BY <1>0
    <2>2. q[k - 1] = r[l + (k - 1)] /\ e[k] = d[l + k]
      BY <1>0
    <2>3. q[k] = step[q[k - 1]][e[k]] /\ r[l + k] = step[r[l + k - 1]][d[l + k]]
      BY <1>0, <1>1, <2>1
    <2> QED BY ONLY <2>1, <2>2, <2>3
  <1>4. \A k \in 0..m : k \in P
    <2> HIDE DEF P
    <2> QED BY <1>0, <1>2, <1>3, UpToInduction
  <1> QED BY <1>0, <1>4 DEF m

(* The last value of a fold, where its values are of one type. *)
Ends(x, S, step, base, seq) == \E r : IsRun(r, S, step, base, Len(seq), seq) /\ x = r[Len(seq)]

IsStep(S, E, step) == step \in [S -> [E -> S]]

(* It has the type. *)
LEMMA EndsType ==
    ASSUME NEW S, NEW step, NEW base, NEW E, NEW seq \in Seq(E), NEW x, Ends(x, S, step, base, seq)
    PROVE  x \in S
  BY DEF Ends, IsRun

(* Nothing is folded, or one element. *)
LEMMA EndsFew ==
    ASSUME NEW S, NEW step, NEW base, NEW x
    PROVE  /\ Ends(x, S, step, base, <<>>) => x = base
           /\ \A c : Ends(x, S, step, base, <<c>>) => x = step[base][c]
  <1>1. Ends(x, S, step, base, <<>>) => x = base
    BY Len(<<>>) = 0 DEF Ends, IsRun
  <1>2. ASSUME NEW c, Ends(x, S, step, base, <<c>>) PROVE x = step[base][c]
    <2> DEFINE s == <<c>>
    <2>1. Len(s) = 1 /\ s[1] = c
      OBVIOUS
    <2> HIDE DEF s
    <2>2. PICK r : IsRun(r, S, step, base, Len(s), s) /\ x = r[Len(s)]
      BY <1>2 DEF Ends, s
    <2>3. r[0] = base /\ \A k \in 1..1 : r[k] = step[r[k - 1]][s[k]]
      BY <2>1, <2>2 DEF IsRun
    <2>4. ASSUME NEW k \in 1..1 PROVE r[k] = step[base][c]
      <3>1. k = 1 /\ k - 1 = 0
        OBVIOUS
      <3>2. r[k] = step[r[k - 1]][s[k]]
        BY <2>3
      <3> QED BY <2>1, <2>3, <3>1, <3>2
    <2> QED BY <2>1, <2>2, <2>4
  <1> QED BY <1>1, <1>2

(* Two sequences are folded one after the other. *)
LEMMA EndsSplit ==
    ASSUME NEW S, NEW E, NEW step, IsStep(S, E, step), NEW base \in S,
           NEW d \in Seq(E), NEW e \in Seq(E), NEW x, NEW y, NEW z,
           Ends(x, S, step, base, d), Ends(y, S, step, x, e), Ends(z, S, step, base, d \o e)
    PROVE  y = z
  <1> DEFINE c == d \o e
  <1>1. c \in Seq(E) /\ Len(c) = Len(d) + Len(e) /\ Len(d) \in Nat /\ Len(e) \in Nat
    OBVIOUS
  <1>2. (\A k \in 1..Len(d) : d[k] = c[0 + k]) /\ (\A k \in 1..Len(e) : e[k] = c[Len(d) + k])
    OBVIOUS
  <1>3. Ends(z, S, step, base, c)
    OBVIOUS
  <1> HIDE DEF c
  <1>4. Segment(d, Len(d), c, 0) /\ Segment(e, Len(e), c, Len(d))
    BY <1>1, <1>2 DEF Segment
  <1>5. PICK r : IsRun(r, S, step, base, Len(c), c) /\ z = r[Len(c)]
    BY <1>3 DEF Ends
  <1>6. PICK p : IsRun(p, S, step, base, Len(d), d) /\ x = p[Len(d)]
    BY DEF Ends
  <1>7. r[0] = base
    BY <1>5 DEF IsRun
  <1>8. x = r[Len(d)]
    <2>1. Continues(p, d, r, c, 0, S, step)
      BY <1>4, <1>5, <1>6, <1>7 DEF Continues
    <2>2. p[Len(d)] = r[0 + Len(d)]
      BY <2>1, RunContinues
    <2> QED BY <1>1, <1>6, <2>2
  <1>9. PICK q : IsRun(q, S, step, x, Len(e), e) /\ y = q[Len(e)]
    BY DEF Ends
  <1>10. Continues(q, e, r, c, Len(d), S, step)
    BY <1>4, <1>5, <1>7, <1>8, <1>9 DEF Continues
  <1>11. q[Len(e)] = r[Len(d) + Len(e)]
    BY <1>10, RunContinues
  <1> QED BY <1>1, <1>5, <1>9, <1>11

(* The values of a fold exist. *)
LEMMA RunExists ==
    ASSUME NEW S, NEW E, NEW step \in [S -> [E -> S]], NEW base \in S,
           NEW n \in Nat, NEW seq \in [1..n -> E]
    PROVE  \E r : IsRun(r, S, step, base, n, seq)
  <1>1. PICK f : IsTable(f, S, step, base, n, seq)
    BY FoldTable
  <1>2. Follows(f, S, step, base, n, seq)
    BY <1>1 DEF IsTable, Follows
  <1> QED BY <1>2, TableRun

(* The beginnings of a sequence of sequences that are joined. *)
FlatRun(r, E, ss) ==
    /\ r \in [0..Len(ss) -> Seq(E)]
    /\ r[0] = <<>>
    /\ \A k \in 1..Len(ss) : r[k] = r[k - 1] \o ss[k]

(* FlattenSeq joins them one after the other. *)
LEMMA FlattenRun ==
    ASSUME NEW E, NEW ss \in Seq(Seq(E))
    PROVE  \E r : FlatRun(r, E, ss) /\ FlattenSeq(ss) = r[Len(ss)]
  <1> DEFINE n == Len(ss)
             step == [x \in Seq(E) |-> [y \in Seq(E) |-> x \o y]]
             Eq(f) == f = [i \in 1..n |-> IF i = 1 THEN ss[i] ELSE f[i - 1] \o ss[i]]
             g == CHOOSE f : Eq(f)
  <1>0. n \in Nat /\ ss \in [1..n -> Seq(E)]
    OBVIOUS
  <1>1. step \in [Seq(E) -> [Seq(E) -> Seq(E)]] /\ <<>> \in Seq(E)
    OBVIOUS
  <1>2. \A x \in Seq(E), y \in Seq(E) : step[x][y] = x \o y
    OBVIOUS
  <1>3. FlattenSeq(ss) = IF n = 0 THEN ss ELSE g[n]
    BY DEF FlattenSeq
  <1> HIDE DEF step, n
  <1>4. PICK r : IsRun(r, Seq(E), step, <<>>, n, ss)
    BY <1>0, <1>1, RunExists
  <1>5. /\ r \in [0..n -> Seq(E)] /\ r[0] = <<>>
        /\ \A k \in 1..n : r[k] = r[k - 1] \o ss[k]
    <2>1. r \in [0..n -> Seq(E)] /\ r[0] = <<>>
      BY <1>4 DEF IsRun
    <2>2. ASSUME NEW k \in 1..n PROVE r[k] = r[k - 1] \o ss[k]
      <3>1. r[k] = step[r[k - 1]][ss[k]]
        BY <1>4 DEF IsRun
      <3>2. k - 1 \in 0..n
        BY <1>0
      <3>3. r[k - 1] \in Seq(E) /\ ss[k] \in Seq(E)
        BY <1>0, <2>1, <3>2
      <3> QED BY <1>2, <3>1, <3>3
    <2> QED BY <2>1, <2>2
  <1>10. 1 \in 1..n => r[1] = ss[1]
    <2> SUFFICES ASSUME NEW k \in 1..n, k = 1 PROVE r[k] = ss[k]
      OBVIOUS
    <2>1. r[k] = r[k - 1] \o ss[k]
      BY <1>5
    <2>2. r[k - 1] = <<>>
      BY <1>5
    <2>3. ss[k] \in Seq(E)
      BY <1>0
    <2> QED BY ONLY <2>1, <2>2, <2>3
  <1>6. Eq(g)
    <2> DEFINE h == [i \in 1..n |-> r[i]]
    <2>1. \A i \in 1..n : h[i] = IF i = 1 THEN ss[i] ELSE h[i - 1] \o ss[i]
      <3> SUFFICES ASSUME NEW i \in 1..n PROVE h[i] = IF i = 1 THEN ss[i] ELSE h[i - 1] \o ss[i]
        OBVIOUS
      <3>1. CASE i = 1
        BY <1>10, <3>1
      <3>2. CASE i # 1
        <4>1. i - 1 \in 1..n
          BY <1>0, <3>2
        <4> QED BY <1>5, <3>2, <4>1
      <3> QED BY <3>1, <3>2
    <2>2. Eq(h)
      BY <2>1
    <2> HIDE DEF Eq, h
    <2> QED BY <2>2
  <1>7. \A i \in 1..n : g[i] = IF i = 1 THEN ss[i] ELSE g[i - 1] \o ss[i]
    BY <1>6
  <1> HIDE DEF g
  <1> DEFINE P == {k \in 0..n : k # 0 => g[k] = r[k]}
  <1>8. \A k \in 0..n : k \in P
    <2>1. 0 \in P
      BY <1>0
    <2>2. \A k \in 1..n : k - 1 \in P => k \in P
      <3> SUFFICES ASSUME NEW k \in 1..n, k - 1 \in P PROVE g[k] = r[k]
        BY <1>0
      <3>1. CASE k = 1
        BY <1>7, <1>10, <3>1
      <3>2. CASE k # 1
        <4>1. g[k - 1] = r[k - 1]
          BY <1>0, <3>2
        <4> QED BY <1>5, <1>7, <3>2, <4>1
      <3> QED BY <3>1, <3>2
    <2> HIDE DEF P
    <2> QED BY <1>0, <2>1, <2>2, UpToInduction
  <1>9. FlattenSeq(ss) = r[n]
    <2>1. CASE n = 0
      BY <1>3, <1>5, <2>1 DEF n
    <2>2. CASE n # 0
      BY <1>0, <1>3, <1>8, <2>2
    <2> QED BY <2>1, <2>2
  <1> QED BY <1>5, <1>9 DEF FlatRun, n

(* The elements of a concatenation. *)
LEMMA ConcatAt ==
    ASSUME NEW S, NEW s \in Seq(S), NEW t \in Seq(S)
    PROVE  /\ s \o t \in Seq(S) /\ Len(s \o t) = Len(s) + Len(t)
           /\ \A i \in 1..Len(s) : (s \o t)[i] = s[i]
           /\ \A i \in 1..Len(t) : (s \o t)[Len(s) + i] = t[i]
  OBVIOUS

(* A sequence is given by its elements. *)
LEMMA SameSeq ==
    ASSUME NEW S, NEW s \in Seq(S), NEW t \in Seq(S), Len(s) = Len(t),
           \A i \in 1..Len(s) : s[i] = t[i]
    PROVE  s = t
  OBVIOUS

(* What follows one and the same beginning. *)
LEMMA SameEnd ==
    ASSUME NEW S, NEW p \in Seq(S), NEW s \in Seq(S), NEW t \in Seq(S), Len(s) = Len(t),
           p \o s = p \o t
    PROVE  s = t
  <1>1. ASSUME NEW i \in 1..Len(s) PROVE s[i] = t[i]
    BY ConcatAt
  <1> QED BY <1>1, SameSeq


(* Concatenation is associative. *)
LEMMA ConcatAssoc ==
    ASSUME NEW S, NEW t \in Seq(S), NEW s \in Seq(S), NEW d \in Seq(S)
    PROVE  (t \o s) \o d = t \o (s \o d)
  <1> DEFINE u == t \o s
             v == s \o d
             m == Len(t)
             l == Len(s)
             n == Len(d)
  <1>1. /\ u \in Seq(S) /\ Len(u) = m + l
        /\ \A i \in 1..m : u[i] = t[i]
        /\ \A i \in 1..l : u[m + i] = s[i]
    BY ConcatAt
  <1>2. /\ v \in Seq(S) /\ Len(v) = l + n
        /\ \A i \in 1..l : v[i] = s[i]
        /\ \A i \in 1..n : v[l + i] = d[i]
    BY ConcatAt
  <1>3. m \in Nat /\ l \in Nat /\ n \in Nat
    OBVIOUS
  <1> HIDE DEF u, v
  <1>0. u \in Seq(S) /\ v \in Seq(S) /\ t \in Seq(S) /\ d \in Seq(S)
    BY <1>1, <1>2
  <1> DEFINE x == u \o d
             y == t \o v
  <1>4. /\ x \in Seq(S) /\ Len(x) = Len(u) + n
        /\ \A i \in 1..Len(u) : x[i] = u[i]
        /\ \A i \in 1..n : x[Len(u) + i] = d[i]
    BY ONLY <1>0, ConcatAt
  <1>5. /\ y \in Seq(S) /\ Len(y) = m + Len(v)
        /\ \A i \in 1..m : y[i] = t[i]
        /\ \A i \in 1..Len(v) : y[m + i] = v[i]
    BY ONLY <1>0, ConcatAt
  <1> HIDE DEF x, y, m, l, n
  <1>6. Len(x) = m + l + n /\ Len(y) = m + l + n
    BY <1>1, <1>2, <1>3, <1>4, <1>5
  <1>7. ASSUME NEW i \in 1..(m + l + n) PROVE x[i] = y[i]
    <2>1. CASE i \in 1..m
      <3>1. i \in 1..Len(u)
        BY <1>1, <1>3, <2>1
      <3> QED BY <1>1, <1>4, <1>5, <2>1, <3>1
    <2>2. CASE i \in (m + 1)..(m + l)
      <3>1. i \in 1..Len(u) /\ i - m \in 1..l /\ i - m \in 1..Len(v) /\ m + (i - m) = i
        BY <1>1, <1>2, <1>3, <2>2
      <3> DEFINE j == i - m
      <3>2. j \in 1..l /\ j \in 1..Len(v) /\ m + j = i
        BY <3>1
      <3> HIDE DEF j
      <3>3. x[i] = u[i] /\ u[m + j] = s[j] /\ y[m + j] = v[j] /\ v[j] = s[j]
        BY <1>1, <1>2, <1>4, <1>5, <3>1, <3>2
      <3> QED BY ONLY <3>2, <3>3
    <2>3. CASE i \in (m + l + 1)..(m + l + n)
      <3> DEFINE j == i - (m + l)
      <3>1. j \in 1..n /\ l + j \in 1..Len(v) /\ i = Len(u) + j /\ i = m + (l + j)
        BY <1>1, <1>2, <1>3, <2>3
      <3> HIDE DEF j
      <3>2. x[Len(u) + j] = d[j]
        BY <1>4, <3>1
      <3>3. y[m + (l + j)] = v[l + j] /\ v[l + j] = d[j]
        BY <1>2, <1>5, <3>1
      <3> QED BY ONLY <3>1, <3>2, <3>3
    <2> QED BY <1>3, <2>1, <2>2, <2>3
  <1>8. x = y
    BY <1>4, <1>5, <1>6, <1>7, SameSeq
  <1> QED BY <1>8 DEF x, y, u, v

(* Sequences over a subset. *)
LEMMA SeqMono ==
    ASSUME NEW S, NEW T, S \subseteq T
    PROVE  \A s \in Seq(S) : s \in Seq(T)
  OBVIOUS

(* Two sequences with an element between them. *)
LEMMA Between ==
    ASSUME NEW S, NEW s \in Seq(S), NEW t \in Seq(S), NEW c \in S
    PROVE  LET x == s \o <<c>> \o t
           IN  /\ x \in Seq(S) /\ Len(x) = Len(s) + 1 + Len(t)
               /\ \A i \in 1..Len(s) : x[i] = s[i]
               /\ x[Len(s) + 1] = c
               /\ \A i \in 1..Len(t) : x[Len(s) + 1 + i] = t[i]
  <1> DEFINE m == Len(s)
             n == Len(t)
             d == <<c>>
             u == s \o d
             x == u \o t
  <1>1. m \in Nat /\ n \in Nat /\ d \in Seq(S) /\ Len(d) = 1 /\ d[1] = c
    OBVIOUS
  <1> HIDE DEF d
  <1>2. /\ u \in Seq(S) /\ Len(u) = m + Len(d)
        /\ \A i \in 1..m : u[i] = s[i]
        /\ \A i \in 1..Len(d) : u[m + i] = d[i]
    <2>1. d \in Seq(S)
      BY <1>1
    <2> QED BY ONLY s \in Seq(S), <2>1, ConcatAt
  <1> HIDE DEF u
  <1>3. /\ x \in Seq(S) /\ Len(x) = Len(u) + n
        /\ \A i \in 1..Len(u) : x[i] = u[i]
        /\ \A i \in 1..n : x[Len(u) + i] = t[i]
    <2>1. u \in Seq(S)
      BY <1>2
    <2> QED BY ONLY t \in Seq(S), <2>1, ConcatAt
  <1> HIDE DEF x, m, n
  <1>4. Len(u) = m + 1 /\ Len(x) = m + 1 + n
    BY <1>1, <1>2, <1>3
  <1>5. \A i \in 1..m : x[i] = s[i]
    BY <1>1, <1>2, <1>3, <1>4
  <1>6. x[m + 1] = c
    BY <1>1, <1>2, <1>3, <1>4, 1 \in 1..1, m + 1 \in 1..(m + 1)
  <1> QED BY <1>3, <1>4, <1>5, <1>6 DEF x, u, d, m, n

-----------------------------------------------------------------------------
(* The sums after each word of a buffer, from a sum on. *)
WordSums(r, buff, sum, n) ==
    /\ r \in [0..n -> Nat]
    /\ r[0] = sum
    /\ \A k \in 1..n : r[k] = r[k - 1] + Word(buff, k)

(* The loop of csum_partial adds the words one after the other. *)
LEMMA WordsFold ==
    ASSUME NEW buff, NEW sum \in Nat, NEW n \in Nat,
           \A i \in 1..n : Word(buff, i) \in Nat
    PROVE  \E r : WordSums(r, buff, sum, n) /\ AddWords(buff, sum, n) = r[n]
  <1> DEFINE sq == [i \in 1..n |-> i]
             Eq(f) == f = [s \in SUBSET (1..n) |->
                              IF s = {} THEN sum ELSE f[s \ {Max(s)}] + Word(buff, sq[Max(s)])]
             step == [x \in Nat |-> [i \in 1..n |-> x + Word(buff, i)]]
             g == CHOOSE f : Eq(f)
             r == RunOf(g, n)
  <1>1. AddWords(buff, sum, n) = g[1..n]
    BY DOMAIN sq = 1..n DEF AddWords, FoldLeft, MapThenFoldSet
  <1>2. step \in [Nat -> [1..n -> Nat]] /\ sq \in [1..n -> 1..n]
    OBVIOUS
  <1>3. \A x \in Nat, i \in 1..n : x + Word(buff, i) = step[x][i]
    OBVIOUS
  <1>4. \A s \in SUBSET (1..n) : s # {} => sq[Max(s)] \in 1..n
    BY MaxIn
  <1> HIDE DEF step, sq
  <1>5. Eq(g)
    <2>1. PICK f : IsTable(f, Nat, step, sum, n, sq)
      BY <1>2, FoldTable
    <2>2. Eq(f)
      BY <1>3, <1>4, <2>1, ZenonT(30) DEF IsTable
    <2> HIDE DEF Eq
    <2> QED BY <2>2
  <1>6. IsRun(r, Nat, step, sum, n, sq)
    <2>1. \A s \in SUBSET (1..n) : g[s] = IF s = {} THEN sum ELSE g[s \ {Max(s)}] + Word(buff, sq[Max(s)])
      BY <1>5
    <2>2. Follows(g, Nat, step, sum, n, sq)
      BY <1>3, <1>4, <2>1 DEF Follows
    <2> HIDE DEF g
    <2> QED BY <1>2, <2>2, TableRun
  <1> HIDE DEF r
  <1>7. g[1..n] = r[n]
    BY DEF r, RunOf
  <1>8. \A k \in 1..n : r[k] = r[k - 1] + Word(buff, k)
    <2> SUFFICES ASSUME NEW k \in 1..n PROVE r[k] = r[k - 1] + Word(buff, k)
      OBVIOUS
    <2>1. r[k] = step[r[k - 1]][sq[k]] /\ r[k - 1] \in Nat /\ sq[k] = k
      BY <1>6 DEF IsRun, sq
    <2> QED BY <1>3, <2>1
  <1>9. r \in [0..n -> Nat] /\ r[0] = sum
    BY <1>6 DEF IsRun
  <1> QED
    BY <1>1, <1>7, <1>8, <1>9 DEF WordSums

Byte256 == 0..255

(* A word of a buffer has 16 bits. *)
LEMMA WordType ==
    ASSUME NEW buff \in Seq(Byte256), NEW i \in Nat \ {0}
    PROVE  Word(buff, i) \in Nat /\ Word(buff, i) <= 65535
  <1> DEFINE byte(k) == IF k <= Len(buff) THEN buff[k] ELSE 0
  <1>1. \A x \in Byte256 : x \in Nat /\ x <= 255
    BY DEF Byte256
  <1>2. ASSUME NEW k \in Nat \ {0} PROVE byte(k) \in Nat /\ byte(k) <= 255
    <2>1. k <= Len(buff) => buff[k] \in Byte256
      OBVIOUS
    <2> QED BY <1>1, <2>1
  <1>3. 2 * i - 1 \in Nat \ {0} /\ 2 * i \in Nat \ {0}
    OBVIOUS
  <1>4. /\ byte(2 * i - 1) \in Nat /\ byte(2 * i - 1) <= 255
        /\ byte(2 * i) \in Nat /\ byte(2 * i) <= 255
    BY <1>2, <1>3
  <1>5. Word(buff, i) = byte(2 * i - 1) + 256 * byte(2 * i)
    BY DEF Word
  <1> HIDE DEF byte
  <1> QED
    BY <1>4, <1>5

(* What fits an unsigned int. *)
FitsUnsigned(s) == s \in Nat /\ s < 65536 * 65536

(* 16 bits that are the remainder of a sum by 65535, where 0 is for nothing but 0. *)
IsRemainder(x, s) ==
    /\ x \in Nat /\ x <= 65535
    /\ \E q \in Nat : s = 65535 * q + x
    /\ x = 0 <=> s = 0

(* Adding the carries twice leaves such a remainder. *)
LEMMA FoldedIs ==
    ASSUME NEW sum, FitsUnsigned(sum)
    PROVE  IsRemainder(Folded(sum), sum)
  <1> DEFINE h == sum \div 65536
             l == sum % 65536
             once == l + h
             h2 == once \div 65536
             l2 == once % 65536
  <1>0. sum \in Nat
    BY DEF FitsUnsigned
  <1>1. /\ h \in Nat /\ h <= 65535
        /\ l \in Nat /\ l <= 65535
        /\ sum = 65536 * h + l
    BY DEF FitsUnsigned
  <1>2. once \in Nat /\ once <= 131070 /\ once = l + h
    <2> HIDE DEF h, l
    <2> QED BY <1>1
  <1>3. /\ h2 \in Nat /\ h2 <= 1
        /\ l2 \in Nat /\ l2 <= 65535
        /\ once = 65536 * h2 + l2
    <2> HIDE DEF once
    <2> QED BY <1>2
  <1>4. Folded(sum) = l2 + h2
    BY DEF Folded
  <1> HIDE DEF h, l, once, h2, l2
  <1>5. Folded(sum) \in Nat /\ Folded(sum) <= 65535
    BY <1>2, <1>3, <1>4
  <1>6. sum = 65535 * (h + h2) + Folded(sum) /\ h + h2 \in Nat
    BY <1>0, <1>1, <1>2, <1>3, <1>4
  <1>7. Folded(sum) = 0 <=> sum = 0
    BY <1>0, <1>1, <1>2, <1>3, <1>4
  <1> QED
    BY <1>5, <1>6, <1>7 DEF IsRemainder

(* Sums that differ by a multiple of 65535 have one remainder. *)
LEMMA OneRemainder ==
    ASSUME NEW s \in Nat, NEW t \in Nat, NEW x, NEW y,
           IsRemainder(x, s), IsRemainder(y, t), s = 0 <=> t = 0,
           NEW k \in Int, s - t = 65535 * k
    PROVE  x = y
  <1>0. IsRemainder(x, s) /\ IsRemainder(y, t)
    OBVIOUS
  <1>1. PICK p \in Nat : s = 65535 * p + x
    BY ONLY <1>0 DEF IsRemainder
  <1>2. PICK q \in Nat : t = 65535 * q + y
    BY ONLY <1>0 DEF IsRemainder
  <1>3. /\ x \in Nat /\ x <= 65535
        /\ y \in Nat /\ y <= 65535
        /\ x = 0 <=> y = 0
    BY DEF IsRemainder
  <1>4. x - y = 65535 * (k + q - p)
    BY <1>1, <1>2, <1>3
  <1> QED
    BY <1>3, <1>4

(* A sum may be folded on the way. *)
LEMMA FoldedAgain ==
    ASSUME NEW a \in Nat, NEW b \in Nat, FitsUnsigned(a + b)
    PROVE  /\ FitsUnsigned(Folded(a) + b)
           /\ Folded(Folded(a) + b) = Folded(a + b)
  <1>1. FitsUnsigned(a)
    BY DEF FitsUnsigned
  <1> DEFINE f == Folded(a)
             c == f + b
             d == a + b
  <1>2. IsRemainder(f, a)
    BY <1>1, FoldedIs
  <1> HIDE DEF f
  <1>3. PICK p \in Nat : a = 65535 * p + f
    BY <1>2 DEF IsRemainder
  <1>4. f \in Nat /\ (f = 0 <=> a = 0)
    BY <1>2 DEF IsRemainder
  <1>5. d \in Nat /\ c \in Nat /\ d - c = 65535 * p /\ (d = 0 <=> c = 0) /\ c <= d
    BY <1>3, <1>4
  <1>6. FitsUnsigned(d)
    OBVIOUS
  <1> HIDE DEF c, d
  <1>7. FitsUnsigned(c)
    BY <1>5, <1>6 DEF FitsUnsigned
  <1>8. IsRemainder(Folded(c), c) /\ IsRemainder(Folded(d), d)
    BY <1>6, <1>7, FoldedIs
  <1>9. Folded(c) = Folded(d)
    BY <1>5, <1>8, OneRemainder
  <1> QED
    BY <1>7, <1>9 DEF c, d, f

(* The sum that csum_partial folds. *)
LEMMA CsumSums ==
    ASSUME NEW buff \in Seq(Byte256), NEW sum \in Nat,
           NEW n \in Nat, n = (Len(buff) + 1) \div 2
    PROVE  \E r : /\ WordSums(r, buff, sum, n)
                  /\ csum_partial(buff, sum) = Folded(r[n]) % 65536
  <1>1. \A i \in 1..n : Word(buff, i) \in Nat
    BY WordType
  <1>2. PICK r : WordSums(r, buff, sum, n) /\ AddWords(buff, sum, n) = r[n]
    BY <1>1, WordsFold
  <1>3. csum_partial(buff, sum) = Folded(r[n]) % 65536
    BY <1>2 DEF csum_partial
  <1> QED
    BY <1>2, <1>3

(* No sum of a packet overflows an unsigned int. *)
LEMMA SumsFit ==
    ASSUME NEW buff \in Seq(Byte256), NEW sum \in Nat, sum <= 65535,
           NEW n \in Nat, n <= 32768, NEW r, WordSums(r, buff, sum, n)
    PROVE  \A k \in 0..n : FitsUnsigned(r[k])
  <1> DEFINE P == {k \in 0..n : r[k] \in Nat /\ r[k] <= 65535 * (k + 1)}
  <1>1. 0 \in P
    BY DEF WordSums
  <1>2. \A k \in 1..n : k - 1 \in P => k \in P
    <2> SUFFICES ASSUME NEW k \in 1..n, k - 1 \in P PROVE k \in P
      OBVIOUS
    <2>1. r[k] = r[k - 1] + Word(buff, k)
      BY DEF WordSums
    <2>2. Word(buff, k) \in Nat /\ Word(buff, k) <= 65535
      BY WordType
    <2>3. r[k - 1] \in Nat /\ r[k - 1] <= 65535 * k
      OBVIOUS
    <2> QED BY <2>1, <2>2, <2>3
  <1>3. \A k \in 0..n : k \in P
    <2>1. n \in Nat
      OBVIOUS
    <2> HIDE DEF P
    <2> QED BY ONLY <1>1, <1>2, <2>1, UpToInduction
  <1>4. ASSUME NEW k \in 0..n PROVE FitsUnsigned(r[k])
    <2>1. r[k] \in Nat /\ r[k] <= 65535 * (k + 1) /\ k <= 32768
      BY <1>3
    <2> QED BY <2>1 DEF FitsUnsigned
  <1> QED
    BY <1>4

(* Numbers of 16 bits. *)
Short(x) == x \in Nat /\ x <= 65535

(* The words of a buffer, which are not too many. *)
WordsOf(n, buff) == n \in Nat /\ n = (Len(buff) + 1) \div 2 /\ n <= 32768

(* The sums whose last, folded, is the checksum. *)
CsumBy(r, buff, sum, n) ==
    /\ WordSums(r, buff, sum, n)
    /\ FitsUnsigned(r[n])
    /\ csum_partial(buff, sum) = Folded(r[n])

(* The checksum of a packet is its sum, folded. *)
LEMMA CsumIs ==
    ASSUME NEW buff \in Seq(Byte256), NEW sum, Short(sum), NEW n, WordsOf(n, buff)
    PROVE  \E r : CsumBy(r, buff, sum, n)
  <1>0. sum \in Nat /\ sum <= 65535 /\ n \in Nat /\ n = (Len(buff) + 1) \div 2 /\ n <= 32768
    BY DEF Short, WordsOf
  <1>1. PICK r : /\ WordSums(r, buff, sum, n)
                 /\ csum_partial(buff, sum) = Folded(r[n]) % 65536
    BY <1>0, CsumSums
  <1>2. FitsUnsigned(r[n])
    BY <1>0, <1>1, SumsFit
  <1>3. Folded(r[n]) \in Nat /\ Folded(r[n]) <= 65535
    BY <1>2, FoldedIs DEF IsRemainder
  <1>4. Folded(r[n]) % 65536 = Folded(r[n])
    BY <1>3
  <1> QED
    BY <1>1, <1>2, <1>4 DEF CsumBy

(* The sum over the pseudo-header is one. *)
LEMMA MagicType ==
    ASSUME NEW src \in Seq(Byte256), NEW dst \in Seq(Byte256), NEW len, Short(len)
    PROVE  Short(csum_ipv6_magic(src, dst, len, IPPROTO_ICMPV6, 0))
  <1> DEFINE ph == PseudoHeader(src, dst, len, IPPROTO_ICMPV6)
             n == (Len(ph) + 1) \div 2
  <1>1. len \div 256 \in Byte256 /\ len % 256 \in Byte256 /\ 0 \in Byte256 /\ IPPROTO_ICMPV6 \in Byte256
    BY DEF Byte256, IPPROTO_ICMPV6, Short
  <1>2. htonl(len) \in Seq(Byte256)
    BY <1>1 DEF htonl
  <1>3. <<0, 0, 0, IPPROTO_ICMPV6>> \in Seq(Byte256)
    BY <1>1
  <1>4. ph \in Seq(Byte256)
    BY <1>2, <1>3 DEF PseudoHeader
  <1>5. csum_ipv6_magic(src, dst, len, IPPROTO_ICMPV6, 0) = csum_partial(ph, 0)
    BY DEF csum_ipv6_magic
  <1> HIDE DEF ph
  <1>6. n \in Nat /\ n = (Len(ph) + 1) \div 2
    BY <1>4
  <1> HIDE DEF n
  <1>7. PICK r : WordSums(r, ph, 0, n) /\ csum_partial(ph, 0) = Folded(r[n]) % 65536
    BY <1>4, <1>6, CsumSums
  <1>8. r[n] \in Nat
    BY <1>6, <1>7 DEF WordSums
  <1>9. Folded(r[n]) \in Nat
    BY <1>8 DEF Folded
  <1> QED
    BY <1>5, <1>7, <1>9 DEF Short

(* A buffer whose second word is larger by w than that of another, and only this. *)
Changed(c, b, w, n) ==
    /\ n \in Nat /\ n >= 2 /\ w \in Nat
    /\ \A k \in 1..n : Word(b, k) \in Nat
    /\ \A k \in 1..n : Word(c, k) = IF k = 2 THEN Word(b, k) + w ELSE Word(b, k)

(* The sum of such a buffer. *)
LEMMA SumsChanged ==
    ASSUME NEW n, NEW b, NEW c, NEW sum, NEW r, NEW q, NEW w,
           WordSums(r, b, sum, n), WordSums(q, c, sum, n), Changed(c, b, w, n)
    PROVE  q[n] = r[n] + w
  <1>0. n \in Nat /\ n >= 2 /\ w \in Nat
    BY DEF Changed
  <1> DEFINE P == {k \in 0..n : q[k] = IF k >= 2 THEN r[k] + w ELSE r[k]}
  <1>1. 0 \in P
    BY <1>0 DEF WordSums
  <1>2. \A k \in 1..n : k - 1 \in P => k \in P
    <2> SUFFICES ASSUME NEW k \in 1..n, k - 1 \in P PROVE k \in P
      OBVIOUS
    <2>1. /\ r[k] = r[k - 1] + Word(b, k) /\ r[k - 1] \in Nat /\ Word(b, k) \in Nat
          /\ q[k] = q[k - 1] + Word(c, k)
      BY <1>0 DEF WordSums, Changed
    <2>2. q[k - 1] = IF k - 1 >= 2 THEN r[k - 1] + w ELSE r[k - 1]
      OBVIOUS
    <2>3. Word(c, k) = IF k = 2 THEN Word(b, k) + w ELSE Word(b, k)
      BY DEF Changed
    <2> QED BY <1>0, <2>1, <2>2, <2>3
  <1>3. \A k \in 0..n : k \in P
    <2>1. n \in Nat
      BY <1>0
    <2> HIDE DEF P
    <2> QED BY ONLY <1>1, <1>2, <2>1, UpToInduction
  <1> QED
    BY <1>0, <1>3

(* The sums of a buffer are those of its beginning. *)
LEMMA SumsBegin ==
    ASSUME NEW n \in Nat, NEW m \in 0..n, NEW b, NEW c, NEW sum, NEW r, NEW q,
           WordSums(r, b, sum, n), WordSums(q, c, sum, m),
           \A k \in 1..m : Word(c, k) = Word(b, k)
    PROVE  q[m] = r[m]
  <1> DEFINE P == {k \in 0..m : q[k] = r[k]}
  <1>1. 0 \in P
    BY DEF WordSums
  <1>2. \A k \in 1..m : k - 1 \in P => k \in P
    BY DEF WordSums
  <1>3. \A k \in 0..m : k \in P
    <2>1. m \in Nat
      OBVIOUS
    <2> HIDE DEF P
    <2> QED BY ONLY <1>1, <1>2, <2>1, UpToInduction
  <1> QED
    BY <1>3

(* The sums of the rest of a buffer, from any sum on. *)
LEMMA SumsEnd ==
    ASSUME NEW n \in Nat, NEW m \in 0..n, NEW b, NEW c, NEW sum, NEW s \in Nat, NEW r, NEW q,
           WordSums(r, b, sum, n), WordSums(q, c, s, n - m),
           \A k \in 1..n : Word(b, k) \in Nat,
           \A k \in 1..(n - m) : Word(c, k) = Word(b, m + k)
    PROVE  q[n - m] + r[m] = r[n] + s /\ r[m] <= r[n]
  <1> DEFINE P == {k \in 0..(n - m) : q[k] + r[m] = r[m + k] + s /\ r[m] <= r[m + k]}
  <1>0. n - m \in Nat /\ \A k \in 0..n : r[k] \in Nat
    BY DEF WordSums
  <1>1. 0 \in P
    BY <1>0 DEF WordSums
  <1>2. \A k \in 1..(n - m) : k - 1 \in P => k \in P
    <2> SUFFICES ASSUME NEW k \in 1..(n - m), k - 1 \in P PROVE k \in P
      OBVIOUS
    <2>1. m + k \in 1..n /\ (m + k) - 1 = m + (k - 1) /\ m + (k - 1) \in 0..n
      OBVIOUS
    <2>2. r[m + k] = r[m + (k - 1)] + Word(b, m + k)
      BY <2>1 DEF WordSums
    <2>3. q[k] = q[k - 1] + Word(b, m + k) /\ q[k - 1] \in Nat
      BY DEF WordSums
    <2>4. r[m + (k - 1)] \in Nat /\ r[m] \in Nat /\ Word(b, m + k) \in Nat
      BY <1>0, <2>1
    <2> QED BY <2>2, <2>3, <2>4
  <1>3. \A k \in 0..(n - m) : k \in P
    <2> HIDE DEF P
    <2> QED BY ONLY <1>0, <1>1, <1>2, UpToInduction
  <1>4. n - m \in P /\ m + (n - m) = n
    BY <1>0, <1>3
  <1> QED
    BY <1>4

(* The length of a message in bytes, and in words. *)
LEMMA WordCount ==
    ASSUME NEW len \in Nat, 4 <= len, Short(len)
    PROVE  /\ (len + 1) \div 2 \in Nat /\ 2 <= (len + 1) \div 2 /\ (len + 1) \div 2 <= 32768
           /\ \A i \in 0 .. len \div 2 :
                 /\ i <= (len + 1) \div 2 /\ 2 * i <= len /\ (2 * i + 1) \div 2 = i
                 /\ (len - 2 * i + 1) \div 2 = (len + 1) \div 2 - i
  BY DEF Short

(* What a message is, for the checksum. *)
Message(icmp) == icmp \in Seq(Byte256) /\ 4 <= Len(icmp) /\ Short(Len(icmp))

(* The message that is summed, and the one that is sent. *)
Zeroed(icmp) == [icmp EXCEPT ![3] = 0, ![4] = 0]
Filled(zeroed, ck) == [zeroed EXCEPT ![3] = ck % 256, ![4] = ck \div 256]

(* A message with its checksum differs in its second word from the message that
   was summed. *)
LEMMA SentWords ==
    ASSUME NEW icmp, Message(icmp), NEW ck, Short(ck)
    PROVE  /\ Zeroed(icmp) \in Seq(Byte256) /\ Len(Zeroed(icmp)) = Len(icmp)
           /\ Filled(Zeroed(icmp), ck) \in Seq(Byte256) /\ Len(Filled(Zeroed(icmp), ck)) = Len(icmp)
           /\ Changed(Filled(Zeroed(icmp), ck), Zeroed(icmp), ck, (Len(icmp) + 1) \div 2)
  <1> DEFINE zeroed == Zeroed(icmp)
             sent == Filled(zeroed, ck)
             n == (Len(icmp) + 1) \div 2
  <1>0. icmp \in Seq(Byte256) /\ Len(icmp) \in Nat /\ 4 <= Len(icmp) /\ Short(Len(icmp))
    BY DEF Message
  <1>1. ck % 256 \in Byte256 /\ ck \div 256 \in Byte256 /\ 0 \in Byte256
    BY DEF Short, Byte256
  <1>2. (ck % 256) + 256 * (ck \div 256) = ck
    BY DEF Short
  <1> DEFINE lo == ck % 256
             hi == ck \div 256
  <1> HIDE DEF lo, hi
  <1>3. zeroed \in Seq(Byte256) /\ Len(zeroed) = Len(icmp)
    BY <1>0, <1>1 DEF Zeroed
  <1>4. zeroed[3] = 0 /\ zeroed[4] = 0
    BY <1>0 DEF Zeroed
  <1>5. sent = [zeroed EXCEPT ![3] = lo, ![4] = hi]
    BY DEF lo, hi, Filled
  <1> HIDE DEF sent, zeroed
  <1>6. sent \in Seq(Byte256) /\ Len(sent) = Len(icmp)
    BY <1>0, <1>1, <1>3, <1>5 DEF lo, hi
  <1>7. sent[3] = lo /\ sent[4] = hi
    BY <1>0, <1>3, <1>5
  <1>8. \A i \in 1..Len(icmp) : i # 3 /\ i # 4 => sent[i] = zeroed[i]
    BY <1>0, <1>3, <1>5
  <1>9. Word(sent, 2) = lo + 256 * hi
    BY <1>0, <1>6, <1>7, 2 * 2 - 1 = 3, 2 * 2 = 4 DEF Word
  <1>10. Word(zeroed, 2) = 0
    BY <1>0, <1>3, <1>4, 2 * 2 - 1 = 3, 2 * 2 = 4 DEF Word
  <1>11. ASSUME NEW k \in Nat \ {0}, k # 2 PROVE Word(sent, k) = Word(zeroed, k)
    <2>1. 2 * k - 1 # 3 /\ 2 * k - 1 # 4 /\ 2 * k # 3 /\ 2 * k # 4
      BY <1>11
    <2>2. 2 * k - 1 \in Nat \ {0} /\ 2 * k \in Nat \ {0}
      OBVIOUS
    <2>3. 2 * k - 1 <= Len(sent) => sent[2 * k - 1] = zeroed[2 * k - 1]
      BY <1>6, <1>8, <2>1, <2>2
    <2>4. 2 * k <= Len(sent) => sent[2 * k] = zeroed[2 * k]
      BY <1>6, <1>8, <2>1, <2>2
    <2> QED
      BY <1>3, <1>6, <2>3, <2>4 DEF Word
  <1>12. Word(sent, 2) = Word(zeroed, 2) + ck
    <2>1. lo + 256 * hi = ck /\ ck \in Nat
      BY <1>2 DEF lo, hi, Short
    <2> QED BY <1>9, <1>10, <2>1
  <1>13. n \in Nat /\ n >= 2
    BY ONLY <1>0, WordCount
  <1> HIDE DEF n
  <1>14. \A k \in 1..n : Word(zeroed, k) \in Nat
    BY <1>3, <1>13, WordType
  <1>15. \A k \in 1..n : Word(sent, k) = IF k = 2 THEN Word(zeroed, k) + ck ELSE Word(zeroed, k)
    BY ONLY <1>11, <1>12, <1>13
  <1>16. Changed(sent, zeroed, ck, n)
    BY <1>13, <1>14, <1>15 DEF Changed, Short
  <1> QED
    BY ONLY <1>3, <1>6, <1>16 DEF sent, zeroed, n

(* The words of the two parts of a buffer. *)
LEMMA SplitWords ==
    ASSUME NEW b \in Seq(Byte256), NEW i \in Nat, 2 * i <= Len(b)
    PROVE  LET begin == SubSeq(b, 1, 2 * i)
               end == SubSeq(b, 2 * i + 1, Len(b))
           IN  /\ begin \in Seq(Byte256) /\ Len(begin) = 2 * i
               /\ end \in Seq(Byte256) /\ Len(end) = Len(b) - 2 * i
               /\ \A k \in 1..i : Word(begin, k) = Word(b, k)
               /\ \A k \in Nat \ {0} : Word(end, k) = Word(b, i + k)
  <1> DEFINE begin == SubSeq(b, 1, 2 * i)
             end == SubSeq(b, 2 * i + 1, Len(b))
             len == Len(b)
  <1>1. begin \in Seq(Byte256) /\ Len(begin) = 2 * i /\ \A k \in 1..(2 * i) : begin[k] = b[k]
    OBVIOUS
  <1>2. /\ end \in Seq(Byte256) /\ Len(end) = Len(b) - 2 * i
        /\ \A k \in 1..(Len(b) - 2 * i) : end[k] = b[2 * i + k]
    <2> DEFINE m == 2 * i
    <2>1. m \in Nat /\ m <= Len(b)
      OBVIOUS
    <2> HIDE DEF m
    <2> SUFFICES /\ SubSeq(b, m + 1, Len(b)) \in Seq(Byte256)
                 /\ Len(SubSeq(b, m + 1, Len(b))) = Len(b) - m
                 /\ \A k \in 1..(Len(b) - m) : SubSeq(b, m + 1, Len(b))[k] = b[m + k]
      BY DEF m
    <2>2. /\ SubSeq(b, m + 1, Len(b)) \in Seq(Byte256)
          /\ Len(SubSeq(b, m + 1, Len(b))) = Len(b) - m
      BY <2>1
    <2>3. ASSUME NEW k \in 1..(Len(b) - m)
          PROVE  SubSeq(b, m + 1, Len(b))[k] = b[m + k]
      <3>1. m + 1 + k - 1 = m + k
        BY <2>1
      <3>2. SubSeq(b, m + 1, Len(b))[k] = b[m + 1 + k - 1]
        BY <2>1
      <3> QED BY <3>1, <3>2
    <2> QED BY <2>2, <2>3
  <1> HIDE DEF begin, end
  <1>3. ASSUME NEW k \in 1..i PROVE Word(begin, k) = Word(b, k)
    <2>1. 2 * k - 1 \in 1..(2 * i) /\ 2 * k \in 1..(2 * i)
      OBVIOUS
    <2>2. /\ 2 * k - 1 <= Len(begin) /\ 2 * k <= Len(begin)
          /\ 2 * k - 1 <= Len(b) /\ 2 * k <= Len(b)
      BY <1>1, <2>1
    <2>3. begin[2 * k - 1] = b[2 * k - 1] /\ begin[2 * k] = b[2 * k]
      BY <1>1, <2>1
    <2> QED BY <2>2, <2>3 DEF Word
  <1>4. ASSUME NEW k \in Nat \ {0} PROVE Word(end, k) = Word(b, i + k)
    <2>1. 2 * (i + k) - 1 = 2 * i + (2 * k - 1) /\ 2 * (i + k) = 2 * i + 2 * k
      OBVIOUS
    <2>2. /\ 2 * k - 1 <= Len(end) <=> 2 * (i + k) - 1 <= Len(b)
          /\ 2 * k <= Len(end) <=> 2 * (i + k) <= Len(b)
      BY <1>2
    <2>3. 2 * k - 1 <= Len(end) => end[2 * k - 1] = b[2 * (i + k) - 1]
      <3> SUFFICES ASSUME 2 * k - 1 <= Len(end) PROVE end[2 * k - 1] = b[2 * (i + k) - 1]
        OBVIOUS
      <3>1. 2 * k - 1 \in 1..(Len(b) - 2 * i)
        BY <1>2
      <3>2. end[2 * k - 1] = b[2 * i + (2 * k - 1)]
        BY <1>2, <3>1
      <3> QED BY <2>1, <3>2
    <2>4. 2 * k <= Len(end) => end[2 * k] = b[2 * (i + k)]
      BY <1>2, <2>1
    <2> QED BY <2>2, <2>3, <2>4 DEF Word
  <1> QED
    BY <1>1, <1>2, <1>3, <1>4 DEF begin, end


(* Where a buffer is split does not matter. *)
LEMMA CsumSplit ==
    ASSUME NEW b, Message(b), NEW sum, Short(sum), NEW i \in 0 .. Len(b) \div 2
    PROVE  csum_partial(SubSeq(b, 2 * i + 1, Len(b)), csum_partial(SubSeq(b, 1, 2 * i), sum))
              = csum_partial(b, sum)
  <1> DEFINE n == (Len(b) + 1) \div 2
             m == n - i
             begin == SubSeq(b, 1, 2 * i)
             end == SubSeq(b, 2 * i + 1, Len(b))
  <1>1. b \in Seq(Byte256)
    BY DEF Message
  <1>2. Len(b) \in Nat /\ 4 <= Len(b) /\ Short(Len(b))
    BY DEF Message
  <1>3. /\ n \in Nat /\ n <= 32768
        /\ i <= n /\ 2 * i <= Len(b) /\ (2 * i + 1) \div 2 = i
        /\ (Len(b) - 2 * i + 1) \div 2 = n - i
    BY <1>2, WordCount
  <1>4. i \in Nat /\ i \in 0..n /\ m \in Nat
    BY <1>3
  <1>5. /\ begin \in Seq(Byte256) /\ Len(begin) = 2 * i
        /\ end \in Seq(Byte256) /\ Len(end) = Len(b) - 2 * i
        /\ \A k \in 1..i : Word(begin, k) = Word(b, k)
        /\ \A k \in Nat \ {0} : Word(end, k) = Word(b, i + k)
    <2>1. i \in Nat /\ 2 * i <= Len(b)
      BY ONLY <1>3, <1>4
    <2> QED BY ONLY <1>1, <2>1, SplitWords
  <1>6. WordsOf(n, b)
    BY <1>3 DEF WordsOf
  <1> HIDE DEF begin, end
  <1>7. WordsOf(i, begin)
    BY <1>3, <1>4, <1>5 DEF WordsOf
  <1>8. WordsOf(m, end)
    BY <1>3, <1>4, <1>5 DEF WordsOf
  <1>9. n \in Nat
    BY <1>3
  <1>10. n - i = m
    OBVIOUS
  <1>11. \A k \in 1..n : Word(b, k) \in Nat
    BY <1>1, WordType
  <1>12. \A k \in 1..(n - i) : Word(end, k) = Word(b, i + k)
    BY <1>5
  <1> HIDE DEF n, m
  <1>13. PICK q : CsumBy(q, b, sum, n)
    BY ONLY <1>1, <1>6, Short(sum), CsumIs
  <1>14. PICK r : CsumBy(r, begin, sum, i)
    BY ONLY <1>5, <1>7, Short(sum), CsumIs
  <1>15. WordSums(q, b, sum, n) /\ WordSums(r, begin, sum, i)
    BY ONLY <1>13, <1>14 DEF CsumBy
  <1>16. r[i] = q[i]
    BY ONLY <1>4, <1>5, <1>9, <1>15, SumsBegin
  <1> DEFINE f == csum_partial(begin, sum)
  <1>17. f = Folded(q[i]) /\ FitsUnsigned(q[i])
    BY <1>14, <1>16 DEF CsumBy
  <1>18. IsRemainder(f, q[i])
    BY <1>17, FoldedIs
  <1>19. f \in Nat /\ Short(f)
    BY <1>18 DEF IsRemainder, Short
  <1> HIDE DEF f
  <1>20. PICK e : CsumBy(e, end, f, m)
    BY ONLY <1>5, <1>8, <1>19, CsumIs
  <1>21. WordSums(e, end, f, n - i)
    BY ONLY <1>10, <1>20 DEF CsumBy
  <1>22. e[n - i] + q[i] = q[n] + f /\ q[i] <= q[n]
    BY ONLY <1>4, <1>9, <1>11, <1>12, <1>15, <1>19, <1>21, SumsEnd
  <1>23. q[i] \in Nat /\ q[n] \in Nat /\ e[n - i] \in Nat
    BY ONLY <1>4, <1>9, <1>10, <1>15, <1>21 DEF WordSums
  <1> DEFINE d == q[n] - q[i]
  <1>24. d \in Nat /\ q[i] + d = q[n] /\ e[n - i] = f + d
    BY ONLY <1>19, <1>22, <1>23
  <1> HIDE DEF d
  <1>25. Folded(Folded(q[i]) + d) = Folded(q[i] + d)
    <2>1. FitsUnsigned(q[i] + d)
      BY ONLY <1>13, <1>24 DEF CsumBy
    <2> QED BY ONLY <1>23, <1>24, <2>1, FoldedAgain
  <1>26. csum_partial(end, f) = csum_partial(b, sum)
    BY ONLY <1>10, <1>13, <1>17, <1>20, <1>24, <1>25 DEF CsumBy
  <1> QED
    BY <1>26 DEF f, begin, end

(* A sum with the complement of its remainder is all ones. *)
LEMMA ComplementSum ==
    ASSUME NEW s \in Nat, NEW x, IsRemainder(x, s), NEW t, t = s + (65535 - x), FitsUnsigned(t)
    PROVE  Folded(t) = 65535
  <1>1. x \in Nat /\ x <= 65535 /\ (x = 0 <=> s = 0)
    BY DEF IsRemainder
  <1>2. PICK p \in Nat : s = 65535 * p + x
    BY DEF IsRemainder
  <1>3. t \in Nat /\ t # 0 /\ t = 65535 * (p + 1)
    BY <1>1, <1>2
  <1> DEFINE y == Folded(t)
  <1>4. IsRemainder(y, t)
    BY FoldedIs
  <1> HIDE DEF y
  <1>5. y \in Nat /\ y <= 65535 /\ (y = 0 <=> t = 0)
    BY <1>4 DEF IsRemainder
  <1>6. PICK q \in Nat : t = 65535 * q + y
    BY <1>4 DEF IsRemainder
  <1>7. y = 65535 * (p + 1 - q) /\ y # 0
    BY <1>3, <1>5, <1>6
  <1>8. y = 65535
    BY <1>5, <1>7
  <1> QED
    BY <1>8 DEF y

(* The checksum of every message verifies. *)
LEMMA CsumVerifies ==
    ASSUME NEW src \in Seq(Byte256), NEW dst \in Seq(Byte256), NEW icmp, Message(icmp)
    PROVE  LET sent == WithChecksum(src, dst, icmp)
           IN  /\ Message(sent) /\ Len(sent) = Len(icmp)
               /\ csum_partial(sent, csum_ipv6_magic(src, dst, Len(sent), IPPROTO_ICMPV6, 0)) = 65535
  <1> DEFINE zeroed == Zeroed(icmp)
             magic == csum_ipv6_magic(src, dst, Len(icmp), IPPROTO_ICMPV6, 0)
             sum == csum_partial(zeroed, magic)
             ck == 65535 - sum
             sent == Filled(zeroed, ck)
             n == (Len(icmp) + 1) \div 2
  <1>1. icmp \in Seq(Byte256) /\ 4 <= Len(icmp) /\ Short(Len(icmp)) /\ Len(icmp) \in Nat
    BY DEF Message
  <1>2. Short(magic)
    BY ONLY <1>1, src \in Seq(Byte256), dst \in Seq(Byte256), MagicType
  <1>3. n \in Nat /\ 2 <= n /\ n <= 32768
    BY ONLY <1>1, WordCount
  <1>4. WithChecksum(src, dst, icmp) = sent
    BY DEF WithChecksum, Zeroed, Filled
  <1>5. zeroed \in Seq(Byte256) /\ Len(zeroed) = Len(icmp)
    <2>1. Short(0)
      BY DEF Short
    <2> QED BY ONLY <2>1, Message(icmp), SentWords
  <1> HIDE DEF magic
  <1>7. WordsOf(n, zeroed)
    BY <1>3, <1>5 DEF WordsOf
  <1>8. PICK r : CsumBy(r, zeroed, magic, n)
    BY ONLY <1>2, <1>5, <1>7, CsumIs
  <1>9. IsRemainder(sum, r[n]) /\ r[n] \in Nat
    BY ONLY <1>8, FoldedIs DEF CsumBy, FitsUnsigned
  <1>10. sum \in Nat /\ sum <= 65535
    BY ONLY <1>9 DEF IsRemainder
  <1> HIDE DEF sum
  <1>11. ck \in Nat /\ Short(ck) /\ ck = 65535 - sum
    BY <1>10 DEF Short
  <1> HIDE DEF ck
  <1>14. /\ sent \in Seq(Byte256) /\ Len(sent) = Len(icmp)
         /\ Changed(sent, zeroed, ck, n)
    BY ONLY Message(icmp), <1>11, SentWords
  <1> HIDE DEF sent, zeroed
  <1>15. WordsOf(n, sent)
    BY ONLY <1>3, <1>14 DEF WordsOf, n
  <1> HIDE DEF n
  <1>16. PICK q : CsumBy(q, sent, magic, n)
    BY ONLY <1>2, <1>14, <1>15, CsumIs
  <1>20. WordSums(r, zeroed, magic, n) /\ WordSums(q, sent, magic, n)
    BY ONLY <1>8, <1>16 DEF CsumBy
  <1>21. q[n] = r[n] + ck
    BY ONLY <1>14, <1>20, SumsChanged
  <1>22. Folded(q[n]) = 65535
    <2>1. q[n] = r[n] + (65535 - sum) /\ FitsUnsigned(q[n])
      BY ONLY <1>11, <1>16, <1>21 DEF CsumBy
    <2> QED BY ONLY <1>9, <2>1, ComplementSum
  <1>23. csum_partial(sent, csum_ipv6_magic(src, dst, Len(sent), IPPROTO_ICMPV6, 0)) = 65535
    BY ONLY <1>14, <1>16, <1>22 DEF magic, CsumBy
  <1>24. Message(sent)
    BY ONLY <1>1, <1>14 DEF Message
  <1> QED
    BY ONLY <1>4, <1>14, <1>23, <1>24

(* The checksum that send_raw_icmp inserts verifies for every message that the
   length of the pseudo-header can stand for, of every content, and the sum may be
   computed in parts. *)
THEOREM EveryChecksumVerifies ==
    ASSUME NEW src \in Seq(Byte256), NEW dst \in Seq(Byte256), NEW icmp, Message(icmp)
    PROVE  Verifies(src, dst, icmp)
  <1> DEFINE sent == WithChecksum(src, dst, icmp)
             magic == csum_ipv6_magic(src, dst, Len(sent), IPPROTO_ICMPV6, 0)
  <1>1. Message(sent) /\ csum_partial(sent, magic) = 65535
    BY ONLY src \in Seq(Byte256), dst \in Seq(Byte256), Message(icmp), CsumVerifies
  <1>2. Short(Len(sent))
    BY ONLY <1>1 DEF Message
  <1>3. Short(magic)
    BY ONLY src \in Seq(Byte256), dst \in Seq(Byte256), <1>2, MagicType
  <1>4. ASSUME NEW i \in 0 .. Len(sent) \div 2
        PROVE  csum_partial(SubSeq(sent, 2 * i + 1, Len(sent)), csum_partial(SubSeq(sent, 1, 2 * i), magic))
                  = csum_partial(sent, magic)
    <2> HIDE DEF sent, magic
    <2> QED BY ONLY <1>1, <1>3, i \in 0 .. Len(sent) \div 2, CsumSplit
  <1> QED
    BY <1>1, <1>4 DEF Verifies

(* A message of the bytes that the run chooses. *)
LEMMA PayloadMessage ==
    ASSUME NEW s \in UpTo(Payloads, MaxPayload)
    PROVE  Message(<<155, 2, 7, 7>> \o s)
  <1>1. s \in Seq(Payloads) /\ Len(s) \in 0..MaxPayload
    BY PayloadAssumption, UpToSeq
  <1>2. Payloads \subseteq Byte256
    BY DEF Payloads, Byte256
  <1>3. s \in Seq(Byte256)
    BY <1>1, <1>2
  <1>4. <<155, 2, 7, 7>> \in Seq(Byte256) /\ Len(<<155, 2, 7, 7>>) = 4
    BY DEF Byte256
  <1> DEFINE h == <<155, 2, 7, 7>>
  <1> HIDE DEF h
  <1>5. h \o s \in Seq(Byte256) /\ Len(h \o s) = 4 + Len(s)
    BY <1>3, <1>4 DEF h
  <1>6. Short(4 + Len(s))
    BY <1>1, PayloadAssumption DEF Short
  <1>7. Message(h \o s)
    BY <1>1, <1>5, <1>6 DEF Message
  <1> QED
    BY <1>7 DEF h

(* What the run checks of the checksum (send_raw_icmp, csum_partial) holds for
   every length that it may be given. *)
THEOREM ChecksumCorrect == Spec => []ChecksumVerifies
  <1>1. Init => ChecksumVerifies
    <2> SUFFICES ASSUME Init, kind = "packet"
                 PROVE  Verifies(<<254, 128, 255, 255>>, <<255, 2, 255, 26>>, <<155, 2, 7, 7>> \o input)
      BY DEF ChecksumVerifies
    <2>1. input \in UpTo(Payloads, MaxPayload)
      BY DEF Init
    <2>2. <<254, 128, 255, 255>> \in Seq(Byte256) /\ <<255, 2, 255, 26>> \in Seq(Byte256)
      BY DEF Byte256
    <2> QED BY <2>1, <2>2, PayloadMessage, EveryChecksumVerifies
  <1> QED
    BY <1>1, InputStays, PTL

-----------------------------------------------------------------------------
(* What rtnl_talk may read, and what it knows in between. *)
Reply == {m \in [form : {"message", "error", "malformed"}, own : BOOLEAN, ack : BOOLEAN, code : Nat] :
             (m.form = "message" => m.ack) \/ m.code = 0}
TalkResult == {"reads", "spins", "ok", "failed", "exited"}

TalkStepFn(wanted) == [x \in TalkResult |-> [h \in Reply |-> TalkStep(x, h, wanted)]]
TalkFn(wanted) == [x \in TalkResult |-> [d \in Seq(Reply) |-> TalkDatagram(x, d, wanted)]]

(* A message leaves one of these results. *)
LEMMA TalkStepType ==
    ASSUME NEW x \in TalkResult, NEW h \in Reply, NEW wanted \in BOOLEAN
    PROVE  TalkStep(x, h, wanted) \in TalkResult
  <1>1. h.own \in BOOLEAN /\ h.ack \in BOOLEAN /\ h.form \in {"message", "error", "malformed"}
    BY DEF Reply
  <1> QED BY <1>1 DEF TalkStep, TalkResult

(* The messages of a datagram are read one after the other. *)
LEMMA DatagramFold ==
    ASSUME NEW base \in TalkResult, NEW d \in Seq(Reply), NEW wanted \in BOOLEAN
    PROVE  Ends(TalkDatagram(base, d, wanted), TalkResult, TalkStepFn(wanted), base, d)
  <1> DEFINE n == Len(d)
             T == TalkResult
             M == Reply
             step == TalkStepFn(wanted)
             Eq(f) == f = [s \in SUBSET (1..n) |->
                              IF s = {} THEN base ELSE TalkStep(f[s \ {Max(s)}], d[Max(s)], wanted)]
             g == CHOOSE f : Eq(f)
             r == RunOf(g, n)
  <1>1. n \in Nat /\ d \in [1..n -> M] /\ DOMAIN d = 1..n /\ base \in T
    BY TalkStepType
  <1>2. TalkDatagram(base, d, wanted) = g[1..n]
    BY <1>1 DEF TalkDatagram, FoldLeft, MapThenFoldSet
  <1>3. step \in [T -> [M -> T]] /\ \A x \in T, e \in M : TalkStep(x, e, wanted) = step[x][e]
    BY TalkStepType DEF TalkStepFn
  <1>4. \A s \in SUBSET (1..n) : s # {} => d[Max(s)] \in M
    BY <1>1, MaxIn
  <1> HIDE DEF step, n, T, M
  <1>5. Eq(g)
    <2>1. PICK f : IsTable(f, T, step, base, n, d)
      BY <1>1, <1>3, FoldTable
    <2>2. Eq(f)
      BY <1>3, <1>4, <2>1, Zenon DEF IsTable
    <2> HIDE DEF Eq
    <2> QED BY <2>2
  <1>6. IsRun(r, T, step, base, n, d)
    <2>1. \A s \in SUBSET (1..n) :
            g[s] = IF s = {} THEN base ELSE TalkStep(g[s \ {Max(s)}], d[Max(s)], wanted)
      BY <1>5
    <2>2. Follows(g, T, step, base, n, d)
      BY <1>3, <1>4, <2>1 DEF Follows
    <2> HIDE DEF g
    <2> QED BY <1>1, <1>3, <2>2, TableRun
  <1>7. g[1..n] = r[n]
    BY <1>1 DEF RunOf
  <1> HIDE DEF r
  <1> QED
    BY <1>2, <1>6, <1>7 DEF Ends, n, T, step

(* So does a datagram. *)
LEMMA DatagramType ==
    ASSUME NEW base \in TalkResult, NEW d \in Seq(Reply), NEW wanted \in BOOLEAN
    PROVE  TalkDatagram(base, d, wanted) \in TalkResult
  BY DatagramFold, EndsType

(* The datagrams are read one after the other. *)
LEMMA TalksFold ==
    ASSUME NEW ds \in Seq(Seq(Reply)), NEW wanted \in BOOLEAN, "reads" \in TalkResult
    PROVE  Ends(rtnl_talk(ds, wanted), TalkResult, TalkFn(wanted), "reads", ds)
  <1> DEFINE n == Len(ds)
             T == TalkResult
             M == Seq(Reply)
             step == TalkFn(wanted)
             Eq(f) == f = [s \in SUBSET (1..n) |->
                              IF s = {} THEN "reads" ELSE TalkDatagram(f[s \ {Max(s)}], ds[Max(s)], wanted)]
             g == CHOOSE f : Eq(f)
             r == RunOf(g, n)
  <1>1. n \in Nat /\ ds \in [1..n -> M] /\ DOMAIN ds = 1..n /\ "reads" \in T
    BY DatagramType
  <1>2. rtnl_talk(ds, wanted) = g[1..n]
    BY <1>1 DEF rtnl_talk, FoldLeft, MapThenFoldSet
  <1>3. step \in [T -> [M -> T]] /\ \A x \in T, e \in M : TalkDatagram(x, e, wanted) = step[x][e]
    BY DatagramType DEF TalkFn
  <1>4. \A s \in SUBSET (1..n) : s # {} => ds[Max(s)] \in M
    BY <1>1, MaxIn
  <1> HIDE DEF step, n, T, M
  <1>5. Eq(g)
    <2>1. PICK f : IsTable(f, T, step, "reads", n, ds)
      BY <1>1, <1>3, FoldTable
    <2>2. Eq(f)
      BY <1>3, <1>4, <2>1, Zenon DEF IsTable
    <2> HIDE DEF Eq
    <2> QED BY <2>2
  <1>6. IsRun(r, T, step, "reads", n, ds)
    <2>1. \A s \in SUBSET (1..n) :
            g[s] = IF s = {} THEN "reads" ELSE TalkDatagram(g[s \ {Max(s)}], ds[Max(s)], wanted)
      BY <1>5
    <2>2. Follows(g, T, step, "reads", n, ds)
      BY <1>3, <1>4, <2>1 DEF Follows
    <2> HIDE DEF g
    <2> QED BY <1>1, <1>3, <2>2, TableRun
  <1>7. g[1..n] = r[n]
    BY <1>1 DEF RunOf
  <1> HIDE DEF r
  <1> QED
    BY <1>2, <1>6, <1>7 DEF Ends, n, T, step

(* A datagram may be split. *)
LEMMA TalkSplit ==
    ASSUME NEW base \in TalkResult, NEW d \in Seq(Reply), NEW e \in Seq(Reply), NEW wanted \in BOOLEAN
    PROVE  TalkDatagram(TalkDatagram(base, d, wanted), e, wanted) = TalkDatagram(base, d \o e, wanted)
  <1> DEFINE x == TalkDatagram(base, d, wanted)
             y == TalkDatagram(x, e, wanted)
             z == TalkDatagram(base, d \o e, wanted)
             step == TalkStepFn(wanted)
  <1>1. x \in TalkResult /\ Ends(x, TalkResult, step, base, d)
    BY DatagramFold, DatagramType
  <1>2. Ends(y, TalkResult, step, x, e)
    <2> HIDE DEF x
    <2> QED BY <1>1, DatagramFold
  <1>3. d \o e \in Seq(Reply)
    OBVIOUS
  <1>4. Ends(z, TalkResult, step, base, d \o e)
    BY <1>3, DatagramFold
  <1>5. IsStep(TalkResult, Reply, step)
    BY TalkStepType DEF IsStep, TalkStepFn
  <1> HIDE DEF x, y, z, step
  <1>6. y = z
    BY <1>1, <1>2, <1>4, <1>5, EndsSplit
  <1> QED BY <1>6 DEF x, y, z

(* What is read does not depend on the datagrams. *)
LEMMA TalkFlat ==
    ASSUME NEW ds \in Seq(Seq(Reply)), NEW wanted \in BOOLEAN
    PROVE  /\ Concat(ds) \in Seq(Reply)
           /\ rtnl_talk(ds, wanted) = TalkDatagram("reads", Concat(ds), wanted)
  <1> DEFINE n == Len(ds)
             M == Seq(Reply)
  <1>1. PICK r : IsRun(r, TalkResult, TalkFn(wanted), "reads", n, ds) /\ rtnl_talk(ds, wanted) = r[n]
    <2>1. "reads" \in TalkResult
      BY DEF TalkResult
    <2> QED BY <2>1, TalksFold DEF Ends
  <1>2. PICK f : FlatRun(f, Reply, ds) /\ FlattenSeq(ds) = f[n]
    BY FlattenRun
  <1>3. n \in Nat /\ \A k \in 1..n : ds[k] \in M
    OBVIOUS
  <1>4. \A k \in 0..n : f[k] \in M /\ r[k] \in TalkResult
    BY <1>1, <1>2 DEF FlatRun, IsRun
  <1> DEFINE P == {k \in 0..n : r[k] = TalkDatagram("reads", f[k], wanted)}
  <1>5. 0 \in P
    <2>1. "reads" \in TalkResult /\ <<>> \in Seq(Reply) /\ Len(<<>>) = 0
      BY DEF TalkResult
    <2>2. Ends(TalkDatagram("reads", <<>>, wanted), TalkResult, TalkStepFn(wanted), "reads", <<>>)
      BY <2>1, DatagramFold
    <2>3. TalkDatagram("reads", <<>>, wanted) = "reads"
      BY <2>2, EndsFew
    <2> QED BY <1>1, <1>2, <1>3, <2>3 DEF FlatRun, IsRun
  <1>6. \A k \in 1..n : k - 1 \in P => k \in P
    <2> SUFFICES ASSUME NEW k \in 1..n, k - 1 \in P PROVE r[k] = TalkDatagram("reads", f[k], wanted)
      BY <1>3
    <2>1. r[k - 1] = TalkDatagram("reads", f[k - 1], wanted)
      OBVIOUS
    <2>3. f[k - 1] \in M /\ ds[k] \in M /\ r[k - 1] \in TalkResult /\ "reads" \in TalkResult
      BY <1>3, <1>4 DEF TalkResult
    <2>4. r[k] = TalkFn(wanted)[r[k - 1]][ds[k]]
      BY <1>1 DEF IsRun
    <2>2. r[k] = TalkDatagram(r[k - 1], ds[k], wanted) /\ f[k] = f[k - 1] \o ds[k]
      BY <1>2, <2>3, <2>4 DEF FlatRun, TalkFn
    <2> HIDE DEF P
    <2> QED BY <2>1, <2>2, <2>3, TalkSplit
  <1>7. \A k \in 0..n : k \in P
    <2> HIDE DEF P, n
    <2> QED BY <1>3, <1>5, <1>6, UpToInduction
  <1>8. n \in 0..n
    BY <1>3
  <1> QED BY <1>1, <1>2, <1>4, <1>7, <1>8 DEF Concat

(* No message up to k ends the loop. *)
Passed(heard, k, wanted) == \A j \in 1..k : heard[j].own /\ ~Decides(heard[j], wanted)

(* What a result says of the messages that were read. *)
Explains(x, heard, k, wanted) ==
    /\ x = "reads" => Passed(heard, k, wanted)
    /\ x = "spins" => \E i \in 1..k : /\ heard[i].form = "message" /\ ~heard[i].own
                                      /\ Passed(heard, i - 1, wanted)
    /\ x = "ok" => \E i \in 1..k : /\ Decides(heard[i], wanted) /\ Passed(heard, i - 1, wanted)
                                   /\ heard[i].form = "message" /\ heard[i].code = 0
    /\ x = "failed" => \E i \in 1..k : /\ Decides(heard[i], wanted) /\ Passed(heard, i - 1, wanted)
                                       /\ heard[i].form = "error" \/ heard[i].code # 0
    /\ x = "exited" => \E i \in 1..k : /\ Decides(heard[i], wanted) /\ Passed(heard, i - 1, wanted)
                                       /\ heard[i].form = "malformed"

(* Every message leaves an explanation. *)
LEMMA TalkExplained ==
    ASSUME NEW heard \in Seq(Reply), NEW wanted \in BOOLEAN
    PROVE  /\ TalkDatagram("reads", heard, wanted) \in TalkResult
           /\ Explains(TalkDatagram("reads", heard, wanted), heard, Len(heard), wanted)
  <1> DEFINE n == Len(heard)
  <1>0. "reads" \in TalkResult /\ n \in Nat
    BY DEF TalkResult
  <1>1. PICK r : /\ IsRun(r, TalkResult, TalkStepFn(wanted), "reads", n, heard)
                 /\ TalkDatagram("reads", heard, wanted) = r[n]
    BY <1>0, DatagramFold DEF Ends
  <1> DEFINE P == {k \in 0..n : Explains(r[k], heard, k, wanted)}
  <1>2. 0 \in P
    BY <1>0, <1>1 DEF IsRun, Explains, Passed
  <1>3. \A k \in 1..n : k - 1 \in P => k \in P
    <2> SUFFICES ASSUME NEW k \in 1..n, k - 1 \in P PROVE Explains(r[k], heard, k, wanted)
      BY <1>0
    <2> DEFINE x == r[k - 1]
               h == heard[k]
    <2>1. Explains(x, heard, k - 1, wanted)
      OBVIOUS
    <2>2. r[k] = TalkStep(x, h, wanted) /\ x \in TalkResult
      <3>1. r[k] = TalkStepFn(wanted)[x][h] /\ x \in TalkResult /\ h \in Reply
        BY <1>0, <1>1 DEF IsRun
      <3> QED BY <3>1 DEF TalkStepFn
    <2>3. /\ h.own \in BOOLEAN /\ h.ack \in BOOLEAN /\ (h.form = "message" /\ ~h.ack => h.code = 0)
          /\ h.form \in {"message", "error", "malformed"}
      BY DEF Reply
    <2>4. 1..(k - 1) \subseteq 1..k /\ k \in 1..k /\ \A j \in 1..k : j \in 1..(k - 1) \/ j = k
      BY <1>0
    <2> HIDE DEF P, x, h
    <2>5. CASE x # "reads"
      <3>1. r[k] = x
        BY <2>2, <2>5 DEF TalkStep
      <3> QED BY <2>1, <2>4, <2>5, <3>1 DEF Explains
    <2>6. CASE x = "reads"
      <3>1. Passed(heard, k - 1, wanted)
        BY <2>1, <2>6 DEF Explains
      <3>6. CASE h.form = "error"
        <4>1. r[k] = "failed"
          BY <2>2, <2>6, <3>6 DEF TalkStep
        <4>2. Decides(heard[k], wanted)
          BY <3>6 DEF Decides, h
        <4> QED BY <2>4, <3>1, <3>6, <4>1, <4>2 DEF Explains, h
      <3>7. CASE h.form = "malformed"
        <4>1. r[k] = "exited"
          BY <2>2, <2>6, <3>7 DEF TalkStep
        <4>2. Decides(heard[k], wanted)
          BY <3>7 DEF Decides, h
        <4> QED BY <2>4, <3>1, <3>7, <4>1, <4>2 DEF Explains, h
      <3>2. CASE h.form = "message" /\ ~h.own
        <4>1. r[k] = "spins"
          BY <2>2, <2>3, <2>6, <3>2 DEF TalkStep
        <4> QED BY <2>4, <3>1, <3>2, <4>1 DEF Explains, h
      <3>3. CASE h.form = "message" /\ h.own /\ h.ack
        <4>1. r[k] = IF h.code = 0 THEN "ok" ELSE "failed"
          BY <2>2, <2>3, <2>6, <3>3 DEF TalkStep
        <4>2. Decides(heard[k], wanted)
          BY <3>3 DEF Decides, h
        <4> QED BY <2>4, <3>1, <3>3, <4>1, <4>2 DEF Explains, h
      <3>4. CASE h.form = "message" /\ h.own /\ ~h.ack /\ wanted
        <4>1. r[k] = "ok"
          BY <2>2, <2>3, <2>6, <3>4 DEF TalkStep
        <4>2. Decides(heard[k], wanted) /\ heard[k].form = "message" /\ heard[k].code = 0
          BY <2>3, <3>4 DEF Decides, h
        <4> QED BY <2>4, <3>1, <4>1, <4>2 DEF Explains
      <3>5. CASE h.form = "message" /\ h.own /\ ~h.ack /\ ~wanted
        <4>1. r[k] = "reads"
          BY <2>2, <2>3, <2>6, <3>5 DEF TalkStep
        <4>2. heard[k].own /\ ~Decides(heard[k], wanted)
          BY <3>5 DEF Decides, h
        <4>3. Passed(heard, k, wanted)
          BY <2>4, <3>1, <4>2 DEF Passed
        <4> QED BY <4>1, <4>3 DEF Explains
      <3> QED BY <2>3, <3>2, <3>3, <3>4, <3>5, <3>6, <3>7
    <2> QED BY <2>5, <2>6
  <1>4. \A k \in 0..n : k \in P
    <2> HIDE DEF P, n
    <2> QED BY <1>0, <1>2, <1>3, UpToInduction
  <1>5. n \in 0..n
    BY <1>0
  <1> QED BY <1>1, <1>4, <1>5 DEF IsRun

(* One datagram is joined to itself. *)
LEMMA ConcatOne ==
    ASSUME NEW E, NEW s \in Seq(E)
    PROVE  <<s>> \in Seq(Seq(E)) /\ Concat(<<s>>) = s
  <1> DEFINE ss == <<s>>
             M == Seq(E)
  <1>1. ss \in Seq(M) /\ Len(ss) = 1 /\ ss[1] = s
    OBVIOUS
  <1> HIDE DEF ss
  <1>2. PICK f : FlatRun(f, E, ss) /\ FlattenSeq(ss) = f[Len(ss)]
    BY <1>1, FlattenRun
  <1>3. f[0] = <<>> /\ \A k \in 1..1 : f[k] = f[k - 1] \o ss[k]
    BY <1>1, <1>2 DEF FlatRun
  <1>4. ASSUME NEW k \in 1..1 PROVE f[k] = f[0] \o ss[1]
    <2>1. k = 1 /\ k - 1 = 0
      OBVIOUS
    <2>2. f[k] = f[k - 1] \o ss[k]
      BY <1>3
    <2> QED BY <2>1, <2>2
  <1>5. f[1] = s
    BY <1>1, <1>3, <1>4
  <1> QED BY <1>1, <1>2, <1>5 DEF ss, Concat

(* rtnl_talk has the result of the first error or answer to its own request,
   whatever arrives before it and however it is split into datagrams. *)
THEOREM EveryTalkAnswered ==
    ASSUME NEW datagrams \in Seq(Seq(Reply)), NEW wanted \in BOOLEAN
    PROVE  AnsweredByOwn(datagrams, wanted)
  <1> DEFINE heard == Concat(datagrams)
             result == rtnl_talk(datagrams, wanted)
             answers == {i \in DOMAIN heard : Decides(heard[i], wanted)}
             first == {i \in answers : \A j \in answers : i <= j}
             n == Len(heard)
  <1>1. heard \in Seq(Reply) /\ result = TalkDatagram("reads", heard, wanted)
    BY TalkFlat
  <1>2. result = rtnl_talk(<<heard>>, wanted)
    <2> HIDE DEF heard, result
    <2>1. <<heard>> \in Seq(Seq(Reply)) /\ Concat(<<heard>>) = heard
      BY <1>1, ConcatOne
    <2>2. rtnl_talk(<<heard>>, wanted) = TalkDatagram("reads", heard, wanted)
      <3> DEFINE ds == <<heard>>
      <3> HIDE DEF ds
      <3>1. ds \in Seq(Seq(Reply)) /\ Concat(ds) = heard
        BY <2>1 DEF ds
      <3>2. rtnl_talk(ds, wanted) = TalkDatagram("reads", Concat(ds), wanted)
        BY <3>1, TalkFlat
      <3> QED BY <3>1, <3>2 DEF ds
    <2> QED BY <1>1, <2>2
  <1>3. result \in TalkResult /\ Explains(result, heard, n, wanted)
    <2> HIDE DEF heard, result
    <2> QED BY <1>1, TalkExplained
  <1>4. DOMAIN heard = 1..n /\ n \in Nat
    <2> HIDE DEF heard
    <2> QED BY <1>1
  <1> HIDE DEF heard, result
  <1>5. answers = {i \in 1..n : Decides(heard[i], wanted)}
    BY <1>4
  <1>6. ASSUME NEW i \in 1..n, Decides(heard[i], wanted), Passed(heard, i - 1, wanted) PROVE i \in first
    <2>1. \A j \in answers : j \in Nat /\ ~(j \in 1..(i - 1))
      BY <1>4, <1>5, <1>6 DEF Passed
    <2>2. \A j \in answers : i <= j
      BY <1>4, <1>5, <2>1
    <2> QED BY <1>5, <1>6, <2>2
  <1>7. /\ result = "ok" => \E i \in first : heard[i].form = "message" /\ heard[i].code = 0
        /\ result = "exited" => \E i \in first : heard[i].form = "malformed"
    BY <1>3, <1>6 DEF Explains
  <1>8. result = "failed" => \E i \in first : heard[i].form = "error" \/ heard[i].code # 0
    BY <1>3, <1>6 DEF Explains
  <1>9. ASSUME NEW i \in first, \A j \in 1..i : heard[j].form = "message" => heard[j].own
        PROVE  result \in {"ok", "failed", "exited"}
    <2>1. i \in 1..n /\ Decides(heard[i], wanted)
      BY <1>5
    <2>2. result # "reads"
      BY <1>3, <2>1 DEF Explains, Passed
    <2>3. result # "spins"
      <3> SUFFICES ASSUME result = "spins" PROVE FALSE
        OBVIOUS
      <3>1. PICK k \in 1..n : heard[k].form = "message" /\ ~heard[k].own /\ Passed(heard, k - 1, wanted)
        BY <1>3 DEF Explains
      <3>2. ~(k \in 1..i)
        BY <1>9, <3>1
      <3>3. i \in 1..(k - 1)
        BY <1>4, <2>1, <3>2
      <3> QED BY <2>1, <3>1, <3>3 DEF Passed
    <2> QED BY <1>3, <2>2, <2>3 DEF TalkResult
  <1> QED
    BY <1>2, <1>7, <1>8, <1>9 DEF AnsweredByOwn, heard, result

-----------------------------------------------------------------------------
(* The addresses of both families, without a port. *)
Addresses ==
    {Address(AF_INET, b) : b \in [1..NBYTES -> Byte256]}
    \cup {Address(AF_INET6, b) : b \in [1..(2 * NPIECES) -> Byte256]}

(* What addrcmp uses of an address. *)
IsAddress(a) ==
    /\ addrlenof(a) \in Nat /\ a.bytes \in [1..addrlenof(a) -> Int] /\ a.af \in Int

(* An address of either family is what addrcmp uses of it. *)
LEMMA AddressIs ==
    ASSUME NEW a \in Addresses
    PROVE  /\ IsAddress(a)
           /\ a = [af |-> a.af, bytes |-> a.bytes, port |-> 0]
  <1>0. Byte256 \subseteq Int /\ 2 * NPIECES \in Nat
    BY TextAssumption DEF Byte256
  <1>1. CASE a \in {Address(AF_INET, b) : b \in [1..NBYTES -> Byte256]}
    <2>1. PICK b \in [1..NBYTES -> Byte256] : a = Address(AF_INET, b)
      BY <1>1
    <2>2. a.af = 2 /\ a.bytes = b /\ addrlenof(a) = NBYTES
      BY <2>1 DEF Address, addrlenof, AF_INET, AF_INET6
    <2>3. b \in [1..NBYTES -> Int] /\ NBYTES \in Nat
      BY <1>0 DEF NBYTES
    <2>4. IsAddress(a)
      BY <2>2, <2>3 DEF IsAddress
    <2>5. a = [af |-> a.af, bytes |-> a.bytes, port |-> 0]
      BY <2>1 DEF Address
    <2> QED BY <2>4, <2>5
  <1>2. CASE a \in {Address(AF_INET6, b) : b \in [1..(2 * NPIECES) -> Byte256]}
    <2>1. PICK b \in [1..(2 * NPIECES) -> Byte256] : a = Address(AF_INET6, b)
      BY <1>2
    <2>2. a.af = 10 /\ a.bytes = b /\ addrlenof(a) = 2 * NPIECES
      BY <2>1 DEF Address, addrlenof, AF_INET, AF_INET6
    <2>3. b \in [1..(2 * NPIECES) -> Int]
      BY <1>0
    <2> QED BY <1>0, <2>1, <2>2, <2>3 DEF IsAddress, Address
  <1> QED BY <1>1, <1>2 DEF Addresses

(* Neither of two texts of bytes is before the other where they agree. *)
Agree(b, c, m, n) == \A i \in 1..m : i <= n => b[i] = c[i]

(* The bytes of an address are before those of another, or they agree, or after. *)
LEMMA LexTotal ==
    ASSUME NEW m \in Nat, NEW n \in Nat, NEW b \in [1..m -> Int], NEW c \in [1..n -> Int],
           ~LexLess(b, c), ~LexLess(c, b)
    PROVE  Agree(b, c, m, n)
  <1> DEFINE P == {k \in 0..m : \A i \in 1..k : i <= n => b[i] = c[i]}
  <1>1. 0 \in P
    OBVIOUS
  <1>2. \A k \in 1..m : k - 1 \in P => k \in P
    <2> SUFFICES ASSUME NEW k \in 1..m, k - 1 \in P, k <= n PROVE b[k] = c[k]
      <3>1. ASSUME NEW k \in 1..m, k - 1 \in P, k <= n => b[k] = c[k] PROVE k \in P
        <4>1. \A i \in 1..k : i = k \/ i \in 1..(k - 1)
          OBVIOUS
        <4> QED BY <3>1, <4>1
      <3> QED BY <3>1
    <2>1. \A j \in 1..(k - 1) : b[j] = c[j] /\ c[j] = b[j]
      OBVIOUS
    <2>2. k \in DOMAIN b \cap DOMAIN c /\ k \in DOMAIN c \cap DOMAIN b
      OBVIOUS
    <2>3. ~(b[k] < c[k])
      BY <2>1, <2>2 DEF LexLess
    <2>4. ~(c[k] < b[k])
      BY <2>1, <2>2 DEF LexLess
    <2>5. b[k] \in Int /\ c[k] \in Int
      OBVIOUS
    <2> QED BY <2>3, <2>4, <2>5
  <1>3. \A k \in 0..m : k \in P
    <2> HIDE DEF P
    <2> QED BY <1>1, <1>2, UpToInduction
  <1>4. m \in P
    BY <1>3
  <1> QED BY <1>4 DEF Agree

(* Bytes that agree are not before each other. *)
LEMMA LexAgree ==
    ASSUME NEW m \in Nat, NEW n \in Nat, NEW b \in [1..m -> Int], NEW c \in [1..n -> Int],
           Agree(b, c, m, n)
    PROVE  ~LexLess(b, c) /\ ~LexLess(c, b) /\ Agree(c, b, n, m)
  BY DEF LexLess, Agree

(* Not both are before the other. *)
LEMMA LexAsymmetric ==
    ASSUME NEW m \in Nat, NEW n \in Nat, NEW b \in [1..m -> Int], NEW c \in [1..n -> Int],
           LexLess(b, c)
    PROVE  ~LexLess(c, b)
  <1> SUFFICES ASSUME LexLess(c, b) PROVE FALSE
    OBVIOUS
  <1>1. PICK i \in DOMAIN b \cap DOMAIN c : b[i] < c[i] /\ \A j \in 1..(i - 1) : b[j] = c[j]
    BY DEF LexLess
  <1>2. PICK k \in DOMAIN c \cap DOMAIN b : c[k] < b[k] /\ \A j \in 1..(k - 1) : c[j] = b[j]
    BY DEF LexLess
  <1>3. i \in 1..m /\ i \in 1..n /\ k \in 1..m /\ k \in 1..n
    OBVIOUS
  <1>4. b[i] \in Int /\ c[i] \in Int /\ b[k] \in Int /\ c[k] \in Int
    BY <1>3
  <1>5. i < k => b[i] = c[i]
    BY <1>2, <1>3
  <1>6. k < i => b[k] = c[k]
    BY <1>1, <1>3
  <1> QED BY <1>1, <1>2, <1>3, <1>4, <1>5, <1>6

(* Before, or a beginning that is not longer. *)
NotAfter(b, c, m, n) == LexLess(b, c) \/ (Agree(b, c, m, n) /\ m <= n)

(* NotAfter is transitive, and strict if one of its steps is. *)
LEMMA LexTransitive ==
    ASSUME NEW m \in Nat, NEW n \in Nat, NEW l \in Nat,
           NEW b \in [1..m -> Int], NEW c \in [1..n -> Int], NEW d \in [1..l -> Int],
           NotAfter(b, c, m, n), NotAfter(c, d, n, l)
    PROVE  /\ NotAfter(b, d, m, l)
           /\ LexLess(b, c) \/ LexLess(c, d) => LexLess(b, d) \/ m < l
  <1>1. CASE LexLess(b, c)
    <2>1. PICK i \in DOMAIN b \cap DOMAIN c : b[i] < c[i] /\ \A j \in 1..(i - 1) : b[j] = c[j]
      BY <1>1 DEF LexLess
    <2>2. i \in 1..m /\ i \in 1..n /\ b[i] \in Int /\ c[i] \in Int
      OBVIOUS
    <2>3. CASE LexLess(c, d)
      <3>1. PICK k \in DOMAIN c \cap DOMAIN d : c[k] < d[k] /\ \A j \in 1..(k - 1) : c[j] = d[j]
        BY <2>3 DEF LexLess
      <3>2. k \in 1..n /\ k \in 1..l /\ c[k] \in Int /\ d[k] \in Int
        OBVIOUS
      <3>3. CASE i <= k
        <4>1. i \in DOMAIN b \cap DOMAIN d /\ d[i] \in Int
          BY <2>2, <3>2, <3>3
        <4>2. b[i] < d[i]
          <5>1. i < k => c[i] = d[i]
            BY <2>2, <3>1, <3>2
          <5> QED BY <2>1, <2>2, <3>1, <3>2, <3>3, <4>1, <5>1
        <4>3. \A j \in 1..(i - 1) : b[j] = d[j]
          BY <2>1, <2>2, <3>1, <3>2, <3>3
        <4>4. LexLess(b, d)
          BY <4>1, <4>2, <4>3 DEF LexLess
        <4> QED BY <4>4 DEF NotAfter
      <3>4. CASE k < i
        <4>1. k \in DOMAIN b \cap DOMAIN d /\ b[k] = c[k]
          BY <2>1, <2>2, <3>2, <3>4
        <4>2. \A j \in 1..(k - 1) : b[j] = d[j]
          BY <2>1, <2>2, <3>1, <3>2, <3>4
        <4>3. LexLess(b, d)
          BY <3>1, <4>1, <4>2 DEF LexLess
        <4> QED BY <4>3 DEF NotAfter
      <3> QED BY <2>2, <3>2, <3>3, <3>4
    <2>4. CASE Agree(c, d, n, l) /\ n <= l
      <3>1. i \in DOMAIN b \cap DOMAIN d /\ c[i] = d[i]
        BY <2>2, <2>4 DEF Agree
      <3>2. \A j \in 1..(i - 1) : b[j] = d[j]
        BY <2>1, <2>2, <2>4 DEF Agree
      <3>3. LexLess(b, d)
        BY <2>1, <3>1, <3>2 DEF LexLess
      <3> QED BY <3>3 DEF NotAfter
    <2> QED BY <2>3, <2>4 DEF NotAfter
  <1>2. CASE Agree(b, c, m, n) /\ m <= n
    <2>1. CASE LexLess(c, d)
      <3>1. PICK k \in DOMAIN c \cap DOMAIN d : c[k] < d[k] /\ \A j \in 1..(k - 1) : c[j] = d[j]
        BY <2>1 DEF LexLess
      <3>2. k \in 1..n /\ k \in 1..l
        OBVIOUS
      <3>3. CASE k <= m
        <4>1. k \in DOMAIN b \cap DOMAIN d /\ b[k] = c[k]
          BY <1>2, <3>2, <3>3 DEF Agree
        <4>2. \A j \in 1..(k - 1) : b[j] = d[j]
          BY <1>2, <3>1, <3>2, <3>3 DEF Agree
        <4>3. LexLess(b, d)
          BY <3>1, <4>1, <4>2 DEF LexLess
        <4> QED BY <4>3 DEF NotAfter
      <3>4. CASE m < k
        <4>1. m < l
          BY <3>2, <3>4
        <4>2. Agree(b, d, m, l)
          BY <1>2, <3>1, <3>2, <3>4 DEF Agree
        <4> QED BY <4>1, <4>2 DEF NotAfter
      <3> QED BY <3>2, <3>3, <3>4
    <2>2. CASE Agree(c, d, n, l) /\ n <= l
      <3>1. Agree(b, d, m, l) /\ m <= l
        BY <1>2, <2>2 DEF Agree
      <3>2. ~LexLess(b, c) /\ ~LexLess(c, d)
        BY <1>2, <2>2, LexAgree
      <3> QED BY <3>1, <3>2 DEF NotAfter
    <2> QED BY <2>1, <2>2 DEF NotAfter
  <1> QED BY <1>1, <1>2 DEF NotAfter

(* addrcmp, by the bytes, then the length, then the family. *)
LEMMA AddrcmpIs ==
    ASSUME NEW a, NEW b, IsAddress(a), IsAddress(b)
    PROVE  /\ addrcmp(a, b) \in {-1, 0, 1}
           /\ addrcmp(a, b) = -addrcmp(b, a)
           /\ addrcmp(a, b) = 0 <=> a.bytes = b.bytes /\ a.af = b.af
           /\ addrcmp(a, b) <= 0 <=>
                 /\ NotAfter(a.bytes, b.bytes, addrlenof(a), addrlenof(b))
                 /\ LexLess(a.bytes, b.bytes) \/ addrlenof(a) < addrlenof(b) \/ a.af <= b.af
  <1> DEFINE m == addrlenof(a)
             n == addrlenof(b)
             x == a.bytes
             y == b.bytes
  <1>1. m \in Nat /\ n \in Nat /\ x \in [1..m -> Int] /\ y \in [1..n -> Int] /\ a.af \in Int /\ b.af \in Int
    BY DEF IsAddress
  <1> HIDE DEF m, n, x, y
  <1>2. CASE LexLess(x, y)
    <2>1. ~LexLess(y, x)
      BY <1>1, <1>2, LexAsymmetric
    <2>2. addrcmp(a, b) = -1 /\ addrcmp(b, a) = 1
      BY <1>2, <2>1 DEF addrcmp, x, y
    <2>3. x # y
      BY <1>2, <2>1
    <2> QED BY <1>2, <2>2, <2>3 DEF NotAfter, m, n, x, y
  <1>3. CASE LexLess(y, x)
    <2>1. ~LexLess(x, y)
      BY <1>1, <1>3, LexAsymmetric
    <2>2. addrcmp(a, b) = 1 /\ addrcmp(b, a) = -1
      BY <1>3, <2>1 DEF addrcmp, x, y
    <2>3. x # y
      BY <1>3, <2>1
    <2>4. ~Agree(x, y, m, n)
      BY <1>1, <1>3, LexAgree
    <2>5. ~NotAfter(x, y, m, n)
      BY <2>1, <2>4 DEF NotAfter
    <2>6. /\ addrcmp(a, b) \in {-1, 0, 1} /\ addrcmp(a, b) = -addrcmp(b, a)
          /\ addrcmp(a, b) # 0 /\ ~(addrcmp(a, b) <= 0)
      <3> DEFINE u == addrcmp(a, b)
                 v == addrcmp(b, a)
      <3>1. \A w \in Int : 1 + w = 0 => 1 = -w
        OBVIOUS
      <3>2. u = 1 /\ v \in Int /\ 1 + v = 0
        BY <2>2
      <3> HIDE DEF u, v
      <3>3. u = -v
        BY <3>1, <3>2
      <3>4. u \in {-1, 0, 1} /\ u # 0 /\ ~(u <= 0)
        BY <3>2
      <3> QED BY <3>3, <3>4 DEF u, v
    <2>7. a.bytes # b.bytes /\ ~NotAfter(a.bytes, b.bytes, addrlenof(a), addrlenof(b))
      BY <2>3, <2>5 DEF m, n, x, y
    <2> QED BY <2>6, <2>7
  <1>4. CASE ~LexLess(x, y) /\ ~LexLess(y, x)
    <2>1. Agree(x, y, m, n)
      BY <1>1, <1>4, LexTotal
    <2>2. addrcmp(a, b) = IF m # n THEN IF m < n THEN -1 ELSE 1
                          ELSE IF a.af = b.af THEN 0 ELSE IF a.af < b.af THEN -1 ELSE 1
      BY <1>4 DEF addrcmp, m, n, x, y
    <2>3. addrcmp(b, a) = IF n # m THEN IF n < m THEN -1 ELSE 1
                          ELSE IF b.af = a.af THEN 0 ELSE IF b.af < a.af THEN -1 ELSE 1
      BY <1>4 DEF addrcmp, m, n, x, y
    <2>4. x = y <=> m = n
      <3>1. m = n => x = y
        BY <1>1, <2>1 DEF Agree
      <3>2. x = y => m = n
        <4> SUFFICES ASSUME x = y PROVE m = n
          OBVIOUS
        <4>1. 1..m = 1..n
          BY <1>1
        <4>2. \A i \in Nat : i \in 1..m <=> i \in 1..n
          BY <4>1
        <4> QED BY <1>1, <4>2
      <3> QED BY <3>1, <3>2
    <2>5. /\ addrcmp(a, b) \in {-1, 0, 1}
          /\ addrcmp(a, b) = -addrcmp(b, a)
          /\ addrcmp(a, b) = 0 <=> m = n /\ a.af = b.af
          /\ addrcmp(a, b) <= 0 <=> m < n \/ (m = n /\ a.af <= b.af)
      BY <1>1, <2>2, <2>3
    <2>6. NotAfter(x, y, m, n) <=> m <= n
      BY <1>4, <2>1 DEF NotAfter
    <2>7. addrcmp(a, b) <= 0 <=> NotAfter(x, y, m, n) /\ (LexLess(x, y) \/ m < n \/ a.af <= b.af)
      BY <1>1, <1>4, <2>5, <2>6
    <2> QED BY <2>4, <2>5, <2>7 DEF m, n, x, y
  <1> QED BY <1>2, <1>3, <1>4

(* addrcmp is a total order of all addresses of both families. *)
THEOREM EveryAddressOrdered ==
    ASSUME NEW a \in Addresses, NEW b \in Addresses, NEW c \in Addresses
    PROVE  Ordered(a, b, c)
  <1>1. IsAddress(a) /\ IsAddress(b) /\ IsAddress(c)
    BY AddressIs
  <1>2. addrcmp(a, b) = -addrcmp(b, a)
    BY <1>1, AddrcmpIs
  <1>3. sameaddr(a, b) <=> a = b
    <2>1. addrcmp(a, b) = 0 <=> a.bytes = b.bytes /\ a.af = b.af
      BY <1>1, AddrcmpIs
    <2>2. a = [af |-> a.af, bytes |-> a.bytes, port |-> 0] /\ b = [af |-> b.af, bytes |-> b.bytes, port |-> 0]
      BY AddressIs
    <2> QED BY <2>1, <2>2 DEF sameaddr
  <1>4. ASSUME addrcmp(a, b) <= 0, addrcmp(b, c) <= 0 PROVE addrcmp(a, c) <= 0
    <2> DEFINE m == addrlenof(a)
               n == addrlenof(b)
               l == addrlenof(c)
               x == a.bytes
               y == b.bytes
               z == c.bytes
    <2>1. /\ m \in Nat /\ n \in Nat /\ l \in Nat
          /\ x \in [1..m -> Int] /\ y \in [1..n -> Int] /\ z \in [1..l -> Int]
          /\ a.af \in Int /\ b.af \in Int /\ c.af \in Int
      BY <1>1 DEF IsAddress
    <2>2. NotAfter(x, y, m, n) /\ (LexLess(x, y) \/ m < n \/ a.af <= b.af)
      BY <1>1, <1>4, AddrcmpIs
    <2>3. NotAfter(y, z, n, l) /\ (LexLess(y, z) \/ n < l \/ b.af <= c.af)
      BY <1>1, <1>4, AddrcmpIs
    <2>4. NotAfter(x, z, m, l) /\ (LexLess(x, z) \/ m < l \/ a.af <= c.af) => addrcmp(a, c) <= 0
      BY <1>1, AddrcmpIs
    <2> HIDE DEF m, n, l, x, y, z
    <2>5. NotAfter(x, z, m, l) /\ (LexLess(x, y) \/ LexLess(y, z) => LexLess(x, z) \/ m < l)
      BY <2>1, <2>2, <2>3, LexTransitive
    <2>6. CASE ~LexLess(x, y) /\ ~LexLess(y, z)
      <3>1. m <= n /\ n <= l
        BY <2>2, <2>3, <2>6 DEF NotAfter
      <3>2. m < l \/ a.af <= c.af
        BY <2>1, <2>2, <2>3, <2>6, <3>1
      <3> QED BY <2>4, <2>5, <3>2
    <2> QED BY <2>4, <2>5, <2>6
  <1> QED BY <1>2, <1>3, <1>4 DEF Ordered

-----------------------------------------------------------------------------
Hardware == [1..6 -> Byte256]

(* The bytes of a hardware address. *)
LEMMA HardwareBytes ==
    ASSUME NEW e \in Hardware
    PROVE  /\ SetGlobal(e[1]) \in Int /\ e[2] \in Int /\ e[3] \in Int
           /\ e[4] \in Int /\ e[5] \in Int /\ e[6] \in Int
  <1>1. \A b \in Byte256 : b \in Int /\ SetGlobal(b) \in Int
    BY DEF SetGlobal, Byte256
  <1>2. \A i \in 1..6 : e[i] \in Byte256
    BY DEF Hardware
  <1>3. /\ e[1] \in Byte256 /\ e[2] \in Byte256 /\ e[3] \in Byte256
        /\ e[4] \in Byte256 /\ e[5] \in Byte256 /\ e[6] \in Byte256
    BY <1>2
  <1> QED BY <1>1, <1>3

(* One address for one interface. *)
THEOREM EveryLinkAddressUnique ==
    ASSUME NEW e \in Hardware, NEW f \in Hardware
    PROVE  SameLinkAddress(e, f) /\ set_eui64(Embedded(e)) = set_eui48(e)
  <1> DEFINE head == <<254, 128, 0, 0, 0, 0, 0, 0>>
             g == eui64_from_eui48(e)
             h == eui64_from_eui48(f)
  <1>1. g \in Seq(Int) /\ Len(g) = 8 /\ h \in Seq(Int) /\ Len(h) = 8
    BY HardwareBytes DEF eui64_from_eui48
  <1>2. head \in Seq(Int)
    OBVIOUS
  <1>3. head \o g = head \o h <=> g = h
    <2> HIDE DEF head, g, h
    <2> QED BY <1>1, <1>2, SameEnd
  <1>4. g = h <=> SetGlobal(e[1]) = SetGlobal(f[1]) /\ \A i \in 2..6 : e[i] = f[i]
    <2>1. g = h <=> /\ SetGlobal(e[1]) = SetGlobal(f[1]) /\ e[2] = f[2] /\ e[3] = f[3]
                    /\ e[4] = f[4] /\ e[5] = f[5] /\ e[6] = f[6]
      BY DEF eui64_from_eui48
    <2>2. (\A i \in 2..6 : e[i] = f[i]) <=>
            e[2] = f[2] /\ e[3] = f[3] /\ e[4] = f[4] /\ e[5] = f[5] /\ e[6] = f[6]
      OBVIOUS
    <2> QED BY <2>1, <2>2
  <1>5. SameLinkAddress(e, f)
    BY <1>3, <1>4 DEF SameLinkAddress, set_eui48, generate_linkaddr
  <1>6. set_eui64(Embedded(e)) = set_eui48(e)
    BY DEF set_eui64, set_eui48, Embedded, eui64_from_eui48
  <1> QED BY <1>5, <1>6

-----------------------------------------------------------------------------
(* The state of parse_eui2bin, and the characters it reads. *)
NibbleState == [dst : Seq(Nat), high : BOOLEAN, upper : Nat, bad : BOOLEAN, room : Nat]
Character == 0..17
Digit == 0..15

NibbleFn == [x \in NibbleState |-> [c \in Character |-> NibbleStep(x, c)]]

(* A character leaves such a state. *)
LEMMA NibbleType ==
    ASSUME NEW x \in NibbleState, NEW c \in Character
    PROVE  NibbleStep(x, c) \in NibbleState
  <1>1. /\ x.dst \in Seq(Nat) /\ x.high \in BOOLEAN /\ x.upper \in Nat
        /\ x.bad \in BOOLEAN /\ x.room \in Nat
    BY DEF NibbleState
  <1>2. c \in Nat /\ (c = Bad \/ c = Sep \/ c < 16)
    BY DEF Character, Bad, Sep
  <1>3. Append(x.dst, x.upper) \in Seq(Nat) /\ Append(x.dst, x.upper * 16 + c) \in Seq(Nat)
    <2>1. x.upper * 16 + c \in Nat
      BY <1>1, <1>2
    <2> QED BY <1>1, <2>1
  <1>4. /\ [x EXCEPT !.bad = TRUE] \in NibbleState
        /\ [x EXCEPT !.dst = Append(@, x.upper), !.high = TRUE] \in NibbleState
        /\ [x EXCEPT !.upper = c, !.high = FALSE] \in NibbleState
        /\ [x EXCEPT !.dst = Append(@, x.upper * 16 + c), !.high = TRUE] \in NibbleState
    BY <1>1, <1>2, <1>3 DEF NibbleState
  <1>5. \/ NibbleStep(x, c) = x
        \/ NibbleStep(x, c) = [x EXCEPT !.bad = TRUE]
        \/ NibbleStep(x, c) = [x EXCEPT !.dst = Append(@, x.upper), !.high = TRUE]
        \/ NibbleStep(x, c) = [x EXCEPT !.upper = c, !.high = FALSE]
        \/ NibbleStep(x, c) = [x EXCEPT !.dst = Append(@, x.upper * 16 + c), !.high = TRUE]
    BY <1>1, <1>2 DEF NibbleStep, Bad, Sep
  <1> QED BY <1>4, <1>5

(* The characters are read one after the other. *)
LEMMA NibbleFold ==
    ASSUME NEW st \in NibbleState, NEW text \in Seq(Character)
    PROVE  Ends(NibbleSteps(st, text), NibbleState, NibbleFn, st, text)
  <1> DEFINE n == Len(text)
             T == NibbleState
             M == Character
             step == NibbleFn
             Eq(f) == f = [s \in SUBSET (1..n) |->
                              IF s = {} THEN st ELSE NibbleStep(f[s \ {Max(s)}], text[Max(s)])]
             g == CHOOSE f : Eq(f)
             r == RunOf(g, n)
  <1>1. n \in Nat /\ text \in [1..n -> M] /\ DOMAIN text = 1..n /\ st \in T
    BY NibbleType
  <1>2. NibbleSteps(st, text) = g[1..n]
    BY <1>1 DEF NibbleSteps, FoldLeft, MapThenFoldSet
  <1>3. step \in [T -> [M -> T]] /\ \A x \in T, e \in M : NibbleStep(x, e) = step[x][e]
    BY NibbleType DEF NibbleFn
  <1>4. \A s \in SUBSET (1..n) : s # {} => text[Max(s)] \in M
    BY <1>1, MaxIn
  <1> HIDE DEF step, n, T, M
  <1>5. Eq(g)
    <2>1. PICK f : IsTable(f, T, step, st, n, text)
      BY <1>1, <1>3, FoldTable
    <2>2. Eq(f)
      BY <1>3, <1>4, <2>1, Zenon DEF IsTable
    <2> HIDE DEF Eq
    <2> QED BY <2>2
  <1>6. IsRun(r, T, step, st, n, text)
    <2>1. \A s \in SUBSET (1..n) :
            g[s] = IF s = {} THEN st ELSE NibbleStep(g[s \ {Max(s)}], text[Max(s)])
      BY <1>5
    <2>2. Follows(g, T, step, st, n, text)
      BY <1>3, <1>4, <2>1 DEF Follows
    <2> HIDE DEF g
    <2> QED BY <1>1, <1>3, <2>2, TableRun
  <1>7. g[1..n] = r[n]
    BY <1>1 DEF RunOf
  <1> HIDE DEF r
  <1> QED
    BY <1>2, <1>6, <1>7 DEF Ends, n, T, step

(* What is read in two parts, and of one character. *)
LEMMA NibbleParts ==
    ASSUME NEW st \in NibbleState, NEW s \in Seq(Character), NEW t \in Seq(Character), NEW c \in Character
    PROVE  /\ NibbleSteps(st, s) \in NibbleState
           /\ NibbleSteps(NibbleSteps(st, s), t) = NibbleSteps(st, s \o t)
           /\ NibbleSteps(st, <<>>) = st
           /\ NibbleSteps(st, <<c>>) = NibbleStep(st, c)
  <1> DEFINE x == NibbleSteps(st, s)
             y == NibbleSteps(x, t)
             z == NibbleSteps(st, s \o t)
  <1>0. IsStep(NibbleState, Character, NibbleFn)
    BY NibbleType DEF IsStep, NibbleFn
  <1>1. x \in NibbleState /\ Ends(x, NibbleState, NibbleFn, st, s)
    BY NibbleFold, EndsType
  <1>2. Ends(y, NibbleState, NibbleFn, x, t)
    <2> HIDE DEF x
    <2> QED BY <1>1, NibbleFold
  <1>3. s \o t \in Seq(Character) /\ <<>> \in Seq(Character) /\ <<c>> \in Seq(Character)
    OBVIOUS
  <1>4. Ends(z, NibbleState, NibbleFn, st, s \o t)
    BY <1>3, NibbleFold
  <1>5. NibbleSteps(st, <<>>) = st
    BY <1>3, NibbleFold, EndsFew
  <1>6. NibbleSteps(st, <<c>>) = NibbleFn[st][c]
    BY <1>3, NibbleFold, EndsFew
  <1>7. NibbleFn[st][c] = NibbleStep(st, c)
    BY DEF NibbleFn
  <1> HIDE DEF x, y, z
  <1>8. y = z
    BY <1>0, <1>1, <1>2, <1>4, EndsSplit
  <1> QED BY <1>1, <1>5, <1>6, <1>7, <1>8 DEF x, y, z

(* Fields of one and of two digits, as bytes. *)
FieldOf == {f \in Seq(Digit) : Len(f) \in {1, 2}}

(* The first k bytes are there, and a digit may be that is not a byte yet. *)
Whole(st, k, bytes) ==
    /\ st \in NibbleState /\ ~st.bad /\ st.room = 8 /\ st.high
    /\ Len(st.dst) = k /\ \A i \in 1..k : st.dst[i] = bytes[i]
Half(st, k, bytes) ==
    /\ st \in NibbleState /\ ~st.bad /\ st.room = 8 /\ ~st.high
    /\ Len(st.dst) = k /\ \A i \in 1..k : st.dst[i] = bytes[i]

(* A digit, a second one and a separator. *)
LEMMA DigitReads ==
    ASSUME NEW st, NEW k \in 0..7, NEW bytes, Whole(st, k, bytes), NEW d \in Digit
    PROVE  Half(NibbleStep(st, d), k, bytes) /\ NibbleStep(st, d).upper = d
  <1>1. /\ st \in NibbleState /\ ~st.bad /\ st.room = 8 /\ st.high
        /\ Len(st.dst) = k /\ \A i \in 1..k : st.dst[i] = bytes[i]
    BY DEF Whole
  <1>2. d \in Character /\ d \in Nat /\ d < 16 /\ d # Bad /\ d # Sep
    BY DEF Digit, Character, Bad, Sep
  <1>3. NibbleStep(st, d) = [st EXCEPT !.upper = d, !.high = FALSE]
    BY <1>1, <1>2 DEF NibbleStep
  <1>4. NibbleStep(st, d) \in NibbleState
    BY <1>1, <1>2, NibbleType
  <1> QED BY <1>1, <1>3, <1>4 DEF Half, NibbleState

(* The second digit of a field completes its byte. *)
LEMMA SecondReads ==
    ASSUME NEW st, NEW k \in 0..7, NEW bytes, Half(st, k, bytes), NEW d \in Digit,
           bytes[k + 1] = 16 * st.upper + d
    PROVE  Whole(NibbleStep(st, d), k + 1, bytes)
  <1>1. /\ st \in NibbleState /\ ~st.bad /\ st.room = 8 /\ ~st.high
        /\ Len(st.dst) = k /\ \A i \in 1..k : st.dst[i] = bytes[i]
    BY DEF Half
  <1>2. d \in Character /\ d \in Nat /\ d < 16 /\ d # Bad /\ d # Sep
    BY DEF Digit, Character, Bad, Sep
  <1>3. NibbleStep(st, d) = [st EXCEPT !.dst = Append(@, st.upper * 16 + d), !.high = TRUE]
    BY <1>1, <1>2 DEF NibbleStep
  <1>4. NibbleStep(st, d) \in NibbleState
    BY <1>1, <1>2, NibbleType
  <1>5. st.dst \in Seq(Nat) /\ st.upper \in Nat
    BY <1>1 DEF NibbleState
  <1> DEFINE e == Append(st.dst, st.upper * 16 + d)
  <1>6. st.upper * 16 + d = bytes[k + 1]
    BY <1>2, <1>5
  <1>7. Len(e) = k + 1 /\ \A i \in 1..(k + 1) : e[i] = bytes[i]
    BY <1>1, <1>5, <1>6
  <1>8. NibbleStep(st, d).dst = e /\ NibbleStep(st, d).high /\ ~NibbleStep(st, d).bad /\ NibbleStep(st, d).room = 8
    BY <1>1, <1>3 DEF NibbleState
  <1> HIDE DEF e
  <1> QED BY <1>4, <1>7, <1>8 DEF Whole

(* A separator ends a field, and completes the byte of a single digit. *)
LEMMA SepReads ==
    ASSUME NEW st, NEW k \in 1..7, NEW bytes,
           Whole(st, k, bytes) \/ (Half(st, k - 1, bytes) /\ bytes[k] = st.upper)
    PROVE  Whole(NibbleStep(st, Sep), k, bytes)
  <1>0. Sep \in Character /\ Sep # Bad /\ ~(Sep < 16)
    BY DEF Character, Bad, Sep
  <1>1. CASE Whole(st, k, bytes)
    <2>1. st.high /\ ~st.bad /\ st.high /\ st.room = 8 /\ Len(st.dst) = k
      BY <1>1 DEF Whole
    <2>2. NibbleStep(st, Sep) = st
      BY <1>0, <2>1 DEF NibbleStep
    <2> QED BY <1>1, <2>2
  <1>2. CASE Half(st, k - 1, bytes) /\ bytes[k] = st.upper
    <2>1. /\ st \in NibbleState /\ ~st.bad /\ st.room = 8 /\ ~st.high
          /\ Len(st.dst) = k - 1 /\ \A i \in 1..(k - 1) : st.dst[i] = bytes[i]
      BY <1>2 DEF Half
    <2>2. NibbleStep(st, Sep) = [st EXCEPT !.dst = Append(@, st.upper), !.high = TRUE]
      BY <1>0, <2>1 DEF NibbleStep
    <2>3. NibbleStep(st, Sep) \in NibbleState
      BY <1>0, <2>1, NibbleType
    <2>4. st.dst \in Seq(Nat) /\ st.upper \in Nat
      BY <2>1 DEF NibbleState
    <2> DEFINE e == Append(st.dst, st.upper)
    <2>5. Len(e) = k /\ \A i \in 1..k : e[i] = bytes[i]
      BY <1>2, <2>1, <2>4
    <2>6. /\ NibbleStep(st, Sep).dst = e /\ NibbleStep(st, Sep).high
          /\ ~NibbleStep(st, Sep).bad /\ NibbleStep(st, Sep).room = 8
      BY <2>1, <2>2 DEF NibbleState
    <2> HIDE DEF e
    <2> QED BY <2>3, <2>5, <2>6 DEF Whole
  <1> QED BY <1>1, <1>2

(* The beginnings of texts that are joined. *)
JoinRun(r, E, texts, sep) ==
    /\ r \in [0..Len(texts) -> Seq(E)]
    /\ r[0] = <<>>
    /\ \A k \in 1..Len(texts) : r[k] = IF k = 1 THEN texts[k] ELSE r[k - 1] \o <<sep>> \o texts[k]

(* Joined appends the texts, with separators. *)
LEMMA JoinedRun ==
    ASSUME NEW E, NEW texts \in Seq(Seq(E)), NEW sep \in E
    PROVE  \E r : JoinRun(r, E, texts, sep) /\ Joined(texts, sep) = r[Len(texts)]
  <1> DEFINE n == Len(texts)
             T == Seq(E)
             Op(x, i) == IF i = 1 THEN texts[i] ELSE x \o <<sep>> \o texts[i]
             sq == [i \in DOMAIN texts |-> i]
             Eq(f) == f = [s \in SUBSET (1..n) |-> IF s = {} THEN <<>> ELSE Op(f[s \ {Max(s)}], sq[Max(s)])]
             step == [x \in T |-> [i \in 1..n |-> Op(x, i)]]
             g == CHOOSE f : Eq(f)
             r == RunOf(g, n)
  <1>1. n \in Nat /\ DOMAIN texts = 1..n /\ DOMAIN sq = 1..n /\ <<>> \in T
    OBVIOUS
  <1>2. Joined(texts, sep) = g[1..n]
    BY <1>1 DEF Joined, FoldLeft, MapThenFoldSet
  <1>3. \A x \in T, i \in 1..n : Op(x, i) \in T
    <2> SUFFICES ASSUME NEW x \in T, NEW i \in 1..n PROVE Op(x, i) \in T
      OBVIOUS
    <2>1. texts[i] \in Seq(E) /\ <<sep>> \in Seq(E)
      OBVIOUS
    <2> QED BY <2>1
  <1> HIDE DEF Op, T
  <1>4. step \in [T -> [1..n -> T]] /\ sq \in [1..n -> 1..n] /\ \A x \in T, i \in 1..n : Op(x, i) = step[x][i]
    BY <1>1, <1>3
  <1>5. \A k \in 1..n : sq[k] = k
    BY <1>1
  <1> HIDE DEF step, n, sq
  <1>6. \A s \in SUBSET (1..n) : s # {} => sq[Max(s)] \in 1..n
    BY <1>1, <1>4, MaxIn
  <1>7. Eq(g)
    <2>1. PICK f : IsTable(f, T, step, <<>>, n, sq)
      BY <1>1, <1>4, FoldTable
    <2>2. Eq(f)
      BY <1>4, <1>6, <2>1 DEF IsTable
    <2> HIDE DEF Eq
    <2> QED BY <2>2
  <1>8. IsRun(r, T, step, <<>>, n, sq)
    <2>1. \A s \in SUBSET (1..n) : g[s] = IF s = {} THEN <<>> ELSE Op(g[s \ {Max(s)}], sq[Max(s)])
      BY <1>7
    <2>2. Follows(g, T, step, <<>>, n, sq)
      BY <1>4, <1>6, <2>1 DEF Follows
    <2> HIDE DEF g
    <2> QED BY <1>1, <1>4, <2>2, TableRun
  <1>9. g[1..n] = r[n]
    BY <1>1 DEF RunOf
  <1> HIDE DEF r
  <1>10. r \in [0..n -> T] /\ r[0] = <<>>
    BY <1>8 DEF IsRun
  <1>11. ASSUME NEW k \in 1..n PROVE r[k] = Op(r[k - 1], k)
    <2>1. r[k] = step[r[k - 1]][sq[k]]
      BY <1>8 DEF IsRun
    <2>2. r[k - 1] \in T /\ sq[k] = k
      BY <1>1, <1>5, <1>10
    <2> QED BY <1>4, <2>1, <2>2
  <1>12. JoinRun(r, E, texts, sep)
    BY <1>10, <1>11 DEF JoinRun, n, T, Op
  <1> QED BY <1>2, <1>9, <1>12 DEF n

(* The state before any text is read. *)
Fresh == [dst |-> <<>>, high |-> TRUE, upper |-> 0, bad |-> FALSE, room |-> 8]

(* What was read up to a field. *)
Read(st, fields, k, bytes) ==
    \/ Len(fields[k]) = 2 /\ Whole(st, k, bytes)
    \/ Len(fields[k]) = 1 /\ Half(st, k - 1, bytes) /\ bytes[k] = st.upper

(* Two characters as a text. *)
LEMMA PairText ==
    ASSUME NEW S, NEW d \in S, NEW e \in S
    PROVE  <<d>> \in Seq(S) /\ <<e>> \in Seq(S) /\ <<d>> \o <<e>> = <<d, e>>
  <1> DEFINE s == <<d>>
             t == <<e>>
             p == <<d, e>>
  <1>1. /\ s \in Seq(S) /\ Len(s) = 1 /\ s[1] = d /\ t \in Seq(S) /\ Len(t) = 1 /\ t[1] = e
        /\ p \in Seq(S) /\ Len(p) = 2 /\ p[1] = d /\ p[2] = e
    OBVIOUS
  <1> HIDE DEF s, t, p
  <1> DEFINE c == s \o t
  <1>0. s \in Seq(S) /\ t \in Seq(S)
    BY <1>1
  <1>2. /\ c \in Seq(S) /\ Len(c) = Len(s) + Len(t)
        /\ \A i \in 1..Len(s) : c[i] = s[i]
        /\ \A i \in 1..Len(t) : c[Len(s) + i] = t[i]
    BY ONLY <1>0, ConcatAt
  <1> HIDE DEF c
  <1>3. c[1] = d /\ c[2] = e
    BY <1>1, <1>2, 1 \in 1..1, 1 + 1 = 2
  <1>4. \A i \in 1..Len(c) : c[i] = p[i]
    BY <1>1, <1>2, <1>3
  <1>5. c = p
    BY <1>1, <1>2, <1>4, SameSeq
  <1> QED BY <1>1, <1>5 DEF c, s, t, p

(* A field after a separator or at the beginning. *)
LEMMA FieldReads ==
    ASSUME NEW fields \in Seq(FieldOf), NEW bytes, NEW k \in 1..Len(fields), Len(fields) <= 8,
           bytes[k] = FieldByte(fields[k]), NEW st, Whole(st, k - 1, bytes)
    PROVE  Read(NibbleSteps(st, fields[k]), fields, k, bytes)
  <1> DEFINE f == fields[k]
  <1>1. f \in Seq(Digit) /\ Len(f) \in {1, 2} /\ k - 1 \in 0..7
    BY DEF FieldOf
  <1>2. Digit \subseteq Character /\ st \in NibbleState
    BY DEF Digit, Character, Whole
  <1>3. CASE Len(f) = 1
    <2> DEFINE d == f[1]
    <2>1. f = <<d>> /\ d \in Digit
      BY <1>1, <1>3
    <2>2. bytes[k] = d
      BY <1>3 DEF FieldByte
    <2> HIDE DEF d, f
    <2>3. NibbleSteps(st, <<d>>) = NibbleStep(st, d)
      BY <1>2, <2>1, NibbleParts, <<>> \in Seq(Character)
    <2>4. Half(NibbleStep(st, d), k - 1, bytes) /\ NibbleStep(st, d).upper = d
      BY <1>1, <2>1, DigitReads
    <2>5. NibbleSteps(st, f) = NibbleStep(st, d)
      BY ONLY <2>1, <2>3
    <2> QED BY <1>3, <2>2, <2>4, <2>5 DEF Read, f
  <1>4. CASE Len(f) = 2
    <2> DEFINE d == f[1]
               e == f[2]
               s == <<d>>
               t == <<e>>
               x == NibbleStep(st, d)
    <2>1. f = <<d, e>> /\ d \in Digit /\ e \in Digit
      BY <1>1, <1>4
    <2>2. bytes[k] = 16 * d + e
      BY <1>4 DEF FieldByte
    <2> HIDE DEF d, e, f
    <2>3. s \in Seq(Character) /\ t \in Seq(Character) /\ s \o t = <<d, e>>
      <3>1. d \in Character /\ e \in Character
        BY <1>2, <2>1
      <3> QED BY ONLY <3>1, PairText
    <2>4. NibbleSteps(st, s) = x
      BY <1>2, <2>1, NibbleParts, <<>> \in Seq(Character)
    <2>5. Half(x, k - 1, bytes) /\ x.upper = d
      BY <1>1, <2>1, DigitReads
    <2>6. x \in NibbleState
      BY <2>5 DEF Half
    <2> HIDE DEF x
    <2>7. NibbleSteps(x, t) = NibbleStep(x, e)
      BY <1>2, <2>1, <2>6, NibbleParts, <<>> \in Seq(Character)
    <2> HIDE DEF s, t
    <2>8. NibbleSteps(NibbleSteps(st, s), t) = NibbleSteps(st, s \o t)
      BY <1>2, <2>1, <2>3, NibbleParts
    <2>9. NibbleSteps(st, f) = NibbleStep(x, e)
      BY ONLY <2>1, <2>3, <2>4, <2>7, <2>8
    <2>10. bytes[k - 1 + 1] = 16 * x.upper + e
      BY <2>2, <2>5
    <2>11. Whole(NibbleStep(x, e), k - 1 + 1, bytes)
      BY <1>1, <2>1, <2>5, <2>10, SecondReads
    <2>12. Whole(NibbleStep(x, e), k, bytes)
      BY <2>11
    <2> QED BY <1>4, <2>9, <2>12 DEF Read, f
  <1> QED BY <1>1, <1>3, <1>4

(* A separator and a further field. *)
LEMMA NextFieldReads ==
    ASSUME NEW fields \in Seq(FieldOf), NEW bytes, NEW k \in 1..Len(fields), Len(fields) <= 8, k # 1,
           bytes[k] = FieldByte(fields[k]), NEW text \in Seq(Character),
           Read(NibbleSteps(Fresh, text), fields, k - 1, bytes)
    PROVE  Read(NibbleSteps(Fresh, text \o <<Sep>> \o fields[k]), fields, k, bytes)
  <1> DEFINE f == fields[k]
             sep == <<Sep>>
             st == NibbleSteps(Fresh, text)
  <1>1. f \in Seq(Character) /\ k - 1 \in 1..7 /\ Sep \in Character
    <2>1. f \in Seq(Digit)
      BY DEF FieldOf
    <2>2. Digit \subseteq Character /\ Sep \in Character
      BY DEF Digit, Character, Sep
    <2>3. \A g \in Seq(Digit) : g \in Seq(Character)
      BY <2>2
    <2> HIDE DEF f
    <2> QED BY <2>1, <2>2, <2>3
  <1>2. sep \in Seq(Character)
    BY <1>1
  <1>3. Fresh \in NibbleState
    BY DEF Fresh, NibbleState
  <1>4. st \in NibbleState /\ NibbleSteps(st, sep) = NibbleSteps(Fresh, text \o sep)
    <2> HIDE DEF sep
    <2> QED BY <1>1, <1>2, <1>3, NibbleParts
  <1>5. NibbleSteps(st, sep) = NibbleStep(st, Sep)
    <2> HIDE DEF st
    <2> QED BY <1>1, <1>2, <1>4, NibbleParts
  <1>6. NibbleSteps(NibbleSteps(Fresh, text \o sep), f) = NibbleSteps(Fresh, text \o sep \o f)
    <2> HIDE DEF sep, f
    <2>1. text \o sep \in Seq(Character)
      BY <1>2
    <2> QED BY <1>1, <1>3, <2>1, NibbleParts
  <1>7. Whole(NibbleStep(st, Sep), k - 1, bytes)
    <2> HIDE DEF st
    <2>1. Whole(st, k - 1, bytes) \/ (Half(st, k - 1 - 1, bytes) /\ bytes[k - 1] = st.upper)
      BY DEF st, Read
    <2> QED BY <1>1, <2>1, SepReads
  <1>8. Read(NibbleSteps(NibbleStep(st, Sep), f), fields, k, bytes)
    <2> DEFINE y == NibbleStep(st, Sep)
    <2>1. Whole(y, k - 1, bytes)
      BY <1>7
    <2> HIDE DEF y
    <2>2. Read(NibbleSteps(y, fields[k]), fields, k, bytes)
      BY <2>1, FieldReads
    <2> QED BY <2>2 DEF y
  <1> HIDE DEF st
  <1> QED BY <1>4, <1>5, <1>6, <1>8

(* A text of at most eight fields. *)
LEMMA JoinedReads ==
    ASSUME NEW fields \in Seq(FieldOf), Len(fields) \in 1..8, NEW bytes,
           \A i \in 1..Len(fields) : bytes[i] = FieldByte(fields[i])
    PROVE  Read(NibbleSteps(Fresh, Joined(fields, Sep)), fields, Len(fields), bytes)
  <1> DEFINE n == Len(fields)
  <1>1. fields \in Seq(Seq(Character)) /\ Sep \in Character
    <2>1. FieldOf \subseteq Seq(Character)
      BY DEF FieldOf, Digit, Character
    <2> QED BY <2>1 DEF Character, Sep
  <1>2. PICK r : JoinRun(r, Character, fields, Sep) /\ Joined(fields, Sep) = r[n]
    BY <1>1, JoinedRun
  <1> DEFINE P == {k \in 0..n : k # 0 => Read(NibbleSteps(Fresh, r[k]), fields, k, bytes)}
  <1>3. 0 \in P
    OBVIOUS
  <1>4. ASSUME NEW k \in 1..n, k - 1 \in P PROVE k \in P
    <2>1. CASE k = 1
      <3>1. r[k] = fields[k]
        BY <1>2, <2>1 DEF JoinRun
      <3>2. Whole(Fresh, k - 1, bytes)
        BY <2>1 DEF Whole, Fresh, NibbleState
      <3>3. Read(NibbleSteps(Fresh, fields[k]), fields, k, bytes)
        BY <3>2, FieldReads
      <3> QED BY <3>1, <3>3
    <2>2. CASE k # 1
      <3>0. r \in [0..n -> Seq(Character)] /\ k - 1 \in 0..n
        BY <1>2 DEF JoinRun
      <3>1. r[k] = r[k - 1] \o <<Sep>> \o fields[k] /\ r[k - 1] \in Seq(Character)
        <4>1. r[k] = IF k = 1 THEN fields[k] ELSE r[k - 1] \o <<Sep>> \o fields[k]
          BY <1>2 DEF JoinRun
        <4> QED BY <2>2, <3>0, <4>1
      <3>2. Read(NibbleSteps(Fresh, r[k - 1]), fields, k - 1, bytes)
        BY <1>4, <2>2
      <3>3. Read(NibbleSteps(Fresh, r[k - 1] \o <<Sep>> \o fields[k]), fields, k, bytes)
        <4> DEFINE t == r[k - 1]
        <4>1. t \in Seq(Character) /\ Read(NibbleSteps(Fresh, t), fields, k - 1, bytes)
          BY <3>1, <3>2
        <4> HIDE DEF t
        <4>2. Read(NibbleSteps(Fresh, t \o <<Sep>> \o fields[k]), fields, k, bytes)
          <5>1. k \in 1..Len(fields) /\ Len(fields) <= 8 /\ bytes[k] = FieldByte(fields[k])
            OBVIOUS
          <5> QED BY ONLY fields \in Seq(FieldOf), <2>2, <4>1, <5>1, NextFieldReads
        <4> QED BY <4>2 DEF t
      <3>4. Read(NibbleSteps(Fresh, r[k]), fields, k, bytes)
        BY ONLY <3>1, <3>3
      <3> QED BY <3>4
    <2> QED BY <2>1, <2>2
  <1>5. \A k \in 0..n : k \in P
    <2>1. n \in Nat
      OBVIOUS
    <2> HIDE DEF P, n
    <2> QED BY <1>3, <1>4, <2>1, UpToInduction
  <1>6. Read(NibbleSteps(Fresh, r[n]), fields, n, bytes)
    <2>0. n \in 1..8
      OBVIOUS
    <2> HIDE DEF n, P
    <2>1. n \in Nat /\ n >= 1
      BY ONLY <2>0
    <2>2. n \in P /\ n # 0
      BY ONLY <1>5, <2>1
    <2> QED BY ONLY <2>2 DEF P
  <1> QED BY ONLY <1>2, <1>6

(* What parse_eui2bin returns for it. *)
LEMMA FieldsParsed ==
    ASSUME NEW fields \in Seq(FieldOf), Len(fields) \in 1..8, Len(fields[Len(fields)]) = 2
    PROVE  parse_eui2bin(Joined(fields, Sep), 8)
             = [dst |-> [i \in DOMAIN fields |-> FieldByte(fields[i])], retlen |-> Len(fields)]
  <1> DEFINE n == Len(fields)
             bytes == [i \in DOMAIN fields |-> FieldByte(fields[i])]
             st == NibbleSteps(Fresh, Joined(fields, Sep))
  <1>1. DOMAIN fields = 1..n /\ \A i \in 1..n : bytes[i] = FieldByte(fields[i])
    OBVIOUS
  <1>2. Read(st, fields, n, bytes)
    <2> HIDE DEF bytes
    <2> QED BY <1>1, JoinedReads
  <1>3. Whole(st, n, bytes)
    BY <1>2 DEF Read
  <1>4. st \in NibbleState /\ ~st.bad /\ Len(st.dst) = n /\ \A i \in 1..n : st.dst[i] = bytes[i]
    BY <1>3 DEF Whole
  <1>5. st.dst = bytes
    <2>1. st.dst \in Seq(Nat)
      BY <1>4 DEF NibbleState
    <2>2. st.dst = [i \in 1..n |-> bytes[i]]
      <3> DEFINE d == st.dst
      <3>1. d \in Seq(Nat) /\ Len(d) = n /\ \A i \in 1..n : d[i] = bytes[i]
        BY <1>4, <2>1
      <3> HIDE DEF d, bytes, n
      <3>2. d = [i \in 1..Len(d) |-> d[i]]
        BY <3>1
      <3>3. d = [i \in 1..n |-> bytes[i]]
        BY <3>1, <3>2
      <3> QED BY <3>3 DEF d
    <2> QED BY <1>1, <2>2
  <1>6. parse_eui2bin(Joined(fields, Sep), 8) = [dst |-> st.dst, retlen |-> IF st.bad THEN -1 ELSE Len(st.dst)]
    BY DEF parse_eui2bin, Fresh
  <1> HIDE DEF st, bytes
  <1>7. parse_eui2bin(Joined(fields, Sep), 8) = [dst |-> bytes, retlen |-> n]
    BY <1>4, <1>5, <1>6
  <1> QED BY <1>7 DEF bytes

(* The state of fmt_eui. *)
FmtState == [text : Seq(Character), left : Int, ok : BOOLEAN]
FmtFn == [x \in FmtState |-> [b \in Byte256 |-> FmtStep(x, b)]]

(* A byte is two digits, which are a field. *)
Digits(b) == <<b \div 16, b % 16>>

(* The two digits of a byte are a field that stands for it. *)
LEMMA DigitsField ==
    ASSUME NEW b \in Byte256
    PROVE  /\ Digits(b) \in FieldOf /\ Len(Digits(b)) = 2 /\ FieldByte(Digits(b)) = b
           /\ Digits(b) \in Seq(Character)
  <1> DEFINE h == b \div 16
             l == b % 16
  <1>1. h \in Digit /\ l \in Digit /\ 16 * h + l = b
    BY DEF Byte256, Digit
  <1>2. h \in Character /\ l \in Character
    BY <1>1 DEF Digit, Character
  <1>3. Digits(b) = <<h, l>>
    BY DEF Digits
  <1> HIDE DEF h, l
  <1>4. <<h, l>> \in Seq(Digit) /\ Len(<<h, l>>) = 2 /\ FieldByte(<<h, l>>) = b
    BY <1>1 DEF FieldByte
  <1>5. <<h, l>> \in Seq(Character)
    BY <1>2
  <1> QED BY <1>3, <1>4, <1>5 DEF FieldOf

(* What a byte adds to the text. *)
Longer(t, b) == IF t = <<>> THEN Digits(b) ELSE t \o <<Sep>> \o Digits(b)

(* The text that fmt_eui has after one more byte. *)
LEMMA LongerText ==
    ASSUME NEW t \in Seq(Character), NEW b \in Byte256
    PROVE  /\ Longer(t, b) \in Seq(Character) /\ Longer(t, b) # <<>>
           /\ Len(Longer(t, b)) = Len(t) + (IF t = <<>> THEN 2 ELSE 3)
           /\ t \o ((IF t = <<>> THEN <<>> ELSE <<Sep>>) \o Digits(b)) = Longer(t, b)
           /\ Len((IF t = <<>> THEN <<>> ELSE <<Sep>>) \o Digits(b)) = (IF t = <<>> THEN 2 ELSE 3)
  <1> DEFINE d == Digits(b)
             s == <<Sep>>
  <1>1. d \in Seq(Character) /\ Len(d) = 2 /\ s \in Seq(Character) /\ Len(s) = 1
    BY DigitsField DEF Sep, Character
  <1> HIDE DEF d, s
  <1>4. t \in Seq(Character) /\ s \in Seq(Character) /\ d \in Seq(Character)
    BY <1>1
  <1>2. CASE t = <<>>
    <2>1. <<>> \o d = d /\ <<>> \o (<<>> \o d) = d /\ d # <<>> /\ Len(<<>>) = 0
      BY <1>1
    <2> QED BY <1>1, <1>2, <2>1 DEF Longer, d, s
  <1>3. CASE t # <<>>
    <2> DEFINE v == s \o d
               x == (t \o s) \o d
               y == t \o v
    <2>1. v \in Seq(Character) /\ Len(v) = 3
      <3>1. v \in Seq(Character) /\ Len(v) = Len(s) + Len(d)
        BY ONLY <1>4, ConcatAt
      <3> QED BY <1>1, <3>1
    <2>7. x = y
      BY <1>4, ConcatAssoc
    <2>3. y \in Seq(Character) /\ Len(y) = Len(t) + 3
      <3> HIDE DEF v
      <3>1. y \in Seq(Character) /\ Len(y) = Len(t) + Len(v)
        BY ONLY <1>4, <2>1, ConcatAt
      <3> QED BY <2>1, <3>1
    <2> HIDE DEF x, y, v
    <2>8. y # <<>>
      BY <2>3
    <2>9. Longer(t, b) = x /\ t \o ((IF t = <<>> THEN <<>> ELSE <<Sep>>) \o Digits(b)) = y
      BY <1>3 DEF Longer, x, y, v, s, d
    <2>10. (IF t = <<>> THEN <<>> ELSE <<Sep>>) \o Digits(b) = v
      BY <1>3 DEF v, s, d
    <2> QED BY <1>3, <2>1, <2>3, <2>7, <2>8, <2>9, <2>10
  <1> QED BY <1>2, <1>3

(* A byte is written if more than three characters are left. *)
LEMMA FmtWrites ==
    ASSUME NEW x \in FmtState, NEW b \in Byte256
    PROVE  /\ FmtStep(x, b) \in FmtState
           /\ FmtStep(x, b).ok <=> x.ok /\ x.left > 3
           /\ FmtStep(x, b).ok => /\ FmtStep(x, b).text = Longer(x.text, b)
                                  /\ FmtStep(x, b).left = x.left - (IF x.text = <<>> THEN 2 ELSE 3)
  <1> DEFINE t == x.text
             p == (IF t = <<>> THEN <<>> ELSE <<Sep>>) \o Digits(b)
  <1>1. t \in Seq(Character) /\ x.left \in Int /\ x.ok \in BOOLEAN
    BY DEF FmtState
  <1>2. t \o p = Longer(t, b) /\ Len(p) = (IF t = <<>> THEN 2 ELSE 3) /\ Longer(t, b) \in Seq(Character)
    <2> HIDE DEF t
    <2> QED BY <1>1, LongerText DEF p
  <1>3. FmtStep(x, b) = IF x.left <= 3 THEN [x EXCEPT !.ok = FALSE]
                        ELSE [text |-> t \o p, left |-> x.left - Len(p), ok |-> x.ok]
    BY DEF FmtStep, Digits
  <1> HIDE DEF p
  <1>4. CASE x.left <= 3
    <2>1. FmtStep(x, b) = [x EXCEPT !.ok = FALSE]
      BY <1>3, <1>4
    <2>2. ~FmtStep(x, b).ok /\ FmtStep(x, b) \in FmtState
      BY <2>1 DEF FmtState
    <2>3. ~(x.left > 3)
      BY <1>1, <1>4
    <2> QED BY <2>2, <2>3
  <1>5. CASE x.left > 3
    <2>1. FmtStep(x, b) = [text |-> Longer(t, b), left |-> x.left - (IF t = <<>> THEN 2 ELSE 3), ok |-> x.ok]
      BY <1>1, <1>2, <1>3, <1>5
    <2>2. x.left - (IF t = <<>> THEN 2 ELSE 3) \in Int
      BY <1>1
    <2> QED BY <1>1, <1>2, <1>5, <2>1, <2>2 DEF FmtState
  <1> QED BY <1>1, <1>4, <1>5

(* The bytes are written one after the other. *)
LEMMA FmtFold ==
    ASSUME NEW len \in Int, NEW eui \in Seq(Byte256)
    PROVE  Ends(fmt_eui(len, eui), FmtState, FmtFn, [text |-> <<>>, left |-> len, ok |-> TRUE], eui)
  <1> DEFINE n == Len(eui)
             T == FmtState
             M == Byte256
             step == FmtFn
             Eq(f) == f = [s \in SUBSET (1..n) |->
                              IF s = {} THEN [text |-> <<>>, left |-> len, ok |-> TRUE]
                              ELSE FmtStep(f[s \ {Max(s)}], eui[Max(s)])]
             g == CHOOSE f : Eq(f)
             r == RunOf(g, n)
  <1>1. n \in Nat /\ eui \in [1..n -> M] /\ DOMAIN eui = 1..n /\ [text |-> <<>>, left |-> len, ok |-> TRUE] \in T
    BY DEF FmtState
  <1>2. fmt_eui(len, eui) = g[1..n]
    BY <1>1 DEF fmt_eui, FoldLeft, MapThenFoldSet
  <1>3. step \in [T -> [M -> T]] /\ \A x \in T, e \in M : FmtStep(x, e) = step[x][e]
    BY FmtWrites DEF FmtFn
  <1>4. \A s \in SUBSET (1..n) : s # {} => eui[Max(s)] \in M
    BY <1>1, MaxIn
  <1> HIDE DEF step, n, T, M
  <1>5. Eq(g)
    <2>1. PICK f : IsTable(f, T, step, [text |-> <<>>, left |-> len, ok |-> TRUE], n, eui)
      BY <1>1, <1>3, FoldTable
    <2>2. Eq(f)
      BY <1>3, <1>4, <2>1, Zenon DEF IsTable
    <2> HIDE DEF Eq
    <2> QED BY <2>2
  <1>6. IsRun(r, T, step, [text |-> <<>>, left |-> len, ok |-> TRUE], n, eui)
    <2>1. \A s \in SUBSET (1..n) :
            g[s] = IF s = {} THEN [text |-> <<>>, left |-> len, ok |-> TRUE]
                    ELSE FmtStep(g[s \ {Max(s)}], eui[Max(s)])
      BY <1>5
    <2>2. Follows(g, T, step, [text |-> <<>>, left |-> len, ok |-> TRUE], n, eui)
      BY <1>3, <1>4, <2>1 DEF Follows
    <2> HIDE DEF g
    <2> QED BY <1>1, <1>3, <2>2, TableRun
  <1>7. g[1..n] = r[n]
    BY <1>1 DEF RunOf
  <1> HIDE DEF r
  <1> QED
    BY <1>2, <1>6, <1>7 DEF Ends, n, T, step

(* The characters of k bytes, and what there is after they were written. *)
TextSize(k) == IF k = 0 THEN 0 ELSE 3 * k - 1
Written(x, k, len, text) ==
    /\ x.text = text /\ text \in Seq(Character) /\ Len(text) = TextSize(k)
    /\ x.left = len - TextSize(k)
    /\ k # 0 => len - TextSize(k - 1) > 3

(* What is written of bytes, if it is written. *)
FmtAt(x, k, n, len, text) ==
    /\ x.ok => Written(x, k, len, text)
    /\ len > 3 * n => x.ok

(* One more byte is written. *)
LEMMA WrittenNext ==
    ASSUME NEW len \in Int, NEW k \in Nat, k # 0, NEW x \in FmtState, NEW b \in Byte256, NEW text, NEW next,
           next = IF k = 1 THEN Digits(b) ELSE text \o <<Sep>> \o Digits(b),
           x.ok => Written(x, k - 1, len, text), FmtStep(x, b).ok
    PROVE  Written(FmtStep(x, b), k, len, next)
  <1> DEFINE y == FmtStep(x, b)
  <1>1. /\ y \in FmtState /\ x.ok /\ x.left > 3 /\ y.text = Longer(x.text, b)
        /\ y.left = x.left - (IF x.text = <<>> THEN 2 ELSE 3)
    BY FmtWrites
  <1>2. /\ x.text = text /\ text \in Seq(Character) /\ Len(text) = TextSize(k - 1)
        /\ x.left = len - TextSize(k - 1)
    BY <1>1 DEF Written
  <1> HIDE DEF y
  <1>3. text = <<>> <=> k = 1
    <2>1. k = 1 => TextSize(k - 1) = 0
      BY DEF TextSize
    <2>2. k # 1 => TextSize(k - 1) # 0
      BY DEF TextSize
    <2> QED BY <1>2, <2>1, <2>2
  <1>4. Longer(text, b) = next
    BY <1>3 DEF Longer
  <1>5. /\ Longer(text, b) \in Seq(Character)
        /\ Len(Longer(text, b)) = Len(text) + (IF text = <<>> THEN 2 ELSE 3)
    BY <1>2, LongerText
  <1>6. TextSize(k - 1) + (IF k = 1 THEN 2 ELSE 3) = TextSize(k) /\ TextSize(k) \in Int /\ TextSize(k - 1) \in Int
    BY DEF TextSize
  <1>7. Len(next) = TextSize(k) /\ next \in Seq(Character)
    BY <1>2, <1>3, <1>4, <1>5, <1>6
  <1>8. y.left = len - TextSize(k)
    BY <1>1, <1>2, <1>3, <1>6
  <1>9. y.text = next /\ len - TextSize(k - 1) > 3
    BY <1>1, <1>2, <1>4
  <1>10. Written(y, k, len, next)
    BY <1>7, <1>8, <1>9 DEF Written
  <1> QED BY <1>10 DEF y

(* All bytes are written as two digits each if there is room for them. *)
LEMMA FmtText ==
    ASSUME NEW len \in Int, NEW eui \in Seq(Byte256), NEW n, n = Len(eui)
    PROVE  LET pairs == [i \in 1..n |-> Digits(eui[i])]
           IN  /\ fmt_eui(len, eui).ok => Written(fmt_eui(len, eui), n, len, Joined(pairs, Sep))
               /\ len > 3 * n => fmt_eui(len, eui).ok
  <1> DEFINE pairs == [i \in 1..n |-> Digits(eui[i])]
             base == [text |-> <<>>, left |-> len, ok |-> TRUE]
  <1>1. n \in Nat /\ \A i \in 1..n : eui[i] \in Byte256
    OBVIOUS
  <1>2. pairs \in Seq(Seq(Character)) /\ Len(pairs) = n /\ Sep \in Character
    <2>1. \A i \in 1..n : Digits(eui[i]) \in Seq(Character)
      BY <1>1, DigitsField
    <2>2. Sep \in Character
      BY DEF Sep, Character
    <2> QED BY <1>1, <2>1, <2>2
  <1>3. PICK r : JoinRun(r, Character, pairs, Sep) /\ Joined(pairs, Sep) = r[Len(pairs)]
    BY <1>2, JoinedRun
  <1>4. /\ r[0] = <<>> /\ Joined(pairs, Sep) = r[n]
        /\ \A k \in 1..n : r[k] = IF k = 1 THEN pairs[k] ELSE r[k - 1] \o <<Sep>> \o pairs[k]
    BY <1>2, <1>3 DEF JoinRun
  <1>5. \A k \in 1..n : pairs[k] = Digits(eui[k])
    OBVIOUS
  <1>6. PICK f : IsRun(f, FmtState, FmtFn, base, n, eui) /\ fmt_eui(len, eui) = f[n]
    BY FmtFold DEF Ends
  <1>7. /\ f \in [0..n -> FmtState] /\ f[0] = base
        /\ \A k \in 1..n : f[k] = FmtFn[f[k - 1]][eui[k]]
    BY <1>6 DEF IsRun
  <1> HIDE DEF pairs
  <1> DEFINE P == {k \in 0..n : FmtAt(f[k], k, n, len, r[k])}
  <1>8. 0 \in P
    <2>1. base.ok /\ base.text = <<>> /\ base.left = len /\ <<>> \in Seq(Character) /\ Len(<<>>) = 0
      OBVIOUS
    <2> HIDE DEF base
    <2>2. TextSize(0) = 0 /\ len = len - 0
      BY DEF TextSize
    <2>3. Written(base, 0, len, <<>>)
      BY <2>1, <2>2 DEF Written
    <2>4. FmtAt(base, 0, n, len, <<>>)
      BY <2>1, <2>3 DEF FmtAt
    <2> QED BY <1>1, <1>4, <1>7, <2>4
  <1>9. ASSUME NEW k \in 1..n, k - 1 \in P PROVE k \in P
    <2> DEFINE x == f[k - 1]
               b == eui[k]
    <2>1. x \in FmtState /\ b \in Byte256 /\ f[k] = FmtFn[x][b]
      BY <1>1, <1>7
    <2>2. f[k] = FmtStep(x, b)
      BY <2>1 DEF FmtFn
    <2>3. r[k] = IF k = 1 THEN Digits(b) ELSE r[k - 1] \o <<Sep>> \o Digits(b)
      BY <1>4, <1>5
    <2>7. FmtAt(x, k - 1, n, len, r[k - 1])
      BY <1>9
    <2>4. (x.ok => Written(x, k - 1, len, r[k - 1])) /\ (len > 3 * n => x.ok)
      <3> HIDE DEF x
      <3> QED BY <2>7 DEF FmtAt
    <2> HIDE DEF x, b
    <2>5. ASSUME f[k].ok PROVE Written(f[k], k, len, r[k])
      <3> DEFINE t == r[k - 1]
                 u == r[k]
      <3>1. u = IF k = 1 THEN Digits(b) ELSE t \o <<Sep>> \o Digits(b)
        BY <2>3
      <3>2. x.ok => Written(x, k - 1, len, t)
        BY <2>4
      <3>3. FmtStep(x, b).ok /\ k \in Nat /\ k # 0
        BY <2>2, <2>5
      <3> HIDE DEF t, u
      <3>4. Written(FmtStep(x, b), k, len, u)
        BY ONLY len \in Int, <2>1, <3>1, <3>2, <3>3, WrittenNext
      <3> QED BY <2>2, <3>4 DEF u
    <2>6. ASSUME len > 3 * n PROVE f[k].ok
      <3>1. x.ok /\ x.left = len - TextSize(k - 1)
        BY <2>4, <2>6 DEF Written
      <3>2. len - TextSize(k - 1) > 3
        BY <1>1, <2>6 DEF TextSize
      <3>3. x.ok /\ x.left > 3
        BY <3>1, <3>2
      <3>4. FmtStep(x, b).ok
        BY <2>1, <3>3, FmtWrites
      <3> QED BY <2>2, <3>4
    <2>8. FmtAt(f[k], k, n, len, r[k])
      BY <2>5, <2>6 DEF FmtAt
    <2> QED BY <2>8
  <1>10. \A k \in 0..n : k \in P
    <2> HIDE DEF P
    <2> QED BY <1>1, <1>8, <1>9, UpToInduction
  <1>11. FmtAt(f[n], n, n, len, r[n])
    BY <1>1, <1>10
  <1>12. (f[n].ok => Written(f[n], n, len, r[n])) /\ (len > 3 * n => f[n].ok)
    BY <1>11 DEF FmtAt
  <1> QED BY <1>4, <1>6, <1>12 DEF pairs

(* What parse_eui2bin reads, and fmt_eui writes, are the bytes, for every sequence
   of up to eight fields (ifacefuncs.cpp). *)
THEOREM EveryFieldRead ==
    ASSUME NEW fields \in Seq(FieldOf), Len(fields) \in 1..8
    PROVE  FieldsAreBytes(fields)
  <1> DEFINE n == Len(fields)
             bytes == [i \in DOMAIN fields |-> FieldByte(fields[i])]
             whole == fmt_eui(3 * n + 1, bytes)
             pairs == [i \in 1..n |-> Digits(bytes[i])]
  <1>1. n \in 1..8 /\ DOMAIN fields = 1..n
    OBVIOUS
  <1>2. \A f \in FieldOf : FieldByte(f) \in Byte256
    <2> SUFFICES ASSUME NEW f \in FieldOf PROVE FieldByte(f) \in Byte256
      OBVIOUS
    <2>1. f \in Seq(Digit) /\ Len(f) \in {1, 2}
      BY DEF FieldOf
    <2>2. CASE Len(f) = 1
      <3>1. f[1] \in Digit
        BY <2>1, <2>2
      <3> QED BY <2>2, <3>1 DEF FieldByte, Digit, Byte256
    <2>3. CASE Len(f) = 2
      <3>1. \A i \in 1..2 : f[i] \in Digit
        <4>1. \A i \in 1..Len(f) : f[i] \in Digit
          BY <2>1
        <4> QED BY <2>3, <4>1
      <3>2. f[1] \in Digit /\ f[2] \in Digit
        BY <3>1
      <3>3. FieldByte(f) = 16 * f[1] + f[2]
        BY <2>3 DEF FieldByte
      <3>4. \A d \in Digit, e \in Digit : 16 * d + e \in Byte256
        BY DEF Digit, Byte256
      <3> QED BY <3>2, <3>3, <3>4
    <2> QED BY <2>1, <2>2, <2>3
  <1>3. bytes \in Seq(Byte256) /\ Len(bytes) = n /\ \A i \in 1..n : bytes[i] \in Byte256
    BY <1>1, <1>2
  <1>4. Len(fields[n]) = 2 => parse_eui2bin(Joined(fields, Sep), 8) = [dst |-> bytes, retlen |-> n]
    BY <1>1, FieldsParsed
  <1> HIDE DEF bytes
  <1>5. \A len \in Int : /\ fmt_eui(len, bytes).ok => Written(fmt_eui(len, bytes), n, len, Joined(pairs, Sep))
                         /\ len > 3 * n => fmt_eui(len, bytes).ok
    <2> SUFFICES ASSUME NEW len \in Int
                 PROVE  /\ fmt_eui(len, bytes).ok => Written(fmt_eui(len, bytes), n, len, Joined(pairs, Sep))
                        /\ len > 3 * n => fmt_eui(len, bytes).ok
      OBVIOUS
    <2>1. n = Len(bytes)
      BY <1>3
    <2> HIDE DEF n
    <2> QED BY <1>3, <2>1, FmtText
  <1>6. whole.ok /\ whole.text = Joined(pairs, Sep)
    <2>1. 3 * n + 1 \in Int /\ 3 * n + 1 > 3 * n
      BY <1>1
    <2>2. whole.ok
      BY <1>5, <2>1
    <2>3. Written(whole, n, 3 * n + 1, Joined(pairs, Sep))
      BY <1>5, <2>1, <2>2
    <2> QED BY <2>2, <2>3 DEF Written
  <1>7. parse_eui2bin(Joined(pairs, Sep), 8).dst = bytes
    <2>1. \A i \in 1..n : /\ Digits(bytes[i]) \in FieldOf /\ Len(Digits(bytes[i])) = 2
                          /\ FieldByte(Digits(bytes[i])) = bytes[i]
      BY <1>3, DigitsField
    <2>2. /\ pairs \in Seq(FieldOf) /\ Len(pairs) = n /\ DOMAIN pairs = 1..n
          /\ \A i \in 1..n : pairs[i] = Digits(bytes[i])
      BY <1>1, <2>1
    <2> HIDE DEF pairs, n
    <2>3. Len(pairs) \in 1..8 /\ Len(pairs[Len(pairs)]) = 2
      BY <1>1, <2>1, <2>2
    <2>4. parse_eui2bin(Joined(pairs, Sep), 8)
            = [dst |-> [i \in DOMAIN pairs |-> FieldByte(pairs[i])], retlen |-> Len(pairs)]
      BY ONLY <2>2, <2>3, FieldsParsed
    <2>5. [i \in DOMAIN pairs |-> FieldByte(pairs[i])] = [i \in 1..n |-> bytes[i]]
      BY <2>1, <2>2
    <2>6. bytes = [i \in 1..n |-> bytes[i]]
      BY <1>3
    <2>7. parse_eui2bin(Joined(pairs, Sep), 8) = [dst |-> bytes, retlen |-> Len(pairs)]
      BY ONLY <2>4, <2>5, <2>6
    <2> QED BY ONLY <2>7
  <1>8. ASSUME NEW len \in 0..(3 * n - 1) PROVE ~fmt_eui(len, bytes).ok
    <2> SUFFICES ASSUME fmt_eui(len, bytes).ok PROVE FALSE
      OBVIOUS
    <2>1. len \in Int /\ len <= 3 * n - 1
      BY <1>1
    <2>2. Written(fmt_eui(len, bytes), n, len, Joined(pairs, Sep))
      BY <1>5, <2>1
    <2>3. len - TextSize(n - 1) > 3
      BY <1>1, <2>2 DEF Written
    <2>4. TextSize(n - 1) >= 3 * n - 4 /\ TextSize(n - 1) \in Int
      BY <1>1 DEF TextSize
    <2> QED BY ONLY <1>1, <2>1, <2>3, <2>4
  <1> HIDE DEF pairs
  <1>9. whole.ok /\ parse_eui2bin(whole.text, 8).dst = bytes
    BY <1>6, <1>7
  <1> QED BY <1>4, <1>8, <1>9 DEF FieldsAreBytes, bytes

-----------------------------------------------------------------------------
(* The fields that the run chooses. *)
LEMMA FieldIs == Field \subseteq FieldOf
  <1> SUFFICES ASSUME NEW f \in Field PROVE f \in FieldOf
    OBVIOUS
  <1>1. PICK d \in {0, 10}, e \in {1, 15} : f = <<d>> \/ f = <<d, e>>
    BY DEF Field
  <1>2. d \in Digit /\ e \in Digit
    BY DEF Digit
  <1>3. <<d>> \in FieldOf
    BY <1>2 DEF FieldOf
  <1>4. <<d, e>> \in FieldOf
    BY <1>2 DEF FieldOf
  <1> QED BY <1>1, <1>3, <1>4

(* What the run checks of the text and the addresses of interface identifiers
   (parse_eui2bin, fmt_eui, eui64_from_eui48) is an instance. *)
THEOREM LinkAddressesCorrect == Spec => []LinkAddresses
  <1>1. Init => EuiFields
    <2> SUFFICES ASSUME Init, kind = "fields" PROVE FieldsAreBytes(input)
      BY DEF EuiFields
    <2>1. input \in UpTo(Field, 3) /\ input # <<>>
      BY DEF Init
    <2>2. input \in Seq(Field) /\ Len(input) \in 0..3
      BY <2>1, UpToSeq
    <2>3. input \in Seq(FieldOf)
      BY <2>2, FieldIs
    <2>4. Len(input) \in 1..8
      BY <2>1, <2>2
    <2> QED BY <2>3, <2>4, EveryFieldRead
  <1>2. Init => LinkAddressUnique
    <2> SUFFICES ASSUME Init, kind = "eui48"
                 PROVE  /\ set_eui64(Embedded(input)) = set_eui48(input)
                        /\ \A e \in Tuples({0, 2, 3}, 6) : SameLinkAddress(e, input)
      BY DEF LinkAddressUnique
    <2>1. input \in Tuples({0, 2, 3}, 6)
      BY DEF Init
    <2>2. \A e \in Tuples({0, 2, 3}, 6) : e \in Hardware
      BY DEF Tuples, Hardware, Byte256
    <2> QED BY <2>1, <2>2, EveryLinkAddressUnique
  <1>3. Init => LinkAddresses
    BY <1>1, <1>2 DEF LinkAddresses
  <1> QED
    BY <1>3, InputStays, PTL

(* What the run checks of rtnl_talk (libnetlink.c) is an instance. *)
THEOREM TalkCorrect == Spec => []TalkAnswersOwn
  <1>1. Init => TalkAnswersOwn
    <2> SUFFICES ASSUME Init, kind = "talk" PROVE AnsweredByOwn(input[1], input[2])
      BY DEF TalkAnswersOwn
    <2>1. input \in UpTo(UpTo(Heard, 2) \ {<<>>}, 2) \X BOOLEAN
      BY DEF Init
    <2> DEFINE d == input[1]
               U == UpTo(Heard, 2) \ {<<>>}
    <2>2. d \in UpTo(U, 2) /\ input[2] \in BOOLEAN
      BY <2>1
    <2>3. Heard \subseteq Reply
      <3>1. 0 \in Nat /\ 17 \in Nat
        OBVIOUS
      <3> SUFFICES ASSUME NEW h \in Heard PROVE h \in Reply
        OBVIOUS
      <3>2. h \in [form : {"message", "error", "malformed"}, own : BOOLEAN, ack : BOOLEAN, code : {0, 17}]
        BY DEF Heard
      <3>3. (h.form = "message" => h.ack) \/ h.code = 0
        BY DEF Heard
      <3>4. h \in [form : {"message", "error", "malformed"}, own : BOOLEAN, ack : BOOLEAN, code : Nat]
        BY <3>1, <3>2
      <3> QED BY <3>3, <3>4 DEF Reply
    <2>4. U \subseteq Seq(Reply)
      BY <2>3, UpToSeq
    <2> HIDE DEF d, U
    <2>5. d \in Seq(U)
      BY <2>2, UpToSeq
    <2>6. d \in Seq(Seq(Reply))
      BY <2>4, <2>5
    <2> QED BY <2>2, <2>6, EveryTalkAnswered DEF d
  <1> QED
    BY <1>1, InputStays, PTL

(* The bytes of pieces of 16 bits. *)
LEMMA BytesOfPieces ==
    ASSUME NEW n \in Nat, NEW p \in [1..n -> {0, 1, 256, 40960}]
    PROVE  Bytes(p) \in [1..(2 * n) -> Byte256]
  <1>1. Len(p) = n
    OBVIOUS
  <1>2. \A x \in {0, 1, 256, 40960} : x \div 256 \in Byte256 /\ x % 256 \in Byte256
    BY DEF Byte256
  <1>3. ASSUME NEW k \in 1..(2 * n)
        PROVE  (IF k % 2 = 1 THEN p[(k + 1) \div 2] \div 256 ELSE p[k \div 2] % 256) \in Byte256
    <2>1. CASE k % 2 = 1
      <3>1. (k + 1) \div 2 \in 1..n
        BY <2>1
      <3> QED BY <1>2, <2>1, <3>1
    <2>2. CASE k % 2 # 1
      <3>1. k \div 2 \in 1..n
        BY <2>2
      <3> QED BY <1>2, <2>2, <3>1
    <2> QED BY <2>1, <2>2
  <1> QED BY <1>1, <1>3 DEF Bytes

(* The addresses that the run chooses. *)
LEMMA SampleIs == Sample \subseteq Addresses
  <1> SUFFICES ASSUME NEW x \in Sample PROVE x \in Addresses
    OBVIOUS
  <1>1. CASE \E a \in {0, 1, 160}, b \in {0, 1} : x = Address(AF_INET, <<a, 0, 0, b>>)
    <2>1. PICK a \in {0, 1, 160}, b \in {0, 1} : x = Address(AF_INET, <<a, 0, 0, b>>)
      BY <1>1
    <2>2. a \in Byte256 /\ b \in Byte256 /\ 0 \in Byte256
      BY DEF Byte256
    <2>3. <<a, 0, 0, b>> \in [1..NBYTES -> Byte256]
      BY <2>2 DEF NBYTES
    <2> QED BY <2>1, <2>3 DEF Addresses
  <1> DEFINE p(a, b) == [i \in 1 .. NPIECES |-> IF i = 1 THEN a ELSE IF i = NPIECES THEN b ELSE 0]
  <1>2. CASE \E a \in {0, 256, 40960}, b \in {0, 1} : x = Address(AF_INET6, Bytes(p(a, b)))
    <2> HIDE DEF p
    <2>1. PICK a \in {0, 256, 40960}, b \in {0, 1} : x = Address(AF_INET6, Bytes(p(a, b)))
      BY <1>2
    <2>2. p(a, b) \in [1..NPIECES -> {0, 1, 256, 40960}]
      BY DEF p
    <2>3. Bytes(p(a, b)) \in [1..(2 * NPIECES) -> Byte256]
      BY <2>2, TextAssumption, BytesOfPieces
    <2> QED BY <2>1, <2>3 DEF Addresses
  <1> QED BY <1>1, <1>2 DEF Sample

(* What the run checks of addrcmp (libosw) is an instance. *)
THEOREM AddrcmpCorrect == Spec => []AddrcmpOrders
  <1>1. Init => AddrcmpOrders
    <2> SUFFICES ASSUME Init, kind = "triple" PROVE Ordered(input[1], input[2], input[3])
      BY DEF AddrcmpOrders
    <2>1. input \in Sample \X Sample \X Sample
      BY DEF Init
    <2>2. input[1] \in Addresses /\ input[2] \in Addresses /\ input[3] \in Addresses
      BY <2>1, SampleIs
    <2> QED BY <2>2, EveryAddressOrdered
  <1> QED
    BY <1>1, InputStays, PTL

-----------------------------------------------------------------------------
(* The smallest of a set of numbers. *)
LEMMA MinIs ==
    ASSUME NEW S \in SUBSET Int, NEW n \in S, \A y \in S : n <= y
    PROVE  Min(S) = n
  <1>1. \A x \in S : (\A y \in S : x =< y) => x = n
    OBVIOUS
  <1>2. \E x \in S : \A y \in S : x =< y
    OBVIOUS
  <1> QED
    BY <1>1, <1>2 DEF Min

(* Every set of numbers has a least. *)
LEMMA MinExists ==
    ASSUME NEW I \in SUBSET Nat, I # {}
    PROVE  Min(I) \in I /\ \A y \in I : Min(I) <= y
  <1> DEFINE R == {s \in Nat \X Nat : s[1] < s[2]}
  <1>1. IsWellFoundedOn(R, Nat)
    BY NatLessThanWellFounded DEF OpToRel
  <1>2. PICK x \in I : \A y \in I : <<y, x>> \notin R
    <2> HIDE DEF R
    <2> QED BY <1>1, WFMin
  <1>3. \A y \in I : x <= y
    <2> SUFFICES ASSUME NEW y \in I PROVE x <= y
      OBVIOUS
    <2>1. x \in Nat /\ y \in Nat /\ <<y, x>> \notin R
      BY <1>2
    <2>2. ~(y < x)
      BY <2>1
    <2> QED BY <2>1, <2>2
  <1>4. Min(I) = x
    BY <1>3, MinIs
  <1> QED BY <1>3, <1>4

(* A part of a sequence. *)
LEMMA PartAt ==
    ASSUME NEW S, NEW s \in Seq(S), NEW m \in Nat, NEW n \in Nat, 1 <= m, m <= n + 1, n <= Len(s)
    PROVE  /\ SubSeq(s, m, n) \in Seq(S) /\ Len(SubSeq(s, m, n)) = n - m + 1
           /\ \A i \in 1..(n - m + 1) : SubSeq(s, m, n)[i] = s[m + i - 1]
  OBVIOUS

(* Before and After divide a text at the first place where a character is. *)
LEMMA Divided ==
    ASSUME NEW S, NEW s \in Seq(S), NEW t \in Seq(S), NEW c \in S, \A i \in 1..Len(s) : s[i] # c
    PROVE  Before(s \o <<c>> \o t, c) = s /\ After(s \o <<c>> \o t, c) = t
  <1> DEFINE m == Len(s)
             n == Len(t)
             x == s \o <<c>> \o t
  <1>1. m \in Nat /\ n \in Nat
    OBVIOUS
  <1>3. x \in Seq(S)
    BY Between
  <1>4. Len(x) = m + 1 + n
    BY Between
  <1>5. (\A i \in 1..m : x[i] = s[i]) /\ x[m + 1] = c /\ \A i \in 1..n : x[m + 1 + i] = t[i]
    BY Between
  <1> HIDE DEF x, m, n
  <1> DEFINE I == {i \in 1..Len(x) : x[i] = c}
  <1>6. Min(I) = m + 1 /\ I # {}
    <2>1. I \in SUBSET Int /\ m + 1 \in I
      BY <1>1, <1>4, <1>5
    <2>2. \A y \in I : m + 1 <= y
      BY <1>1, <1>5 DEF m
    <2> HIDE DEF I
    <2> QED BY <2>1, <2>2, MinIs
  <1>7. Before(x, c) = SubSeq(x, 1, m + 1 - 1)
    <2> DEFINE i == IF I # {} THEN Min(I) ELSE 0
    <2>1. Before(x, c) = IF i = 0 THEN x ELSE SubSeq(x, 1, i - 1)
      BY DEF Before, SelectInSeq
    <2>2. i = m + 1 /\ i # 0
      BY <1>1, <1>6
    <2> HIDE DEF i
    <2>3. Before(x, c) = SubSeq(x, 1, i - 1)
      BY ONLY <2>1, <2>2
    <2>4. i - 1 = m + 1 - 1
      BY ONLY <1>1, <2>2
    <2> QED BY ONLY <2>3, <2>4
  <1>8. Before(x, c) = s
    <2> DEFINE p == SubSeq(x, 1, m)
    <2>1. p \in Seq(S) /\ Len(p) = m - 1 + 1 /\ \A i \in 1..(m - 1 + 1) : p[i] = x[1 + i - 1]
      BY <1>1, <1>3, <1>4, PartAt
    <2> HIDE DEF p
    <2>2. Len(p) = m /\ \A i \in 1..m : p[i] = s[i]
      BY <1>1, <1>5, <2>1
    <2>3. p = s
      BY <2>1, <2>2, SameSeq DEF m
    <2>4. m + 1 - 1 = m
      BY <1>1
    <2> QED BY ONLY <1>7, <2>3, <2>4 DEF p
  <1>9. After(x, c) = t
    <2> DEFINE p == SubSeq(x, m + 2, m + 1 + n)
    <2>1. /\ p \in Seq(S) /\ Len(p) = m + 1 + n - (m + 2) + 1
          /\ \A i \in 1..(m + 1 + n - (m + 2) + 1) : p[i] = x[m + 2 + i - 1]
      <3> DEFINE f == m + 2
                 l == m + 1 + n
      <3>1. /\ x \in Seq(S) /\ f \in Nat /\ l \in Nat /\ 1 <= f /\ f <= l + 1 /\ l <= Len(x)
        BY <1>1, <1>3, <1>4
      <3> HIDE DEF f, l
      <3>2. /\ SubSeq(x, f, l) \in Seq(S) /\ Len(SubSeq(x, f, l)) = l - f + 1
            /\ \A i \in 1..(l - f + 1) : SubSeq(x, f, l)[i] = x[f + i - 1]
        BY ONLY <3>1, PartAt
      <3>3. f = m + 2 /\ l = m + 1 + n /\ p = SubSeq(x, f, l)
        BY DEF f, l
      <3> HIDE DEF p, m, n
      <3> QED BY ONLY <1>1, <3>1, <3>2, <3>3
    <2>2. After(x, c) = p
      BY <1>4, <1>8 DEF After, m
    <2> HIDE DEF p
    <2>3. m + 1 + n - (m + 2) + 1 = n /\ \A i \in 1..n : m + 2 + i - 1 = m + 1 + i
      BY <1>1
    <2>4. Len(p) = n /\ \A i \in 1..n : p[i] = t[i]
      BY <1>5, <2>1, <2>3
    <2>5. p = t
      BY <2>1, <2>4, SameSeq DEF n
    <2> QED BY <2>2, <2>5
  <1> QED BY <1>8, <1>9 DEF x

(* A text without the character is all before it. *)
LEMMA Undivided ==
    ASSUME NEW S, NEW s \in Seq(S), NEW c, \A i \in 1..Len(s) : s[i] # c
    PROVE  Before(s, c) = s
  BY DEF Before, SelectInSeq

(* The digits of an ACP name, and what may follow them. *)
Symbol == Nat
AcpDigit == Digit \cup {NoDigit, Blank, Minus}
AcpArea == {<<>>} \cup {<<PlusSign>> \o a : a \in Seq(Symbol \ {AtSign})}

(* The parts of an ACP name that parse_rfc8994string finds. *)
LEMMA AcpParts ==
    ASSUME NEW tag \in Symbol \ {PlusSign, AtSign}, NEW digits \in Seq(AcpDigit), NEW area \in AcpArea,
           NEW domain \in Seq(Symbol)
    PROVE  LET local == Before(AcpText(tag, digits, area, domain), AtSign)
           IN  /\ Before(local, PlusSign) = <<tag>>
               /\ Before(After(local, PlusSign), PlusSign) = digits
               /\ \E i \in DOMAIN local : local[i] = PlusSign
  <1> DEFINE h == <<tag, PlusSign>>
             g == <<tag>>
             p == <<PlusSign>>
             e == digits \o area
             q == h \o digits
             local == q \o area
  <1>1. PlusSign \in Symbol /\ AtSign \in Symbol /\ PlusSign # AtSign /\ AcpDigit \subseteq Symbol
    BY DEF PlusSign, AtSign, AcpDigit, Digit, NoDigit, Blank, Minus, Symbol
  <1>2. /\ h \in Seq(Symbol) /\ Len(h) = 2 /\ h[1] = tag /\ h[2] = PlusSign
        /\ g \in Seq(Symbol) /\ Len(g) = 1 /\ g[1] = tag /\ p \in Seq(Symbol) /\ Len(p) = 1 /\ p[1] = PlusSign
    <2>1. tag \in Symbol /\ PlusSign \in Symbol
      BY <1>1
    <2>2. \A x \in Symbol, y \in Symbol :
            /\ <<x, y>> \in Seq(Symbol) /\ Len(<<x, y>>) = 2 /\ <<x, y>>[1] = x /\ <<x, y>>[2] = y
            /\ <<x>> \in Seq(Symbol) /\ Len(<<x>>) = 1 /\ <<x>>[1] = x
      OBVIOUS
    <2> QED BY <2>1, <2>2
  <1>3. g \o p = h
    <2>1. tag \in Symbol /\ PlusSign \in Symbol
      BY <1>1
    <2> QED BY ONLY <2>1, PairText
  <1> DEFINE Divides(x, y, c) == /\ Before(x \o <<c>> \o y, c) = x
                                /\ After(x \o <<c>> \o y, c) = y
  <1>15. \A x \in Seq(Symbol), y \in Seq(Symbol), c \in Symbol :
           (\A i \in 1..Len(x) : x[i] # c) => Divides(x, y, c)
    BY Divided
  <1>16. \A x \in Seq(Symbol), y \in Seq(Symbol), z \in Seq(Symbol) : (x \o y) \o z = x \o (y \o z)
    BY ConcatAssoc
  <1> HIDE DEF Divides
  <1>4. /\ digits \in Seq(Symbol) /\ area \in Seq(Symbol)
        /\ \A i \in 1..Len(digits) : digits[i] # PlusSign /\ digits[i] # AtSign
        /\ \A i \in 1..Len(area) : area[i] # AtSign
    <2>1. digits \in Seq(Symbol)
      <3>1. AcpDigit \subseteq Symbol
        BY <1>1
      <3> QED BY <3>1, SeqMono
    <2>2. \A x \in AcpDigit : x # PlusSign /\ x # AtSign
      BY DEF AcpDigit, Digit, NoDigit, Blank, Minus, PlusSign, AtSign
    <2>3. \A i \in 1..Len(digits) : digits[i] \in AcpDigit
      OBVIOUS
    <2>4. area \in Seq(Symbol) /\ \A i \in 1..Len(area) : area[i] # AtSign
      <3>1. CASE area = <<>>
        BY <3>1
      <3>2. ASSUME NEW a \in Seq(Symbol \ {AtSign}), area = p \o a
            PROVE  area \in Seq(Symbol) /\ \A i \in 1..Len(area) : area[i] # AtSign
        <4>1. p \in Seq(Symbol \ {AtSign})
          BY <1>1
        <4> HIDE DEF p
        <4>2. area \in Seq(Symbol \ {AtSign})
          BY <3>2, <4>1
        <4> QED BY <4>2
      <3> QED BY <3>1, <3>2 DEF AcpArea
    <2> QED BY <2>1, <2>2, <2>3, <2>4
  <1>5. AcpText(tag, digits, area, domain) = local \o <<AtSign>> \o domain
    BY DEF AcpText
  <1> HIDE DEF h, g, p
  <1>6. /\ q \in Seq(Symbol) /\ Len(q) = 2 + Len(digits)
        /\ \A i \in 1..2 : q[i] = h[i]
        /\ \A i \in 1..Len(digits) : q[2 + i] = digits[i]
    <2>1. h \in Seq(Symbol) /\ digits \in Seq(Symbol)
      BY <1>2, <1>4
    <2>2. /\ q \in Seq(Symbol) /\ Len(q) = Len(h) + Len(digits)
          /\ \A i \in 1..Len(h) : q[i] = h[i]
          /\ \A i \in 1..Len(digits) : q[Len(h) + i] = digits[i]
      BY ONLY <2>1, ConcatAt
    <2> QED BY <1>2, <2>2
  <1> HIDE DEF q
  <1>7. /\ local \in Seq(Symbol) /\ Len(local) = Len(q) + Len(area)
        /\ \A i \in 1..Len(q) : local[i] = q[i]
        /\ \A i \in 1..Len(area) : local[Len(q) + i] = area[i]
    <2>1. q \in Seq(Symbol) /\ area \in Seq(Symbol)
      BY <1>4, <1>6
    <2> QED BY ONLY <2>1, ConcatAt
  <1>8. local = g \o p \o e
    <2>1. (h \o digits) \o area = h \o (digits \o area)
      <3>1. h \in Seq(Symbol) /\ digits \in Seq(Symbol) /\ area \in Seq(Symbol)
        BY <1>2, <1>4
      <3> QED BY ONLY <3>1, ConcatAssoc
    <2> QED BY <1>3, <2>1 DEF q
  <1> HIDE DEF local
  <1>9. ASSUME NEW i \in 1..Len(local) PROVE local[i] # AtSign
    <2> DEFINE l == Len(digits)
    <2>0. l \in Nat /\ Len(area) \in Nat /\ Len(q) = 2 + l
      BY <1>4, <1>6
    <2> HIDE DEF l
    <2>1. CASE i \in 1..2
      <3>1. i \in 1..Len(q)
        BY <2>0, <2>1
      <3>2. local[i] = h[i]
        BY <1>6, <1>7, <2>1, <3>1
      <3>3. h[1] # AtSign /\ h[2] # AtSign
        BY <1>1, <1>2
      <3> QED BY <2>1, <3>2, <3>3
    <2>2. CASE i \in 3..(2 + l)
      <3>1. i - 2 \in 1..l /\ i = 2 + (i - 2) /\ i \in 1..Len(q)
        BY <2>0, <2>2
      <3>2. q[2 + (i - 2)] = digits[i - 2] /\ digits[i - 2] # AtSign
        BY <1>4, <1>6, <3>1 DEF l
      <3> QED BY <1>7, <3>1, <3>2
    <2>3. CASE i \in (3 + l)..Len(local)
      <3>1. i - Len(q) \in 1..Len(area) /\ i = Len(q) + (i - Len(q))
        BY <1>7, <2>0, <2>3
      <3> QED BY <1>4, <1>7, <3>1
    <2> QED BY <1>7, <2>0, <2>1, <2>2, <2>3
  <1>10. Before(AcpText(tag, digits, area, domain), AtSign) = local
    <2>1. local \in Seq(Symbol) /\ domain \in Seq(Symbol) /\ AtSign \in Symbol
          /\ \A i \in 1..Len(local) : local[i] # AtSign
      BY <1>1, <1>7, <1>9
    <2>2. Before(local \o <<AtSign>> \o domain, AtSign) = local
      BY ONLY <2>1, <1>15 DEF Divides
    <2> QED BY ONLY <1>5, <2>2
  <1>11. e \in Seq(Symbol)
    BY <1>4
  <1>12. Before(local, PlusSign) = g /\ After(local, PlusSign) = e
    <2>1. \A i \in 1..Len(g) : g[i] # PlusSign
      BY <1>2
    <2> HIDE DEF e
    <2>2. Before(g \o <<PlusSign>> \o e, PlusSign) = g /\ After(g \o <<PlusSign>> \o e, PlusSign) = e
      <3>1. g \in Seq(Symbol) /\ e \in Seq(Symbol) /\ PlusSign \in Symbol
        BY <1>1, <1>2, <1>11
      <3> QED BY ONLY <2>1, <3>1, <1>15 DEF Divides
    <2> QED BY ONLY <1>8, <2>2 DEF p
  <1>13. Before(e, PlusSign) = digits
    <2>1. CASE area = <<>>
      <3>1. e = digits
        BY <1>4, <2>1
      <3> QED BY <1>4, <3>1, Undivided
    <2>2. ASSUME NEW a \in Seq(Symbol \ {AtSign}), area = p \o a PROVE Before(e, PlusSign) = digits
      <3>1. a \in Seq(Symbol) /\ p \in Seq(Symbol) /\ digits \in Seq(Symbol)
        <4>1. \A z \in Seq(Symbol \ {AtSign}) : z \in Seq(Symbol)
          BY SeqMono
        <4> QED BY <1>2, <1>4, <4>1
      <3>2. (digits \o p) \o a = digits \o (p \o a)
        BY ONLY <3>1, <1>16
      <3>3. Before(digits \o <<PlusSign>> \o a, PlusSign) = digits
        <4>1. PlusSign \in Symbol /\ \A i \in 1..Len(digits) : digits[i] # PlusSign
          BY <1>1, <1>4
        <4> QED BY ONLY <3>1, <4>1, <1>15 DEF Divides
      <3> QED BY ONLY <2>2, <3>2, <3>3 DEF p, e
    <2> QED BY <2>1, <2>2 DEF AcpArea, p
  <1>14. \E i \in DOMAIN local : local[i] = PlusSign
    <2>1. Len(local) \in Nat /\ 2 \in 1..Len(local) /\ 2 \in 1..Len(q) /\ 2 \in 1..2
      BY <1>4, <1>6, <1>7
    <2>2. local[2] = PlusSign
      BY <1>2, <1>6, <1>7, <2>1
    <2>3. DOMAIN local = 1..Len(local)
      BY <1>7
    <2> QED BY ONLY <2>1, <2>2, <2>3
  <1> QED BY <1>10, <1>12, <1>13, <1>14 DEF g

(* What the digits are made to be. *)
AcpTaken(tag, digits) ==
    /\ tag \in {RFC8994, RFCSELF}
    /\ \A i \in 1..AddrBytes : HexByte(digits, i) # -1
AcpResult(tag, digits) ==
    [ok |-> AcpTaken(tag, digits),
     addr |-> IF AcpTaken(tag, digits) THEN [i \in 1..AddrBytes |-> HexByte(digits, i)] ELSE <<>>]

(* What parse_rfc8994string makes of an ACP name depends on its tag and digits only. *)
LEMMA AcpParses ==
    ASSUME NEW tag \in Symbol \ {PlusSign, AtSign}, NEW digits \in Seq(AcpDigit), NEW area \in AcpArea,
           NEW domain \in Seq(Symbol)
    PROVE  parse_rfc8994string(AcpText(tag, digits, area, domain)) = AcpResult(tag, digits)
  <1> DEFINE text == AcpText(tag, digits, area, domain)
             local == Before(text, AtSign)
             found == Before(After(local, PlusSign), PlusSign)
             ok == /\ \E i \in DOMAIN local : local[i] = PlusSign
                   /\ Before(local, PlusSign) \in {<<RFC8994>>, <<RFCSELF>>}
                   /\ \A i \in 1 .. AddrBytes : HexByte(found, i) # -1
  <1>1. Before(local, PlusSign) = <<tag>> /\ found = digits /\ \E i \in DOMAIN local : local[i] = PlusSign
    BY AcpParts
  <1>2. parse_rfc8994string(text)
          = [ok |-> ok, addr |-> IF ok THEN [i \in 1 .. AddrBytes |-> HexByte(found, i)] ELSE <<>>]
    BY DEF parse_rfc8994string
  <1> HIDE DEF text, local, found
  <1>3. <<tag>> \in {<<RFC8994>>, <<RFCSELF>>} <=> tag \in {RFC8994, RFCSELF}
    OBVIOUS
  <1>4. ok <=> AcpTaken(tag, digits)
    BY <1>1, <1>3 DEF AcpTaken
  <1>5. ok = AcpTaken(tag, digits)
    BY <1>4 DEF AcpTaken
  <1> HIDE DEF ok
  <1> QED BY <1>1, <1>2, <1>5 DEF AcpResult, text

(* Where sscanf begins to read, and what it can make a number of. *)
LEMMA ScannedIs ==
    ASSUME NEW t \in Seq(AcpDigit), NEW p \in 1..Len(t)
    PROVE  /\ t[p] < 16 => Scanned(t, p) = (IF CharAt(t, p + 1) < 16 THEN t[p] * 16 + CharAt(t, p + 1) ELSE t[p])
           /\ t[p] = NoDigit => Scanned(t, p) = -1
           /\ Scanned(t, p) # -1 => \E k \in p..Len(t) : t[k] < 16
  <1> DEFINE l == Len(t)
             I == {q \in p..l : t[q] # Blank} \cup {l + 1}
             n == NonBlank(t, p)
             a == CharAt(t, n)
             b == CharAt(t, n + 1)
  <1>1. l \in Nat /\ p \in Nat /\ \A q \in 1..l : t[q] \in AcpDigit
    OBVIOUS
  <1>2. n = Min(I) /\ Scanned(t, p) = (IF a < 16 THEN (IF b < 16 THEN a * 16 + b ELSE a)
                                      ELSE IF a = Minus /\ b < 16 THEN (256 - b) % 256 ELSE -1)
    BY DEF NonBlank, Scanned
  <1>3. I \in SUBSET Nat /\ I # {} /\ \A y \in I : p <= y /\ y <= l + 1
    BY <1>1
  <1> HIDE DEF l
  <1>4. n \in I /\ n \in Nat /\ p <= n /\ n <= l + 1
    <2> HIDE DEF I
    <2>1. Min(I) \in I
      BY <1>3, MinExists
    <2> QED BY <1>2, <1>3, <2>1
  <1>5. t[p] # Blank => n = p
    <2> SUFFICES ASSUME t[p] # Blank PROVE Min(I) = p
      BY <1>2
    <2>1. p \in I
      BY <1>1 DEF l
    <2>2. I \in SUBSET Int
      BY <1>3
    <2> HIDE DEF I
    <2> QED BY <1>3, <2>1, <2>2, MinIs
  <1>6. NoDigit = 26 /\ Blank = 29 /\ Minus = 30 /\ CharAt(t, p) = t[p]
    BY <1>1 DEF NoDigit, Blank, Minus, CharAt, l
  <1>7. t[p] \in AcpDigit /\ \A x \in AcpDigit : x \in Nat /\ (x < 16 => x # Blank)
    BY <1>1, <1>6 DEF AcpDigit, Digit, l
  <1> HIDE DEF I, n, a, b
  <1>8. t[p] < 16 => Scanned(t, p) = (IF CharAt(t, p + 1) < 16 THEN t[p] * 16 + CharAt(t, p + 1) ELSE t[p])
    BY <1>2, <1>5, <1>6, <1>7 DEF a, b
  <1>9. t[p] = NoDigit => Scanned(t, p) = -1
    BY <1>2, <1>5, <1>6 DEF a
  <1>10. ASSUME Scanned(t, p) # -1 PROVE \E k \in p..l : t[k] < 16
    <2>1. a < 16 \/ b < 16
      BY <1>2, <1>10
    <2>2. CASE a < 16
      <3>1. n <= l /\ t[n] < 16
        BY <1>6, <2>2 DEF CharAt, a, l
      <3> QED BY <1>1, <1>4, <3>1
    <2>3. CASE b < 16
      <3>1. n + 1 <= l /\ t[n + 1] < 16
        BY <1>6, <2>3 DEF CharAt, b, l
      <3> QED BY <1>1, <1>4, <3>1
    <2> QED BY <2>1, <2>2, <2>3
  <1> QED BY <1>8, <1>9, <1>10 DEF l

(* The address of an ACP name is read right, whatever area and domain follow the
   digits; of texts with other characters (blanks and signs, which sscanf takes, and
   any others) those are refused that have no number for a byte (parse_rfc8994string). *)
THEOREM EveryAcpNameParsed ==
    ASSUME NEW tag \in Symbol \ {PlusSign, AtSign}, NEW digits \in Seq(AcpDigit), NEW area \in AcpArea,
           NEW domain \in Seq(Symbol)
    PROVE  AcpAddress(tag, digits, area, domain)
  <1> DEFINE whole == {i \in 1 .. AddrBytes : 2 * i <= Len(digits)}
             r == parse_rfc8994string(AcpText(tag, digits, area, domain))
             n == Len(digits)
             bytes == [i \in 1..AddrBytes |-> IF i \in whole THEN 16 * digits[2 * i - 1] + digits[2 * i] ELSE 0]
  <1>1. r = AcpResult(tag, digits)
    BY AcpParses
  <1>2. parse_rfc8994string(AcpText(tag, digits, <<>>, <<>>)) = AcpResult(tag, digits)
    <2>1. <<>> \in AcpArea /\ <<>> \in Seq(Symbol)
      BY DEF AcpArea
    <2> QED BY <2>1, AcpParses
  <1>3. n \in Nat /\ \A k \in 1..n : digits[k] \in AcpDigit
    OBVIOUS
  <1> HIDE DEF n
  <1>4. ASSUME NEW i \in whole
        PROVE  /\ 2 * i \in 1..n /\ 2 * i - 1 \in 1..n /\ HexByte(digits, i) = Scanned(digits, 2 * i - 1)
               /\ CharAt(digits, (2 * i - 1) + 1) = digits[2 * i]
    <2>1. i \in Nat /\ 1 <= i /\ 2 * i <= n
      BY <1>3 DEF n
    <2>2. 2 * i \in 1..n /\ 2 * i - 1 \in 1..n /\ ~(n < 2 * i) /\ (2 * i - 1) + 1 = 2 * i
      BY <1>3, <2>1
    <2> QED BY <2>1, <2>2 DEF HexByte, CharAt, n
  <1>5. ASSUME AcpTaken(tag, digits), NEW i \in whole
        PROVE  digits[2 * i - 1] # NoDigit /\ \E k \in 2 * i - 1 .. n : digits[k] < 16
    <2> DEFINE p == 2 * i - 1
    <2>1. p \in 1..n /\ Scanned(digits, p) # -1
      BY <1>4, <1>5 DEF AcpTaken
    <2> HIDE DEF p
    <2>2. digits[p] # NoDigit /\ \E k \in p..n : digits[k] < 16
      BY <2>1, ScannedIs DEF n
    <2> QED BY <2>2 DEF p
  <1>6. ASSUME \A i \in DOMAIN digits : digits[i] < 16, NEW i \in 1..AddrBytes
        PROVE  HexByte(digits, i) = bytes[i] /\ HexByte(digits, i) # -1
    <2>1. CASE i \in whole
      <3> DEFINE p == 2 * i - 1
                 x == digits[p]
                 y == digits[2 * i]
      <3>1. p \in 1..n /\ 2 * i \in 1..n /\ HexByte(digits, i) = Scanned(digits, p) /\ CharAt(digits, p + 1) = y
        BY <1>4, <2>1
      <3>2. x \in AcpDigit /\ y \in AcpDigit /\ x < 16 /\ y < 16
        BY <1>3, <1>6, <3>1 DEF n
      <3>3. bytes[i] = 16 * x + y
        BY <2>1
      <3> HIDE DEF p, y, bytes
      <3>4. Scanned(digits, p) = (IF y < 16 THEN x * 16 + y ELSE x)
        BY <3>1, <3>2, ScannedIs DEF n
      <3> HIDE DEF x
      <3>5. x \in Nat /\ y \in Nat
        BY <3>2 DEF AcpDigit, Digit, NoDigit, Blank, Minus
      <3> QED BY <3>1, <3>2, <3>3, <3>4, <3>5
    <2>2. CASE i \notin whole
      <3>1. n < 2 * i
        BY <1>3, <2>2 DEF n
      <3> QED BY <2>2, <3>1 DEF HexByte, n
    <2> QED BY <2>1, <2>2
  <1>7. ASSUME tag \in {RFC8994, RFCSELF}, \A i \in DOMAIN digits : digits[i] < 16
        PROVE  r = [ok |-> TRUE, addr |-> bytes]
    <2>1. AcpTaken(tag, digits)
      BY <1>6, <1>7 DEF AcpTaken
    <2>2. AcpTaken(tag, digits) = TRUE
      BY <2>1 DEF AcpTaken
    <2>3. [i \in 1..AddrBytes |-> HexByte(digits, i)] = bytes
      BY <1>6, <1>7
    <2> HIDE DEF r, bytes
    <2> QED BY <1>1, <2>2, <2>3 DEF AcpResult
  <1>8. r.ok <=> AcpTaken(tag, digits)
    BY <1>1 DEF AcpResult, AcpTaken
  <1> HIDE DEF r, whole
  <1>9. r.ok => /\ tag \in {RFC8994, RFCSELF}
                /\ \A i \in whole : /\ digits[2 * i - 1] # NoDigit
                                   /\ \E k \in 2 * i - 1 .. Len(digits) : digits[k] < 16
    BY <1>5, <1>8 DEF AcpTaken, n
  <1> QED BY <1>1, <1>2, <1>7, <1>9 DEF AcpAddress, r, whole

(* The third character of the text of two or more bytes. *)
Third(t) == Len(t) > 2 /\ t[3] = Sep

(* A text of several fields of two digits has its first separator at the third place. *)
LEMMA ThirdIsSep ==
    ASSUME NEW pairs \in Seq(Seq(Character)), \A i \in 1..Len(pairs) : Len(pairs[i]) = 2, Len(pairs) > 1
    PROVE  Len(Joined(pairs, Sep)) > 2 /\ Joined(pairs, Sep)[3] = Sep
  <1> DEFINE n == Len(pairs)
  <1>1. n \in Nat /\ n > 1 /\ Sep \in Character
    BY DEF Sep, Character
  <1>2. PICK r : JoinRun(r, Character, pairs, Sep) /\ Joined(pairs, Sep) = r[n]
    BY <1>1, JoinedRun
  <1>3. /\ r \in [0..n -> Seq(Character)]
        /\ \A k \in 1..n : r[k] = IF k = 1 THEN pairs[k] ELSE r[k - 1] \o <<Sep>> \o pairs[k]
    BY <1>2 DEF JoinRun
  <1>4. \A k \in 1..n : pairs[k] \in Seq(Character) /\ Len(pairs[k]) = 2
    OBVIOUS
  <1> HIDE DEF n
  <1> DEFINE P == {k \in 0..n : (k = 1 => Len(r[k]) = 2) /\ (k > 1 => Third(r[k]))}
  <1>5. 0 \in P
    BY <1>1
  <1>6. ASSUME NEW k \in 1..n, k - 1 \in P PROVE k \in P
    <2>1. CASE k = 1
      <3>1. r[k] = pairs[k] /\ Len(r[k]) = 2
        BY <1>3, <1>4, <2>1
      <3> QED BY <2>1, <3>1
    <2>2. CASE k # 1
      <3> DEFINE x == r[k - 1]
                 y == pairs[k]
      <3>1. x \in Seq(Character) /\ y \in Seq(Character) /\ Len(y) = 2 /\ r[k] = x \o <<Sep>> \o y
        <4>1. k - 1 \in 0..n
          BY <1>1
        <4>2. r[k] = r[k - 1] \o <<Sep>> \o pairs[k]
          <5>1. r[k] = IF k = 1 THEN pairs[k] ELSE r[k - 1] \o <<Sep>> \o pairs[k]
            BY <1>3
          <5> QED BY ONLY <2>2, <5>1
        <4> QED BY <1>3, <1>4, <4>1, <4>2
      <3>2. Len(x) = 2 \/ Third(x)
        BY <1>1, <1>6, <2>2
      <3> HIDE DEF x, y
      <3>3. /\ Len(r[k]) = Len(x) + 1 + Len(y)
            /\ \A i \in 1..Len(x) : r[k][i] = x[i]
            /\ r[k][Len(x) + 1] = Sep
        <4>1. x \in Seq(Character) /\ y \in Seq(Character) /\ Sep \in Character
          BY <1>1, <3>1
        <4> DEFINE z == x \o <<Sep>> \o y
        <4>2. Len(z) = Len(x) + 1 + Len(y) /\ (\A i \in 1..Len(x) : z[i] = x[i]) /\ z[Len(x) + 1] = Sep
          BY ONLY <4>1, Between
        <4>3. r[k] = z
          BY <3>1
        <4> QED BY ONLY <4>2, <4>3
      <3>4. Len(x) \in Nat
        BY <3>1
      <3>5. Third(r[k])
        <4> DEFINE z == r[k]
        <4>1. Len(z) = Len(x) + 3 /\ z[Len(x) + 1] = Sep /\ \A i \in 1..Len(x) : z[i] = x[i]
          BY <3>1, <3>3, <3>4
        <4> SUFFICES Third(z)
          OBVIOUS
        <4> HIDE DEF z
        <4>2. CASE Len(x) = 2
          <5>1. Len(z) = 5 /\ z[3] = Sep
            BY <4>1, <4>2
          <5> QED BY <5>1 DEF Third
        <4>3. CASE Third(x)
          <5>1. Len(x) > 2 /\ x[3] = Sep /\ 3 \in 1..Len(x)
            BY <3>4, <4>3 DEF Third
          <5>2. Len(z) > 2 /\ z[3] = Sep
            BY <3>4, <4>1, <5>1
          <5> QED BY <5>2 DEF Third
        <4> QED BY <3>2, <4>2, <4>3
      <3> QED BY <2>2, <3>5
    <2> QED BY <2>1, <2>2
  <1>7. \A k \in 0..n : k \in P
    <2> HIDE DEF P
    <2> QED BY <1>1, <1>5, <1>6, UpToInduction
  <1>8. Third(r[n])
    BY <1>1, <1>7
  <1> QED BY <1>2, <1>8 DEF Third

(* The text of an EUI is read back. *)
LEMMA EuiRead ==
    ASSUME NEW e \in Seq(Byte256), Len(e) \in {6, 8}
    PROVE  LET t == fmt_eui(64, e).text
           IN  Len(t) > 2 /\ t[3] = Sep /\ parse_eui2bin(t, 8) = [dst |-> e, retlen |-> Len(e)]
  <1> DEFINE n == Len(e)
             pairs == [i \in 1..n |-> Digits(e[i])]
             w == fmt_eui(64, e)
  <1>1. n \in {6, 8} /\ e = [i \in 1..n |-> e[i]] /\ \A i \in 1..n : e[i] \in Byte256
    OBVIOUS
  <1>2. w.ok /\ w.text = Joined(pairs, Sep)
    <2>0. n \in {6, 8}
      BY <1>1
    <2>1. n = Len(e) /\ 64 \in Int
      OBVIOUS
    <2> HIDE DEF n
    <2>2. 64 > 3 * n
      <3>1. n = 6 \/ n = 8
        BY ONLY <2>0
      <3> QED BY ONLY <3>1
    <2>3. (w.ok => Written(w, n, 64, Joined(pairs, Sep))) /\ (64 > 3 * n => w.ok)
      BY <2>1, FmtText
    <2>4. Written(w, n, 64, Joined(pairs, Sep))
      BY <2>2, <2>3
    <2> QED BY <2>2, <2>3, <2>4 DEF Written
  <1>3. \A i \in 1..n : /\ Digits(e[i]) \in FieldOf /\ Len(Digits(e[i])) = 2
                        /\ FieldByte(Digits(e[i])) = e[i] /\ Digits(e[i]) \in Seq(Character)
    BY <1>1, DigitsField
  <1>4. /\ pairs \in Seq(FieldOf) /\ pairs \in Seq(Seq(Character)) /\ Len(pairs) = n /\ DOMAIN pairs = 1..n
        /\ \A i \in 1..n : pairs[i] = Digits(e[i])
    BY <1>1, <1>3
  <1> HIDE DEF pairs, n, w
  <1>5. Len(pairs) \in 1..8 /\ Len(pairs) > 1 /\ Len(pairs[Len(pairs)]) = 2
    BY <1>1, <1>3, <1>4
  <1>6. \A i \in 1..Len(pairs) : Len(pairs[i]) = 2
    BY <1>3, <1>4
  <1>7. parse_eui2bin(Joined(pairs, Sep), 8)
          = [dst |-> [i \in DOMAIN pairs |-> FieldByte(pairs[i])], retlen |-> Len(pairs)]
    BY ONLY <1>4, <1>5, FieldsParsed
  <1>8. [i \in DOMAIN pairs |-> FieldByte(pairs[i])] = [i \in 1..n |-> e[i]]
    BY <1>3, <1>4
  <1>9. parse_eui2bin(Joined(pairs, Sep), 8) = [dst |-> e, retlen |-> n]
    BY ONLY <1>1, <1>4, <1>7, <1>8
  <1>10. Len(Joined(pairs, Sep)) > 2 /\ Joined(pairs, Sep)[3] = Sep
    BY ONLY <1>4, <1>5, <1>6, ThirdIsSep
  <1> QED BY <1>2, <1>9, <1>10 DEF w, n

(* The names of a certificate: an EUI is written in text or in binary, which is not
   taken for a text. *)
CertName ==
    {n \in [type : {"plain", "other", "eui64"}, eui : Seq(Byte256), text : Seq(Symbol)] :
        n.type = "eui64" => /\ Len(n.eui) \in {6, 8}
                            /\ n.text = fmt_eui(64, n.eui).text \/ (n.text = n.eui /\ n.eui[3] # Sep)}

(* A name has its EUI. *)
LEMMA NameEui ==
    ASSUME NEW n \in CertName, n.type = "eui64"
    PROVE  NameValue(n.text) = [eui64 |-> n.eui, len |-> Len(n.eui)]
  <1> DEFINE e == n.eui
             t == n.text
  <1>1. /\ e \in Seq(Byte256) /\ Len(e) \in {6, 8}
        /\ t = fmt_eui(64, e).text \/ (t = e /\ e[3] # Sep)
    BY DEF CertName
  <1> HIDE DEF e, t
  <1>2. CASE t = fmt_eui(64, e).text
    <2>1. Len(t) > 2 /\ t[3] = Sep /\ parse_eui2bin(t, 8) = [dst |-> e, retlen |-> Len(e)]
      BY <1>1, <1>2, EuiRead
    <2>2. NameValue(t) = [eui64 |-> e, len |-> IF Len(e) \in {6, 8} THEN Len(e) ELSE 0]
      <3> DEFINE r == parse_eui2bin(t, 8)
      <3>1. NameValue(t) = [eui64 |-> r.dst, len |-> IF r.retlen \in {6, 8} THEN r.retlen ELSE 0]
        BY <2>1 DEF NameValue
      <3>2. r.dst = e /\ r.retlen = Len(e)
        BY <2>1
      <3> HIDE DEF r
      <3> QED BY <3>1, <3>2
    <2> QED BY <1>1, <2>2 DEF e, t
  <1>3. CASE t = e /\ e[3] # Sep
    <2>1. NameValue(t) = [eui64 |-> e, len |-> Len(e)]
      BY <1>3 DEF NameValue
    <2> QED BY <2>1 DEF e, t
  <1> QED BY <1>1, <1>2, <1>3

(* The first name that is not of another kind. *)
LEMMA FirstName ==
    ASSUME NEW names \in Seq(CertName)
    PROVE  LET I == {i \in 1..Len(names) : names[i].type # "other"}
           IN  /\ extract_eui64_from_cert(names) =
                    (IF I = {} \/ names[Min(I)].type = "plain" THEN [eui64 |-> <<>>, len |-> -1]
                     ELSE NameValue(names[Min(I)].text))
               /\ I # {} => Min(I) \in I /\ \A j \in 1..(Min(I) - 1) : names[j].type = "other"
  <1> DEFINE I == {i \in 1..Len(names) : names[i].type # "other"}
             i == IF I # {} THEN Min(I) ELSE 0
  <1>1. extract_eui64_from_cert(names) =
          IF i = 0 \/ names[i].type = "plain" THEN [eui64 |-> <<>>, len |-> -1] ELSE NameValue(names[i].text)
    BY DEF extract_eui64_from_cert, SelectInSeq
  <1>2. I \subseteq 1..Len(names) /\ Len(names) \in Nat
    OBVIOUS
  <1>3. ASSUME I # {} PROVE Min(I) \in I /\ \A y \in I : Min(I) <= y
    <2>1. I \in SUBSET Nat
      BY <1>2
    <2> HIDE DEF I
    <2> QED BY <1>3, <2>1, MinExists
  <1>4. ASSUME I # {}, NEW j \in 1..(Min(I) - 1) PROVE names[j].type = "other"
    <2>1. Min(I) \in I /\ \A y \in I : Min(I) <= y
      BY <1>3, <1>4
    <2>2. j \in 1..Len(names) /\ ~(Min(I) <= j)
      BY <1>2, <2>1
    <2> QED BY <2>1, <2>2
  <1>5. CASE I = {}
    BY <1>1, <1>5
  <1>6. CASE I # {}
    <2>1. i = Min(I) /\ i # 0
      BY <1>2, <1>3, <1>6
    <2> QED BY <1>1, <1>3, <1>4, <1>6, <2>1
  <1> QED BY <1>5, <1>6

(* peck takes an identity only from a certificate that is trusted, and as it is there
   (load_identity_from_cert, extract_eui64_from_cert, set_link_layer64), for
   whatever names a certificate has. *)
THEOREM EveryIdentityVerified ==
    ASSUME NEW cert \in [1..6 -> BOOLEAN], NEW names \in Seq(CertName), NEW old
    PROVE  TakesIdentity(cert, names, old)
  <1> DEFINE lowpan == cert[6]
             loaded == load_identity_from_cert(cert[1], cert[2], cert[3], cert[4], cert[5])
             new == Pecked(cert, names, old)
             own == {i \in DOMAIN names : names[i].type = "eui64"}
             I == {i \in 1..Len(names) : names[i].type # "other"}
             x == extract_eui64_from_cert(names)
             m == Min(I)
  <1>1. loaded = 0 <=> Trusted(cert)
    BY DEF load_identity_from_cert, Trusted
  <1>2. new = IF loaded # 0 THEN old ELSE set_link_layer64(old, lowpan, x.eui64, x.len)
    BY DEF peck, Pecked
  <1>3. DOMAIN names = 1..Len(names) /\ Len(names) \in Nat /\ \A i \in 1..Len(names) : names[i] \in CertName
    OBVIOUS
  <1>4. /\ x = (IF I = {} \/ names[m].type = "plain" THEN [eui64 |-> <<>>, len |-> -1]
                ELSE NameValue(names[m].text))
        /\ I # {} => m \in I
    BY FirstName
  <1>5. TakesIdentity(cert, names, old) <=>
          /\ new # old => Trusted(cert) /\ \E i \in own : Fits(names[i].eui, lowpan)
                                                        /\ new = Form(names[i].eui, lowpan)
          /\ Trusted(cert) /\ (\A i \in DOMAIN names : names[i].type # "plain") =>
                \A i \in own : own = {i} /\ Fits(names[i].eui, lowpan) => new = Form(names[i].eui, lowpan)
    BY DEF TakesIdentity
  <1> HIDE DEF loaded, m, x, new
  <1>6. CASE ~Trusted(cert)
    BY <1>1, <1>2, <1>5, <1>6
  <1>7. CASE Trusted(cert) /\ (I = {} \/ names[m].type = "plain")
    <2>1. x.len = -1
      BY <1>4, <1>7
    <2>2. new = old
      BY <1>1, <1>2, <1>7, <2>1 DEF set_link_layer64
    <2>3. CASE I = {}
      <3>1. own = {}
        BY <1>3, <2>3
      <3> HIDE DEF own
      <3> QED BY <1>5, <2>2, <3>1
    <2>4. CASE I # {}
      <3>1. m \in DOMAIN names /\ names[m].type = "plain"
        BY <1>3, <1>4, <1>7, <2>4
      <3> QED BY <1>5, <2>2, <3>1
    <2> QED BY <2>3, <2>4
  <1>8. CASE Trusted(cert) /\ I # {} /\ names[m].type # "plain"
    <2> DEFINE e == names[m].eui
    <2>1. m \in I /\ names[m] \in CertName /\ names[m].type # "other"
      BY <1>3, <1>4, <1>8
    <2>2. names[m].type = "eui64" /\ m \in own
      <3>1. names[m].type \in {"plain", "other", "eui64"}
        BY <2>1 DEF CertName
      <3> QED BY <1>3, <1>8, <2>1, <3>1
    <2>3. x = [eui64 |-> e, len |-> Len(e)]
      BY <1>4, <1>8, <2>1, <2>2, NameEui
    <2>4. Len(e) \in {6, 8}
      BY <2>1, <2>2 DEF CertName
    <2>5. x.eui64 = e /\ x.len = Len(e)
      BY <2>3
    <2> HIDE DEF own, I, e
    <2>6. eui64_from_eui48(e) = [Embedded(e) EXCEPT ![1] = SetGlobal(@)]
      BY DEF eui64_from_eui48, Embedded
    <2>7. set_link_layer64(old, lowpan, e, Len(e)) = IF Fits(e, lowpan) THEN Form(e, lowpan) ELSE old
      <3>1. CASE Len(e) = 6
        BY <2>6, <3>1 DEF set_link_layer64, Fits, Form
      <3>2. CASE Len(e) = 8
        BY <3>2 DEF set_link_layer64, Fits, Form
      <3> QED BY <2>4, <3>1, <3>2
    <2>8. new = IF Fits(e, lowpan) THEN Form(e, lowpan) ELSE old
      BY <1>1, <1>2, <1>8, <2>5, <2>7
    <2> HIDE DEF lowpan
    <2>9. new # old => \E i \in own : Fits(names[i].eui, lowpan) /\ new = Form(names[i].eui, lowpan)
      BY <2>2, <2>8 DEF e
    <2>10. ASSUME NEW i \in own, own = {i}, Fits(names[i].eui, lowpan) PROVE new = Form(names[i].eui, lowpan)
      <3>1. i = m
        BY <2>2, <2>10
      <3> QED BY <2>8, <2>10, <3>1 DEF e
    <2> QED BY <1>5, <1>8, <2>9, <2>10
  <1> QED BY <1>6, <1>7, <1>8

(* The names and the areas that the run chooses. *)
LEMMA NameIs == Name \subseteq CertName
  <1>1. /\ Eui6 \in Seq(Byte256) /\ Len(Eui6) = 6
        /\ Eui8 \in Seq(Byte256) /\ Len(Eui8) = 8 /\ Eui8[3] # Sep
    BY DEF Eui6, Eui8, Byte256, Sep
  <1>2. ASSUME NEW e \in {Eui6, Eui8}
        PROVE  [type |-> "eui64", eui |-> e, text |-> fmt_eui(64, e).text] \in CertName
    <2> DEFINE w == fmt_eui(64, e)
               n == Len(e)
               pairs == [i \in 1..n |-> Digits(e[i])]
    <2>1. e \in Seq(Byte256) /\ n \in {6, 8} /\ 64 > 3 * n /\ 64 \in Int /\ n = Len(e)
      <3>1. e \in Seq(Byte256) /\ n \in {6, 8}
        BY <1>1
      <3> HIDE DEF n
      <3>2. 64 > 3 * n /\ 64 \in Int
        BY <3>1
      <3> QED BY <3>1, <3>2 DEF n
    <2>2. Written(w, n, 64, Joined(pairs, Sep))
      <3> HIDE DEF n
      <3>1. (w.ok => Written(w, n, 64, Joined(pairs, Sep))) /\ (64 > 3 * n => w.ok)
        BY <2>1, FmtText
      <3> QED BY <2>1, <3>1
    <2>3. w.text \in Seq(Character)
      BY <2>2 DEF Written
    <2>4. w.text \in Seq(Symbol)
      <3>1. Character \subseteq Symbol
        BY DEF Character, Symbol
      <3> QED BY <2>3, <3>1, SeqMono
    <2> DEFINE r == [type |-> "eui64", eui |-> e, text |-> w.text]
    <2> HIDE DEF w
    <2>5. r.type = "eui64" /\ r.eui = e /\ r.text = w.text
      OBVIOUS
    <2>6. r \in [type : {"plain", "other", "eui64"}, eui : Seq(Byte256), text : Seq(Symbol)]
      BY <2>1, <2>4
    <2> HIDE DEF r
    <2>7. Len(r.eui) \in {6, 8} /\ r.text = fmt_eui(64, r.eui).text
      BY <2>1, <2>5 DEF w
    <2>8. r \in CertName
      BY <2>6, <2>7 DEF CertName
    <2> QED BY <2>8 DEF r, w
  <1>3. [type |-> "eui64", eui |-> Eui8, text |-> Eui8] \in CertName
    <2> DEFINE r == [type |-> "eui64", eui |-> Eui8, text |-> Eui8]
    <2>1. Eui8 \in Seq(Symbol)
      <3>1. Byte256 \subseteq Symbol
        BY DEF Byte256, Symbol
      <3> QED BY <1>1, <3>1, SeqMono
    <2>2. r.type = "eui64" /\ r.eui = Eui8 /\ r.text = Eui8
      OBVIOUS
    <2>3. r \in [type : {"plain", "other", "eui64"}, eui : Seq(Byte256), text : Seq(Symbol)]
      BY <1>1, <2>1
    <2> HIDE DEF r
    <2>4. r \in CertName
      BY <1>1, <2>2, <2>3 DEF CertName
    <2> QED BY <2>4 DEF r
  <1>4. ASSUME NEW t \in {"plain", "other"} PROVE [type |-> t, eui |-> <<>>, text |-> <<>>] \in CertName
    BY DEF CertName
  <1> SUFFICES ASSUME NEW n \in Name PROVE n \in CertName
    OBVIOUS
  <1>5. \/ \E t \in {"plain", "other"} : n = [type |-> t, eui |-> <<>>, text |-> <<>>]
        \/ \E e \in {Eui6, Eui8} : n = [type |-> "eui64", eui |-> e, text |-> fmt_eui(64, e).text]
        \/ n = [type |-> "eui64", eui |-> Eui8, text |-> Eui8]
    BY DEF Name
  <1> QED BY <1>2, <1>3, <1>4, <1>5

(* What the run checks of ACP names and of peck is an instance. *)
THEOREM IdentityCorrect == Spec => []IdentityOfCertificate
  <1>1. Init => AcpNameParsed
    <2> SUFFICES ASSUME Init, kind = "acp",
                        NEW area \in {<<>>, <<PlusSign, 10, 10>>}, NEW domain \in {<< 5 >>, <<PlusSign, 0, 0>>}
                 PROVE  AcpAddress(input[1], input[2], area, domain)
      BY DEF AcpNameParsed
    <2>1. input \in {RFC8994, RFCSELF, 5} \X UpTo({0, 10, NoDigit, Blank, Minus}, 2 * AddrBytes + 1)
      BY DEF Init
    <2> DEFINE tag == input[1]
               d == input[2]
    <2>2. tag \in {RFC8994, RFCSELF, 5} /\ d \in UpTo({0, 10, NoDigit, Blank, Minus}, 2 * AddrBytes + 1)
      BY <2>1
    <2> HIDE DEF tag, d
    <2>3. tag \in Symbol \ {PlusSign, AtSign}
      BY <2>2 DEF RFC8994, RFCSELF, PlusSign, AtSign, Symbol
    <2>4. d \in Seq({0, 10, NoDigit, Blank, Minus})
      <3>1. 2 * AddrBytes + 1 \in Nat
        BY AcpAssumption
      <3> QED BY <2>2, <3>1, UpToSeq
    <2>5. d \in Seq(AcpDigit)
      <3>1. {0, 10, NoDigit, Blank, Minus} \subseteq AcpDigit
        BY DEF AcpDigit, Digit
      <3> QED BY <2>4, <3>1, SeqMono
    <2>6. PlusSign \in Symbol /\ 0 \in Symbol /\ 5 \in Symbol
      BY DEF Symbol, PlusSign
    <2>7. domain \in Seq(Symbol)
      <3>1. << 5 >> \in Seq(Symbol)
        BY DEF Symbol
      <3>2. <<PlusSign, 0, 0>> \in Seq(Symbol)
        BY DEF Symbol, PlusSign
      <3> QED BY <3>1, <3>2
    <2>8. area \in AcpArea
      <3>1. CASE area = <<>>
        BY <3>1 DEF AcpArea
      <3>2. CASE area = <<PlusSign, 10, 10>>
        <4>1. <<10, 10>> \in Seq(Symbol \ {AtSign})
          BY DEF Symbol, AtSign
        <4>2. <<PlusSign, 10, 10>> = <<PlusSign>> \o <<10, 10>>
          OBVIOUS
        <4> QED BY <3>2, <4>1, <4>2 DEF AcpArea
      <3> QED BY <3>1, <3>2
    <2>9. AcpAddress(tag, d, area, domain)
      BY <2>3, <2>5, <2>7, <2>8, EveryAcpNameParsed
    <2> QED BY <2>9 DEF tag, d
  <1>2. Init => IdentityVerified
    <2> SUFFICES ASSUME Init, kind = "certificate"
                 PROVE  TakesIdentity(input[1], input[2], <<2, 0, 0, 0, 0, 1>>)
      BY DEF IdentityVerified
    <2>1. input \in Tuples(BOOLEAN, 6) \X UpTo(Name, 2)
      BY DEF Init
    <2>2. input[1] \in [1..6 -> BOOLEAN] /\ input[2] \in UpTo(Name, 2)
      BY <2>1 DEF Tuples
    <2>3. input[2] \in Seq(Name)
      BY <2>2, UpToSeq
    <2>4. input[2] \in Seq(CertName)
      BY <2>3, NameIs, SeqMono
    <2> QED BY <2>2, <2>4, EveryIdentityVerified
  <1>3. Init => IdentityOfCertificate
    BY <1>1, <1>2 DEF IdentityOfCertificate
  <1> QED
    BY <1>3, InputStays, PTL

-----------------------------------------------------------------------------
(* Rows of the same length one after the other. *)
LEMMA RowsApart ==
    ASSUME NEW i \in Nat, NEW j \in Nat, NEW l \in Nat, i < j
    PROVE  i * l + l <= j * l
  <1> DEFINE d == j - i - 1
  <1>1. d \in Nat /\ j = i + 1 + d
    OBVIOUS
  <1> HIDE DEF d
  <1>2. d * l \in Nat /\ i * l \in Nat
    BY <1>1
  <1>3. (i + 1 + d) * l = i * l + l + d * l
    BY <1>1
  <1>4. i * l + l <= i * l + l + d * l
    BY ONLY <1>2, l \in Nat
  <1> QED BY ONLY <1>1, <1>3, <1>4

(* The rows of mIfWildcard and the bytes that they are. *)
RowAt(i) == i * DAG_IFWILDCARD_LEN
Memory == [0 .. RowAt(DAG_IFWILDCARD_MAX) -> Nat]

(* The rows of mIfWildcard are apart. *)
LEMMA RowFacts ==
    /\ \A i \in Nat : RowAt(i) \in Nat
    /\ \A i \in Nat, j \in Nat : i < j => RowAt(i) + DAG_IFWILDCARD_LEN <= RowAt(j)
  BY WildcardAssumption, RowsApart DEF RowAt

(* Wildcards with room in a row for two NULs. *)
Wild == {w \in Seq(Nat \ {NUL}) : Len(w) <= DAG_IFWILDCARD_LEN - 2}

(* The filters, with subnets of texts of any kind. *)
TextSubnet(t) == ttosubnet(t, AF_INET6, Address(0, <<>>), NoSubnet).dst
FilterState(U) ==
    [mIfWildcard : Memory, mIfWildcard_max : 0 .. DAG_IFWILDCARD_MAX, mIfFilter : Seq({TextSubnet(t) : t \in U})]

(* A row that has a wildcard. *)
RowHas(mem, i, w) ==
    /\ \A j \in 1..Len(w) : mem[RowAt(i) + (j - 1)] = w[j]
    /\ mem[RowAt(i) + Len(w)] = NUL

(* What the next wildcard writes, and what it leaves alone. *)
LEMMA WildWrites ==
    ASSUME NEW U, NEW x \in FilterState(U), NEW w \in Wild
    PROVE  LET y == set_interface_wildcard(x, w)
               m == x.mIfWildcard_max
           IN  /\ y \in FilterState(U) /\ y.mIfFilter = x.mIfFilter
               /\ m = DAG_IFWILDCARD_MAX => y = x
               /\ m < DAG_IFWILDCARD_MAX =>
                    /\ y.mIfWildcard_max = m + 1
                    /\ RowHas(y.mIfWildcard, m, w)
                    /\ \A k \in 0 .. RowAt(m) - 1 : y.mIfWildcard[k] = x.mIfWildcard[k]
  <1> DEFINE L == DAG_IFWILDCARD_LEN
             X == DAG_IFWILDCARD_MAX
             y == set_interface_wildcard(x, w)
             m == x.mIfWildcard_max
             mem == x.mIfWildcard
             text == Append(w, NUL)
             len == IF Len(text) > L - 1 THEN L ELSE Len(text)
             row == m * L
             new == [k \in DOMAIN mem |-> IF k = row + len THEN NUL
                                          ELSE IF k \in row .. row + len - 1 THEN text[k - row + 1] ELSE mem[k]]
  <1>0. X \in Nat /\ L \in Nat /\ L > 0
    BY WildcardAssumption
  <1>1. mem \in Memory /\ m \in 0..X
    BY DEF FilterState
  <1>2. w \in Seq(Nat \ {NUL}) /\ Len(w) < L /\ Len(w) \in Nat
    BY <1>0 DEF Wild
  <1>13. Len(w) <= L - 2
    BY DEF Wild
  <1>3. /\ text \in Seq(Nat) /\ Len(text) = Len(w) + 1
        /\ (\A j \in 1..Len(w) : text[j] = w[j]) /\ text[Len(w) + 1] = NUL
    <2>1. w \in Seq(Nat) /\ NUL \in Nat
      <3>1. Nat \ {NUL} \subseteq Nat
        OBVIOUS
      <3> QED BY <1>2, <3>1, SeqMono DEF NUL
    <2> QED BY <2>1
  <1> HIDE DEF text
  <1>4. len = Len(w) + 1
    BY <1>0, <1>2, <1>3, <1>13
  <1>5. row \in Nat /\ row = RowAt(m)
    BY <1>0, <1>1 DEF RowAt
  <1>6. ASSUME m = X PROVE y = x
    BY <1>0, <1>6 DEF set_interface_wildcard
  <1>7. ASSUME m < X
        PROVE  /\ y.mIfWildcard_max = m + 1 /\ y.mIfFilter = x.mIfFilter /\ y.mIfWildcard = new
               /\ y = [mIfWildcard |-> new, mIfWildcard_max |-> m + 1, mIfFilter |-> x.mIfFilter]
    <2>1. y = [x EXCEPT !.mIfWildcard_max = @ + 1,
                        !.mIfFilter = IF row + len = X * L THEN <<>> ELSE @,
                        !.mIfWildcard = new]
      <3> DEFINE z == [x EXCEPT !.mIfWildcard_max = @ + 1,
                                !.mIfFilter = IF row + len = X * L THEN <<>> ELSE @,
                                !.mIfWildcard = new]
      <3>1. y = IF m >= X THEN x ELSE z
        BY DEF set_interface_wildcard, text
      <3>2. ~(m >= X)
        BY <1>0, <1>1, <1>7
      <3> HIDE DEF y, z
      <3>3. y = z
        BY <3>1, <3>2
      <3> QED BY <3>3 DEF z
    <2>3. row + len # X * L
      <3> DEFINE b == X * L
      <3>1. m \in Nat /\ X \in Nat /\ m < X
        BY <1>0, <1>1, <1>7
      <3>2. RowAt(m) + L <= RowAt(X) /\ RowAt(X) = b /\ b \in Nat
        BY <1>0, <3>1, RowFacts DEF RowAt
      <3> HIDE DEF row, len, b, L
      <3>3. row + len # b
        <4> DEFINE l == Len(w)
                   a == RowAt(m)
        <4>1. l \in Nat /\ l <= L - 2 /\ L \in Nat /\ a \in Nat /\ a + L <= b /\ b \in Nat
              /\ row = a /\ len = l + 1
          BY <1>0, <1>2, <1>4, <1>5, <1>13, <3>2
        <4> HIDE DEF l, a
        <4> QED BY ONLY <4>1
      <3> QED BY <3>3 DEF b
    <2> HIDE DEF new, y, len, row
    <2>2. x = [mIfWildcard |-> mem, mIfWildcard_max |-> m, mIfFilter |-> x.mIfFilter]
      BY DEF FilterState
    <2> QED BY <1>1, <2>1, <2>2, <2>3
  <1> HIDE DEF row, len
  <1>8. DOMAIN mem = 0..RowAt(X) /\ \A k \in 0..RowAt(X) : mem[k] \in Nat
    BY <1>1 DEF Memory
  <1>9. new \in Memory
    <2> SUFFICES ASSUME NEW k \in 0..RowAt(X)
                 PROVE  (IF k = row + len THEN NUL
                         ELSE IF k \in row .. row + len - 1 THEN text[k - row + 1] ELSE mem[k]) \in Nat
      BY <1>8 DEF Memory
    <2>1. CASE k \in row .. row + len - 1
      <3>1. k - row + 1 \in 1..Len(text)
        <4> DEFINE l == Len(w)
        <4>1. l \in Nat /\ len = l + 1 /\ Len(text) = l + 1 /\ row \in Nat /\ k \in row .. row + len - 1
          BY <1>2, <1>3, <1>4, <1>5, <2>1
        <4> HIDE DEF l
        <4> QED BY ONLY <4>1
      <3>2. text[k - row + 1] \in Nat
        BY <1>3, <3>1
      <3>3. NUL \in Nat
        BY DEF NUL
      <3> QED BY <2>1, <3>2, <3>3
    <2>2. CASE k \notin row .. row + len - 1
      BY <1>8, <2>2 DEF NUL
    <2> QED BY <2>1, <2>2
  <1>10. y \in FilterState(U)
    <2>1. CASE m = X
      BY <1>6, <2>1
    <2>2. CASE m < X
      <3>1. m + 1 \in 0..X
        BY <1>0, <1>1, <2>2
      <3> HIDE DEF new
      <3>2. x.mIfFilter \in Seq({TextSubnet(t) : t \in U})
        BY DEF FilterState
      <3> QED BY <1>7, <1>9, <2>2, <3>1, <3>2 DEF FilterState
    <2> QED BY <1>0, <1>1, <2>1, <2>2
  <1>11. ASSUME m < X PROVE RowHas(new, m, w) /\ \A k \in 0 .. RowAt(m) - 1 : new[k] = mem[k]
    <2>1. RowAt(m) + L <= RowAt(X) /\ RowAt(m) \in Nat /\ RowAt(X) \in Nat
      <3>1. m \in Nat /\ X \in Nat /\ m < X
        BY <1>0, <1>1, <1>11
      <3> QED BY <3>1, RowFacts
    <2>2. ASSUME NEW j \in 1..(Len(w) + 1) PROVE new[RowAt(m) + (j - 1)] = text[j]
      <3> DEFINE k == RowAt(m) + (j - 1)
      <3>1. k \in 0..RowAt(X) /\ k # row + len /\ k \in row .. row + len - 1 /\ k - row + 1 = j
        <4> DEFINE l == Len(w)
                   a == RowAt(m)
        <4>1. l \in Nat /\ l < L /\ len = l + 1 /\ row = a /\ a \in Nat /\ a + L <= RowAt(X) /\ RowAt(X) \in Nat
              /\ L \in Nat /\ j \in 1..(l + 1)
          BY <1>0, <1>2, <1>4, <1>5, <2>1
        <4> HIDE DEF l, a, L
        <4>2. a + (j - 1) \in 0..RowAt(X) /\ a + (j - 1) # a + (l + 1)
          BY ONLY <4>1
        <4>3. a + (j - 1) \in a .. a + (l + 1) - 1 /\ a + (j - 1) - a + 1 = j
          BY ONLY <4>1
        <4> QED BY ONLY <4>1, <4>2, <4>3 DEF k, a
      <3> HIDE DEF k
      <3>2. new[k] = text[j]
        BY <1>8, <3>1
      <3> QED BY <3>2 DEF k
    <2>3. \A j \in 1..Len(w) : new[RowAt(m) + (j - 1)] = w[j]
      BY <1>2, <1>3, <2>2
    <2>4. new[RowAt(m) + Len(w)] = NUL
      <3>1. Len(w) + 1 \in 1..(Len(w) + 1) /\ Len(w) + 1 - 1 = Len(w)
        BY <1>2
      <3> HIDE DEF new
      <3> QED BY <1>3, <2>2, <3>1
    <2>5. ASSUME NEW k \in 0 .. RowAt(m) - 1 PROVE new[k] = mem[k]
      <3>1. k \in 0..RowAt(X) /\ k # row + len /\ k \notin row .. row + len - 1
        <4> DEFINE l == Len(w)
                   a == RowAt(m)
        <4>1. l \in Nat /\ len = l + 1 /\ row = a /\ a \in Nat /\ a <= RowAt(X) /\ RowAt(X) \in Nat
              /\ k \in 0..(a - 1)
          BY <1>0, <1>2, <1>4, <1>5, <2>1
        <4> HIDE DEF l, a
        <4> QED BY ONLY <4>1
      <3> QED BY <1>8, <3>1
    <2> HIDE DEF new
    <2> QED BY <2>3, <2>4, <2>5 DEF RowHas
  <1>12. m = X \/ m < X
    BY <1>0, <1>1
  <1> HIDE DEF new, y, m, X, mem
  <1>14. y.mIfFilter = x.mIfFilter
    BY <1>6, <1>7, <1>12
  <1> QED BY <1>6, <1>7, <1>10, <1>11, <1>14 DEF y, m, X, mem

(* The rows before one that is written. *)
LEMMA RowKept ==
    ASSUME NEW mem, NEW new, NEW i \in Nat, NEW m \in Nat, i < m, NEW w \in Wild, RowHas(mem, i, w),
           \A k \in 0 .. RowAt(m) - 1 : new[k] = mem[k]
    PROVE  RowHas(new, i, w)
  <1> DEFINE l == Len(w)
             a == RowAt(i)
  <1>1. l \in Nat /\ l < DAG_IFWILDCARD_LEN /\ a \in Nat /\ RowAt(m) \in Nat /\ a + DAG_IFWILDCARD_LEN <= RowAt(m)
    <2>1. l \in Nat /\ l < DAG_IFWILDCARD_LEN
      BY WildcardAssumption DEF Wild
    <2>2. a \in Nat /\ RowAt(m) \in Nat /\ a + DAG_IFWILDCARD_LEN <= RowAt(m)
      BY RowFacts
    <2> QED BY <2>1, <2>2
  <1>2. \A j \in 0..l : a + j \in 0 .. RowAt(m) - 1
    BY <1>1, WildcardAssumption
  <1>3. (\A j \in 1..l : mem[a + (j - 1)] = w[j]) /\ mem[a + l] = NUL
    BY DEF RowHas
  <1> HIDE DEF a, l
  <1>4. ASSUME NEW j \in 1..l PROVE new[a + (j - 1)] = w[j]
    <2>1. j - 1 \in 0..l
      BY <1>1
    <2>2. new[a + (j - 1)] = mem[a + (j - 1)]
      BY <1>2, <2>1
    <2> QED BY <1>3, <2>2
  <1>5. new[a + l] = NUL
    <2>1. l \in 0..l
      BY <1>1
    <2> QED BY <1>2, <1>3, <2>1
  <1> QED BY <1>4, <1>5 DEF RowHas, a, l

(* What is read of a row is its wildcard. *)
LEMMA RowRead ==
    ASSUME NEW mem \in Memory, NEW i \in Nat, i < DAG_IFWILDCARD_MAX, NEW w \in Wild, RowHas(mem, i, w)
    PROVE  CString(mem, RowAt(i)) = w
  <1> DEFINE l == Len(w)
             a == RowAt(i)
             IsEnd(e) == e >= a /\ mem[e] = NUL /\ \A k \in a .. e - 1 : mem[k] # NUL
             end == CHOOSE e \in DOMAIN mem : IsEnd(e)
  <1>0. DAG_IFWILDCARD_MAX \in Nat /\ DAG_IFWILDCARD_LEN \in Nat
    BY WildcardAssumption
  <1>1. /\ l \in Nat /\ l < DAG_IFWILDCARD_LEN /\ a \in Nat /\ RowAt(DAG_IFWILDCARD_MAX) \in Nat
        /\ a + DAG_IFWILDCARD_LEN <= RowAt(DAG_IFWILDCARD_MAX)
    <2>1. l \in Nat /\ l < DAG_IFWILDCARD_LEN
      BY WildcardAssumption DEF Wild
    <2>2. /\ a \in Nat /\ RowAt(DAG_IFWILDCARD_MAX) \in Nat
          /\ a + DAG_IFWILDCARD_LEN <= RowAt(DAG_IFWILDCARD_MAX)
      BY <1>0, RowFacts
    <2> QED BY <2>1, <2>2
  <1>2. DOMAIN mem = 0..RowAt(DAG_IFWILDCARD_MAX)
    BY DEF Memory
  <1>3. (\A j \in 1..l : mem[a + (j - 1)] = w[j]) /\ mem[a + l] = NUL
    BY DEF RowHas
  <1>4. w \in Seq(Nat \ {NUL})
    BY DEF Wild
  <1>5. \A j \in 1..l : w[j] # NUL
    BY <1>4
  <1>6. CString(mem, a) = [k \in 1 .. end - a |-> mem[a + k - 1]]
    BY DEF CString
  <1> HIDE DEF a
  <1>7. \A k \in a .. a + l - 1 : mem[k] # NUL
    <2> SUFFICES ASSUME NEW k \in a .. a + l - 1 PROVE mem[k] # NUL
      OBVIOUS
    <2> DEFINE j == k - a + 1
    <2>1. j \in 1..l /\ k = a + (j - 1)
      BY <1>1
    <2> HIDE DEF j, l
    <2>2. mem[a + (j - 1)] = w[j] /\ w[j] # NUL
      BY <1>3, <1>5, <2>1
    <2> QED BY <2>1, <2>2
  <1> HIDE DEF l
  <1>8. a + l \in DOMAIN mem /\ IsEnd(a + l)
    <2>1. a + l \in 0..RowAt(DAG_IFWILDCARD_MAX) /\ a + l >= a
      BY <1>0, <1>1
    <2>2. a + l \in DOMAIN mem
      BY <1>2, <2>1
    <2>3. IsEnd(a + l)
      <3>1. mem[a + l] = NUL
        BY <1>3
      <3> DEFINE z == a + l
      <3>2. z >= a /\ mem[z] = NUL /\ \A k \in a .. z - 1 : mem[k] # NUL
        <4>1. z >= a
          BY <2>1
        <4>2. mem[z] = NUL
          BY <3>1
        <4>3. \A k \in a .. z - 1 : mem[k] # NUL
          <5>1. a \in Nat /\ l \in Nat
            BY <1>1
          <5> QED BY ONLY <1>7, <5>1
        <4> QED BY <4>1, <4>2, <4>3
      <3> HIDE DEF z
      <3>3. IsEnd(z)
        BY <3>2
      <3> QED BY <3>3 DEF z
    <2> QED BY <2>2, <2>3
  <1>9. ASSUME NEW e \in DOMAIN mem, IsEnd(e) PROVE e = a + l
    <2>1. e \in Int /\ e >= a
      BY <1>2, <1>9
    <2>2. ~(e < a + l)
      <3> SUFFICES ASSUME e < a + l PROVE FALSE
        OBVIOUS
      <3>1. e \in a .. a + l - 1
        BY <1>1, <2>1
      <3> QED BY <1>7, <1>9, <3>1
    <2>3. ~(a + l < e)
      <3> SUFFICES ASSUME a + l < e PROVE FALSE
        OBVIOUS
      <3>1. a + l \in a .. e - 1
        BY <1>1, <2>1
      <3> QED BY <1>3, <1>9, <3>1
    <2> QED BY <1>1, <2>1, <2>2, <2>3
  <1>10. end = a + l
    <2> HIDE DEF IsEnd
    <2> QED BY <1>8, <1>9
  <1> HIDE DEF end
  <1>11. CString(mem, a) = [k \in 1..l |-> w[k]]
    <2>1. end - a = l
      BY <1>1, <1>10
    <2>2. \A k \in 1..l : a + k - 1 = a + (k - 1)
      BY <1>1
    <2>3. \A k \in 1..l : mem[a + k - 1] = w[k]
      BY <1>3, <2>2
    <2> QED BY <1>6, <2>1, <2>3
  <1>12. w = [k \in 1..l |-> w[k]]
    BY <1>4 DEF l
  <1> QED BY <1>11, <1>12 DEF a

(* As many as there is room for. *)
AtMost(n) == IF n <= DAG_IFWILDCARD_MAX THEN n ELSE DAG_IFWILDCARD_MAX

(* The wildcards that are in the rows. *)
RowsHave(x, U, wilds, k) ==
    /\ x \in FilterState(U) /\ x.mIfWildcard_max = AtMost(k)
    /\ \A i \in 1..AtMost(k) : RowHas(x.mIfWildcard, i - 1, wilds[i])

(* One more wildcard. *)
LEMMA RowsNext ==
    ASSUME NEW U, NEW wilds \in Seq(Wild), NEW k \in 1..Len(wilds), NEW x, RowsHave(x, U, wilds, k - 1)
    PROVE  /\ RowsHave(set_interface_wildcard(x, wilds[k]), U, wilds, k)
           /\ set_interface_wildcard(x, wilds[k]).mIfFilter = x.mIfFilter
  <1> DEFINE y == set_interface_wildcard(x, wilds[k])
             m == x.mIfWildcard_max
             X == DAG_IFWILDCARD_MAX
             w == wilds[k]
  <1>0. X \in Nat /\ k \in Nat /\ k >= 1 /\ w \in Wild
    BY WildcardAssumption
  <1>1. x \in FilterState(U) /\ m = AtMost(k - 1) /\ \A i \in 1..m : RowHas(x.mIfWildcard, i - 1, wilds[i])
    BY DEF RowsHave
  <1>2. /\ y \in FilterState(U) /\ y.mIfFilter = x.mIfFilter
        /\ m = X => y = x
        /\ m < X => /\ y.mIfWildcard_max = m + 1
                    /\ RowHas(y.mIfWildcard, m, w)
                    /\ \A j \in 0 .. RowAt(m) - 1 : y.mIfWildcard[j] = x.mIfWildcard[j]
    BY <1>0, <1>1, WildWrites
  <1> HIDE DEF y, m, X
  <1>3. CASE k - 1 >= X
    <2>1. m = X /\ AtMost(k) = X
      BY <1>0, <1>1, <1>3 DEF AtMost, X
    <2>2. y = x
      BY <1>2, <2>1
    <2> QED BY <1>1, <1>2, <2>1, <2>2 DEF RowsHave, y, m
  <1>4. CASE k - 1 < X
    <2>1. m = k - 1 /\ m < X /\ AtMost(k) = k /\ m \in Nat
      BY <1>0, <1>1, <1>4 DEF AtMost, X
    <2>2. y.mIfWildcard_max = k
      BY <1>0, <1>2, <2>1
    <2>3. ASSUME NEW i \in 1..k PROVE RowHas(y.mIfWildcard, i - 1, wilds[i])
      <3>1. CASE i = k
        BY <1>2, <2>1, <3>1
      <3>2. CASE i # k
        <4> DEFINE a == x.mIfWildcard
                   b == y.mIfWildcard
                   v == wilds[i]
        <4>1. i - 1 \in Nat /\ i - 1 < m /\ i \in 1..m /\ v \in Wild
          BY <1>0, <2>1, <3>2
        <4>2. RowHas(a, i - 1, v) /\ \A j \in 0 .. RowAt(m) - 1 : b[j] = a[j]
          BY <1>1, <1>2, <2>1, <4>1
        <4> HIDE DEF a, b, v
        <4>3. RowHas(b, i - 1, v)
          BY <2>1, <4>1, <4>2, RowKept
        <4> QED BY <4>3 DEF b, v
      <3> QED BY <3>1, <3>2
    <2> QED BY <1>2, <2>1, <2>2, <2>3 DEF RowsHave, y
  <1> QED BY <1>0, <1>3, <1>4

(* One option -a. *)
SubnetStep(x, t) == set_interface_filter(x, t, NoSubnet)

(* set_interface_filter appends a subnet, if there is room. *)
LEMMA SubnetWrites ==
    ASSUME NEW U, NEW x \in FilterState(U), NEW t \in U
    PROVE  /\ SubnetStep(x, t) \in FilterState(U)
           /\ SubnetStep(x, t) = IF Len(x.mIfFilter) >= DAG_IFWILDCARD_MAX THEN x
                                 ELSE [x EXCEPT !.mIfFilter = Append(@, TextSubnet(t))]
  <1> DEFINE y == [x EXCEPT !.mIfFilter = Append(@, TextSubnet(t))]
  <1>1. SubnetStep(x, t) = IF Len(x.mIfFilter) >= DAG_IFWILDCARD_MAX THEN x ELSE y
    BY DEF SubnetStep, set_interface_filter, TextSubnet
  <1>2. y \in FilterState(U)
    <2> DEFINE V == {TextSubnet(u) : u \in U}
    <2>1. x.mIfFilter \in Seq(V) /\ TextSubnet(t) \in V
      BY DEF FilterState
    <2> HIDE DEF V
    <2>2. Append(x.mIfFilter, TextSubnet(t)) \in Seq(V)
      BY <2>1
    <2> QED BY <2>2 DEF FilterState, V
  <1> HIDE DEF y
  <1>3. SubnetStep(x, t) \in FilterState(U)
    BY <1>1, <1>2
  <1> QED BY <1>1, <1>3 DEF y

(* The subnets that were set; the wildcards stay. *)
SubnetsHave(x, base, U, texts, k) ==
    /\ x \in FilterState(U)
    /\ x.mIfWildcard = base.mIfWildcard /\ x.mIfWildcard_max = base.mIfWildcard_max
    /\ Len(x.mIfFilter) = AtMost(k)
    /\ \A i \in 1..AtMost(k) : x.mIfFilter[i] = TextSubnet(texts[i])

(* One more subnet. *)
LEMMA SubnetsNext ==
    ASSUME NEW U, NEW texts \in Seq(U), NEW base, NEW k \in 1..Len(texts), NEW x,
           SubnetsHave(x, base, U, texts, k - 1)
    PROVE  SubnetsHave(SubnetStep(x, texts[k]), base, U, texts, k)
  <1> DEFINE y == SubnetStep(x, texts[k])
             X == DAG_IFWILDCARD_MAX
             s == x.mIfFilter
             t == texts[k]
  <1>0. X \in Nat /\ k \in Nat /\ k >= 1 /\ t \in U
    BY WildcardAssumption
  <1>1. /\ x \in FilterState(U) /\ x.mIfWildcard = base.mIfWildcard /\ x.mIfWildcard_max = base.mIfWildcard_max
        /\ Len(s) = AtMost(k - 1) /\ \A i \in 1..AtMost(k - 1) : s[i] = TextSubnet(texts[i])
    BY DEF SubnetsHave
  <1>2. y \in FilterState(U) /\ y = IF Len(s) >= X THEN x ELSE [x EXCEPT !.mIfFilter = Append(@, TextSubnet(t))]
    <2>1. x \in FilterState(U) /\ t \in U
      BY <1>0, <1>1
    <2> HIDE DEF t
    <2>2. SubnetStep(x, t) \in FilterState(U)
          /\ SubnetStep(x, t) = IF Len(x.mIfFilter) >= DAG_IFWILDCARD_MAX THEN x
                                ELSE [x EXCEPT !.mIfFilter = Append(@, TextSubnet(t))]
      BY ONLY <2>1, SubnetWrites
    <2> QED BY <2>2 DEF t
  <1> HIDE DEF y, X, t
  <1>3. CASE k - 1 >= X
    <2>1. AtMost(k - 1) = X /\ AtMost(k) = X
      BY <1>0, <1>3 DEF AtMost, X
    <2>2. y = x
      BY <1>0, <1>1, <1>2, <2>1
    <2> QED BY <1>1, <2>1, <2>2 DEF SubnetsHave, y, t
  <1>4. CASE k - 1 < X
    <2> DEFINE z == Append(s, TextSubnet(t))
               V == {TextSubnet(u) : u \in U}
    <2>1. AtMost(k - 1) = k - 1 /\ AtMost(k) = k /\ ~(k - 1 >= X)
      BY <1>0, <1>4 DEF AtMost, X
    <2>2. y = [x EXCEPT !.mIfFilter = z]
      BY <1>1, <1>2, <2>1
    <2>3. s \in Seq(V)
      BY <1>1 DEF FilterState
    <2> HIDE DEF V, s
    <2>4. Len(s) = k - 1 /\ \A i \in 1..(k - 1) : s[i] = TextSubnet(texts[i])
      BY <1>1, <2>1
    <2>5. Len(z) = k /\ \A i \in 1..k : z[i] = TextSubnet(texts[i])
      <3>1. Len(z) = k /\ z[k] = TextSubnet(t) /\ \A i \in 1..(k - 1) : z[i] = s[i]
        BY <1>0, <2>3, <2>4
      <3> HIDE DEF z
      <3>2. ASSUME NEW i \in 1..k PROVE z[i] = TextSubnet(texts[i])
        <4>1. CASE i = k
          BY <3>1, <4>1 DEF t
        <4>2. CASE i # k
          <5>1. i \in 1..(k - 1)
            BY <1>0, <4>2
          <5> QED BY <2>4, <3>1, <5>1
        <4> QED BY <4>1, <4>2
      <3> QED BY <3>1, <3>2
    <2> HIDE DEF z
    <2>6. y.mIfFilter = z /\ y.mIfWildcard = x.mIfWildcard /\ y.mIfWildcard_max = x.mIfWildcard_max
      BY <1>1, <2>2 DEF FilterState
    <2>7. SubnetsHave(y, base, U, texts, k)
      BY <1>1, <1>2, <2>1, <2>5, <2>6 DEF SubnetsHave
    <2> QED BY <2>7 DEF y, t
  <1> QED BY <1>0, <1>3, <1>4

(* An option of either kind, and what one option does. *)
Opt(U) == [opt : {"A"}, arg : Wild] \cup [opt : {"a"}, arg : U]
OptStep(x, o) == FilterOption(x, o, NoSubnet)
OptFn(U) == [x \in FilterState(U) |-> [o \in Opt(U) |-> OptStep(x, o)]]
ArgStep(s, o, c) == IF o.opt = c THEN Append(s, o.arg) ELSE s
ArgFn(S, M, c) == [s \in Seq(S) |-> [o \in M |-> ArgStep(s, o, c)]]

(* The filters have all wildcards and all subnets for which there was room. *)
Have(x, U, ws, ts) ==
    /\ ws \in Seq(Wild) /\ ts \in Seq(U)
    /\ RowsHave(x, U, ws, Len(ws))
    /\ SubnetsHave(x, x, U, ts, Len(ts))

(* One more wildcard: the subnets stay. *)
LEMMA WildNext ==
    ASSUME NEW U, NEW x, NEW ws, NEW ts, Have(x, U, ws, ts), NEW w \in Wild
    PROVE  Have(set_interface_wildcard(x, w), U, Append(ws, w), ts)
  <1> DEFINE y == set_interface_wildcard(x, w)
             wilds == Append(ws, w)
             k == Len(ws) + 1
  <1>1. ws \in Seq(Wild) /\ ts \in Seq(U) /\ RowsHave(x, U, ws, Len(ws)) /\ SubnetsHave(x, x, U, ts, Len(ts))
    BY DEF Have
  <1>2. /\ wilds \in Seq(Wild) /\ Len(wilds) = k /\ wilds[k] = w /\ k \in 1..Len(wilds)
        /\ k - 1 = Len(ws) /\ \A i \in 1..Len(ws) : wilds[i] = ws[i]
    BY <1>1
  <1> HIDE DEF wilds
  <1>3. RowsHave(x, U, wilds, k - 1)
    <2>1. AtMost(Len(ws)) <= Len(ws) /\ AtMost(Len(ws)) \in Nat /\ Len(ws) \in Nat
      BY <1>1, WildcardAssumption DEF AtMost
    <2>2. \A i \in 1..AtMost(Len(ws)) : i \in 1..Len(ws)
      BY <2>1
    <2> QED BY <1>1, <1>2, <2>2 DEF RowsHave
  <1> HIDE DEF k
  <1>4. RowsHave(y, U, wilds, k) /\ y.mIfFilter = x.mIfFilter
    <2>1. /\ RowsHave(set_interface_wildcard(x, wilds[k]), U, wilds, k)
          /\ set_interface_wildcard(x, wilds[k]).mIfFilter = x.mIfFilter
      BY <1>2, <1>3, RowsNext
    <2> QED BY <1>2, <2>1
  <1> HIDE DEF y
  <1>5. SubnetsHave(y, y, U, ts, Len(ts))
    BY <1>1, <1>4 DEF SubnetsHave, RowsHave
  <1> QED BY <1>1, <1>2, <1>4, <1>5 DEF Have, y, wilds

(* One more subnet: the wildcards stay. *)
LEMMA SubnetNext ==
    ASSUME NEW U, NEW x, NEW ws, NEW ts, Have(x, U, ws, ts), NEW t \in U
    PROVE  Have(SubnetStep(x, t), U, ws, Append(ts, t))
  <1> DEFINE y == SubnetStep(x, t)
             texts == Append(ts, t)
             k == Len(ts) + 1
  <1>1. ws \in Seq(Wild) /\ ts \in Seq(U) /\ RowsHave(x, U, ws, Len(ws)) /\ SubnetsHave(x, x, U, ts, Len(ts))
    BY DEF Have
  <1>2. /\ texts \in Seq(U) /\ Len(texts) = k /\ texts[k] = t /\ k \in 1..Len(texts)
        /\ k - 1 = Len(ts) /\ \A i \in 1..Len(ts) : texts[i] = ts[i]
    BY <1>1
  <1> HIDE DEF texts
  <1>3. SubnetsHave(x, x, U, texts, k - 1)
    <2>1. AtMost(Len(ts)) <= Len(ts) /\ AtMost(Len(ts)) \in Nat /\ Len(ts) \in Nat
      BY <1>1, WildcardAssumption DEF AtMost
    <2>2. \A i \in 1..AtMost(Len(ts)) : i \in 1..Len(ts)
      BY <2>1
    <2> QED BY <1>1, <1>2, <2>2 DEF SubnetsHave
  <1> HIDE DEF k
  <1>4. SubnetsHave(y, x, U, texts, k)
    <2>1. SubnetsHave(SubnetStep(x, texts[k]), x, U, texts, k)
      BY <1>2, <1>3, SubnetsNext
    <2> QED BY <1>2, <2>1
  <1> HIDE DEF y
  <1>5. SubnetsHave(y, y, U, texts, k) /\ RowsHave(y, U, ws, Len(ws))
    BY <1>1, <1>4 DEF SubnetsHave, RowsHave
  <1> QED BY <1>1, <1>2, <1>5 DEF Have, y, texts

(* What an option is, and that one option keeps the type of the filters. *)
LEMMA OptFacts ==
    ASSUME NEW U, NEW x \in FilterState(U), NEW o \in Opt(U)
    PROVE  /\ OptStep(x, o) \in FilterState(U)
           /\ o.opt = "A" => o.arg \in Wild /\ OptStep(x, o) = set_interface_wildcard(x, o.arg)
           /\ o.opt # "A" => o.opt = "a" /\ o.arg \in U /\ OptStep(x, o) = SubnetStep(x, o.arg)
  <1>1. CASE o.opt = "A"
    <2>1. o.arg \in Wild
      BY <1>1 DEF Opt
    <2>2. OptStep(x, o) = set_interface_wildcard(x, o.arg)
      BY <1>1 DEF OptStep, FilterOption
    <2>3. set_interface_wildcard(x, o.arg) \in FilterState(U)
      BY <2>1, WildWrites
    <2> QED BY <1>1, <2>1, <2>2, <2>3
  <1>2. CASE o.opt # "A"
    <2>1. o.opt = "a" /\ o.arg \in U
      BY <1>2 DEF Opt
    <2>2. OptStep(x, o) = SubnetStep(x, o.arg)
      BY <1>2 DEF OptStep, FilterOption, SubnetStep
    <2>3. SubnetStep(x, o.arg) \in FilterState(U)
      BY <2>1, SubnetWrites
    <2> QED BY <1>2, <2>1, <2>2, <2>3
  <1> QED BY <1>1, <1>2

(* No filters. *)
LEMMA NoneIs == ASSUME NEW U PROVE NoFilters(<<>>) \in FilterState(U) /\ Have(NoFilters(<<>>), U, <<>>, <<>>)
  <1> DEFINE none == NoFilters(<<>>)
  <1>1. none \in FilterState(U) /\ none.mIfWildcard_max = 0 /\ none.mIfFilter = <<>>
    <2>1. 0 \in 0..DAG_IFWILDCARD_MAX
      BY WildcardAssumption
    <2>2. [k \in 0 .. DAG_IFWILDCARD_MAX * DAG_IFWILDCARD_LEN |-> NUL] \in Memory
      BY DEF Memory, RowAt, NUL
    <2>3. <<>> \in Seq({TextSubnet(t) : t \in U})
      OBVIOUS
    <2> QED BY <2>1, <2>2, <2>3 DEF NoFilters, FilterState
  <1> HIDE DEF none
  <1>2. Len(<<>>) = 0 /\ AtMost(0) = 0 /\ <<>> \in Seq(Wild) /\ <<>> \in Seq(U)
    BY WildcardAssumption DEF AtMost
  <1>3. RowsHave(none, U, <<>>, Len(<<>>)) /\ SubnetsHave(none, none, U, <<>>, Len(<<>>))
    BY <1>1, <1>2 DEF RowsHave, SubnetsHave
  <1> QED BY <1>1, <1>2, <1>3 DEF Have, none

(* The options are taken one after the other. *)
LEMMA OptFold ==
    ASSUME NEW U, NEW opts \in Seq(Opt(U))
    PROVE  Ends(Filters(opts), FilterState(U), OptFn(U), NoFilters(<<>>), opts)
  <1> DEFINE n == Len(opts)
             T == FilterState(U)
             M == Opt(U)
             step == OptFn(U)
             base == NoFilters(<<>>)
             Eq(f) == f = [s \in SUBSET (1..n) |->
                              IF s = {} THEN base ELSE OptStep(f[s \ {Max(s)}], opts[Max(s)])]
             g == CHOOSE f : Eq(f)
             r == RunOf(g, n)
  <1>1. n \in Nat /\ opts \in [1..n -> M] /\ DOMAIN opts = 1..n /\ base \in T
    BY NoneIs
  <1>2. Filters(opts) = g[1..n]
    BY <1>1 DEF Filters, OptStep, FoldLeft, MapThenFoldSet
  <1>3. step \in [T -> [M -> T]] /\ \A x \in T, e \in M : OptStep(x, e) = step[x][e]
    BY OptFacts DEF OptFn
  <1>4. \A s \in SUBSET (1..n) : s # {} => opts[Max(s)] \in M
    BY <1>1, MaxIn
  <1> HIDE DEF step, n, T, M, base
  <1>5. Eq(g)
    <2>1. PICK f : IsTable(f, T, step, base, n, opts)
      BY <1>1, <1>3, FoldTable
    <2>2. Eq(f)
      BY <1>3, <1>4, <2>1, Zenon DEF IsTable
    <2> HIDE DEF Eq
    <2> QED BY <2>2
  <1>6. IsRun(r, T, step, base, n, opts)
    <2>1. \A s \in SUBSET (1..n) :
            g[s] = IF s = {} THEN base ELSE OptStep(g[s \ {Max(s)}], opts[Max(s)])
      BY <1>5
    <2>2. Follows(g, T, step, base, n, opts)
      BY <1>3, <1>4, <2>1 DEF Follows
    <2> HIDE DEF g
    <2> QED BY <1>1, <1>3, <2>2, TableRun
  <1>7. g[1..n] = r[n]
    BY <1>1 DEF RunOf
  <1> HIDE DEF r
  <1> QED
    BY <1>2, <1>6, <1>7 DEF Ends, n, T, step, base

(* The arguments of one kind are collected one after the other. *)
LEMMA ArgFold ==
    ASSUME NEW S, NEW M, NEW c, \A o \in M : o.opt = c => o.arg \in S, NEW opts \in Seq(M)
    PROVE  Ends(Arguments(opts, c), Seq(S), ArgFn(S, M, c), <<>>, opts)
  <1> DEFINE n == Len(opts)
             T == Seq(S)
             step == ArgFn(S, M, c)
             base == <<>>
             Eq(f) == f = [s \in SUBSET (1..n) |->
                              IF s = {} THEN base ELSE ArgStep(f[s \ {Max(s)}], opts[Max(s)], c)]
             g == CHOOSE f : Eq(f)
             r == RunOf(g, n)
  <1>1. n \in Nat /\ opts \in [1..n -> M] /\ DOMAIN opts = 1..n /\ base \in T
    OBVIOUS
  <1>2. Arguments(opts, c) = g[1..n]
    BY <1>1 DEF Arguments, ArgStep, FoldLeft, MapThenFoldSet
  <1>3. step \in [T -> [M -> T]] /\ \A x \in T, e \in M : ArgStep(x, e, c) = step[x][e]
    <2>1. ASSUME NEW x \in T, NEW e \in M PROVE ArgStep(x, e, c) \in T
      <3>1. CASE e.opt = c
        <4>1. Append(x, e.arg) \in Seq(S)
          BY <3>1
        <4> QED BY <3>1, <4>1 DEF ArgStep
      <3>2. CASE e.opt # c
        BY <3>2 DEF ArgStep
      <3> QED BY <3>1, <3>2
    <2> QED BY <2>1 DEF ArgFn
  <1>4. \A s \in SUBSET (1..n) : s # {} => opts[Max(s)] \in M
    BY <1>1, MaxIn
  <1> HIDE DEF step, n, T, base
  <1>5. Eq(g)
    <2>1. PICK f : IsTable(f, T, step, base, n, opts)
      BY <1>1, <1>3, FoldTable
    <2>2. Eq(f)
      BY <1>3, <1>4, <2>1, Zenon DEF IsTable
    <2> HIDE DEF Eq
    <2> QED BY <2>2
  <1>6. IsRun(r, T, step, base, n, opts)
    <2>1. \A s \in SUBSET (1..n) :
            g[s] = IF s = {} THEN base ELSE ArgStep(g[s \ {Max(s)}], opts[Max(s)], c)
      BY <1>5
    <2>2. Follows(g, T, step, base, n, opts)
      BY <1>3, <1>4, <2>1 DEF Follows
    <2> HIDE DEF g
    <2> QED BY <1>1, <1>3, <2>2, TableRun
  <1>7. g[1..n] = r[n]
    BY <1>1 DEF RunOf
  <1> HIDE DEF r
  <1> QED
    BY <1>2, <1>6, <1>7 DEF Ends, n, T, step, base

(* After all options, in any order, the filters have the arguments of both kinds. *)
LEMMA OptionsAll ==
    ASSUME NEW U, NEW opts \in Seq(Opt(U))
    PROVE  Have(Filters(opts), U, Arguments(opts, "A"), Arguments(opts, "a"))
  <1> DEFINE n == Len(opts)
             M == Opt(U)
             none == NoFilters(<<>>)
             wf == ArgFn(Wild, M, "A")
             tf == ArgFn(U, M, "a")
  <1>1. PICK r : IsRun(r, FilterState(U), OptFn(U), none, n, opts) /\ Filters(opts) = r[n]
    BY OptFold DEF Ends
  <1>2. PICK p : IsRun(p, Seq(Wild), wf, <<>>, n, opts) /\ Arguments(opts, "A") = p[n]
    <2>1. \A o \in M : o.opt = "A" => o.arg \in Wild
      BY DEF Opt
    <2>2. Ends(Arguments(opts, "A"), Seq(Wild), wf, <<>>, opts)
      BY <2>1, ArgFold
    <2> QED BY <2>2 DEF Ends
  <1>3. PICK q : IsRun(q, Seq(U), tf, <<>>, n, opts) /\ Arguments(opts, "a") = q[n]
    <2>1. \A o \in M : o.opt = "a" => o.arg \in U
      BY DEF Opt
    <2>2. Ends(Arguments(opts, "a"), Seq(U), tf, <<>>, opts)
      BY <2>1, ArgFold
    <2> QED BY <2>2 DEF Ends
  <1>4. /\ r \in [0..n -> FilterState(U)] /\ r[0] = none
        /\ \A k \in 1..n : r[k] = OptFn(U)[r[k - 1]][opts[k]]
    BY <1>1 DEF IsRun
  <1>5. /\ p \in [0..n -> Seq(Wild)] /\ p[0] = <<>>
        /\ \A k \in 1..n : p[k] = wf[p[k - 1]][opts[k]]
    BY <1>2 DEF IsRun
  <1>6. /\ q \in [0..n -> Seq(U)] /\ q[0] = <<>>
        /\ \A k \in 1..n : q[k] = tf[q[k - 1]][opts[k]]
    BY <1>3 DEF IsRun
  <1>7. n \in Nat /\ \A k \in 1..n : opts[k] \in M
    OBVIOUS
  <1> DEFINE P == {k \in 0..n : Have(r[k], U, p[k], q[k])}
  <1> HIDE DEF M, n
  <1>8. 0 \in P
    BY <1>4, <1>5, <1>6, <1>7, NoneIs
  <1>9. ASSUME NEW k \in 1..n, k - 1 \in P PROVE k \in P
    <2> DEFINE x == r[k - 1]
               ws == p[k - 1]
               ts == q[k - 1]
               o == opts[k]
    <2>1. /\ Have(x, U, ws, ts) /\ x \in FilterState(U) /\ ws \in Seq(Wild) /\ ts \in Seq(U) /\ o \in M
          /\ k \in 0..n
      <3>1. k \in 0..n /\ k - 1 \in 0..n
        BY <1>7
      <3>2. Have(r[k - 1], U, p[k - 1], q[k - 1])
        BY <1>9
      <3> QED BY <1>4, <1>5, <1>6, <1>7, <3>1, <3>2
    <2>2. r[k] = OptStep(x, o) /\ p[k] = ArgStep(ws, o, "A") /\ q[k] = ArgStep(ts, o, "a")
      <3>1. r[k] = OptFn(U)[x][o] /\ p[k] = wf[ws][o] /\ q[k] = tf[ts][o]
        BY <1>4, <1>5, <1>6
      <3> HIDE DEF x, ws, ts, o
      <3> QED BY <2>1, <3>1 DEF OptFn, ArgFn, M
    <2> HIDE DEF x, ws, ts, o
    <2>3. Have(r[k], U, p[k], q[k])
      <3>1. CASE o.opt = "A"
        <4>1. o.arg \in Wild /\ r[k] = set_interface_wildcard(x, o.arg)
          BY <2>1, <2>2, <3>1, OptFacts DEF M
        <4>2. p[k] = Append(ws, o.arg) /\ q[k] = ts
          BY <2>2, <3>1 DEF ArgStep
        <4>3. Have(set_interface_wildcard(x, o.arg), U, Append(ws, o.arg), ts)
          BY <2>1, <4>1, WildNext
        <4> QED BY <4>1, <4>2, <4>3
      <3>2. CASE o.opt # "A"
        <4>1. o.opt = "a" /\ o.arg \in U /\ r[k] = SubnetStep(x, o.arg)
          BY <2>1, <2>2, <3>2, OptFacts DEF M
        <4>2. p[k] = ws /\ q[k] = Append(ts, o.arg)
          BY <2>2, <4>1 DEF ArgStep
        <4>3. Have(SubnetStep(x, o.arg), U, ws, Append(ts, o.arg))
          BY <2>1, <4>1, SubnetNext
        <4> QED BY <4>1, <4>2, <4>3
      <3> QED BY <3>1, <3>2
    <2> QED BY <2>1, <2>3
  <1>10. \A k \in 0..n : k \in P
    <2> HIDE DEF P
    <2> QED BY <1>7, <1>8, <1>9, UpToInduction
  <1>11. Have(r[n], U, p[n], q[n])
    BY <1>7, <1>10
  <1> QED BY <1>1, <1>2, <1>3, <1>11

(* The first of a list of options. *)
LEMMA UsedIs ==
    ASSUME NEW S, NEW s \in Seq(S)
    PROVE  {s[i] : i \in {j \in DOMAIN s : j <= DAG_IFWILDCARD_MAX}} = {s[i] : i \in 1..AtMost(Len(s))}
  <1>1. {j \in DOMAIN s : j <= DAG_IFWILDCARD_MAX} = 1..AtMost(Len(s))
    BY WildcardAssumption DEF AtMost
  <1> QED BY <1>1

(* A DAG announces exactly what its filters select, for every sequence of options -A
   and -a, in any order, whose wildcards leave room in a row for the two NULs
   (set_interface_wildcard, set_interface_filter, notify_new_interface). *)
THEOREM EveryAnnouncement ==
    ASSUME NEW U, NEW opts \in Seq(Opt(U)), NEW name, NEW a
    PROVE  Announces(opts, name, a)
  <1> DEFINE none == NoFilters(<<>>)
             wilds == Arguments(opts, "A")
             texts == Arguments(opts, "a")
             full == Filters(opts)
             n == AtMost(Len(wilds))
             m == AtMost(Len(texts))
             mem == full.mIfWildcard
             used(s) == {s[i] : i \in {j \in DOMAIN s : j <= DAG_IFWILDCARD_MAX}}
             some == /\ \E v \in used(wilds) : fnmatch(v, name)
                     /\ \E t \in used(texts) : addrinsubnet(a, TextSubnet(t))
  <1>1. Announces(opts, name, a) <=>
          notify_new_interface(<<none, full>>, name, a) = IF some THEN {2} ELSE {}
    BY DEF Announces, TextSubnet
  <1>2. Have(full, U, wilds, texts)
    BY OptionsAll
  <1> HIDE DEF full, wilds, texts
  <1>3. wilds \in Seq(Wild) /\ texts \in Seq(U) /\ full \in FilterState(U)
    BY <1>2 DEF Have, RowsHave
  <1>4. full.mIfWildcard_max = n /\ \A i \in 1..n : RowHas(mem, i - 1, wilds[i])
    BY <1>2 DEF Have, RowsHave
  <1>5. Len(full.mIfFilter) = m /\ \A i \in 1..m : full.mIfFilter[i] = TextSubnet(texts[i])
    BY <1>2 DEF Have, SubnetsHave
  <1>6. DOMAIN full.mIfFilter = 1..m
    <2>1. full.mIfFilter \in Seq({TextSubnet(t) : t \in U})
      BY <1>3 DEF FilterState
    <2>2. \A V : \A q \in Seq(V) : DOMAIN q = 1..Len(q)
      OBVIOUS
    <2> QED BY <1>5, <2>1, <2>2
  <1>7. n \in Nat /\ n <= DAG_IFWILDCARD_MAX /\ n <= Len(wilds) /\ m \in Nat /\ m <= Len(texts)
    BY <1>3, WildcardAssumption DEF AtMost
  <1>8. ASSUME NEW i \in 1..n PROVE CString(mem, (i - 1) * DAG_IFWILDCARD_LEN) = wilds[i]
    <2>1. mem \in Memory
      BY <1>3 DEF FilterState
    <2> DEFINE j == i - 1
               v == wilds[i]
    <2>2. j \in Nat /\ j < DAG_IFWILDCARD_MAX /\ v \in Wild /\ RowHas(mem, j, v)
      BY <1>3, <1>4, <1>7, WildcardAssumption
    <2> HIDE DEF j, v, mem
    <2>3. CString(mem, RowAt(j)) = v
      BY <2>1, <2>2, RowRead
    <2> QED BY <2>3 DEF RowAt, j, v
  <1>9. matchesIfWildcard(full, name) <=> \E v \in used(wilds) : fnmatch(v, name)
    <2>1. used(wilds) = {wilds[i] : i \in 1..n}
      BY <1>3, UsedIs
    <2>2. matchesIfWildcard(full, name) <=>
            \E i \in 0 .. n - 1 : fnmatch(CString(mem, i * DAG_IFWILDCARD_LEN), name)
      BY <1>4 DEF matchesIfWildcard
    <2> HIDE DEF used, n, mem
    <2>3. ASSUME NEW i \in 0 .. n - 1, fnmatch(CString(mem, i * DAG_IFWILDCARD_LEN), name)
          PROVE  \E v \in used(wilds) : fnmatch(v, name)
      <3>1. i + 1 \in 1..n /\ i + 1 - 1 = i
        BY <1>7
      <3>2. CString(mem, i * DAG_IFWILDCARD_LEN) = wilds[i + 1]
        BY <1>8, <3>1
      <3> QED BY <2>1, <2>3, <3>1, <3>2
    <2>4. ASSUME NEW v \in used(wilds), fnmatch(v, name)
          PROVE  \E i \in 0 .. n - 1 : fnmatch(CString(mem, i * DAG_IFWILDCARD_LEN), name)
      <3>1. PICK i \in 1..n : v = wilds[i]
        BY <2>1
      <3>2. i - 1 \in 0 .. n - 1
        BY <1>7
      <3> QED BY <1>8, <2>4, <3>1, <3>2
    <2> QED BY <2>2, <2>3, <2>4
  <1>10. matchesIfPrefix(full, a) <=> \E t \in used(texts) : addrinsubnet(a, TextSubnet(t))
    <2>1. used(texts) = {texts[i] : i \in 1..m}
      BY <1>3, UsedIs
    <2>2. matchesIfPrefix(full, a) <=> \E i \in 1..m : addrinsubnet(a, full.mIfFilter[i])
      BY <1>6 DEF matchesIfPrefix
    <2>3. matchesIfPrefix(full, a) <=> \E i \in 1..m : addrinsubnet(a, TextSubnet(texts[i]))
      BY <1>5, <2>2
    <2> HIDE DEF used, m
    <2> QED BY <2>1, <2>3
  <1>11. ~matchesIfWildcard(none, name)
    BY DEF matchesIfWildcard, NoFilters
  <1>12. notify_new_interface(<<none, full>>, name, a) = IF some THEN {2} ELSE {}
    <2> DEFINE both == <<none, full>>
               ok(k) == matchesIfWildcard(both[k], name) /\ matchesIfPrefix(both[k], a)
    <2>1. DOMAIN both = {1, 2} /\ both[1] = none /\ both[2] = full
      OBVIOUS
    <2>2. notify_new_interface(both, name, a) = {k \in DOMAIN both : ok(k)}
      BY DEF notify_new_interface
    <2> HIDE DEF both
    <2>3. ~ok(1) /\ (ok(2) <=> some)
      BY <1>9, <1>10, <1>11, <2>1
    <2> HIDE DEF ok, some
    <2>4. {k \in {1, 2} : ok(k)} = IF some THEN {2} ELSE {}
      BY <2>3
    <2> QED BY <2>1, <2>2, <2>4 DEF both
  <1> QED BY <1>1, <1>12

(* What the run checks of the filters of a DAG is an instance. *)
THEOREM FiltersCorrect == Spec => []WildcardsSelect
  <1>1. Init => WildcardsSelect
    <2> DEFINE max == DAG_IFWILDCARD_LEN - 2
    <2> SUFFICES ASSUME Init, kind = "filters",
                        \A i \in DOMAIN input : input[i].opt = "A" => Len(input[i].arg) <= max,
                        NEW name, NEW a
                 PROVE  Announces(input, name, a)
      BY DEF WildcardsSelect, Select
    <2>1. input \in UpTo(FilterOpt, MaxFilters)
      BY DEF Init
    <2>2. input \in Seq(FilterOpt)
      BY <2>1, FilterAssumption, UpToSeq
    <2>3. Wildcard \subseteq Seq(Nat \ {NUL})
      BY DEF Wildcard, NUL, Star, AnyOne
    <2>4. \A i \in 1..Len(input) : input[i] \in Opt(SubnetText)
      <3> SUFFICES ASSUME NEW i \in 1..Len(input) PROVE input[i] \in Opt(SubnetText)
        OBVIOUS
      <3> DEFINE o == input[i]
      <3>1. o \in FilterOpt /\ (o.opt = "A" => Len(o.arg) <= max)
        BY <2>2
      <3> HIDE DEF o
      <3>2. CASE o \in [opt : {"A"}, arg : Wildcard]
        <4>1. o.opt = "A" /\ o.arg \in Wildcard
          BY <3>2
        <4>2. o.arg \in Wild
          BY <2>3, <3>1, <4>1 DEF Wild
        <4>3. o \in [opt : {"A"}, arg : Wild]
          BY <3>2, <4>2
        <4> QED BY <4>3 DEF Opt, o
      <3>3. CASE o \in [opt : {"a"}, arg : SubnetText]
        BY <3>3 DEF Opt, o
      <3> QED BY <3>1, <3>2, <3>3 DEF FilterOpt
    <2>5. input \in Seq(Opt(SubnetText))
      <3>1. Len(input) \in Nat /\ input = [i \in 1..Len(input) |-> input[i]]
        BY <2>2
      <3> QED BY <2>4, <3>1
    <2> QED BY <2>5, EveryAnnouncement
  <1> QED
    BY <1>1, InputStays, PTL
=============================================================================
