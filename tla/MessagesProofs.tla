--------------------------- MODULE MessagesProofs ---------------------------
(***************************************************************************)
(* What is written into a message is what is read from it, for messages of *)
(* every length: the options of RPL messages (RplOptions) and the          *)
(* attributes of requests to the kernel (Netlink).                         *)
(***************************************************************************)
EXTENDS AlgorithmsProofs

(* A scan of a buffer: from a place in Go it takes val of the place and, unless it
   stops there, goes on at nxt of the place. *)
Scan(f, Go, Stop, val, nxt, o) ==
    IF o \notin Go THEN <<>> ELSE IF o \in Stop THEN <<val[o]>> ELSE <<val[o]>> \o f[nxt[o]]

(* The scan goes forward and stays in the buffer. *)
Forward(Go, Stop, nxt, N) == \A o \in 0..N : o \in Go /\ o \notin Stop => nxt[o] \in (o + 1)..N

(* What is scanned from the places a up to N on. *)
Scans(f, Go, Stop, val, nxt, a, N) == \A o \in a..N : f[o] = Scan(f, Go, Stop, val, nxt, o)

(* A function that is the scan from every place on, as Walk and Positions are. *)
IsScan(f, Go, Stop, val, nxt, N) == f = [o \in 0..N |-> Scan(f, Go, Stop, val, nxt, o)]

(* Every scan that goes forward exists. *)
LEMMA ScanExists ==
    ASSUME NEW N \in Nat, NEW Go, NEW Stop, NEW val, NEW nxt, Forward(Go, Stop, nxt, N)
    PROVE  \E f : IsScan(f, Go, Stop, val, nxt, N)
  <1> DEFINE P == {k \in 0..(N + 1) : \E f : Scans(f, Go, Stop, val, nxt, N + 1 - k, N)}
  <1>1. 0 \in P
    <2>1. \A f : Scans(f, Go, Stop, val, nxt, N + 1 - 0, N)
      BY DEF Scans
    <2> QED BY <2>1
  <1>2. ASSUME NEW k \in 1..(N + 1), k - 1 \in P PROVE k \in P
    <2> DEFINE a == N + 1 - k
    <2>0. a \in 0..N /\ N + 1 - (k - 1) = a + 1
      OBVIOUS
    <2>1. PICK f : Scans(f, Go, Stop, val, nxt, a + 1, N)
      BY <1>2, <2>0
    <2> HIDE DEF a
    <2> DEFINE h == [o \in a..N |-> IF o = a THEN Scan(f, Go, Stop, val, nxt, a) ELSE f[o]]
    <2>2. ASSUME NEW o \in a..N PROVE h[o] = Scan(h, Go, Stop, val, nxt, o)
      <3>1. o \in 0..N /\ (o \in Go /\ o \notin Stop => nxt[o] \in (o + 1)..N)
        BY <2>0 DEF Forward
      <3>2. \A q \in (a + 1)..N : h[q] = f[q]
        BY <2>0
      <3>3. o \in Go /\ o \notin Stop => h[nxt[o]] = f[nxt[o]]
        BY <2>0, <3>1, <3>2
      <3>4. h[o] = Scan(f, Go, Stop, val, nxt, o)
        <4>1. CASE o = a
          BY <4>1
        <4>2. CASE o # a
          <5>1. o \in (a + 1)..N
            BY <2>0, <4>2
          <5> QED BY <2>1, <3>2, <5>1 DEF Scans
        <4> QED BY <4>1, <4>2
      <3> HIDE DEF h
      <3> QED BY <3>3, <3>4 DEF Scan
    <2> HIDE DEF h
    <2>3. Scans(h, Go, Stop, val, nxt, a, N)
      BY <2>2 DEF Scans
    <2> QED BY <2>3 DEF a
  <1>3. \A k \in 0..(N + 1) : k \in P
    <2>1. N + 1 \in Nat
      OBVIOUS
    <2> HIDE DEF P
    <2> QED BY <1>1, <1>2, <2>1, UpToInduction
  <1>4. PICK f : Scans(f, Go, Stop, val, nxt, 0, N)
    BY <1>3, N + 1 \in 0..(N + 1), N + 1 - (N + 1) = 0
  <1> DEFINE h == [o \in 0..N |-> f[o]]
  <1>5. ASSUME NEW o \in 0..N PROVE h[o] = Scan(h, Go, Stop, val, nxt, o)
    <2>1. o \in Go /\ o \notin Stop => h[nxt[o]] = f[nxt[o]]
      BY DEF Forward
    <2>2. h[o] = Scan(f, Go, Stop, val, nxt, o)
      BY <1>4 DEF Scans
    <2> HIDE DEF h
    <2> QED BY <2>1, <2>2 DEF Scan
  <1>6. h = [o \in 0..N |-> Scan(h, Go, Stop, val, nxt, o)]
    BY <1>5
  <1> QED BY <1>6 DEF IsScan

(* What Walk is for an offset. *)
WalkAt(f, m, t, o) ==
    IF ~Looks(m, o) THEN <<>>
    ELSE IF At(m, o) = t THEN <<o>>
    ELSE <<o>> \o f[o + SkipLen(m, o)]

(* search_subopt goes forward in every message and not far beyond its end. *)
LEMMA WalkIs ==
    ASSUME NEW m, NEW t, m.bytes \in Seq(Byte256)
    PROVE  \A o \in 0..(Len(m.bytes) + 257) : Walk(m, t)[o] = WalkAt(Walk(m, t), m, t, o)
  <1> DEFINE l == Len(m.bytes)
             N == l + 257
             Go == {o \in 0..N : Looks(m, o)}
             Stop == {o \in 0..N : At(m, o) = t}
             val == [o \in 0..N |-> o]
             nxt == [o \in 0..N |-> o + SkipLen(m, o)]
             Eq(f) == f = [o \in 0..N |-> WalkAt(f, m, t, o)]
             g == CHOOSE f : Eq(f)
  <1>1. l \in Nat /\ N \in Nat
    OBVIOUS
  <1>2. Walk(m, t) = g
    BY DEF Walk, WalkAt
  <1>3. ASSUME NEW o \in 0..N, Looks(m, o) PROVE o + SkipLen(m, o) \in (o + 1)..N
    <2>1. l - o > 2
      BY <1>3 DEF Looks
    <2>2. m.bytes[o + 1 + 1] \in Byte256
      <3>1. o + 1 + 1 \in 1..l
        BY <1>1, <2>1
      <3> QED BY <3>1
    <2> DEFINE b == m.bytes[o + 1 + 1]
               c == SkipLen(m, o)
    <2>3. b \in Nat /\ b <= 255
      <3>1. \A x \in Byte256 : x \in Nat /\ x <= 255
        BY ONLY DEF Byte256
      <3> HIDE DEF b
      <3> QED BY ONLY <2>2, <3>1 DEF b
    <2>4. c = 1 \/ c = b + 2
      BY DEF SkipLen, At
    <2>5. o \in Nat
      BY <1>1
    <2> HIDE DEF b, c, l
    <2>6. o + c \in (o + 1)..N
      BY ONLY <1>1, <2>1, <2>3, <2>4, <2>5 DEF N
    <2> QED BY <2>6 DEF c
  <1>4. Forward(Go, Stop, nxt, N)
    BY <1>3 DEF Forward
  <1>5. PICK f : IsScan(f, Go, Stop, val, nxt, N)
    <2> HIDE DEF N, Go, Stop, val, nxt
    <2> QED BY ONLY <1>1, <1>4, ScanExists
  <1>6. ASSUME NEW o \in 0..N PROVE Scan(f, Go, Stop, val, nxt, o) = WalkAt(f, m, t, o)
    <2>1. (o \in Go <=> Looks(m, o)) /\ (o \in Stop <=> At(m, o) = t) /\ val[o] = o /\ nxt[o] = o + SkipLen(m, o)
      OBVIOUS
    <2> HIDE DEF Go, Stop, val, nxt
    <2> QED BY <2>1 DEF Scan, WalkAt
  <1>7. Eq(f)
    <2>1. f = [o \in 0..N |-> Scan(f, Go, Stop, val, nxt, o)]
      BY <1>5 DEF IsScan
    <2> HIDE DEF N, Go, Stop, val, nxt
    <2> QED BY ONLY <1>6, <2>1
  <1>8. Eq(g)
    <2> HIDE DEF Eq
    <2> QED BY <1>7
  <1> HIDE DEF g, N
  <1>9. \A o \in 0..N : g[o] = WalkAt(g, m, t, o)
    BY <1>8
  <1> QED BY <1>2, <1>9 DEF N

(* A message with n options at the offsets S, of the types ty. *)
Laid(m, S, ty, n) ==
    /\ m.bytes \in Seq(Byte256) /\ n \in Nat
    /\ S \in [1..(n + 1) -> 0..Len(m.bytes)] /\ S[1] = 0
    /\ \A i \in 1..n : /\ Looks(m, S[i]) /\ At(m, S[i]) = ty[i]
                       /\ S[i + 1] = S[i] + SkipLen(m, S[i]) /\ S[i] < S[i + 1]
    /\ ~Looks(m, S[n + 1])

(* From option i on, e is the first of type t, or the end. *)
FirstFrom(ty, n, i, t, e) ==
    /\ e \in i..(n + 1) /\ (e # n + 1 => ty[e] = t)
    /\ \A j \in i..(e - 1) : ty[j] # t

(* What is looked at on the way from option i to e. *)
SeenFrom(s, S, n, i, e) ==
    /\ s \in Seq(Nat) /\ Len(s) = (IF e = n + 1 THEN e - i ELSE e - i + 1)
    /\ \A k \in 1..Len(s) : s[k] = S[i + k - 1]

(* There is always a first one, or the end. *)
LEMMA FirstExists ==
    ASSUME NEW n \in Nat, NEW ty, NEW t, NEW i \in 1..(n + 1)
    PROVE  \E e : FirstFrom(ty, n, i, t, e)
  <1> DEFINE P == {k \in 0..(n + 1 - i) : \E e : FirstFrom(ty, n, n + 1 - k, t, e)}
  <1>0. n + 1 - i \in Nat
    OBVIOUS
  <1>1. 0 \in P
    <2>1. FirstFrom(ty, n, n + 1 - 0, t, n + 1)
      BY DEF FirstFrom
    <2> QED BY <2>1
  <1>2. ASSUME NEW k \in 1..(n + 1 - i), k - 1 \in P PROVE k \in P
    <2> DEFINE a == n + 1 - k
    <2>1. a \in 1..n /\ n + 1 - (k - 1) = a + 1
      OBVIOUS
    <2>2. PICK e : FirstFrom(ty, n, a + 1, t, e)
      BY <1>2, <2>1
    <2> HIDE DEF a
    <2>3. CASE ty[a] = t
      <3>1. FirstFrom(ty, n, a, t, a)
        BY <2>1, <2>3 DEF FirstFrom
      <3> QED BY <3>1 DEF a
    <2>4. CASE ty[a] # t
      <3>1. FirstFrom(ty, n, a, t, e)
        BY <2>1, <2>2, <2>4 DEF FirstFrom
      <3> QED BY <3>1 DEF a
    <2> QED BY <2>3, <2>4
  <1>3. \A k \in 0..(n + 1 - i) : k \in P
    <2> HIDE DEF P
    <2> QED BY <1>0, <1>1, <1>2, UpToInduction
  <1>4. n + 1 - i \in P /\ n + 1 - (n + 1 - i) = i
    BY <1>0, <1>3
  <1>5. \E e : FirstFrom(ty, n, n + 1 - (n + 1 - i), t, e)
    BY <1>4
  <1> QED BY ONLY <1>4, <1>5

(* One element before others. *)
LEMMA OneBefore ==
    ASSUME NEW T, NEW c \in T, NEW s \in Seq(T)
    PROVE  LET x == <<c>> \o s
           IN  x \in Seq(T) /\ Len(x) = Len(s) + 1 /\ x[1] = c /\ \A k \in 1..Len(s) : x[k + 1] = s[k]
  <1> DEFINE d == <<c>>
             x == d \o s
  <1>1. d \in Seq(T) /\ Len(d) = 1 /\ d[1] = c
    OBVIOUS
  <1> HIDE DEF d
  <1>2. /\ x \in Seq(T) /\ Len(x) = Len(d) + Len(s)
        /\ \A i \in 1..Len(d) : x[i] = d[i]
        /\ \A i \in 1..Len(s) : x[Len(d) + i] = s[i]
    BY ONLY <1>1, s \in Seq(T), ConcatAt
  <1> HIDE DEF x
  <1>3. Len(s) \in Nat
    OBVIOUS
  <1>4. x[1] = c /\ Len(x) = Len(s) + 1
    BY <1>1, <1>2, <1>3
  <1>5. \A k \in 1..Len(s) : x[k + 1] = s[k]
    BY <1>1, <1>2, <1>3
  <1> QED BY <1>2, <1>4, <1>5 DEF x, d

(* The loop of search_subopt looks at all options from i up to e. *)
LEMMA WalkSees ==
    ASSUME NEW m, NEW S, NEW ty, NEW n, Laid(m, S, ty, n), NEW i \in 1..(n + 1), NEW t, NEW e,
           FirstFrom(ty, n, i, t, e)
    PROVE  SeenFrom(Walk(m, t)[S[i]], S, n, i, e)
  <1> DEFINE w == Walk(m, t)
             P == {k \in 0..(e - i) : SeenFrom(w[S[e - k]], S, n, e - k, e)}
  <1>1. /\ n \in Nat /\ e \in i..(n + 1) /\ i \in Nat /\ e \in Nat /\ 1 <= i
        /\ \A j \in i..(e - 1) : ty[j] # t
        /\ e # n + 1 => ty[e] = t
    BY DEF FirstFrom, Laid
  <1>2. ASSUME NEW j \in 1..(n + 1) PROVE S[j] \in Nat /\ w[S[j]] = WalkAt(w, m, t, S[j])
    <2>1. m.bytes \in Seq(Byte256) /\ S[j] \in 0..Len(m.bytes)
      BY DEF Laid
    <2>2. S[j] \in 0..(Len(m.bytes) + 257) /\ S[j] \in Nat
      BY <2>1
    <2> QED BY <2>1, <2>2, WalkIs
  <1> HIDE DEF w
  <1>0. ~Looks(m, S[n + 1])
    BY DEF Laid
  <1>3. 0 \in P
    <2>1. CASE e = n + 1
      <3>1. w[S[e]] = <<>>
        <4>1. ~Looks(m, S[e]) /\ e \in 1..(n + 1)
          BY <1>0, <1>1, <2>1
        <4> QED BY ONLY <1>2, <4>1 DEF WalkAt
      <3>2. SeenFrom(w[S[e]], S, n, e, e)
        BY <1>1, <2>1, <3>1 DEF SeenFrom
      <3> QED BY <1>1, <3>2, e - 0 = e
    <2>2. CASE e # n + 1
      <3>1. e \in 1..n /\ e \in 1..(n + 1)
        BY <1>1, <2>2
      <3>2. w[S[e]] = <<S[e]>> /\ S[e] \in Nat
        BY <1>1, <1>2, <2>2, <3>1 DEF WalkAt, Laid
      <3>3. SeenFrom(w[S[e]], S, n, e, e)
        BY <1>1, <2>2, <3>2 DEF SeenFrom
      <3> QED BY <1>1, <3>3, e - 0 = e
    <2> QED BY <2>1, <2>2
  <1>4. ASSUME NEW k \in 1..(e - i), k - 1 \in P PROVE k \in P
    <2> DEFINE a == e - k
    <2>1. /\ a \in i..(e - 1) /\ a \in 1..n /\ a \in 1..(n + 1) /\ a \in Nat
          /\ e - (k - 1) = a + 1 /\ e \in (a + 1)..(n + 1)
      BY <1>1
    <2>2. SeenFrom(w[S[a + 1]], S, n, a + 1, e)
      BY <1>4, <2>1
    <2> HIDE DEF a
    <2>3. ty[a] # t
      BY <1>1, <2>1
    <2>4. w[S[a]] = <<S[a]>> \o w[S[a + 1]] /\ S[a] \in Nat
      BY <1>2, <2>1, <2>3 DEF WalkAt, Laid
    <2> DEFINE s == w[S[a + 1]]
               x == <<S[a]>> \o s
    <2>5. /\ s \in Seq(Nat) /\ Len(s) = (IF e = n + 1 THEN e - (a + 1) ELSE e - (a + 1) + 1)
          /\ \A j \in 1..Len(s) : s[j] = S[a + 1 + j - 1]
      BY <2>2 DEF SeenFrom
    <2> HIDE DEF s
    <2>6. x \in Seq(Nat) /\ Len(x) = Len(s) + 1 /\ x[1] = S[a] /\ \A j \in 1..Len(s) : x[j + 1] = s[j]
      <3> DEFINE T == Nat
      <3>1. S[a] \in T /\ s \in Seq(T)
        BY <2>4, <2>5
      <3> HIDE DEF T
      <3>2. LET y == <<S[a]>> \o s
            IN  y \in Seq(T) /\ Len(y) = Len(s) + 1 /\ y[1] = S[a] /\ \A j \in 1..Len(s) : y[j + 1] = s[j]
        BY ONLY <3>1, OneBefore
      <3> QED BY <3>2 DEF T
    <2> HIDE DEF x
    <2>7. Len(x) = (IF e = n + 1 THEN e - a ELSE e - a + 1)
      BY <1>1, <2>1, <2>5, <2>6
    <2>8. ASSUME NEW j \in 1..Len(x) PROVE x[j] = S[a + j - 1]
      <3>1. CASE j = 1
        BY <2>1, <2>6, <3>1, a + 1 - 1 = a
      <3>2. CASE j # 1
        <4>1. j - 1 \in 1..Len(s) /\ j - 1 + 1 = j /\ a + 1 + (j - 1) - 1 = a + j - 1
          BY <2>1, <2>5, <2>6, <3>2
        <4> QED BY <2>5, <2>6, <4>1
      <3> QED BY <3>1, <3>2
    <2>9. SeenFrom(x, S, n, a, e)
      BY <2>6, <2>7, <2>8 DEF SeenFrom
    <2>10. w[S[a]] = x
      BY <2>4 DEF x, s
    <2> QED BY <2>9, <2>10 DEF a
  <1>5. \A k \in 0..(e - i) : k \in P
    <2>1. e - i \in Nat
      BY <1>1
    <2> HIDE DEF P
    <2> QED BY <1>3, <1>4, <2>1, UpToInduction
  <1>6. e - i \in 0..(e - i) /\ e - (e - i) = i
    BY <1>1
  <1> QED BY <1>5, <1>6 DEF w

(* Messages with cursors. *)
Cursor == [0..255 -> Nat]
Messages == [bytes : Seq(Byte256), mOptions : Cursor]

(* The last option that is looked at on the way to e. *)
LastSeen(n, e) == IF e = n + 1 THEN n ELSE e

(* Where the cursor of another type is after a search from option i to e. *)
Moved(old, new, S, ty, n, i, e, u) ==
    \/ old # 0 /\ new = old
    \/ old = 0 /\ new = 0 /\ \A j \in i..LastSeen(n, e) : ty[j] # u
    \/ old = 0 /\ \E j \in i..LastSeen(n, e) : ty[j] = u /\ new = S[j] /\ \A k \in i..(j - 1) : ty[k] # u

(* Layout is a matter of the bytes only. *)
LEMMA LaidStays ==
    ASSUME NEW m \in Messages, NEW c \in Cursor, NEW S, NEW ty, NEW n, Laid(m, S, ty, n)
    PROVE  Laid([m EXCEPT !.mOptions = c], S, ty, n) /\ [m EXCEPT !.mOptions = c] \in Messages
  <1> DEFINE w == [m EXCEPT !.mOptions = c]
  <1>1. w \in Messages /\ w.bytes = m.bytes
    BY DEF Messages
  <1> HIDE DEF w
  <1>2. \A o : At(w, o) = At(m, o)
    BY <1>1 DEF At
  <1>3. \A o : SkipLen(w, o) = SkipLen(m, o)
    BY <1>2 DEF SkipLen
  <1>4. \A o : Looks(w, o) <=> Looks(m, o)
    BY <1>1, <1>2 DEF Looks
  <1>5. Laid(w, S, ty, n)
    BY <1>1, <1>2, <1>3, <1>4, Zenon DEF Laid
  <1> QED BY <1>1, <1>5 DEF w

(* The position of the first option of type u that was seen, but for one at offset 0. *)
FirstOf(s, m, u) == SelectInSeq(s, LAMBDA o : At(m, o) = u /\ o # 0)

(* Which option of a type is the first that was seen, if the first of all is of another type. *)
LEMMA FirstSeen ==
    ASSUME NEW m, NEW S, NEW ty, NEW n, Laid(m, S, ty, n), NEW i \in 1..(n + 1), NEW e \in i..(n + 1),
           NEW s, SeenFrom(s, S, n, i, e), NEW u, NEW j, FirstFrom(ty, LastSeen(n, e), i, u, j)
    PROVE  LET first == FirstOf(s, m, u)
           IN  /\ j = LastSeen(n, e) + 1 => first = 0
               /\ j # LastSeen(n, e) + 1 /\ u # ty[1] => first # 0 /\ s[first] = S[j]
               /\ first # 0 => first \in 1..Len(s)
  <1> DEFINE l == LastSeen(n, e)
             I == {k \in 1..Len(s) : At(m, s[k]) = u /\ s[k] # 0}
             first == FirstOf(s, m, u)
  <1>0. first = IF I # {} THEN Min(I) ELSE 0
    BY DEF FirstOf, SelectInSeq
  <1>1. n \in Nat /\ l \in Nat /\ l <= n /\ i \in Nat /\ 1 <= i /\ i <= l + 1 /\ l - i + 1 \in Nat
    BY DEF LastSeen, Laid
  <1>2. Len(s) = l - i + 1
    BY <1>1 DEF SeenFrom, LastSeen
  <1> HIDE DEF l
  <1>3. ASSUME NEW k \in 1..(l - i + 1)
        PROVE  s[k] = S[i + k - 1] /\ At(m, s[k]) = ty[i + k - 1] /\ (s[k] = 0 => ty[i + k - 1] = ty[1])
    <2>1. s[k] = S[i + k - 1]
      BY <1>2 DEF SeenFrom
    <2>2. i + k - 1 \in 1..n
      BY <1>1
    <2>3. At(m, S[i + k - 1]) = ty[i + k - 1]
      BY <2>2 DEF Laid
    <2>4. S[1] = 0 /\ At(m, S[1]) = ty[1]
      <3>1. 1 \in 1..n
        BY <1>1, <2>2
      <3> QED BY <3>1 DEF Laid
    <2> QED BY <2>1, <2>3, <2>4
  <1>4. /\ j \in i..(l + 1) /\ j \in Nat /\ (j # l + 1 => ty[j] = u)
        /\ \A k \in i..(j - 1) : ty[k] # u
    BY <1>1 DEF FirstFrom, l
  <1>5. first # 0 => first \in 1..Len(s)
    <2>1. I \in SUBSET Nat /\ I \subseteq 1..Len(s)
      BY <1>1, <1>2
    <2> HIDE DEF I
    <2>2. CASE I # {}
      <3>1. Min(I) \in I
        BY <2>1, <2>2, MinExists
      <3> QED BY <1>0, <2>1, <2>2, <3>1
    <2> QED BY <1>0, <2>2
  <1>6. CASE j = l + 1
    <2>1. I = {}
      <3> SUFFICES ASSUME NEW k \in 1..(l - i + 1), At(m, s[k]) = u PROVE FALSE
        BY <1>2
      <3>1. i + k - 1 \in i..(j - 1)
        BY <1>1, <1>6
      <3> QED BY <1>3, <1>4, <3>1
    <2> QED BY <1>0, <1>4, <1>6, <2>1 DEF l
  <1>7. CASE j # l + 1 /\ u # ty[1]
    <2> DEFINE f == j - i + 1
    <2>1. f \in 1..(l - i + 1) /\ i + f - 1 = j
      BY <1>1, <1>4, <1>7
    <2> HIDE DEF f
    <2>2. f \in I
      BY <1>2, <1>3, <1>4, <1>7, <2>1
    <2>3. ASSUME NEW k \in I PROVE f <= k
      <3>1. k \in 1..(l - i + 1) /\ ty[i + k - 1] = u
        BY <1>2, <1>3
      <3>2. ~(i + k - 1 \in i..(j - 1))
        BY <1>4, <3>1
      <3> QED BY <1>1, <1>4, <2>1, <3>1, <3>2
    <2>4. I \in SUBSET Int /\ I # {}
      BY <1>1, <1>2, <2>2
    <2> HIDE DEF I
    <2>5. Min(I) = f
      BY <2>2, <2>3, <2>4, MinIs
    <2>6. first = f /\ f # 0
      BY <1>0, <1>1, <2>1, <2>4, <2>5
    <2> HIDE DEF first
    <2>7. s[first] = S[j]
      BY <1>3, <2>1, <2>6
    <2> QED BY <1>5, <1>7, <2>6, <2>7 DEF first, l
  <1> QED BY <1>5, <1>6, <1>7 DEF l, first

(* A search for t from option i to e: what it finds, and the cursors after it. *)
Finds(r, m, S, ty, n, t, i, e) ==
    /\ r.msg \in Messages /\ Laid(r.msg, S, ty, n) /\ r.msg.bytes = m.bytes
    /\ r.offset = IF e = n + 1 THEN NotFound ELSE S[e]
    /\ r.msg.mOptions[t] = IF e = n + 1 THEN S[i] ELSE S[e + 1]
    /\ \A u \in 0..255 \ {t, ty[1]} : Moved(m.mOptions[u], r.msg.mOptions[u], S, ty, n, i, e, u)

(* search_subopt finds the next option of a type. *)
LEMMA SearchFinds ==
    ASSUME NEW m \in Messages, NEW S, NEW ty, NEW n, Laid(m, S, ty, n), NEW t \in 0..255,
           NEW i \in 1..(n + 1), m.mOptions[t] = S[i], NEW e, FirstFrom(ty, n, i, t, e)
    PROVE  Finds(search_subopt(m, t), m, S, ty, n, t, i, e)
  <1> DEFINE s == Walk(m, t)[m.mOptions[t]]
             found == IF s # <<>> /\ At(m, s[Len(s)]) = t THEN s[Len(s)] ELSE NotFound
             c == Cursors(m, s, t, found)
             r == search_subopt(m, t)
             first(u) == FirstOf(s, m, u)
             l == LastSeen(n, e)
  <1>1. r = [msg |-> [m EXCEPT !.mOptions = c], offset |-> found]
    BY DEF search_subopt
  <1>2. SeenFrom(s, S, n, i, e)
    BY WalkSees
  <1>3. /\ n \in Nat /\ e \in i..(n + 1) /\ e \in Nat /\ i \in Nat /\ 1 <= i
        /\ (e # n + 1 => ty[e] = t) /\ \A j \in i..(e - 1) : ty[j] # t
    BY DEF Laid, FirstFrom
  <1>4. /\ \A j \in 1..n : At(m, S[j]) = ty[j] /\ S[j + 1] = S[j] + SkipLen(m, S[j])
        /\ \A j \in 1..(n + 1) : S[j] \in Nat
    <2>1. \A j \in 1..n : At(m, S[j]) = ty[j] /\ S[j + 1] = S[j] + SkipLen(m, S[j])
      BY DEF Laid
    <2>2. S \in [1..(n + 1) -> 0..Len(m.bytes)] /\ m.bytes \in Seq(Byte256)
      BY DEF Laid
    <2> DEFINE b == m.bytes
    <2>3. Len(b) \in Nat /\ S \in [1..(n + 1) -> 0..Len(b)]
      BY <2>2
    <2> HIDE DEF b
    <2>4. \A j \in 1..(n + 1) : S[j] \in Nat
      BY <2>3
    <2> QED BY <2>1, <2>4
  <1> HIDE DEF s
  <1>5. s \in Seq(Nat) /\ Len(s) = (IF e = n + 1 THEN e - i ELSE e - i + 1) /\ \A k \in 1..Len(s) : s[k] = S[i + k - 1]
    BY <1>2 DEF SeenFrom
  <1>6. found = IF e = n + 1 THEN NotFound ELSE S[e]
    <2>1. CASE e = n + 1
      <3>1. ASSUME s # <<>> PROVE At(m, s[Len(s)]) # t
        <4> DEFINE k == Len(s)
        <4>1. k = n + 1 - i /\ k # 0 /\ k \in Nat
          BY <1>3, <1>5, <2>1, <3>1
        <4>2. k \in 1..Len(s) /\ i + k - 1 = n /\ n \in 1..n /\ n \in i..(e - 1)
          BY <1>3, <2>1, <4>1
        <4>3. s[k] = S[n]
          BY <1>5, <4>2
        <4> HIDE DEF k
        <4>4. At(m, S[n]) # t
          BY <1>3, <1>4, <4>2
        <4> QED BY <4>3, <4>4 DEF k
      <3> QED BY <2>1, <3>1
    <2>2. CASE e # n + 1
      <3> DEFINE k == Len(s)
      <3>1. k = e - i + 1 /\ k \in 1..Len(s) /\ i + k - 1 = e /\ e \in 1..n
        BY <1>3, <1>5, <2>2
      <3>2. s[k] = S[e]
        BY <1>5, <3>1
      <3>4. s # <<>>
        BY <3>1
      <3> HIDE DEF k
      <3>3. At(m, s[k]) = t
        BY <1>3, <1>4, <2>2, <3>1, <3>2
      <3> QED BY <2>2, <3>2, <3>3, <3>4 DEF k
    <2> QED BY <2>1, <2>2
  <1>7. ASSUME NEW u \in 0..255 PROVE
          c[u] = IF u = t /\ found # NotFound THEN found + SkipLen(m, found)
                 ELSE IF m.mOptions[u] = 0 /\ first(u) # 0 THEN s[first(u)] ELSE m.mOptions[u]
    <2>1. DOMAIN m.mOptions = 0..255
      BY DEF Messages, Cursor
    <2> QED BY <2>1 DEF Cursors, FirstOf
  <1>8. ASSUME NEW u PROVE
          \E j : /\ FirstFrom(ty, l, i, u, j)
                 /\ (j = l + 1 => first(u) = 0) /\ (first(u) # 0 => first(u) \in 1..Len(s))
                 /\ (j # l + 1 /\ u # ty[1] => first(u) # 0 /\ s[first(u)] = S[j])
    <2>1. l \in Nat /\ i \in 1..(l + 1)
      BY <1>3 DEF LastSeen
    <2>2. PICK j : FirstFrom(ty, l, i, u, j)
      <3> HIDE DEF l
      <3> QED BY <2>1, FirstExists
    <2>3. e \in i..(n + 1)
      BY <1>3
    <2>4. /\ (j = l + 1 => first(u) = 0) /\ (first(u) # 0 => first(u) \in 1..Len(s))
          /\ (j # l + 1 /\ u # ty[1] => first(u) # 0 /\ s[first(u)] = S[j])
      BY ONLY Laid(m, S, ty, n), i \in 1..(n + 1), <1>2, <2>2, <2>3, FirstSeen
    <2> QED BY <2>2, <2>4
  <1> HIDE DEF c, found, first
  <1>9. ASSUME NEW u \in 0..255 \ {t, ty[1]} PROVE Moved(m.mOptions[u], c[u], S, ty, n, i, e, u)
    <2>1. c[u] = IF m.mOptions[u] = 0 /\ first(u) # 0 THEN s[first(u)] ELSE m.mOptions[u]
      BY <1>7
    <2>2. m.mOptions[u] \in Nat
      BY DEF Messages, Cursor
    <2>3. PICK j : /\ FirstFrom(ty, l, i, u, j)
                   /\ (j = l + 1 => first(u) = 0)
                   /\ (j # l + 1 /\ u # ty[1] => first(u) # 0 /\ s[first(u)] = S[j])
      BY <1>8
    <2>4. /\ j \in i..(l + 1) /\ (j # l + 1 => ty[j] = u) /\ \A k \in i..(j - 1) : ty[k] # u
          /\ l \in Nat /\ l <= n
      BY <1>3, <2>3 DEF FirstFrom, LastSeen
    <2>5. CASE m.mOptions[u] # 0
      BY <2>1, <2>2, <2>5 DEF Moved
    <2>6. CASE m.mOptions[u] = 0 /\ j = l + 1
      <3>1. \A k \in i..l : ty[k] # u
        BY <1>3, <2>4, <2>6
      <3> QED BY <2>1, <2>3, <2>6, <3>1 DEF Moved
    <2>7. CASE m.mOptions[u] = 0 /\ j # l + 1
      <3>1. j \in i..l /\ j \in 1..(n + 1) /\ ty[j] = u
        BY <1>3, <2>4, <2>7
      <3>2. c[u] = S[j]
        BY <2>1, <2>3, <2>7
      <3> QED BY <1>4, <2>4, <2>7, <3>1, <3>2 DEF Moved
    <2> QED BY <2>5, <2>6, <2>7
  <1>10. c[t] = (IF e = n + 1 THEN S[i] ELSE S[e + 1]) /\ c[t] \in Nat
    <2>1. CASE e = n + 1
      <3>1. l = n
        BY <2>1 DEF LastSeen
      <3>2. PICK j : FirstFrom(ty, l, i, t, j) /\ (j = l + 1 => first(t) = 0)
        BY <1>8
      <3>3. j = l + 1
        BY <1>3, <2>1, <3>1, <3>2 DEF FirstFrom
      <3>4. c[t] = m.mOptions[t]
        BY <1>6, <1>7, <2>1, <3>2, <3>3
      <3> QED BY <1>4, <2>1, <3>4
    <2>2. CASE e # n + 1
      <3>1. found = S[e] /\ e \in 1..n /\ e + 1 \in 1..(n + 1) /\ S[e] \in Nat
        BY <1>3, <1>4, <1>6, <2>2
      <3>2. found # NotFound
        BY <3>1 DEF NotFound
      <3>3. c[t] = S[e + 1]
        BY <1>4, <1>7, <3>1, <3>2
      <3> QED BY <1>4, <2>2, <3>1, <3>3
    <2> QED BY <2>1, <2>2
  <1>11. c \in Cursor
    <2>1. c = [u \in 0..255 |-> c[u]]
      BY DEF c, Cursors, Messages, Cursor
    <2>2. ASSUME NEW u \in 0..255 \ {t} PROVE c[u] \in Nat
      <3>1. c[u] = IF m.mOptions[u] = 0 /\ first(u) # 0 THEN s[first(u)] ELSE m.mOptions[u]
        BY <1>7
      <3>2. m.mOptions[u] \in Nat
        BY DEF Messages, Cursor
      <3>3. first(u) # 0 => first(u) \in 1..Len(s)
        BY <1>8
      <3>4. first(u) # 0 => s[first(u)] \in Nat
        BY <1>5, <3>3
      <3> QED BY <3>1, <3>2, <3>4
    <2>3. \A u \in 0..255 : c[u] \in Nat
      BY <1>10, <2>2
    <2> QED BY <2>1, <2>3 DEF Cursor
  <1>12. r.msg = [m EXCEPT !.mOptions = c] /\ r.offset = found
    BY <1>1
  <1> HIDE DEF r
  <1>13. r.msg \in Messages /\ Laid(r.msg, S, ty, n)
    BY <1>11, <1>12, LaidStays
  <1>14. r.msg.mOptions = c /\ r.msg.bytes = m.bytes
    BY <1>12 DEF Messages
  <1> QED BY <1>6, <1>9, <1>10, <1>12, <1>13, <1>14 DEF r, Finds

(* The offsets rise. *)
Rising(S, n) ==
    /\ n \in Nat /\ S \in [1..(n + 1) -> Nat] /\ S[1] = 0
    /\ \A i, j \in 1..(n + 1) : i < j => S[i] < S[j]

(* The options of a message come one behind the other. *)
LEMMA OffsetsRise ==
    ASSUME NEW m, NEW S, NEW ty, NEW n, Laid(m, S, ty, n)
    PROVE  Rising(S, n)
  <1>1. n \in Nat /\ S[1] = 0 /\ \A i \in 1..n : S[i] < S[i + 1]
    BY DEF Laid
  <1>2. S \in [1..(n + 1) -> Nat]
    <2>1. S \in [1..(n + 1) -> 0..Len(m.bytes)]
      BY DEF Laid
    <2> QED BY <2>1
  <1>3. ASSUME NEW i \in 1..(n + 1) PROVE \A j \in 1..(n + 1) : i < j => S[i] < S[j]
    <2> DEFINE P == {k \in 0..(n + 1 - i) : k = 0 \/ S[i] < S[i + k]}
    <2>1. 0 \in P
      BY <1>1
    <2>2. ASSUME NEW k \in 1..(n + 1 - i), k - 1 \in P PROVE k \in P
      <3>1. i + (k - 1) \in 1..n /\ i + (k - 1) + 1 = i + k /\ i + k \in 1..(n + 1)
        BY <1>1
      <3>2. S[i + (k - 1)] < S[i + k]
        BY <1>1, <3>1
      <3>3. S[i + (k - 1)] \in Nat /\ S[i + k] \in Nat /\ S[i] \in Nat
        BY <1>1, <1>2, <3>1
      <3>4. CASE k = 1
        BY <1>1, <3>2, <3>4
      <3>5. CASE k # 1
        BY <1>1, <2>2, <3>2, <3>3, <3>5
      <3> QED BY <3>4, <3>5
    <2>3. \A k \in 0..(n + 1 - i) : k \in P
      <3>1. n + 1 - i \in Nat
        BY <1>1
      <3> HIDE DEF P
      <3> QED BY <2>1, <2>2, <3>1, UpToInduction
    <2> SUFFICES ASSUME NEW j \in 1..(n + 1), i < j PROVE S[i] < S[j]
      OBVIOUS
    <2>4. j - i \in 0..(n + 1 - i) /\ j - i # 0 /\ i + (j - i) = j
      BY <1>1
    <2>5. j - i \in P
      BY <2>3, <2>4
    <2> QED BY <2>4, <2>5
  <1> QED BY <1>1, <1>2, <1>3 DEF Rising

(* The offsets of all options of type t, and of those before option i. *)
Of(S, ty, n, t) == {S[j] : j \in {q \in 1..n : ty[q] = t}}

(* The answers g so far are the options of type t before option i, and NULL. *)
Given(g, S, ty, n, i, t) ==
    /\ g \in Seq(Int) /\ InOrder(g, Of(S, ty, n, t))
    /\ \A k \in DOMAIN g : g[k] = NotFound \/ g[k] \in Of(S, ty, i - 1, t)
    /\ \A x \in Of(S, ty, i - 1, t) : \E k \in DOMAIN g : g[k] = x

(* The next answer is the next option of the type. *)
LEMMA GivenNext ==
    ASSUME NEW S, NEW ty, NEW n, Rising(S, n), NEW i \in 1..(n + 1), NEW t, NEW e, FirstFrom(ty, n, i, t, e),
           NEW g, Given(g, S, ty, n, i, t)
    PROVE  Given(Append(g, IF e = n + 1 THEN NotFound ELSE S[e]), S, ty, n, IF e = n + 1 THEN i ELSE e + 1, t)
  <1> DEFINE x == IF e = n + 1 THEN NotFound ELSE S[e]
             h == Append(g, x)
             l == Len(g)
             q == IF e = n + 1 THEN i ELSE e + 1
             all == Of(S, ty, n, t)
             left == all \ {g[j] : j \in 1..l}
  <1>1. /\ n \in Nat /\ e \in i..(n + 1) /\ e \in Nat /\ i \in Nat /\ 1 <= i
        /\ (e # n + 1 => ty[e] = t /\ e \in 1..n) /\ \A j \in i..(e - 1) : ty[j] # t
        /\ S \in [1..(n + 1) -> Nat] /\ \A j, k \in 1..(n + 1) : j < k => S[j] < S[k]
    BY DEF FirstFrom, Rising
  <1>2. x \in Int /\ g \in Seq(Int) /\ l \in Nat
    BY <1>1 DEF Given, NotFound
  <1> HIDE DEF x
  <1>3. /\ h \in Seq(Int) /\ Len(h) = l + 1 /\ h[l + 1] = x /\ \A k \in 1..l : h[k] = g[k]
        /\ DOMAIN h = 1..(l + 1) /\ DOMAIN g = 1..l
    <2> DEFINE T == Int
    <2>1. x \in T /\ g \in Seq(T)
      BY <1>2
    <2> HIDE DEF T
    <2> QED BY <2>1, <1>2
  <1> HIDE DEF h, l
  <1>4. ASSUME NEW y PROVE y \in left <=> \E j \in i..n : ty[j] = t /\ y = S[j]
    <2>1. ASSUME NEW j \in i..n, ty[j] = t, y = S[j] PROVE y \in left
      <3>1. y \in all /\ j \in 1..n
        BY <1>1, <2>1 DEF Of
      <3>2. ASSUME NEW k \in 1..l PROVE g[k] # y
        <4>1. g[k] = NotFound \/ g[k] \in Of(S, ty, i - 1, t)
          BY <1>3 DEF Given
        <4>2. y \in Nat
          BY <1>1, <2>1, <3>1
        <4>3. CASE g[k] = NotFound
          BY <4>2, <4>3 DEF NotFound
        <4>4. CASE g[k] \in Of(S, ty, i - 1, t)
          <5>1. PICK p \in 1..(i - 1) : g[k] = S[p]
            BY <4>4 DEF Of
          <5>2. p \in 1..(n + 1) /\ j \in 1..(n + 1) /\ p < j
            BY <1>1, <3>1
          <5>3. S[p] < S[j] /\ S[p] \in Nat /\ S[j] \in Nat
            BY <1>1, <5>2
          <5> QED BY <2>1, <5>1, <5>3
        <4> QED BY <4>1, <4>3, <4>4
      <3> QED BY <3>1, <3>2
    <2>2. ASSUME y \in left PROVE \E j \in i..n : ty[j] = t /\ y = S[j]
      <3>1. PICK j \in 1..n : ty[j] = t /\ y = S[j]
        BY <2>2 DEF Of
      <3>2. ASSUME j \in 1..(i - 1) PROVE FALSE
        <4>1. y \in Of(S, ty, i - 1, t)
          BY <3>1, <3>2 DEF Of
        <4>2. PICK k \in DOMAIN g : g[k] = y
          BY <4>1 DEF Given
        <4> QED BY <1>3, <2>2, <4>2
      <3> QED BY <1>1, <3>1, <3>2
    <2> QED BY <2>1, <2>2
  <1>5. x = IF left = {} THEN NotFound ELSE Min(left)
    <2>1. CASE e = n + 1
      <3>1. left = {}
        BY <1>1, <1>4, <2>1
      <3> QED BY <2>1, <3>1 DEF x
    <2>2. CASE e # n + 1
      <3>1. e \in i..n /\ ty[e] = t
        BY <1>1, <2>2
      <3>2. S[e] \in left
        BY <1>4, <3>1
      <3>3. ASSUME NEW y \in left PROVE S[e] <= y /\ y \in Int
        <4>1. PICK j \in i..n : ty[j] = t /\ y = S[j]
          BY <1>4
        <4>2. ~(j < e) /\ j \in 1..(n + 1) /\ e \in 1..(n + 1)
          BY <1>1, <3>1, <4>1
        <4>3. S[e] \in Nat /\ S[j] \in Nat /\ (e < j => S[e] < S[j])
          BY <1>1, <4>2
        <4> QED BY <1>1, <4>1, <4>2, <4>3
      <3> HIDE DEF left
      <3>4. left \in SUBSET Int
        BY <3>3
      <3>5. Min(left) = S[e]
        BY <3>2, <3>3, <3>4, MinIs
      <3> QED BY <2>2, <3>2, <3>5 DEF x
    <2> QED BY <2>1, <2>2
  <1>6. InOrder(h, all)
    <2> SUFFICES ASSUME NEW k \in 1..(l + 1)
                 PROVE  LET rest == all \ {h[j] : j \in 1 .. k - 1}
                        IN  h[k] = IF rest = {} THEN NotFound ELSE Min(rest)
      BY <1>3 DEF InOrder
    <2>1. {h[j] : j \in 1 .. k - 1} = {g[j] : j \in 1 .. k - 1}
      <3>1. \A j \in 1 .. k - 1 : h[j] = g[j]
        BY <1>2, <1>3
      <3> QED BY <3>1
    <2>2. CASE k = l + 1
      <3>1. k - 1 = l
        BY <1>2, <2>2
      <3> HIDE DEF all
      <3> QED BY <1>3, <1>5, <2>1, <2>2, <3>1
    <2>3. CASE k # l + 1
      <3>1. k \in 1..l
        BY <1>2, <2>3
      <3>2. InOrder(g, all)
        BY DEF Given
      <3> HIDE DEF all
      <3> QED BY <1>3, <2>1, <3>1, <3>2 DEF InOrder
    <2> QED BY <2>2, <2>3
  <1>7. ASSUME NEW y PROVE y \in Of(S, ty, q - 1, t) <=> y \in Of(S, ty, i - 1, t) \/ (e # n + 1 /\ y = S[e])
    <2>1. CASE e = n + 1
      BY <2>1
    <2>2. CASE e # n + 1
      <3>1. q - 1 = e
        BY <1>1, <2>2
      <3>2. y \in Of(S, ty, e, t) <=> \E j \in 1..e : ty[j] = t /\ y = S[j]
        BY DEF Of
      <3>3. y \in Of(S, ty, i - 1, t) <=> \E j \in 1..(i - 1) : ty[j] = t /\ y = S[j]
        BY DEF Of
      <3>4. ASSUME NEW j \in 1..e, ty[j] = t PROVE j \in 1..(i - 1) \/ j = e
        BY <1>1, <3>4
      <3>5. \A j \in 1..(i - 1) : j \in 1..e
        BY <1>1
      <3>6. e \in 1..e /\ ty[e] = t
        BY <1>1, <2>2
      <3> QED BY <2>2, <3>1, <3>2, <3>3, <3>4, <3>5, <3>6
    <2> QED BY <2>1, <2>2
  <1> HIDE DEF q, all, left
  <1>8. ASSUME NEW k \in 1..(l + 1) PROVE h[k] = NotFound \/ h[k] \in Of(S, ty, q - 1, t)
    <2>1. CASE k = l + 1
      BY <1>3, <1>7, <2>1 DEF x
    <2>2. CASE k # l + 1
      <3>1. k \in 1..l
        BY <1>2, <2>2
      <3>2. g[k] = NotFound \/ g[k] \in Of(S, ty, i - 1, t)
        BY <1>3, <3>1 DEF Given
      <3> QED BY <1>3, <1>7, <3>1, <3>2
    <2> QED BY <2>1, <2>2
  <1>9. ASSUME NEW y \in Of(S, ty, q - 1, t) PROVE \E k \in 1..(l + 1) : h[k] = y
    <2>1. CASE y \in Of(S, ty, i - 1, t)
      <3>1. PICK k \in 1..l : g[k] = y
        BY <1>3, <2>1 DEF Given
      <3>2. k \in 1..(l + 1) /\ h[k] = y
        BY <1>2, <1>3, <3>1
      <3> QED BY <3>2
    <2>2. CASE e # n + 1 /\ y = S[e]
      <3>1. l + 1 \in 1..(l + 1) /\ h[l + 1] = y
        BY <1>2, <1>3, <2>2 DEF x
      <3> QED BY <3>1
    <2> QED BY <1>7, <2>1, <2>2
  <1>10. Given(h, S, ty, n, q, t)
    BY <1>3, <1>6, <1>8, <1>9 DEF Given, all
  <1> QED BY <1>10 DEF h, x, q

(* The state of a sequence of searches for the types: the cursor of each is at an option,
   I says at which one, and if it is at the first, no other is beyond an option of its type. *)
Asked(st, types, S, ty, n, I) ==
    /\ Laid(st.msg, S, ty, n) /\ I \in [types -> 1..(n + 1)]
    /\ \A t \in types : st.msg.mOptions[t] = S[I[t]] /\ Given(st.got[t], S, ty, n, I[t], t)
    /\ \A u, w \in types : I[u] = 1 => \A q \in 1..(I[w] - 1) : ty[q] # u

AskStates(types, S, ty, n) ==
    {st \in [msg : Messages, got : [types -> Seq(Int)]] : \E I : Asked(st, types, S, ty, n, I)}

(* One type is asked for, or the first option is of another one. *)
Apart(types, ty) == types \subseteq 0..255 /\ ((\A t, u \in types : t = u) \/ ty[1] \notin types)

(* What a search for t from option i to e may do to the cursor of type u. *)
Onward(old, new, ty, n, i, e, u) ==
    \/ new = old /\ (old = 1 => \A j \in i..LastSeen(n, e) : ty[j] # u)
    \/ /\ old = 1 /\ new \in i..LastSeen(n, e) /\ new # 1
       /\ \A k \in i..(new - 1) : ty[k] # u

(* What was given stays so when the cursor moves to the first option of its type. *)
LEMMA GivenStays ==
    ASSUME NEW S, NEW ty, NEW n \in Nat, NEW g, NEW u, Given(g, S, ty, n, 1, u),
           NEW j \in 1..(n + 1), \A q \in 1..(j - 1) : ty[q] # u
    PROVE  Given(g, S, ty, n, j, u)
  <1>1. Of(S, ty, 1 - 1, u) = {}
    BY DEF Of
  <1>2. Of(S, ty, j - 1, u) = {}
    BY DEF Of
  <1> QED BY <1>1, <1>2 DEF Given

(* The cursor of type u goes from option o onward, to the offset new. *)
GoesOn(S, ty, n, i, e, u, o, new) == \E j \in 1..(n + 1) : new = S[j] /\ Onward(o, j, ty, n, i, e, u)

(* Where the cursors of the other types are. *)
LEMMA OthersMove ==
    ASSUME NEW S, NEW ty, NEW n, Rising(S, n), NEW types, Apart(types, ty), NEW t \in types, NEW u \in types \ {t},
           NEW i \in 1..(n + 1), NEW e \in i..(n + 1), NEW o \in 1..(n + 1), NEW new,
           Moved(S[o], new, S, ty, n, i, e, u)
    PROVE  GoesOn(S, ty, n, i, e, u, o, new)
  <1> DEFINE l == LastSeen(n, e)
  <1>1. /\ n \in Nat /\ S \in [1..(n + 1) -> Nat] /\ S[1] = 0 /\ o \in Nat /\ i \in Nat
        /\ \A k, j \in 1..(n + 1) : k < j => S[k] < S[j]
    BY DEF Rising
  <1>2. l \in Nat /\ l <= n
    BY <1>1 DEF LastSeen
  <1>3. S[o] = 0 <=> o = 1
    <2>1. 1 \in 1..(n + 1) /\ S[o] \in Nat
      BY <1>1
    <2> QED BY <1>1, <2>1
  <1> HIDE DEF l
  <1>4. CASE S[o] # 0 /\ new = S[o]
    BY <1>3, <1>4 DEF Onward, GoesOn
  <1>5. CASE S[o] = 0 /\ new = 0 /\ \A j \in i..l : ty[j] # u
    BY <1>3, <1>5 DEF Onward, GoesOn, l
  <1>6. CASE S[o] = 0 /\ \E j \in i..l : ty[j] = u /\ new = S[j] /\ \A k \in i..(j - 1) : ty[k] # u
    <2>1. PICK j \in i..l : ty[j] = u /\ new = S[j] /\ \A k \in i..(j - 1) : ty[k] # u
      BY <1>6
    <2>2. j \in 1..(n + 1)
      BY <1>1, <1>2
    <2>3. j # 1
      BY <2>1 DEF Apart
    <2>4. Onward(o, j, ty, n, i, e, u)
      BY <1>3, <1>6, <2>1, <2>3 DEF Onward, l
    <2> QED BY <2>1, <2>2, <2>4 DEF GoesOn
  <1> QED BY <1>4, <1>5, <1>6 DEF Moved, l

(* The invariant of a sequence of searches. *)
LEMMA AskKeeps ==
    ASSUME NEW S, NEW ty, NEW n, NEW types, Apart(types, ty), NEW st \in AskStates(types, S, ty, n), NEW t \in types
    PROVE  Ask(st, t) \in AskStates(types, S, ty, n)
  <1> DEFINE m == st.msg
             r == search_subopt(m, t)
             c == r.msg.mOptions
             g == [st.got EXCEPT ![t] = Append(@, r.offset)]
  <1>1. PICK I : Asked(st, types, S, ty, n, I)
    BY DEF AskStates
  <1>2. st \in [msg : Messages, got : [types -> Seq(Int)]] /\ m \in Messages /\ st.got \in [types -> Seq(Int)]
    BY DEF AskStates
  <1>3. /\ Laid(m, S, ty, n) /\ I \in [types -> 1..(n + 1)]
        /\ \A u \in types : m.mOptions[u] = S[I[u]] /\ Given(st.got[u], S, ty, n, I[u], u)
        /\ \A u, w \in types : I[u] = 1 => \A q \in 1..(I[w] - 1) : ty[q] # u
    BY <1>1 DEF Asked
  <1>4. Rising(S, n) /\ n \in Nat
    BY <1>3, OffsetsRise DEF Rising
  <1> DEFINE i == I[t]
  <1>5. i \in 1..(n + 1) /\ t \in 0..255 /\ i \in Nat
    BY <1>3, <1>4 DEF Apart
  <1>6. PICK e : FirstFrom(ty, n, i, t, e)
    BY <1>4, <1>5, FirstExists
  <1>7. /\ e \in i..(n + 1) /\ e \in Nat /\ \A j \in i..(e - 1) : ty[j] # t
    BY <1>4, <1>5, <1>6 DEF FirstFrom
  <1>8. /\ r.msg \in Messages /\ Laid(r.msg, S, ty, n)
        /\ r.offset = IF e = n + 1 THEN NotFound ELSE S[e]
        /\ c[t] = IF e = n + 1 THEN S[i] ELSE S[e + 1]
        /\ \A u \in 0..255 \ {t, ty[1]} : Moved(m.mOptions[u], c[u], S, ty, n, i, e, u)
    <2> HIDE DEF i, m
    <2>1. m.mOptions[t] = S[i]
      BY <1>3 DEF i
    <2>2. Finds(search_subopt(m, t), m, S, ty, n, t, i, e)
      BY ONLY <1>2, <1>3, <1>5, <1>6, <2>1, SearchFinds
    <2> HIDE DEF r
    <2>3. Finds(r, m, S, ty, n, t, i, e)
      BY <2>2 DEF r
    <2> QED BY ONLY <2>3 DEF Finds, c
  <1> HIDE DEF m, r
  <1>9. Ask(st, t) = [msg |-> r.msg, got |-> g]
    BY DEF Ask, r, m
  <1> DEFINE Goes(u, j) == c[u] = S[j] /\ Onward(I[u], j, ty, n, i, e, u)
             last == IF e = n + 1 THEN i ELSE e + 1
             J == [u \in types |-> IF u = t THEN last ELSE CHOOSE j \in 1..(n + 1) : Goes(u, j)]
  <1>10. ASSUME NEW u \in types \ {t} PROVE J[u] \in 1..(n + 1) /\ Goes(u, J[u])
    <2>1. u \in 0..255 \ {t, ty[1]} /\ m.mOptions[u] = S[I[u]] /\ I[u] \in 1..(n + 1)
      BY <1>3 DEF Apart
    <2>2. Moved(S[I[u]], c[u], S, ty, n, i, e, u)
      BY <1>8, <2>1
    <2>3. \E j \in 1..(n + 1) : Goes(u, j)
      <3> DEFINE o == I[u]
                 new == c[u]
      <3> HIDE DEF c, i, o, new
      <3>1. o \in 1..(n + 1) /\ Moved(S[o], new, S, ty, n, i, e, u) /\ e \in i..(n + 1)
        BY <1>7, <2>1, <2>2 DEF o, new
      <3>2. GoesOn(S, ty, n, i, e, u, o, new)
        <4>1. Rising(S, n) /\ i \in 1..(n + 1)
          BY ONLY <1>4, <1>5
        <4> HIDE DEF g, Goes, last, J
        <4> QED BY ONLY <3>1, <4>1, Apart(types, ty), t \in types, u \in types \ {t}, OthersMove
      <3> QED BY ONLY <3>2 DEF GoesOn, Goes, o, new
    <2> HIDE DEF Goes
    <2> QED BY <2>3
  <1>11. J[t] = last /\ last \in 1..(n + 1)
    BY <1>4, <1>5, <1>7
  <1>12. J \in [types -> 1..(n + 1)]
    BY <1>10, <1>11
  <1> HIDE DEF J, g
  <1>13. g \in [types -> Seq(Int)] /\ g[t] = Append(st.got[t], r.offset) /\ \A u \in types \ {t} : g[u] = st.got[u]
    <2>1. r.offset \in Int
      <3>1. CASE e = n + 1
        BY <1>8, <3>1 DEF NotFound
      <3>2. CASE e # n + 1
        <4>1. e \in 1..(n + 1) /\ S \in [1..(n + 1) -> Nat]
          BY <1>4, <1>5, <1>7 DEF Rising
        <4>2. S[e] \in Int
          BY <4>1
        <4> QED BY <1>8, <3>2, <4>2
      <3> QED BY <3>1, <3>2
    <2>2. st.got[t] \in Seq(Int)
      BY <1>2
    <2>3. Append(st.got[t], r.offset) \in Seq(Int)
      BY ONLY <2>1, <2>2
    <2> QED BY <1>2, <2>3 DEF g
  <1>14. Given(g[t], S, ty, n, J[t], t)
    <2>1. Given(st.got[t], S, ty, n, i, t)
      BY <1>3
    <2> HIDE DEF i
    <2>2. Given(Append(st.got[t], IF e = n + 1 THEN NotFound ELSE S[e]), S, ty, n, IF e = n + 1 THEN i ELSE e + 1, t)
      BY ONLY <1>4, <1>5, <1>6, <2>1, GivenNext
    <2> QED BY <1>8, <1>11, <1>13, <2>2
  <1>15. ASSUME NEW u \in types \ {t} PROVE Given(g[u], S, ty, n, J[u], u)
    <2>1. Given(st.got[u], S, ty, n, I[u], u) /\ g[u] = st.got[u]
      BY <1>3, <1>13
    <2>2. CASE J[u] = I[u]
      BY <2>1, <2>2
    <2>3. CASE J[u] # I[u]
      <3>1. I[u] = 1 /\ J[u] \in 1..(n + 1) /\ \A k \in i..(J[u] - 1) : ty[k] # u
        BY <1>10, <2>3 DEF Onward
      <3>2. \A q \in 1..(i - 1) : ty[q] # u
        BY <1>3, <3>1
      <3>3. \A q \in 1..(J[u] - 1) : ty[q] # u
        <4> DEFINE j == J[u]
        <4>1. j \in Nat
          BY <1>4, <3>1
        <4> HIDE DEF j, i
        <4> SUFFICES ASSUME NEW q \in 1..(j - 1) PROVE ty[q] # u
          BY DEF j
        <4>2. q \in 1..(i - 1) \/ q \in i..(j - 1)
          BY <1>5, <4>1
        <4> QED BY <3>1, <3>2, <4>2 DEF j
      <3> QED BY <1>4, <2>1, <3>1, <3>3, GivenStays
    <2> QED BY <2>2, <2>3
  <1>16. ASSUME NEW u \in types, NEW w \in types, J[u] = 1, NEW q \in 1..(J[w] - 1) PROVE ty[q] # u
    <2> DEFINE k == J[w]
    <2>0. k \in 1..(n + 1) /\ k \in Nat /\ q \in 1..n /\ q \in Nat
      BY <1>4, <1>12
    <2>1. CASE u = t
      <3>1. e = n + 1 /\ i = 1
        <4>1. last = 1
          BY <1>11, <1>16, <2>1
        <4>2. i >= 1 /\ e >= i
          BY <1>5, <1>7
        <4> HIDE DEF i
        <4> QED BY <1>4, <1>5, <1>7, <4>1, <4>2
      <3> QED BY <1>7, <2>0, <2>1, <3>1
    <2>2. CASE u # t
      <3>1. I[u] = 1 /\ \A j \in i..LastSeen(n, e) : ty[j] # u
        BY <1>10, <1>16, <2>2 DEF Onward
      <3>2. \A v \in types : \A p \in 1..(I[v] - 1) : ty[p] # u
        BY <1>3, <3>1
      <3>3. CASE q < i
        BY <1>5, <2>0, <3>2, <3>3
      <3>4. CASE q >= i /\ q <= LastSeen(n, e)
        <4>1. q \in i..LastSeen(n, e)
          BY <1>4, <1>5, <1>7, <2>0, <3>4 DEF LastSeen
        <4> QED BY <3>1, <4>1
      <3>5. CASE q > LastSeen(n, e)
        <4>1. w # t
          BY <1>4, <1>5, <1>7, <1>11, <2>0, <3>5 DEF LastSeen
        <4>2. ~(J[w] \in i..LastSeen(n, e))
          BY <1>4, <1>5, <1>7, <2>0, <3>5 DEF LastSeen
        <4>3. J[w] = I[w]
          BY <1>10, <4>1, <4>2 DEF Onward
        <4> QED BY <3>2, <4>3
      <3> QED BY <1>4, <1>5, <1>7, <2>0, <3>3, <3>4, <3>5 DEF LastSeen
    <2> QED BY <2>1, <2>2
  <1> DEFINE new == [msg |-> r.msg, got |-> g]
  <1>17. new.msg = r.msg /\ new.got = g /\ new \in [msg : Messages, got : [types -> Seq(Int)]]
    BY <1>8, <1>13
  <1> HIDE DEF new, i, last, Goes
  <1>18. ASSUME NEW u \in types PROVE c[u] = S[J[u]] /\ Given(g[u], S, ty, n, J[u], u)
    <2>1. CASE u = t
      BY <1>8, <1>11, <1>14, <2>1 DEF last
    <2>2. CASE u # t
      BY <1>10, <1>15, <2>2 DEF Goes
    <2> QED BY <2>1, <2>2
  <1> HIDE DEF c
  <1>19. Asked(new, types, S, ty, n, J)
    BY <1>8, <1>12, <1>16, <1>17, <1>18 DEF Asked, c
  <1>20. new \in AskStates(types, S, ty, n)
    BY <1>17, <1>19 DEF AskStates
  <1> QED BY <1>9, <1>20 DEF new

(* y is x and then p. *)
Extended(x, y, p, E) ==
    /\ x \in Seq(E) /\ y \in Seq(E) /\ p \in Seq(E)
    /\ Len(x) \in Nat /\ Len(y) \in Nat /\ Len(p) \in Nat /\ Len(y) = Len(x) + Len(p)
    /\ \A k \in 1..Len(x) : y[k] = x[k]
    /\ \A k \in 1..Len(p) : y[Len(x) + k] = p[k]

(* The lengths of what is joined, and where its parts are. *)
LEMMA FlatLengths ==
    ASSUME NEW E, NEW ss, ss \in Seq(Seq(E)), NEW r, FlatRun(r, E, ss), NEW i, i \in 1..Len(ss)
    PROVE  Extended(r[i - 1], r[i], ss[i], E)
  <1> DEFINE s == r[i - 1]
             t == ss[i]
             T == Seq(E)
             n == Len(ss)
  <1>1. n \in Nat /\ ss[i] \in T
    OBVIOUS
  <1>2. r \in [0..n -> T] /\ \A k \in 1..n : r[k] = r[k - 1] \o ss[k]
    BY DEF FlatRun
  <1>3. i \in 1..n
    OBVIOUS
  <1> HIDE DEF T, n
  <1>4. s \in T /\ t \in T /\ r[i] = s \o t
    <2>1. i - 1 \in 0..n
      BY ONLY <1>1, <1>3
    <2>2. r[i - 1] \in T
      BY ONLY <1>2, <2>1
    <2>3. r[i] = r[i - 1] \o ss[i]
      BY ONLY <1>2, <1>3
    <2> QED BY ONLY <1>1, <2>2, <2>3
  <1>5. s \in Seq(E) /\ t \in Seq(E)
    BY ONLY <1>4 DEF T
  <1> HIDE DEF s, t
  <1>6. /\ s \o t \in Seq(E) /\ Len(s \o t) = Len(s) + Len(t)
        /\ \A k \in 1..Len(s) : (s \o t)[k] = s[k]
        /\ \A k \in 1..Len(t) : (s \o t)[Len(s) + k] = t[k]
    BY ONLY <1>5, ConcatAt
  <1>7. Len(s) \in Nat /\ Len(t) \in Nat /\ Len(s \o t) \in Nat
    BY ONLY <1>5, <1>6
  <1> DEFINE x == s \o t
  <1>8. r[i] = x
    BY <1>4
  <1> HIDE DEF x
  <1>9. Extended(s, x, t, E)
    BY ONLY <1>5, <1>6, <1>7 DEF x, Extended
  <1> QED BY <1>8, <1>9 DEF s, t

(* x has part p behind its first a elements. *)
HasPart(x, E, a, p) ==
    /\ x \in Seq(E) /\ Len(x) \in Nat /\ a + Len(p) <= Len(x)
    /\ \A k \in 1..Len(p) : x[a + k] = p[k]

(* Every part is there in all that is joined. *)
LEMMA FlatAt ==
    ASSUME NEW E, NEW ss, ss \in Seq(Seq(E)), NEW r, FlatRun(r, E, ss),
           NEW i, i \in 1..Len(ss), NEW j, j \in i..Len(ss)
    PROVE  HasPart(r[j], E, Len(r[i - 1]), ss[i])
  <1> DEFINE n == Len(ss)
             a == Len(r[i - 1])
             p == ss[i]
             l == Len(p)
             P == {k \in 0..(n - i) : HasPart(r[i + k], E, a, p)}
  <1>1. n \in Nat /\ n - i \in Nat /\ i \in Nat /\ i \in 1..n
    OBVIOUS
  <1>2. Extended(r[i - 1], r[i], p, E)
    BY ONLY ss \in Seq(Seq(E)), FlatRun(r, E, ss), i \in 1..Len(ss), FlatLengths
  <1>3. a \in Nat /\ l \in Nat
    BY ONLY <1>2 DEF Extended
  <1>4. 0 \in P
    <2>1. HasPart(r[i], E, a, p)
      <3> DEFINE x == r[i - 1]
                 y == r[i]
      <3> HIDE DEF x, y, p
      <3>1. Extended(x, y, p, E)
        BY ONLY <1>2 DEF x, y
      <3>2. HasPart(y, E, Len(x), p)
        BY ONLY <3>1 DEF Extended, HasPart
      <3> QED BY <3>2 DEF x, y
    <2> QED BY ONLY <1>1, <2>1, i + 0 = i
  <1>5. ASSUME NEW k \in 1..(n - i), k - 1 \in P PROVE k \in P
    <2> DEFINE q == i + k
               x == r[q - 1]
               y == r[q]
    <2>1. q \in 1..n /\ q - 1 = i + (k - 1) /\ k \in 0..(n - i)
      BY <1>1
    <2>2. HasPart(x, E, a, p)
      BY <1>5, <2>1
    <2> HIDE DEF q
    <2>3. Extended(x, y, ss[q], E)
      BY ONLY ss \in Seq(Seq(E)), FlatRun(r, E, ss), <2>1, FlatLengths
    <2>4. /\ y \in Seq(E) /\ Len(x) \in Nat /\ Len(y) \in Nat /\ Len(y) >= Len(x)
          /\ \A c \in 1..Len(x) : y[c] = x[c]
      <3> DEFINE z == ss[q]
      <3> HIDE DEF x, y, z
      <3>1. Extended(x, y, z, E)
        BY <2>3 DEF z
      <3> QED BY ONLY <3>1 DEF Extended
    <2> HIDE DEF a, l, x, y, p
    <2>5. /\ a + l <= Len(x) /\ \A c \in 1..l : x[a + c] = p[c]
      BY ONLY <2>2 DEF HasPart, l
    <2>6. a + l <= Len(y)
      BY ONLY <1>3, <2>4, <2>5
    <2>7. ASSUME NEW c \in 1..l PROVE y[a + c] = p[c]
      <3>1. a + c \in 1..Len(x)
        BY ONLY <1>3, <2>4, <2>5, c \in 1..l
      <3> QED BY ONLY <2>4, <2>5, <3>1, c \in 1..l
    <2>8. HasPart(y, E, a, p)
      BY ONLY <2>4, <2>6, <2>7 DEF HasPart, l
    <2> QED BY ONLY <2>1, <2>8 DEF q, y
  <1>6. \A k \in 0..(n - i) : k \in P
    <2> HIDE DEF P
    <2> QED BY ONLY <1>1, <1>4, <1>5, UpToInduction
  <1>7. j - i \in 0..(n - i) /\ i + (j - i) = j
    BY <1>1
  <1>8. j - i \in P
    BY ONLY <1>6, <1>7
  <1>9. HasPart(r[i + (j - i)], E, a, p)
    BY ONLY <1>8
  <1> QED BY ONLY <1>7, <1>9

(* The beginning of a sequence of sequences is joined to the beginning. *)
LEMMA FlatPrefix ==
    ASSUME NEW E, NEW ss \in Seq(Seq(E)), NEW r, FlatRun(r, E, ss), NEW i \in 0..Len(ss)
    PROVE  FlattenSeq(SubSeq(ss, 1, i)) = r[i]
  <1> DEFINE tt == SubSeq(ss, 1, i)
             T == Seq(E)
  <1>1. Len(ss) \in Nat /\ i \in Nat
    OBVIOUS
  <1>2. tt \in Seq(T) /\ Len(tt) = i /\ \A k \in 1..i : tt[k] = ss[k]
    <2>1. ss \in Seq(T)
      OBVIOUS
    <2> HIDE DEF T
    <2> QED BY <1>1, <2>1
  <1> HIDE DEF tt
  <1>3. PICK q : FlatRun(q, E, tt) /\ FlattenSeq(tt) = q[Len(tt)]
    BY <1>2, FlattenRun
  <1> DEFINE P == {k \in 0..i : q[k] = r[k]}
  <1>4. 0 \in P
    BY <1>1, <1>3 DEF FlatRun
  <1>5. ASSUME NEW k \in 1..i, k - 1 \in P PROVE k \in P
    <2>1. k \in 1..Len(ss) /\ k \in 1..Len(tt)
      BY <1>1, <1>2
    <2>2. q[k] = q[k - 1] \o tt[k] /\ r[k] = r[k - 1] \o ss[k]
      BY <1>3, <2>1 DEF FlatRun
    <2>3. q[k - 1] = r[k - 1] /\ tt[k] = ss[k]
      BY <1>2, <1>5
    <2>4. q[k] = r[k]
      BY ONLY <2>2, <2>3
    <2> QED BY <2>4
  <1>6. \A k \in 0..i : k \in P
    <2> HIDE DEF P
    <2> QED BY <1>1, <1>4, <1>5, UpToInduction
  <1>7. q[i] = r[i]
    BY <1>1, <1>6
  <1> QED BY <1>2, <1>3, <1>7 DEF tt

(* Options as they are in a message, of every type, length and content, and single bytes of
   padding. *)
OptionBytes == {o \in Seq(Byte256) : o = <<PAD0>> \/ (Len(o) >= 3 /\ o[1] # PAD0 /\ o[2] = Len(o) - 2)}

(* b has what is joined in r, and then z zeros, the last two of which are not looked at; it fits into
   mBytes. *)
Padded(b, r, opts, z) ==
    LET a == r[Len(opts)]
    IN  /\ b \in Seq(Byte256) /\ z \in Nat /\ Len(b) = Len(a) + z /\ Len(b) <= BuffLen
        /\ \A k \in 1..Len(a) : b[k] = a[k]
        /\ \A k \in (Len(a) + 1)..Len(b) : b[k] = PAD0
        /\ z >= 2 \/ \A i \in 1..Len(opts) : Len(opts[i]) >= 3

(* How many options such bytes have with the padding, where they are and of which type. *)
Count(opts, z) == Len(opts) + (IF z > 2 THEN z - 2 ELSE 0)
Starts(r, opts, z) ==
    [i \in 1..(Count(opts, z) + 1) |->
        IF i <= Len(opts) + 1 THEN Len(r[i - 1]) ELSE Len(r[Len(opts)]) + (i - Len(opts) - 1)]
Types(opts, z) == [i \in 1..Count(opts, z) |-> IF i <= Len(opts) THEN opts[i][1] ELSE PAD0]

(* A message that fits is not cut off. *)
LEMMA DecodeIs ==
    ASSUME NEW b, b \in Seq(Byte256), Len(b) <= BuffLen
    PROVE  Decode(b) = [bytes |-> b, mOptions |-> [t \in 0..255 |-> 0]]
  <1>1. SubSeq(b, 1, Len(b)) = b
    OBVIOUS
  <1>2. ~(Len(b) > BuffLen)
    BY OptionsAssumption
  <1> QED BY <1>1, <1>2 DEF Decode

(* Options one behind the other, and padding. *)
LEMMA LaidFlat ==
    ASSUME NEW opts, opts \in Seq(OptionBytes), NEW r, FlatRun(r, Byte256, opts), NEW b, NEW z, Padded(b, r, opts, z)
    PROVE  Decode(b) \in Messages /\ Laid(Decode(b), Starts(r, opts, z), Types(opts, z), Count(opts, z))
  <1> DEFINE n == Len(opts)
             c == Count(opts, z)
             a == r[n]
             m == Decode(b)
             S == Starts(r, opts, z)
             ty == Types(opts, z)
             T == Seq(Byte256)
  <1>1. n \in Nat /\ opts \in Seq(Seq(Byte256)) /\ \A i \in 1..n : opts[i] \in OptionBytes
    <2> DEFINE O == OptionBytes
    <2>1. O \subseteq T
      BY DEF OptionBytes
    <2>2. opts \in Seq(O)
      OBVIOUS
    <2> HIDE DEF O, T
    <2>3. n \in Nat /\ opts \in Seq(T) /\ \A i \in 1..n : opts[i] \in O
      BY ONLY <2>1, <2>2
    <2> QED BY ONLY <2>3 DEF O, T
  <1>2. r \in [0..n -> T] /\ r[0] = <<>>
    BY DEF FlatRun
  <1>4. a \in Seq(Byte256)
    <2> HIDE DEF T, n
    <2>1. a \in T
      BY ONLY <1>1, <1>2
    <2> QED BY ONLY <2>1 DEF T
  <1> HIDE DEF a
  <1>5. /\ b \in Seq(Byte256) /\ Len(b) = Len(a) + z /\ Len(a) \in Nat /\ z \in Nat
        /\ \A i \in 1..Len(a) : b[i] = a[i]
        /\ \A k \in (Len(a) + 1)..Len(b) : b[k] = PAD0
        /\ z >= 2 \/ \A i \in 1..n : Len(opts[i]) >= 3
    <2>1. Len(a) \in Nat
      BY ONLY <1>4
    <2> QED BY ONLY <2>1, Padded(b, r, opts, z) DEF Padded, a
  <1>6. m \in Messages /\ m.bytes = b
    <2>1. m = [bytes |-> b, mOptions |-> [t \in 0..255 |-> 0]]
      BY ONLY <1>5, Padded(b, r, opts, z), DecodeIs DEF Padded
    <2> QED BY ONLY <1>5, <2>1 DEF Messages, Cursor
  <1> HIDE DEF m
  <1>7. ASSUME NEW i, i \in 1..n
        PROVE  /\ Len(r[i - 1]) \in Nat /\ Len(r[i]) \in Nat /\ Len(r[i]) <= Len(a)
               /\ Looks(m, Len(r[i - 1])) /\ At(m, Len(r[i - 1])) = opts[i][1]
               /\ Len(r[i]) = Len(r[i - 1]) + SkipLen(m, Len(r[i - 1])) /\ Len(r[i - 1]) < Len(r[i])
    <2> DEFINE o == opts[i]
               l == Len(o)
               s == Len(r[i - 1])
               e == Len(r[i])
    <2>1. HasPart(a, Byte256, s, o)
      <3>1. n \in i..n
        BY ONLY <1>1, <1>7
      <3>2. HasPart(r[n], Byte256, Len(r[i - 1]), opts[i])
        BY ONLY <1>1, <1>7, <3>1, FlatRun(r, Byte256, opts), FlatAt
      <3> QED BY <3>2 DEF a
    <2>2. Extended(r[i - 1], r[i], o, Byte256)
      BY ONLY <1>1, <1>7, FlatRun(r, Byte256, opts), FlatLengths
    <2>3. s \in Nat /\ e \in Nat /\ l \in Nat /\ e = s + l
      BY ONLY <2>2 DEF Extended
    <2>4. o \in OptionBytes /\ (z >= 2 \/ l >= 3)
      BY ONLY <1>1, <1>5, <1>7
    <2> HIDE DEF o, s, e, a
    <2>5. s + l <= Len(a) /\ \A k \in 1..l : a[s + k] = o[k]
      BY ONLY <2>1 DEF HasPart
    <2>6. ASSUME NEW k, k \in 1..l PROVE b[s + k] = o[k]
      <3>1. s + k \in 1..Len(a)
        BY ONLY <1>5, <2>3, <2>5, <2>6
      <3>2. b[s + k] = a[s + k] /\ a[s + k] = o[k]
        BY ONLY <1>5, <2>5, <2>6, <3>1
      <3> QED BY ONLY <3>2
    <2>7. Len(b) - s > 2
      <3>1. l >= 1
        <4>1. CASE o = <<PAD0>>
          <5>1. Len(<<PAD0>>) = 1
            OBVIOUS
          <5> QED BY <4>1, <5>1
        <4>2. CASE o # <<PAD0>>
          BY ONLY <2>3, <2>4, <4>2 DEF OptionBytes
        <4> QED BY ONLY <4>1, <4>2
      <3> QED BY ONLY <1>5, <2>3, <2>4, <2>5, <3>1
    <2>8. CASE o = <<PAD0>>
      <3>1. l = 1 /\ o[1] = PAD0
        BY <2>8
      <3>2. b[s + 1] = PAD0
        <4>1. 1 \in 1..l
          BY ONLY <3>1
        <4> QED BY ONLY <2>6, <3>1, <4>1
      <3>3. At(m, s) = PAD0
        BY ONLY <1>6, <3>2 DEF At
      <3>4. SkipLen(m, s) = 1 /\ Looks(m, s)
        BY ONLY <1>6, <2>7, <3>3 DEF SkipLen, Looks
      <3> QED BY ONLY <1>5, <2>3, <2>5, <3>1, <3>3, <3>4 DEF s, e, o
    <2>9. CASE o # <<PAD0>>
      <3>1. l >= 3 /\ o[1] # PAD0 /\ o[2] = l - 2
        BY ONLY <2>4, <2>9 DEF OptionBytes
      <3>2. b[s + 1] = o[1] /\ b[s + 2] = o[2]
        <4>1. 1 \in 1..l /\ 2 \in 1..l
          BY ONLY <2>3, <3>1
        <4> QED BY ONLY <2>6, <4>1
      <3>3. At(m, s) = o[1] /\ At(m, s + 1) = o[2]
        <4>1. s + 1 + 1 = s + 2
          BY ONLY <2>3
        <4> QED BY ONLY <1>6, <3>2, <4>1 DEF At
      <3>4. SkipLen(m, s) = l - 2 + 2 /\ Looks(m, s)
        BY ONLY <1>6, <2>3, <2>7, <3>1, <3>3 DEF SkipLen, Looks
      <3> HIDE DEF l
      <3>5. SkipLen(m, s) = l
        BY ONLY <2>3, <3>4
      <3> QED BY ONLY <1>5, <2>3, <2>5, <3>1, <3>3, <3>4, <3>5 DEF s, e, o
    <2> QED BY ONLY <2>8, <2>9
  <1>8. Len(r[0]) = 0
    BY <1>2
  <1>9. ASSUME NEW i, i \in 1..(n + 1) PROVE Len(r[i - 1]) \in 0..Len(a)
    <2>1. CASE i = 1
      BY ONLY <1>5, <1>8, <2>1
    <2>2. CASE i # 1
      <3>1. i - 1 \in 1..n
        BY ONLY <1>1, <1>9, <2>2
      <3>2. Len(r[i - 1]) \in Nat /\ Len(r[i - 1]) <= Len(a)
        BY ONLY <1>7, <3>1
      <3> QED BY ONLY <1>5, <3>2
    <2> QED BY ONLY <2>1, <2>2
  <1>10. c \in Nat /\ c >= n /\ (z > 2 => c = n + z - 2) /\ (z <= 2 => c = n)
    BY ONLY <1>1, <1>5 DEF Count, c
  <1> HIDE DEF c, n
  <1>11. /\ \A i \in 1..(c + 1) : S[i] = IF i <= n + 1 THEN Len(r[i - 1]) ELSE Len(a) + (i - n - 1)
         /\ S = [i \in 1..(c + 1) |-> S[i]]
         /\ \A i \in 1..c : ty[i] = IF i <= n THEN opts[i][1] ELSE PAD0
    BY DEF Starts, Types, S, ty, c, n, a
  <1> HIDE DEF S, ty
  <1>12. S[n + 1] = Len(a)
    <2>1. n + 1 \in 1..(c + 1) /\ n + 1 <= n + 1 /\ n + 1 - 1 = n
      BY ONLY <1>1, <1>10
    <2> DEFINE q == n + 1
    <2>2. q \in 1..(c + 1) /\ q <= n + 1 /\ r[q - 1] = a
      <3>1. q - 1 = n
        BY ONLY <1>1
      <3> QED BY ONLY <2>1, <3>1 DEF a
    <2> HIDE DEF q
    <2>3. S[q] = Len(a)
      BY ONLY <1>11, <2>2
    <2> QED BY ONLY <2>3 DEF q
  <1>13. ASSUME NEW i, i \in (n + 1)..(c + 1) PROVE S[i] = Len(a) + (i - n - 1)
    <2>1. CASE i = n + 1
      <3>1. i - n - 1 = 0
        BY ONLY <1>1, <2>1
      <3>2. Len(a) + 0 = Len(a)
        BY ONLY <1>5
      <3> QED BY ONLY <1>12, <2>1, <3>1, <3>2
    <2>2. CASE i # n + 1
      <3>1. i \in 1..(c + 1) /\ ~(i <= n + 1)
        BY ONLY <1>1, <1>10, <1>13, <2>2
      <3> QED BY ONLY <1>11, <3>1
    <2> QED BY ONLY <2>1, <2>2
  <1>14. ASSUME NEW i, i \in (n + 1)..(c + 1) PROVE S[i] \in 0..Len(b)
    <2>1. S[i] = Len(a) + (i - n - 1)
      BY ONLY <1>13, <1>14
    <2>2. i \in Nat /\ i >= n + 1 /\ i <= c + 1
      BY ONLY <1>1, <1>10, <1>14
    <2>3. i - n - 1 <= z
      BY ONLY <1>1, <1>5, <1>10, <2>2
    <2> QED BY ONLY <1>1, <1>5, <2>1, <2>2, <2>3
  <1>15. S \in [1..(c + 1) -> 0..Len(b)] /\ S[1] = 0
    <2>1. ASSUME NEW i, i \in 1..(c + 1) PROVE S[i] \in 0..Len(b)
      <3>1. CASE i <= n + 1
        <4>1. S[i] = Len(r[i - 1]) /\ i \in 1..(n + 1)
          BY ONLY <1>1, <1>10, <1>11, <2>1, <3>1
        <4>2. S[i] \in 0..Len(a)
          BY ONLY <1>9, <4>1
        <4> QED BY ONLY <1>5, <4>2
      <3>2. CASE ~(i <= n + 1)
        <4>1. i \in (n + 1)..(c + 1)
          BY ONLY <1>1, <1>10, <2>1, <3>2
        <4> QED BY ONLY <1>14, <4>1
      <3> QED BY ONLY <3>1, <3>2
    <2>2. S[1] = 0
      <3>1. 1 \in 1..(c + 1) /\ 1 <= n + 1 /\ 1 - 1 = 0
        BY ONLY <1>1, <1>10
      <3> QED BY ONLY <1>8, <1>11, <3>1
    <2> QED BY ONLY <1>11, <2>1, <2>2
  <1>16. ASSUME NEW i, i \in 1..c
         PROVE  /\ Looks(m, S[i]) /\ At(m, S[i]) = ty[i]
                /\ S[i + 1] = S[i] + SkipLen(m, S[i]) /\ S[i] < S[i + 1]
    <2>1. CASE i <= n
      <3>1. i \in 1..(c + 1) /\ i + 1 \in 1..(c + 1) /\ i + 1 - 1 = i /\ i <= n + 1 /\ i + 1 <= n + 1 /\ i \in 1..n
        BY ONLY <1>1, <1>10, <1>16, <2>1
      <3>2. S[i] = Len(r[i - 1]) /\ S[i + 1] = Len(r[i]) /\ ty[i] = opts[i][1]
        BY ONLY <1>11, <1>16, <2>1, <3>1
      <3> QED BY ONLY <1>7, <3>1, <3>2
    <2>2. CASE ~(i <= n)
      <3>1. i \in (n + 1)..(c + 1) /\ i + 1 \in (n + 1)..(c + 1)
        BY ONLY <1>1, <1>10, <1>16, <2>2
      <3>2. S[i] = Len(a) + (i - n - 1) /\ S[i + 1] = Len(a) + (i + 1 - n - 1) /\ ty[i] = PAD0
        <4>1. S[i] = Len(a) + (i - n - 1)
          BY ONLY <1>13, <3>1
        <4> DEFINE q == i + 1
        <4>2. q \in (n + 1)..(c + 1)
          BY ONLY <3>1
        <4> HIDE DEF q
        <4>3. S[q] = Len(a) + (q - n - 1)
          BY ONLY <1>13, <4>2
        <4>4. ty[i] = PAD0
          BY ONLY <1>11, <1>16, <2>2
        <4> QED BY ONLY <1>1, <1>5, <1>10, <1>16, <4>1, <4>3, <4>4 DEF q
      <3>3. z > 2 /\ c = n + z - 2
        BY ONLY <1>1, <1>5, <1>10, <1>16, <2>2
      <3>4. S[i] + 1 \in (Len(a) + 1)..Len(b) /\ Len(b) - S[i] > 2 /\ S[i + 1] = S[i] + 1 /\ S[i] < S[i + 1]
        BY ONLY <1>1, <1>5, <1>16, <2>2, <3>2, <3>3
      <3>5. At(m, S[i]) = PAD0
        BY ONLY <1>5, <1>6, <3>4 DEF At
      <3> QED BY ONLY <1>6, <3>2, <3>4, <3>5 DEF Looks, SkipLen
    <2> QED BY ONLY <2>1, <2>2
  <1>17. ~Looks(m, S[c + 1])
    <2>1. c + 1 \in (n + 1)..(c + 1)
      BY ONLY <1>1, <1>10
    <2> DEFINE q == c + 1
    <2>4. q \in (n + 1)..(c + 1)
      BY ONLY <2>1
    <2> HIDE DEF q
    <2>5. S[q] = Len(a) + (q - n - 1)
      BY ONLY <1>13, <2>4
    <2>2. S[c + 1] = Len(a) + (c + 1 - n - 1)
      BY ONLY <1>1, <1>5, <1>10, <2>5 DEF q
    <2>3. ~(Len(b) - S[c + 1] > 2)
      BY ONLY <1>1, <1>5, <1>10, <2>2
    <2> QED BY ONLY <1>6, <2>3 DEF Looks
  <1>18. Laid(m, S, ty, c)
    BY ONLY <1>5, <1>6, <1>10, <1>15, <1>16, <1>17 DEF Laid
  <1> QED BY <1>6, <1>18 DEF m, S, ty, c

AskFn(types, S, ty, n) ==
    [st \in AskStates(types, S, ty, n) |-> [t \in types |-> Ask(st, t)]]

(* The searches are made one after the other. *)
LEMMA AskFold ==
    ASSUME NEW m, NEW S, NEW ty, NEW n, NEW types, Apart(types, ty), NEW calls, calls \in Seq(types),
           [msg |-> m, got |-> [t \in types |-> <<>>]] \in AskStates(types, S, ty, n)
    PROVE  \E st \in AskStates(types, S, ty, n) : Answers(m, types, calls) = st.got
  <1> DEFINE base == [msg |-> m, got |-> [t \in types |-> <<>>]]
             l == Len(calls)
             T == AskStates(types, S, ty, n)
             step == AskFn(types, S, ty, n)
             Eq(f) == f = [s \in SUBSET (1..l) |-> IF s = {} THEN base ELSE Ask(f[s \ {Max(s)}], calls[Max(s)])]
             g == CHOOSE f : Eq(f)
             r == RunOf(g, l)
  <1>1. l \in Nat /\ calls \in [1..l -> types] /\ DOMAIN calls = 1..l /\ base \in T
    OBVIOUS
  <1>2. Answers(m, types, calls) = g[1..l].got
    BY <1>1 DEF Answers, FoldLeft, MapThenFoldSet
  <1>3. step \in [T -> [types -> T]] /\ \A x \in T, e \in types : Ask(x, e) = step[x][e]
    BY AskKeeps DEF AskFn
  <1>4. \A s \in SUBSET (1..l) : s # {} => calls[Max(s)] \in types
    BY <1>1, MaxIn
  <1> HIDE DEF step, l, T, base
  <1>5. Eq(g)
    <2>1. PICK f : IsTable(f, T, step, base, l, calls)
      BY <1>1, <1>3, FoldTable
    <2>2. Eq(f)
      BY <1>3, <1>4, <2>1, Zenon DEF IsTable
    <2> HIDE DEF Eq
    <2> QED BY <2>2
  <1>6. IsRun(r, T, step, base, l, calls)
    <2>1. \A s \in SUBSET (1..l) : g[s] = IF s = {} THEN base ELSE Ask(g[s \ {Max(s)}], calls[Max(s)])
      BY <1>5
    <2>2. Follows(g, T, step, base, l, calls)
      BY <1>3, <1>4, <2>1 DEF Follows
    <2> HIDE DEF g
    <2> QED BY <1>1, <1>3, <2>2, TableRun
  <1>7. g[1..l] = r[l]
    BY <1>1 DEF RunOf
  <1> HIDE DEF r, g
  <1>8. r[l] \in T
    BY <1>1, <1>6 DEF IsRun
  <1> QED BY <1>2, <1>7, <1>8 DEF T

(* search_subopt gives back the options of every message, of every type that is asked for, one by
   one and in order, and then NULL: for one type, or for any number of types in any order if the
   first option is of none of them. *)
THEOREM EveryOptionFound ==
    ASSUME NEW opts, opts \in Seq(OptionBytes), opts # <<>>, NEW calls, calls \in Seq(0..255)
    PROVE  FoundInOrder(opts, calls)
  <1> DEFINE types == {calls[i] : i \in DOMAIN calls}
             n == Len(opts)
             m == Decode(Concat(opts) \o <<0, 0>>)
             ty == Types(opts, 2)
             base == [msg |-> m, got |-> [t \in types |-> <<>>]]
             I == [t \in types |-> 1]
  <1> SUFFICES ASSUME Len(Concat(opts)) + 2 <= BuffLen,
                      (\A t, u \in types : t = u) \/ opts[1][1] \notin types, NEW t \in types
               PROVE  InOrder(Answers(m, types, calls)[t], Offsets(opts, t))
    BY DEF FoundInOrder
  <1>1. n \in Nat /\ n # 0 /\ opts \in Seq(Seq(Byte256))
    <2> DEFINE O == OptionBytes
               T == Seq(Byte256)
    <2>1. O \subseteq T
      BY DEF OptionBytes
    <2>2. opts \in Seq(O)
      OBVIOUS
    <2> HIDE DEF O, T
    <2>3. n \in Nat /\ n # 0 /\ opts \in Seq(T)
      BY ONLY <2>1, <2>2, opts # <<>>
    <2> QED BY ONLY <2>3 DEF T
  <1>2. PICK r : FlatRun(r, Byte256, opts) /\ FlattenSeq(opts) = r[n]
    BY <1>1, FlattenRun
  <1> DEFINE S == Starts(r, opts, 2)
             a == r[n]
             b == a \o <<0, 0>>
  <1>3. m \in Messages /\ Laid(m, S, ty, n)
    <2> DEFINE z == <<0, 0>>
               T == Seq(Byte256)
    <2>1. m = Decode(b)
      BY <1>2 DEF Concat
    <2>2. a \in Seq(Byte256)
      <3>1. r \in [0..n -> T]
        BY <1>2 DEF FlatRun
      <3> HIDE DEF T, n
      <3>2. a \in T
        BY ONLY <1>1, <3>1
      <3> QED BY ONLY <3>2 DEF T
    <2>3. z \in Seq(Byte256) /\ Len(z) = 2 /\ z[1] = PAD0 /\ z[2] = PAD0
      BY DEF Byte256, PAD0
    <2> HIDE DEF a, z
    <2>4. /\ b \in Seq(Byte256) /\ Len(b) = Len(a) + Len(z)
          /\ \A i \in 1..Len(a) : b[i] = a[i]
          /\ \A i \in 1..Len(z) : b[Len(a) + i] = z[i]
      BY ONLY <2>2, <2>3, ConcatAt DEF z
    <2>5. Len(a) \in Nat
      BY ONLY <2>2
    <2> HIDE DEF b
    <2>6. ASSUME NEW k, k \in (Len(a) + 1)..Len(b) PROVE b[k] = PAD0
      <3>1. k = Len(a) + 1 \/ k = Len(a) + 2
        BY ONLY <2>3, <2>4, <2>5, <2>6
      <3>2. 1 \in 1..Len(z) /\ 2 \in 1..Len(z)
        BY ONLY <2>3
      <3> QED BY ONLY <2>3, <2>4, <3>1, <3>2
    <2>10. Len(a) = Len(Concat(opts))
      BY ONLY <1>2 DEF Concat, a
    <2>7. Padded(b, r, opts, 2)
      BY ONLY <2>3, <2>4, <2>5, <2>6, <2>10, Len(Concat(opts)) + 2 <= BuffLen DEF Padded, a, n
    <2>8. Decode(b) \in Messages /\ Laid(Decode(b), S, ty, Count(opts, 2))
      BY ONLY opts \in Seq(OptionBytes), <1>2, <2>7, LaidFlat
    <2>9. Count(opts, 2) = n
      BY <1>1 DEF Count
    <2> HIDE DEF m, S, ty, n
    <2> QED BY ONLY <2>1, <2>8, <2>9
  <1>4. \A u \in 0..255 : m.mOptions[u] = 0
    BY DEF Decode, m
  <1>5. types \subseteq 0..255 /\ calls \in Seq(types)
    <2> DEFINE O == 0..255
               l == Len(calls)
    <2>1. calls \in Seq(O)
      OBVIOUS
    <2> HIDE DEF O
    <2>2. l \in Nat /\ calls \in [1..l -> O] /\ DOMAIN calls = 1..l
      BY ONLY <2>1
    <2> HIDE DEF l
    <2>3. types \subseteq O
      BY ONLY <2>2
    <2>4. calls \in [1..l -> types]
      BY ONLY <2>2
    <2> HIDE DEF types
    <2>5. calls \in Seq(types)
      BY ONLY <2>2, <2>4
    <2> QED BY ONLY <2>3, <2>5 DEF O
  <1>6. Apart(types, ty)
    <2>1. ty[1] = opts[1][1]
      <3>1. Count(opts, 2) = n /\ 1 \in 1..n /\ 1 <= n
        BY <1>1 DEF Count
      <3> QED BY ONLY <3>1 DEF Types, n, ty
    <2> HIDE DEF ty, types
    <2> QED BY <1>5, <2>1 DEF Apart
  <1>7. Offsets(opts, t) = Of(S, ty, n, t)
    <2>1. ASSUME NEW i, i \in 1..n PROVE Len(Concat(SubSeq(opts, 1, i - 1))) = S[i] /\ opts[i][1] = ty[i]
      <3>1. i - 1 \in 0..Len(opts) /\ i \in 1..(n + 1)
        BY ONLY <1>1, <2>1
      <3>2. FlattenSeq(SubSeq(opts, 1, i - 1)) = r[i - 1]
        BY ONLY <1>1, <1>2, <3>1, FlatPrefix
      <3>3. Count(opts, 2) = n /\ i <= n + 1 /\ i <= n
        BY ONLY <1>1, <2>1 DEF Count, n
      <3>4. S[i] = Len(r[i - 1]) /\ ty[i] = opts[i][1]
        BY ONLY <2>1, <3>1, <3>3 DEF Starts, Types, S, ty, n
      <3> QED BY ONLY <3>2, <3>4 DEF Concat
    <2>2. DOMAIN opts = 1..n
      OBVIOUS
    <2> HIDE DEF S, ty, n
    <2> QED BY ONLY <2>1, <2>2 DEF Offsets, Of
  <1> HIDE DEF m, S, ty, n, types, a, b
  <1>8. Rising(S, n)
    BY ONLY <1>3, OffsetsRise
  <1>9. base \in AskStates(types, S, ty, n)
    <2>1. ASSUME NEW u \in types PROVE Given(<<>>, S, ty, n, 1, u)
      <3>1. Of(S, ty, 1 - 1, u) = {} /\ DOMAIN <<>> = {} /\ <<>> \in Seq(Int)
        BY DEF Of
      <3> QED BY <3>1 DEF Given, InOrder
    <2>2. I \in [types -> 1..(n + 1)]
      BY <1>1
    <2>3. base.msg = m /\ base.got = [u \in types |-> <<>>]
      OBVIOUS
    <2>4. base \in [msg : Messages, got : [types -> Seq(Int)]]
      <3>1. <<>> \in Seq(Int)
        OBVIOUS
      <3> QED BY <1>3, <3>1
    <2> HIDE DEF base
    <2>5. \A u \in types : base.msg.mOptions[u] = S[I[u]] /\ Given(base.got[u], S, ty, n, I[u], u)
      BY <1>4, <1>5, <1>8, <2>1, <2>3 DEF Rising
    <2>6. \A u, w \in types : I[u] = 1 => \A q \in 1..(I[w] - 1) : ty[q] # u
      OBVIOUS
    <2> HIDE DEF I
    <2>7. Asked(base, types, S, ty, n, I)
      BY <1>3, <2>2, <2>3, <2>5, <2>6 DEF Asked
    <2> QED BY <2>4, <2>7 DEF AskStates
  <1>10. PICK st \in AskStates(types, S, ty, n) : Answers(m, types, calls) = st.got
    <2>1. calls \in Seq(types)
      BY ONLY <1>5
    <2>2. [msg |-> m, got |-> [u \in types |-> <<>>]] \in AskStates(types, S, ty, n)
      BY ONLY <1>9
    <2> QED BY ONLY <1>6, <2>1, <2>2, AskFold
  <1>11. InOrder(st.got[t], Of(S, ty, n, t))
    BY <1>10 DEF AskStates, Asked, Given
  <1> QED BY <1>7, <1>10, <1>11

(* An option as append_suboption writes it. *)
OptionOf(type, data) == <<type, Len(data)>> \o data

(* Its bytes. *)
OptionIs(o, type, data) ==
    /\ o \in Seq(Byte256) /\ o \in OptionBytes /\ Len(o) = Len(data) + 2 /\ Len(data) \in Nat
    /\ o[1] = type /\ o[2] = Len(data) /\ \A k \in 1..Len(data) : o[2 + k] = data[k]

(* Every option that has data, and not too much for its length to be a byte, is well formed. *)
LEMMA OptionFits ==
    ASSUME NEW type, type \in Byte256 \ {PAD0}, NEW data, data \in Seq(Byte256), Len(data) \in 1..255
    PROVE  OptionIs(OptionOf(type, data), type, data)
  <1> DEFINE l == Len(data)
             h == <<type, l>>
             o == h \o data
  <1>0. l \in 1..255
    BY ONLY Len(data) \in 1..255
  <1> HIDE DEF l
  <1>1. l \in Byte256 /\ l \in Nat /\ l >= 1
    BY ONLY <1>0 DEF Byte256
  <1>2. h \in Seq(Byte256) /\ Len(h) = 2 /\ h[1] = type /\ h[2] = l
    BY <1>1
  <1> HIDE DEF h
  <1>3. /\ o \in Seq(Byte256) /\ Len(o) = Len(h) + l
        /\ \A i \in 1..Len(h) : o[i] = h[i]
        /\ \A i \in 1..l : o[Len(h) + i] = data[i]
    <2>1. /\ o \in Seq(Byte256) /\ Len(o) = Len(h) + Len(data)
          /\ \A i \in 1..Len(h) : o[i] = h[i]
          /\ \A i \in 1..Len(data) : o[Len(h) + i] = data[i]
      <3>1. h \in Seq(Byte256)
        BY <1>2
      <3> QED BY ONLY <3>1, data \in Seq(Byte256), ConcatAt
    <2> HIDE DEF o
    <2> QED BY ONLY <2>1 DEF l
  <1> HIDE DEF o
  <1>4. Len(o) = l + 2 /\ Len(o) >= 3 /\ l = Len(o) - 2
    BY ONLY <1>1, <1>2, <1>3
  <1>5. o[1] = type /\ o[2] = l
    <2>1. 1 \in 1..Len(h) /\ 2 \in 1..Len(h)
      BY ONLY <1>2
    <2> QED BY ONLY <1>2, <1>3, <2>1
  <1>6. type # PAD0
    OBVIOUS
  <1>7. o \in OptionBytes
    BY ONLY <1>3, <1>4, <1>5, <1>6 DEF OptionBytes
  <1>8. OptionIs(o, type, data)
    BY ONLY <1>1, <1>2, <1>3, <1>4, <1>5, <1>7 DEF OptionIs, l
  <1> QED BY <1>8 DEF o, h, l, OptionOf

(* Messages that are being built. *)
Buffers == [buff : [0..(BuffLen - 1) -> Byte256], next : Int]

(* The message has c behind its header, and nothing behind that. *)
Holds(msg, c) ==
    /\ msg \in Buffers /\ c \in Seq(Byte256) /\ Len(c) \in Nat
    /\ msg.next = HeaderLen + Len(c) /\ msg.next <= BuffLen
    /\ \A k \in 1..Len(c) : msg.buff[HeaderLen + (k - 1)] = c[k]
    /\ \A k \in msg.next..(BuffLen - 1) : msg.buff[k] = PAD0

(* At the beginning there is nothing. *)
LEMMA EmptyHolds == Holds(Empty, <<>>)
  <1>1. BuffLen \in Nat /\ HeaderLen \in Nat /\ HeaderLen <= BuffLen
    BY OptionsAssumption
  <1>2. 0 \in Byte256
    BY DEF Byte256
  <1>3. Empty.next = HeaderLen /\ Empty.buff = [k \in 0..(BuffLen - 1) |-> 0]
    BY DEF Empty
  <1>4. Empty \in Buffers
    BY <1>1, <1>2 DEF Empty, Buffers
  <1>5. Len(<<>>) = 0 /\ <<>> \in Seq(Byte256)
    OBVIOUS
  <1> HIDE DEF Empty
  <1>6. \A k \in Empty.next..(BuffLen - 1) : Empty.buff[k] = PAD0
    BY <1>1, <1>3 DEF PAD0
  <1> QED BY <1>1, <1>3, <1>4, <1>5, <1>6 DEF Holds

(* append_suboption puts an option behind what is there, if there is room. *)
LEMMA AppendHolds ==
    ASSUME NEW msg, NEW c, Holds(msg, c), NEW type, NEW data, NEW room,
           OptionIs(OptionOf(type, data), type, data),
           ~(room < Len(data) + 2), msg.next + Len(data) + 2 <= BuffLen
    PROVE  Holds(append_suboption(msg, room, type, data), c \o OptionOf(type, data))
  <1> DEFINE o == OptionOf(type, data)
             l == Len(o)
             a == Len(c)
             d == c \o o
             buff == msg.buff
             next == msg.next
             new == [k \in 0..(BuffLen - 1) |-> IF k - next + 1 \in 1..l THEN o[k - next + 1] ELSE buff[k]]
             res == append_suboption(msg, room, type, data)
  <1>1. BuffLen \in Nat /\ HeaderLen \in Nat
    BY OptionsAssumption
  <1>2. o \in Seq(Byte256) /\ l \in Nat /\ l = Len(data) + 2 /\ Len(data) \in Nat /\ DOMAIN o = 1..l
    BY DEF OptionIs
  <1>3. /\ c \in Seq(Byte256) /\ a \in Nat /\ next = HeaderLen + a /\ next <= BuffLen
        /\ buff \in [0..(BuffLen - 1) -> Byte256]
        /\ \A k \in 1..a : buff[HeaderLen + (k - 1)] = c[k]
        /\ \A k \in next..(BuffLen - 1) : buff[k] = PAD0
    BY DEF Holds, Buffers
  <1>4. next + l <= BuffLen /\ next \in Nat
    BY ONLY <1>1, <1>2, <1>3, msg.next + Len(data) + 2 <= BuffLen
  <1>5. res = [buff |-> new, next |-> next + l]
    <2>1. DOMAIN buff = 0..(BuffLen - 1)
      BY ONLY <1>3
    <2> HIDE DEF o
    <2> QED BY ONLY <1>2, <2>1, ~(room < Len(data) + 2) DEF append_suboption, OptionOf, o, buff
  <1> HIDE DEF o, l, a, buff, next, res
  <1>6. ASSUME NEW k, k \in 1..l PROVE o[k] \in Byte256
    BY ONLY <1>2, <1>6 DEF l
  <1>7. new \in [0..(BuffLen - 1) -> Byte256]
    BY ONLY <1>3, <1>6
  <1>8. /\ d \in Seq(Byte256) /\ Len(d) = a + l
        /\ \A i \in 1..a : d[i] = c[i]
        /\ \A i \in 1..l : d[a + i] = o[i]
    <2>1. /\ d \in Seq(Byte256) /\ Len(d) = Len(c) + Len(o)
          /\ \A i \in 1..Len(c) : d[i] = c[i]
          /\ \A i \in 1..Len(o) : d[Len(c) + i] = o[i]
      BY ONLY <1>2, <1>3, ConcatAt
    <2> HIDE DEF d
    <2> QED BY ONLY <2>1 DEF a, l
  <1> HIDE DEF d
  <1>9. ASSUME NEW k, k \in 1..(a + l) PROVE new[HeaderLen + (k - 1)] = d[k]
    <2> DEFINE p == HeaderLen + (k - 1)
    <2>1. p \in 0..(BuffLen - 1) /\ p \in Int
      BY ONLY <1>1, <1>2, <1>3, <1>4, <1>9
    <2>2. CASE k \in 1..a
      <3>1. ~(p - next + 1 \in 1..l)
        BY ONLY <1>1, <1>2, <1>3, <2>2
      <3> HIDE DEF p
      <3>2. new[p] = buff[p]
        BY ONLY <2>1, <3>1
      <3> QED BY ONLY <1>3, <1>8, <2>2, <3>2 DEF p
    <2>3. CASE k \notin 1..a
      <3>1. k - a \in 1..l /\ p - next + 1 = k - a /\ a + (k - a) = k
        BY ONLY <1>1, <1>2, <1>3, <1>9, <2>3
      <3> DEFINE q == k - a
      <3> HIDE DEF p, q
      <3>2. new[p] = o[q] /\ d[a + q] = o[q] /\ a + q = k
        BY ONLY <1>8, <2>1, <3>1 DEF q
      <3> QED BY ONLY <3>2 DEF p
    <2> QED BY ONLY <2>2, <2>3
  <1>10. ASSUME NEW k, k \in (next + l)..(BuffLen - 1) PROVE new[k] = PAD0
    <2>1. k \in 0..(BuffLen - 1) /\ k \in next..(BuffLen - 1) /\ ~(k - next + 1 \in 1..l)
      BY ONLY <1>1, <1>2, <1>4, <1>10
    <2> QED BY ONLY <1>3, <2>1
  <1> HIDE DEF new
  <1>11. res.buff = new /\ res.next = next + l /\ res \in Buffers
    BY ONLY <1>2, <1>4, <1>5, <1>7 DEF Buffers
  <1>12. next + l = HeaderLen + (a + l)
    BY ONLY <1>1, <1>2, <1>3
  <1>13. a + l \in Nat
    BY ONLY <1>2, <1>3
  <1>14. Holds(res, d)
    BY ONLY <1>4, <1>8, <1>9, <1>10, <1>11, <1>12, <1>13 DEF Holds
  <1> QED BY <1>14 DEF res, d, o

(* The bytes that are sent: what the message holds, and less than eight bytes of padding. *)
LEMMA SentBytes ==
    ASSUME NEW msg, NEW c, Holds(msg, c)
    PROVE  LET b == Options(msg)
           IN  /\ b \in Seq(Byte256) /\ Len(b) \in Nat /\ Len(b) >= Len(c) /\ Len(b) <= BuffLen
               /\ \A k \in 1..Len(c) : b[k] = c[k]
               /\ \A k \in (Len(c) + 1)..Len(b) : b[k] = PAD0
  <1> DEFINE a == Len(c)
             next == msg.next
             buff == msg.buff
             len == Rounded(next)
             n == len - HeaderLen
             b == Options(msg)
  <1>1. BuffLen \in Nat /\ HeaderLen \in Nat /\ BuffLen % 8 = 0
    BY OptionsAssumption
  <1>2. /\ a \in Nat /\ next = HeaderLen + a /\ next <= BuffLen
        /\ buff \in [0..(BuffLen - 1) -> Byte256]
        /\ \A k \in 1..a : buff[HeaderLen + (k - 1)] = c[k]
        /\ \A k \in next..(BuffLen - 1) : buff[k] = PAD0
    BY DEF Holds, Buffers
  <1>3. len \in Nat /\ len >= next /\ len <= BuffLen
    <2>1. len = ((next + 7) \div 8) * 8
      BY DEF Rounded
    <2> DEFINE q == (next + 7) \div 8
               w == BuffLen \div 8
    <2>2. next \in Nat
      BY ONLY <1>1, <1>2
    <2>3. q \in Nat /\ 8 * q <= next + 7 /\ next + 7 < 8 * q + 8
      BY ONLY <2>2
    <2>4. w \in Nat /\ BuffLen = 8 * w
      BY ONLY <1>1
    <2>5. len = 8 * q
      BY ONLY <2>1, <2>3
    <2> HIDE DEF q, w, len, next
    <2> QED BY ONLY <1>2, <2>2, <2>3, <2>4, <2>5
  <1> HIDE DEF a, buff, next
  <1>4. b = [i \in 1..n |-> IF HeaderLen + (i - 1) < BuffLen THEN buff[HeaderLen + (i - 1)] ELSE 0]
    BY DEF Options, buff, next
  <1> HIDE DEF len
  <1>5. n \in Nat /\ n >= a /\ n <= BuffLen
    BY ONLY <1>1, <1>2, <1>3
  <1> HIDE DEF n, b
  <1>6. ASSUME NEW i, i \in 1..n
        PROVE  b[i] = IF HeaderLen + (i - 1) < BuffLen THEN buff[HeaderLen + (i - 1)] ELSE 0
    BY ONLY <1>4, <1>6
  <1>7. ASSUME NEW k, k \in 1..a PROVE b[k] = c[k]
    <2>1. k \in 1..n /\ HeaderLen + (k - 1) < BuffLen
      BY ONLY <1>1, <1>2, <1>5, <1>7
    <2>2. b[k] = buff[HeaderLen + (k - 1)]
      BY ONLY <1>6, <2>1
    <2> QED BY ONLY <1>2, <1>7, <2>2
  <1>8. ASSUME NEW k, k \in (a + 1)..n PROVE b[k] = PAD0
    <2> DEFINE p == HeaderLen + (k - 1)
    <2>1. k \in 1..n /\ p \in Nat /\ p >= next
      BY ONLY <1>1, <1>2, <1>5, <1>8
    <2>2. b[k] = IF p < BuffLen THEN buff[p] ELSE 0
      BY ONLY <1>6, <2>1
    <2> HIDE DEF p
    <2>3. p < BuffLen => buff[p] = PAD0
      <3>1. p < BuffLen => p \in next..(BuffLen - 1)
        BY ONLY <1>1, <1>2, <2>1
      <3> QED BY ONLY <1>2, <3>1
    <2> QED BY ONLY <2>2, <2>3 DEF PAD0
  <1>9. b \in [1..n -> Byte256]
    <2>1. ASSUME NEW i, i \in 1..n PROVE b[i] \in Byte256
      <3>1. CASE HeaderLen + (i - 1) < BuffLen
        <4>1. HeaderLen + (i - 1) \in 0..(BuffLen - 1)
          BY ONLY <1>1, <1>5, <2>1, <3>1
        <4> QED BY ONLY <1>2, <1>6, <2>1, <3>1, <4>1
      <3>2. CASE ~(HeaderLen + (i - 1) < BuffLen)
        <4>1. b[i] = 0
          BY ONLY <1>6, <2>1, <3>2
        <4> QED BY ONLY <4>1 DEF Byte256
      <3> QED BY ONLY <3>1, <3>2
    <2>2. b = [i \in 1..n |-> b[i]]
      BY ONLY <1>4
    <2> QED BY ONLY <2>1, <2>2
  <1>10. b \in Seq(Byte256) /\ Len(b) = n
    BY ONLY <1>5, <1>9
  <1> QED BY ONLY <1>5, <1>7, <1>8, <1>10 DEF b, a

(* So it is the options that it was built with, and padding. *)
LEMMA BuiltPadded ==
    ASSUME NEW msg, NEW opts, NEW r, Holds(msg, r[Len(opts)]), \A i \in 1..Len(opts) : Len(opts[i]) >= 3
    PROVE  \E z : Padded(Options(msg), r, opts, z)
  <1> DEFINE a == r[Len(opts)]
             b == Options(msg)
             z == Len(b) - Len(a)
  <1>1. /\ b \in Seq(Byte256) /\ Len(b) \in Nat /\ Len(b) >= Len(a) /\ Len(b) <= BuffLen
        /\ \A k \in 1..Len(a) : b[k] = a[k]
        /\ \A k \in (Len(a) + 1)..Len(b) : b[k] = PAD0
    BY SentBytes
  <1>2. Len(a) \in Nat
    BY DEF Holds
  <1> HIDE DEF b
  <1>3. z \in Nat /\ Len(b) = Len(a) + z
    BY ONLY <1>1, <1>2
  <1> HIDE DEF z, a
  <1>4. Padded(b, r, opts, z)
    BY ONLY <1>1, <1>3, \A i \in 1..Len(opts) : Len(opts[i]) >= 3 DEF Padded, a
  <1> QED BY <1>4 DEF b

(* The addresses of targets, and the options that carry them. *)
TargetAddr == [1..PrefixLen -> Byte256]
TargetOpt(addr) == OptionOf(RPLTARGET, build_target_opt(addr))
TargetOpts(targets) == [i \in 1..Len(targets) |-> TargetOpt(targets[i])]

(* What build_dao writes for a target. *)
TargetOptIs(o, addr) ==
    /\ OptionIs(o, RPLTARGET, build_target_opt(addr)) /\ Len(build_target_opt(addr)) = PrefixLen + 2
    /\ o \in OptionBytes /\ Len(o) = PrefixLen + 4 /\ o[1] = RPLTARGET /\ o[2] = PrefixLen + 2 /\ o[4] = 8 * PrefixLen
    /\ \A k \in 1..PrefixLen : o[4 + k] = addr[k]

(* The option of a target has the whole address. *)
LEMMA TargetOption ==
    ASSUME NEW addr, addr \in TargetAddr
    PROVE  TargetOptIs(TargetOpt(addr), addr)
  <1> DEFINE p == PrefixLen
             h == <<0, 8 * p>>
             data == h \o addr
             o == TargetOpt(addr)
  <1>1. p \in 0..31
    BY OptionsAssumption
  <1> HIDE DEF p
  <1>2. p \in Nat /\ 8 * p \in Byte256 /\ 0 \in Byte256 /\ p + 2 \in 1..255
    BY ONLY <1>1 DEF Byte256
  <1>3. h \in Seq(Byte256) /\ Len(h) = 2 /\ h[2] = 8 * p
    <2> DEFINE x == 8 * p
    <2>1. x \in Byte256
      BY <1>2
    <2> HIDE DEF x
    <2>2. <<0, x>> \in Seq(Byte256) /\ Len(<<0, x>>) = 2 /\ <<0, x>>[2] = x
      BY ONLY <1>2, <2>1
    <2> QED BY ONLY <2>2 DEF x
  <1>4. addr \in Seq(Byte256) /\ Len(addr) = p
    BY <1>2 DEF TargetAddr, p
  <1> HIDE DEF h
  <1>5. /\ data \in Seq(Byte256) /\ Len(data) = Len(h) + Len(addr)
        /\ \A i \in 1..Len(h) : data[i] = h[i]
        /\ \A i \in 1..Len(addr) : data[Len(h) + i] = addr[i]
    <2>1. h \in Seq(Byte256) /\ addr \in Seq(Byte256)
      BY ONLY <1>3, <1>4
    <2> QED BY ONLY <2>1, ConcatAt
  <1>6. data = build_target_opt(addr)
    BY DEF build_target_opt, h, p
  <1> HIDE DEF data
  <1>7. Len(data) = p + 2
    BY ONLY <1>2, <1>3, <1>4, <1>5
  <1>8. OptionIs(o, RPLTARGET, data)
    <2>1. RPLTARGET \in Byte256 \ {PAD0}
      BY DEF RPLTARGET, PAD0, Byte256
    <2>2. Len(data) \in 1..255
      BY ONLY <1>2, <1>7
    <2>3. OptionIs(OptionOf(RPLTARGET, data), RPLTARGET, data)
      BY ONLY <1>5, <2>1, <2>2, OptionFits
    <2> QED BY ONLY <1>6, <2>3 DEF TargetOpt
  <1> HIDE DEF o
  <1>9. /\ o \in OptionBytes /\ Len(o) = p + 4 /\ o[1] = RPLTARGET /\ o[2] = p + 2
        /\ \A k \in 1..(p + 2) : o[2 + k] = data[k]
    BY ONLY <1>2, <1>7, <1>8 DEF OptionIs
  <1>10. o[4] = 8 * p
    <2>1. 2 \in 1..(p + 2) /\ 2 + 2 = 4 /\ 2 \in 1..Len(h)
      BY ONLY <1>2, <1>3
    <2>2. o[2 + 2] = data[2] /\ data[2] = h[2]
      BY ONLY <1>5, <1>9, <2>1
    <2> QED BY ONLY <1>3, <2>1, <2>2
  <1>11. ASSUME NEW k, k \in 1..p PROVE o[4 + k] = addr[k]
    <2>1. 2 + k \in 1..(p + 2) /\ 2 + (2 + k) = 4 + k
      BY ONLY <1>2, <1>11
    <2>2. o[2 + (2 + k)] = data[2 + k]
      BY ONLY <1>9, <2>1
    <2>3. data[2 + k] = addr[k]
      BY ONLY <1>3, <1>4, <1>5, <1>11
    <2> QED BY ONLY <2>1, <2>2, <2>3
  <1> QED BY <1>6, <1>7, <1>8, <1>9, <1>10, <1>11 DEF TargetOptIs, p, o

(* Appending to a buffer keeps it one. *)
LEMMA AppendTyped ==
    ASSUME NEW msg, msg \in Buffers, NEW addr, addr \in TargetAddr
    PROVE  AppendTarget(msg, addr) \in Buffers
  <1> DEFINE data == build_target_opt(addr)
             o == TargetOpt(addr)
             l == Len(o)
             room == BuffLen - msg.next
             new == [k \in 0..(BuffLen - 1) |-> IF k - msg.next + 1 \in 1..l THEN o[k - msg.next + 1] ELSE msg.buff[k]]
             res == AppendTarget(msg, addr)
  <1>1. msg.buff \in [0..(BuffLen - 1) -> Byte256] /\ msg.next \in Int
    BY DEF Buffers
  <1>2. o \in Seq(Byte256) /\ l \in Nat /\ DOMAIN o = 1..l
    BY TargetOption DEF TargetOptIs, OptionIs
  <1>3. CASE room < Len(data) + 2
    <2>1. res = [msg EXCEPT !.next = @ - 1]
      BY <1>3 DEF AppendTarget, append_suboption
    <2> HIDE DEF res
    <2> QED BY ONLY <1>1, <2>1, msg \in Buffers DEF Buffers, res
  <1>4. CASE ~(room < Len(data) + 2)
    <2>1. DOMAIN msg.buff = 0..(BuffLen - 1)
      BY ONLY <1>1
    <2>2. res = [buff |-> new, next |-> msg.next + l]
      <3> HIDE DEF l, data
      <3>1. append_suboption(msg, room, RPLTARGET, data) = [buff |-> new, next |-> msg.next + l]
        BY ONLY <1>2, <1>4, <2>1 DEF append_suboption, TargetOpt, OptionOf, l, data
      <3> QED BY <3>1 DEF AppendTarget, data
    <2>3. new \in [0..(BuffLen - 1) -> Byte256]
      <3>1. \A k \in 1..l : o[k] \in Byte256
        BY ONLY <1>2
      <3> HIDE DEF o, l
      <3> QED BY ONLY <1>1, <3>1
    <2> HIDE DEF new, l, res
    <2> QED BY ONLY <1>1, <1>2, <2>2, <2>3 DEF Buffers, res
  <1> QED BY ONLY <1>3, <1>4

AppendFn == [msg \in Buffers |-> [addr \in TargetAddr |-> AppendTarget(msg, addr)]]

(* The targets are appended one after the other. *)
LEMMA DaoFold ==
    ASSUME NEW targets, targets \in Seq(TargetAddr)
    PROVE  \E q : IsRun(q, Buffers, AppendFn, Empty, Len(targets), targets) /\ build_dao(targets) = q[Len(targets)]
  <1> DEFINE n == Len(targets)
             T == Buffers
             M == TargetAddr
             step == AppendFn
             base == Empty
             Eq(f) == f = [s \in SUBSET (1..n) |->
                              IF s = {} THEN base ELSE AppendTarget(f[s \ {Max(s)}], targets[Max(s)])]
             g == CHOOSE f : Eq(f)
             r == RunOf(g, n)
  <1>0. targets \in Seq(M)
    OBVIOUS
  <1>1. base \in T
    BY EmptyHolds DEF Holds
  <1>2. build_dao(targets) = g[1..n]
    <2>1. DOMAIN targets = 1..n
      BY <1>0
    <2> QED BY <2>1 DEF build_dao, FoldLeft, MapThenFoldSet
  <1>3. step \in [T -> [M -> T]] /\ \A x \in T, e \in M : AppendTarget(x, e) = step[x][e]
    <2> HIDE DEF T, M
    <2>1. \A x \in T, e \in M : AppendTarget(x, e) \in T
      BY AppendTyped DEF T, M
    <2>2. step = [msg \in T |-> [addr \in M |-> AppendTarget(msg, addr)]]
      BY DEF AppendFn, T, M
    <2> HIDE DEF step
    <2> QED BY ONLY <2>1, <2>2
  <1> HIDE DEF step, T, M, base
  <1>4. n \in Nat /\ targets \in [1..n -> M]
    BY ONLY <1>0
  <1>5. \A s \in SUBSET (1..n) : s # {} => targets[Max(s)] \in M
    BY ONLY <1>4, MaxIn
  <1> HIDE DEF n
  <1>6. Eq(g)
    <2>1. PICK f : IsTable(f, T, step, base, n, targets)
      BY ONLY <1>1, <1>3, <1>4, FoldTable
    <2>2. Eq(f)
      BY <1>3, <1>5, <2>1, Zenon DEF IsTable
    <2> HIDE DEF Eq
    <2> QED BY ONLY <2>2
  <1>7. IsRun(r, T, step, base, n, targets)
    <2>1. \A s \in SUBSET (1..n) : g[s] = IF s = {} THEN base ELSE AppendTarget(g[s \ {Max(s)}], targets[Max(s)])
      BY ONLY <1>6
    <2>2. Follows(g, T, step, base, n, targets)
      BY ONLY <1>3, <1>5, <2>1 DEF Follows
    <2> HIDE DEF g
    <2> QED BY ONLY <1>1, <1>3, <1>4, <2>2, TableRun
  <1>8. g[1..n] = r[n]
    BY ONLY <1>4 DEF RunOf, r
  <1> HIDE DEF r, g
  <1> QED BY ONLY <1>2, <1>7, <1>8 DEF n, T, step, base

(* The options of targets. *)
LEMMA TargetOptsAre ==
    ASSUME NEW targets, targets \in Seq(TargetAddr)
    PROVE  LET opts == TargetOpts(targets)
           IN  /\ Len(targets) \in Nat /\ Len(opts) = Len(targets) /\ opts \in Seq(OptionBytes)
               /\ opts \in Seq(Seq(Byte256))
               /\ \A i \in 1..Len(targets) : targets[i] \in TargetAddr /\ TargetOptIs(opts[i], targets[i])
  <1> DEFINE n == Len(targets)
             opts == TargetOpts(targets)
             M == TargetAddr
             O == OptionBytes
             T == Seq(Byte256)
  <1>1. n \in Nat /\ \A i \in 1..n : targets[i] \in M
    <2>1. targets \in Seq(M)
      OBVIOUS
    <2> HIDE DEF M
    <2> QED BY ONLY <2>1
  <1>2. opts = [i \in 1..n |-> TargetOpt(targets[i])]
    BY DEF TargetOpts
  <1> HIDE DEF opts, n
  <1>3. ASSUME NEW i, i \in 1..n PROVE TargetOptIs(opts[i], targets[i]) /\ opts[i] \in O
    <2>1. TargetOptIs(TargetOpt(targets[i]), targets[i])
      BY ONLY <1>1, <1>3, TargetOption
    <2>2. opts[i] = TargetOpt(targets[i])
      BY ONLY <1>2, <1>3
    <2> QED BY ONLY <2>1, <2>2 DEF TargetOptIs
  <1>4. O \subseteq T
    BY DEF OptionBytes
  <1> HIDE DEF O, T
  <1>5. opts \in Seq(O) /\ Len(opts) = n
    BY ONLY <1>1, <1>2, <1>3
  <1>6. opts \in Seq(T)
    BY ONLY <1>4, <1>5
  <1> QED BY <1>1, <1>3, <1>5, <1>6 DEF O, T, opts, n

(* Products. *)
LEMMA Times ==
    ASSUME NEW k \in Nat, NEW n \in Nat, NEW l \in Nat
    PROVE  (k + 1) * l = k * l + l /\ k * l \in Nat /\ (k <= n => k * l <= n * l)
  OBVIOUS

(* What build_dao has in its buffer, if all targets fit. *)
LEMMA DaoHolds ==
    ASSUME NEW targets, targets \in Seq(TargetAddr), TargetsFit(targets),
           NEW r, FlatRun(r, Byte256, TargetOpts(targets))
    PROVE  Holds(build_dao(targets), r[Len(targets)])
  <1> DEFINE n == Len(targets)
             opts == TargetOpts(targets)
             l == PrefixLen + 4
  <1>1. /\ n \in Nat /\ Len(opts) = n /\ opts \in Seq(Seq(Byte256))
        /\ \A i \in 1..n : targets[i] \in TargetAddr /\ TargetOptIs(opts[i], targets[i])
    BY TargetOptsAre
  <1>2. l \in Nat /\ HeaderLen \in Nat /\ BuffLen \in Nat /\ PrefixLen \in Nat
    BY OptionsAssumption
  <1>3. HeaderLen + n * l <= BuffLen
    BY DEF TargetsFit
  <1>4. PICK q : IsRun(q, Buffers, AppendFn, Empty, n, targets) /\ build_dao(targets) = q[n]
    BY DaoFold
  <1>5. /\ q \in [0..n -> Buffers] /\ q[0] = Empty /\ \A k \in 1..n : q[k] = AppendFn[q[k - 1]][targets[k]]
    BY <1>4 DEF IsRun
  <1>6. r[0] = <<>> /\ \A k \in 1..n : r[k] = r[k - 1] \o opts[k]
    BY ONLY <1>1, FlatRun(r, Byte256, TargetOpts(targets)) DEF FlatRun
  <1> HIDE DEF n, l, opts
  <1> DEFINE P == {k \in 0..n : Holds(q[k], r[k]) /\ Len(r[k]) = k * l}
  <1>7. 0 \in P
    <2>1. Len(<<>>) = 0 /\ 0 * l = 0
      BY <1>2
    <2> QED BY <1>1, <1>5, <1>6, <2>1, EmptyHolds
  <1>8. ASSUME NEW k \in 1..n, k - 1 \in P PROVE k \in P
    <2> DEFINE msg == q[k - 1]
               c == r[k - 1]
               addr == targets[k]
               o == opts[k]
               data == build_target_opt(addr)
    <2>1. Holds(msg, c) /\ Len(c) = (k - 1) * l
      BY <1>8
    <2>2. addr \in TargetAddr /\ TargetOptIs(o, addr) /\ o = TargetOpt(addr)
      BY <1>1 DEF TargetOpts, opts, n
    <2>3. q[k] = AppendTarget(msg, addr)
      <3>1. k - 1 \in 0..n
        BY <1>1
      <3>2. msg \in Buffers
        BY <1>5, <3>1
      <3>3. q[k] = AppendFn[msg][addr]
        BY <1>5
      <3> HIDE DEF msg, addr
      <3> QED BY ONLY <2>2, <3>2, <3>3 DEF AppendFn
    <2>4. r[k] = c \o o
      BY <1>6
    <2> HIDE DEF msg, c, addr, o, data
    <2>5. OptionIs(o, RPLTARGET, data) /\ Len(data) = PrefixLen + 2 /\ o = OptionOf(RPLTARGET, data) /\ Len(o) = l
      BY ONLY <2>2 DEF TargetOptIs, TargetOpt, data, l
    <2>6. msg.next = HeaderLen + Len(c) /\ c \in Seq(Byte256) /\ Len(c) \in Nat
      BY ONLY <2>1 DEF Holds
    <2>7. (k - 1) * l + l = k * l /\ k * l <= n * l /\ k * l \in Nat /\ n * l \in Nat /\ (k - 1) * l \in Nat
      <3>1. k - 1 \in Nat /\ k \in Nat /\ k <= n /\ k - 1 + 1 = k
        BY <1>1
      <3>2. (k - 1 + 1) * l = (k - 1) * l + l /\ (k - 1) * l \in Nat
        BY ONLY <1>1, <1>2, <3>1, Times
      <3>3. k * l \in Nat /\ k * l <= n * l
        BY ONLY <1>1, <1>2, <3>1, Times
      <3>4. n * l \in Nat
        BY ONLY <1>1, <1>2, Times
      <3> QED BY ONLY <3>1, <3>2, <3>3, <3>4
    <2>8. msg.next + Len(data) + 2 <= BuffLen /\ ~(BuffLen - msg.next < Len(data) + 2)
      <3> DEFINE x == (k - 1) * l
                 y == k * l
                 w == n * l
      <3>1. /\ x + l = y /\ y <= w /\ x \in Nat /\ y \in Nat /\ w \in Nat
            /\ HeaderLen + w <= BuffLen /\ msg.next = HeaderLen + x
        BY ONLY <1>3, <2>1, <2>6, <2>7
      <3> HIDE DEF x, y, w
      <3> QED BY ONLY <1>2, <2>5, <3>1 DEF l
    <2>9. Holds(q[k], r[k])
      <3>1. Holds(append_suboption(msg, BuffLen - msg.next, RPLTARGET, data), c \o OptionOf(RPLTARGET, data))
        BY ONLY <2>1, <2>5, <2>8, AppendHolds
      <3> QED BY ONLY <2>3, <2>4, <2>5, <3>1 DEF AppendTarget, data
    <2>10. Len(r[k]) = k * l
      <3>1. o \in Seq(Byte256)
        BY ONLY <2>5 DEF OptionIs
      <3>2. Len(c \o o) = Len(c) + Len(o)
        BY ONLY <2>6, <3>1, ConcatAt
      <3> QED BY ONLY <2>1, <2>4, <2>5, <2>7, <3>2
    <2> QED BY ONLY <1>1, <2>9, <2>10, k \in 1..n
  <1>9. \A k \in 0..n : k \in P
    <2> HIDE DEF P
    <2> QED BY ONLY <1>1, <1>7, <1>8, UpToInduction
  <1>10. n \in P
    BY ONLY <1>1, <1>9
  <1> QED BY <1>4, <1>10 DEF n

(* Where an option is in padded bytes. *)
LEMMA PaddedAt ==
    ASSUME NEW opts, opts \in Seq(Seq(Byte256)), NEW r, FlatRun(r, Byte256, opts), NEW b, NEW z, Padded(b, r, opts, z),
           NEW i, i \in 1..Len(opts)
    PROVE  HasPart(b, Byte256, Len(r[i - 1]), opts[i]) /\ Len(r[i - 1]) \in Nat /\ Len(opts[i]) \in Nat
  <1> DEFINE n == Len(opts)
             a == r[n]
             s == Len(r[i - 1])
             o == opts[i]
             l == Len(o)
  <1>1. n \in i..n
    BY ONLY opts \in Seq(Seq(Byte256)), i \in 1..Len(opts)
  <1>2. HasPart(a, Byte256, s, o)
    BY ONLY <1>1, opts \in Seq(Seq(Byte256)), i \in 1..Len(opts), FlatRun(r, Byte256, opts), FlatAt
  <1>3. Extended(r[i - 1], r[i], o, Byte256)
    BY ONLY opts \in Seq(Seq(Byte256)), i \in 1..Len(opts), FlatRun(r, Byte256, opts), FlatLengths
  <1>4. s \in Nat /\ l \in Nat
    BY ONLY <1>3 DEF Extended
  <1>5. b \in Seq(Byte256) /\ z \in Nat /\ Len(b) = Len(a) + z /\ \A k \in 1..Len(a) : b[k] = a[k]
    BY ONLY Padded(b, r, opts, z) DEF Padded
  <1> HIDE DEF a, s, o
  <1>6. Len(a) \in Nat /\ s + l <= Len(a) /\ \A k \in 1..l : a[s + k] = o[k]
    BY ONLY <1>2 DEF HasPart
  <1>7. ASSUME NEW k, k \in 1..l PROVE b[s + k] = o[k]
    <2>1. s + k \in 1..Len(a)
      BY ONLY <1>4, <1>6, <1>7
    <2>2. b[s + k] = a[s + k] /\ a[s + k] = o[k]
      BY ONLY <1>5, <1>6, <1>7, <2>1
    <2> QED BY ONLY <2>2
  <1>8. Len(b) \in Nat /\ s + l <= Len(b)
    BY ONLY <1>4, <1>5, <1>6
  <1>9. HasPart(b, Byte256, s, o)
    BY ONLY <1>5, <1>7, <1>8 DEF HasPart
  <1> QED BY ONLY <1>4, <1>9 DEF s, o

(* A message with the bytes b, in which option i carries a target. *)
LEMMA TargetRead ==
    ASSUME NEW m, NEW b, m.bytes = b, NEW s, s \in Nat, NEW addr, addr \in TargetAddr, NEW o,
           TargetOptIs(o, addr), HasPart(b, Byte256, s, o), NEW w, search_subopt(m, RPLTARGET) = w, w.offset = s
    PROVE  rpltarget(m) = [msg |-> w.msg, target |-> addr]
  <1> DEFINE p == PrefixLen
             t == SubSeq(b, s + 5, s + 4 + p)
  <1>1. p \in Nat
    BY OptionsAssumption
  <1> HIDE DEF p
  <1>2. Len(o) = p + 4 /\ o[1] = RPLTARGET /\ o[2] = p + 2 /\ o[4] = 8 * p /\ \A k \in 1..p : o[4 + k] = addr[k]
    BY ONLY TargetOptIs(o, addr) DEF TargetOptIs, p
  <1>3. b \in Seq(Byte256) /\ Len(b) \in Nat /\ s + (p + 4) <= Len(b) /\ \A k \in 1..(p + 4) : b[s + k] = o[k]
    BY ONLY <1>2, HasPart(b, Byte256, s, o) DEF HasPart
  <1>4. b[s + 1] = RPLTARGET /\ b[s + 2] = p + 2 /\ b[s + 4] = 8 * p
    <2>1. 1 \in 1..(p + 4) /\ 2 \in 1..(p + 4) /\ 4 \in 1..(p + 4)
      BY ONLY <1>1
    <2> QED BY ONLY <1>2, <1>3, <2>1
  <1>5. At(m, s) = RPLTARGET /\ At(m, s + 1) = p + 2 /\ At(m, s + 3) = 8 * p
    <2>1. s + 1 + 1 = s + 2 /\ s + 3 + 1 = s + 4
      BY ONLY s \in Nat
    <2> QED BY ONLY <1>4, <2>1, m.bytes = b DEF At
  <1>6. SkipLen(m, s) = p + 2 + 2
    BY ONLY <1>5 DEF SkipLen, RPLTARGET, PAD0
  <1>7. (8 * p + 7) \div 8 = p /\ ~(p + 2 + 2 < p + 4)
    BY ONLY <1>1
  <1>8. t = addr
    <2>1. addr \in [1..p -> Byte256]
      BY ONLY addr \in TargetAddr DEF TargetAddr, p
    <2>2. addr \in Seq(Byte256) /\ Len(addr) = p
      BY ONLY <1>1, <2>1
    <2> DEFINE x == s + 5
               y == s + 4 + p
    <2>3. x \in 1..(Len(b) + 1) /\ y \in (x - 1)..Len(b) /\ y - x + 1 = p
      BY ONLY <1>1, <1>3, s \in Nat
    <2>4. \A k \in 1..p : x + k - 1 = s + (4 + k) /\ 4 + k \in 1..(p + 4)
      BY ONLY <1>1, s \in Nat
    <2> HIDE DEF x, y
    <2> DEFINE B == Byte256
    <2>5. b \in Seq(B)
      BY ONLY <1>3
    <2> HIDE DEF B
    <2>6. SubSeq(b, x, y) \in Seq(B) /\ Len(SubSeq(b, x, y)) = p /\ \A k \in 1..p : SubSeq(b, x, y)[k] = b[x + k - 1]
      BY ONLY <1>1, <1>3, <2>3, <2>5
    <2> DEFINE u == SubSeq(b, x, y)
    <2> HIDE DEF u
    <2>7. ASSUME NEW k, k \in 1..Len(u) PROVE u[k] = addr[k]
      <3>1. k \in 1..p
        BY ONLY <2>6, <2>7 DEF u
      <3>2. u[k] = b[x + k - 1]
        BY ONLY <2>6, <3>1 DEF u
      <3>3. b[s + (4 + k)] = o[4 + k]
        BY ONLY <1>3, <2>4, <3>1
      <3>4. o[4 + k] = addr[k]
        BY ONLY <1>2, <3>1
      <3> QED BY ONLY <2>4, <3>1, <3>2, <3>3, <3>4
    <2>8. u \in Seq(B) /\ Len(u) = Len(addr) /\ addr \in Seq(B)
      BY ONLY <2>2, <2>6 DEF u, B
    <2>9. u = addr
      BY ONLY <2>7, <2>8, SameSeq
    <2> QED BY ONLY <2>9 DEF u, x, y
  <1> HIDE DEF t
  <1>9. s # NotFound
    BY ONLY s \in Nat DEF NotFound
  <1> QED BY ONLY <1>5, <1>6, <1>7, <1>8, <1>9, search_subopt(m, RPLTARGET) = w, w.offset = s, m.bytes = b
          DEF rpltarget, t

(* All that is known of a DAO that is read: its bytes b are the options of the targets and padding. *)
IsDao(b, targets, r, z) ==
    /\ targets \in Seq(TargetAddr) /\ FlatRun(r, Byte256, TargetOpts(targets))
    /\ Padded(b, r, TargetOpts(targets), z)

(* The state of n searches for targets: the cursor is behind the targets that were found. *)
TargetStates(b, targets, r, z) ==
    LET opts == TargetOpts(targets)
        S == Starts(r, opts, z)
        n == Len(targets)
    IN  {st \in [msg : Messages, found : Seq(TargetAddr \cup {<<>>})] :
            /\ st.msg.bytes = b /\ Laid(st.msg, S, Types(opts, z), Count(opts, z))
            /\ st.msg.mOptions[RPLTARGET] = S[IF Len(st.found) <= n THEN Len(st.found) + 1 ELSE n + 1]
            /\ \A j \in 1..Len(st.found) : st.found[j] = IF j <= n THEN targets[j] ELSE <<>>}

(* Each search finds the next target, and then none. *)
LEMMA NextTargetKeeps ==
    ASSUME NEW b, NEW targets, NEW r, NEW z, IsDao(b, targets, r, z),
           NEW st, st \in TargetStates(b, targets, r, z), NEW i
    PROVE  /\ NextTarget(st, i) \in TargetStates(b, targets, r, z)
           /\ Len(NextTarget(st, i).found) = Len(st.found) + 1
  <1> DEFINE opts == TargetOpts(targets)
             S == Starts(r, opts, z)
             ty == Types(opts, z)
             c == Count(opts, z)
             n == Len(targets)
             m == st.msg
             f == st.found
             k == Len(f)
             q == IF k <= n THEN k + 1 ELSE n + 1
             w == search_subopt(m, RPLTARGET)
             A == TargetAddr \cup {<<>>}
             res == NextTarget(st, i)
  <1>1. /\ n \in Nat /\ Len(opts) = n /\ opts \in Seq(OptionBytes) /\ opts \in Seq(Seq(Byte256))
        /\ \A j \in 1..n : targets[j] \in TargetAddr /\ TargetOptIs(opts[j], targets[j])
    BY TargetOptsAre DEF IsDao
  <1>2. /\ m \in Messages /\ f \in Seq(A) /\ m.bytes = b /\ Laid(m, S, ty, c) /\ m.mOptions[RPLTARGET] = S[q]
        /\ \A j \in 1..k : f[j] = IF j <= n THEN targets[j] ELSE <<>>
    BY DEF TargetStates
  <1>3. FlatRun(r, Byte256, opts) /\ Padded(b, r, opts, z)
    BY DEF IsDao
  <1>4. z \in Nat
    BY <1>3 DEF Padded
  <1> HIDE DEF opts, n, m, f
  <1>5. c \in Nat /\ n <= c
    BY ONLY <1>1, <1>4 DEF Count
  <1>6. k \in Nat
    BY ONLY <1>2
  <1>7. /\ \A j \in 1..n : ty[j] = RPLTARGET /\ S[j] = Len(r[j - 1])
        /\ \A j \in (n + 1)..c : ty[j] = PAD0
    <2>1. \A j \in 1..n : j \in 1..c /\ j <= n /\ j \in 1..(c + 1) /\ j <= n + 1
      BY ONLY <1>1, <1>5
    <2>2. \A j \in (n + 1)..c : j \in 1..c /\ ~(j <= n)
      BY ONLY <1>1, <1>5
    <2>3. \A j \in 1..c : ty[j] = IF j <= n THEN opts[j][1] ELSE PAD0
      BY ONLY <1>1 DEF Types
    <2>4. \A j \in 1..(c + 1) : j <= n + 1 => S[j] = Len(r[j - 1])
      BY ONLY <1>1 DEF Starts
    <2>5. \A j \in 1..n : opts[j][1] = RPLTARGET
      BY ONLY <1>1 DEF TargetOptIs
    <2> HIDE DEF ty, S, c
    <2> QED BY ONLY <2>1, <2>2, <2>3, <2>4, <2>5
  <1> HIDE DEF S, ty, c, k, w, A
  <1>8. RPLTARGET \in 0..255 /\ RPLTARGET # PAD0
    BY DEF RPLTARGET, PAD0
  <1>9. q \in 1..(c + 1)
    BY ONLY <1>1, <1>5, <1>6
  <1> DEFINE e == IF k < n THEN k + 1 ELSE c + 1
             x == IF k < n THEN targets[k + 1] ELSE <<>>
             g == Append(f, x)
             new == [msg |-> w.msg, found |-> g]
             Done(t) == IF k < n THEN t = k + 1 ELSE t = c + 1
  <1>10. FirstFrom(ty, c, q, RPLTARGET, e)
    <2>1. CASE k < n
      <3>1. q = k + 1 /\ e = k + 1 /\ e \in q..(c + 1) /\ e \in 1..n /\ q..(e - 1) = {}
        BY ONLY <1>1, <1>5, <1>6, <2>1
      <3> HIDE DEF e, q
      <3> QED BY ONLY <1>7, <3>1 DEF FirstFrom
    <2>2. CASE ~(k < n)
      <3>1. q = n + 1 /\ e = c + 1 /\ e \in q..(c + 1) /\ \A j \in q..(e - 1) : j \in (n + 1)..c
        BY ONLY <1>1, <1>5, <1>6, <2>2
      <3> HIDE DEF e, q
      <3> QED BY ONLY <1>7, <1>8, <3>1 DEF FirstFrom
    <2> QED BY ONLY <2>1, <2>2
  <1>11. Finds(w, m, S, ty, c, RPLTARGET, q, e)
    <2> HIDE DEF q, e
    <2> QED BY ONLY <1>2, <1>8, <1>9, <1>10, SearchFinds DEF w
  <1>12. /\ w.msg \in Messages /\ Laid(w.msg, S, ty, c) /\ w.msg.bytes = b
         /\ w.offset = IF e = c + 1 THEN NotFound ELSE S[e]
         /\ w.msg.mOptions[RPLTARGET] = IF e = c + 1 THEN S[q] ELSE S[e + 1]
    <2> HIDE DEF q, e
    <2> QED BY ONLY <1>2, <1>11 DEF Finds
  <1>13. x \in A
    BY ONLY <1>1, <1>6 DEF A
  <1>14. rpltarget(m) = [msg |-> w.msg, target |-> x]
    <2>1. CASE k < n
      <3>1. e = k + 1 /\ e # c + 1 /\ e \in 1..n /\ e - 1 = k
        BY ONLY <1>1, <1>5, <1>6, <2>1
      <3>2. x = targets[e]
        BY ONLY <2>1, <3>1
      <3> HIDE DEF e, x
      <3>3. w.offset = Len(r[e - 1])
        BY ONLY <1>7, <1>12, <3>1
      <3>4. HasPart(b, Byte256, Len(r[e - 1]), opts[e]) /\ Len(r[e - 1]) \in Nat
        BY ONLY <1>1, <1>3, <3>1, PaddedAt
      <3> DEFINE s == Len(r[e - 1])
                 o == opts[e]
      <3>5. s \in Nat /\ HasPart(b, Byte256, s, o) /\ x \in TargetAddr /\ TargetOptIs(o, x) /\ w.offset = s
        BY ONLY <1>1, <3>1, <3>2, <3>3, <3>4
      <3> HIDE DEF s, o
      <3>6. search_subopt(m, RPLTARGET) = w
        BY ONLY DEF w
      <3> QED BY ONLY <1>2, <3>5, <3>6, TargetRead
    <2>2. CASE ~(k < n)
      <3>1. w.offset = NotFound /\ x = <<>>
        BY ONLY <1>12, <2>2
      <3> QED BY ONLY <3>1 DEF rpltarget, w
    <2> QED BY ONLY <2>1, <2>2
  <1> HIDE DEF x
  <1>15. res = new
    BY ONLY <1>14 DEF NextTarget, m, f
  <1>16. /\ g \in Seq(A) /\ Len(g) = k + 1 /\ g[k + 1] = x /\ \A j \in 1..k : g[j] = f[j]
    BY ONLY <1>2, <1>13 DEF k
  <1> HIDE DEF g
  <1>17. ASSUME NEW j, j \in 1..(k + 1) PROVE g[j] = IF j <= n THEN targets[j] ELSE <<>>
    <2>1. CASE j = k + 1
      <3>1. j <= n <=> k < n
        BY ONLY <1>1, <1>6, <2>1
      <3> QED BY ONLY <1>16, <2>1, <3>1 DEF x
    <2>2. CASE j # k + 1
      <3>1. j \in 1..k
        BY ONLY <1>6, <1>17, <2>2
      <3> QED BY ONLY <1>2, <1>16, <3>1
    <2> QED BY ONLY <2>1, <2>2
  <1>18. w.msg.mOptions[RPLTARGET] = S[IF k + 1 <= n THEN k + 1 + 1 ELSE n + 1]
    <2>1. CASE k < n
      <3>1. e = k + 1 /\ e # c + 1 /\ k + 1 <= n
        BY ONLY <1>1, <1>5, <1>6, <2>1
      <3> QED BY ONLY <1>12, <3>1
    <2>2. CASE ~(k < n)
      <3>1. e = c + 1 /\ q = n + 1 /\ ~(k + 1 <= n)
        BY ONLY <1>1, <1>5, <1>6, <2>2
      <3> QED BY ONLY <1>12, <3>1
    <2> QED BY ONLY <2>1, <2>2
  <1>19. new.msg = w.msg /\ new.found = g /\ new \in [msg : Messages, found : Seq(A)]
    BY ONLY <1>12, <1>16
  <1> HIDE DEF new, e, q, res
  <1>20. new \in TargetStates(b, targets, r, z)
    BY ONLY <1>12, <1>16, <1>17, <1>18, <1>19 DEF TargetStates, A, S, ty, c, opts, n
  <1>21. Len(new.found) = Len(st.found) + 1
    BY ONLY <1>16, <1>19 DEF k, f
  <1> QED BY ONLY <1>15, <1>20, <1>21 DEF res

TargetFn(b, targets, r, z) == [st \in TargetStates(b, targets, r, z) |-> [i \in Nat |-> NextTarget(st, i)]]

(* The searches are made one after the other. *)
LEMMA TargetsFold ==
    ASSUME NEW b, NEW targets, NEW r, NEW z, IsDao(b, targets, r, z), NEW m,
           [msg |-> m, found |-> <<>>] \in TargetStates(b, targets, r, z), NEW l \in Nat
    PROVE  \E st \in TargetStates(b, targets, r, z) : Targets(m, l) = st.found /\ Len(st.found) = l
  <1> DEFINE base == [msg |-> m, found |-> <<>>]
             calls == [i \in 1..l |-> i]
             T == TargetStates(b, targets, r, z)
             step == TargetFn(b, targets, r, z)
             Eq(f) == f = [s \in SUBSET (1..l) |-> IF s = {} THEN base ELSE NextTarget(f[s \ {Max(s)}], calls[Max(s)])]
             g == CHOOSE f : Eq(f)
             q == RunOf(g, l)
  <1>1. calls \in [1..l -> Nat] /\ DOMAIN calls = 1..l /\ base \in T
    OBVIOUS
  <1>2. Targets(m, l) = g[1..l].found
    BY <1>1 DEF Targets, FoldLeft, MapThenFoldSet
  <1>3. step \in [T -> [Nat -> T]] /\ \A x \in T, e \in Nat : NextTarget(x, e) = step[x][e]
    <2> HIDE DEF T
    <2>1. \A x \in T, e \in Nat : NextTarget(x, e) \in T
      BY NextTargetKeeps DEF T
    <2>2. step = [x \in T |-> [i \in Nat |-> NextTarget(x, i)]]
      BY DEF TargetFn, T
    <2> HIDE DEF step
    <2> QED BY ONLY <2>1, <2>2
  <1> HIDE DEF step, T, base, calls
  <1>4. \A s \in SUBSET (1..l) : s # {} => calls[Max(s)] \in Nat
    BY <1>1, MaxIn
  <1>5. Eq(g)
    <2>1. PICK f : IsTable(f, T, step, base, l, calls)
      BY <1>1, <1>3, FoldTable
    <2>2. Eq(f)
      BY <1>3, <1>4, <2>1, Zenon DEF IsTable
    <2> HIDE DEF Eq
    <2> QED BY ONLY <2>2
  <1>6. IsRun(q, T, step, base, l, calls)
    <2>1. \A s \in SUBSET (1..l) : g[s] = IF s = {} THEN base ELSE NextTarget(g[s \ {Max(s)}], calls[Max(s)])
      BY ONLY <1>5
    <2>2. Follows(g, T, step, base, l, calls)
      BY ONLY <1>3, <1>4, <2>1 DEF Follows
    <2> HIDE DEF g
    <2> QED BY <1>1, <1>3, <2>2, TableRun
  <1>7. g[1..l] = q[l]
    BY DEF RunOf
  <1> HIDE DEF q, g
  <1>8. q \in [0..l -> T] /\ q[0] = base /\ \A k \in 1..l : q[k] = step[q[k - 1]][calls[k]]
    BY ONLY <1>6 DEF IsRun
  <1> DEFINE P == {k \in 0..l : Len(q[k].found) = k}
  <1>9. 0 \in P
    <2>1. base.found = <<>> /\ Len(<<>>) = 0
      BY DEF base
    <2> QED BY <1>8, <2>1
  <1>10. ASSUME NEW k \in 1..l, k - 1 \in P PROVE k \in P
    <2>1. k - 1 \in 0..l /\ k \in Nat /\ k - 1 + 1 = k
      OBVIOUS
    <2> DEFINE x == q[k - 1]
    <2>2. x \in T /\ Len(x.found) = k - 1 /\ q[k] = step[x][calls[k]] /\ calls[k] \in Nat
      BY <1>1, <1>8, <1>10, <2>1
    <2> HIDE DEF x
    <2>3. q[k] = NextTarget(x, calls[k])
      BY ONLY <1>3, <2>2
    <2>4. Len(NextTarget(x, calls[k]).found) = Len(x.found) + 1
      BY ONLY <2>2, IsDao(b, targets, r, z), NextTargetKeeps DEF T
    <2>5. Len(q[k].found) = k
      BY ONLY <2>1, <2>2, <2>3, <2>4
    <2> QED BY <2>5
  <1>11. \A k \in 0..l : k \in P
    <2> HIDE DEF P
    <2> QED BY <1>9, <1>10, UpToInduction
  <1>12. l \in 0..l
    OBVIOUS
  <1>13. Len(q[l].found) = l /\ q[l] \in T
    BY ONLY <1>8, <1>11, <1>12
  <1> QED BY ONLY <1>2, <1>7, <1>13 DEF T

(* Every DAO that fits into the buffer of build_dao is read as it was built: rpltarget returns its
   targets in order, and then NULL. *)
THEOREM EveryTargetArrives ==
    ASSUME NEW targets, targets \in Seq(TargetAddr), TargetsFit(targets)
    PROVE  TargetsFound(targets)
  <1> DEFINE opts == TargetOpts(targets)
             n == Len(targets)
             msg == build_dao(targets)
             b == Options(msg)
             m == Decode(b)
             base == [msg |-> m, found |-> <<>>]
             A == TargetAddr \cup {<<>>}
             full == Append(targets, <<>>)
  <1>1. /\ n \in Nat /\ Len(opts) = n /\ opts \in Seq(OptionBytes) /\ opts \in Seq(Seq(Byte256))
        /\ \A j \in 1..n : targets[j] \in TargetAddr /\ TargetOptIs(opts[j], targets[j])
    BY TargetOptsAre
  <1> HIDE DEF opts, msg, b, m, n
  <1>2. PICK r : FlatRun(r, Byte256, opts)
    BY ONLY <1>1, FlattenRun
  <1>3. Holds(msg, r[Len(opts)])
    BY ONLY <1>1, <1>2, targets \in Seq(TargetAddr), TargetsFit(targets), DaoHolds DEF opts, msg, n
  <1>4. \A i \in 1..Len(opts) : Len(opts[i]) >= 3
    <2>1. PrefixLen \in Nat
      BY OptionsAssumption
    <2> QED BY ONLY <1>1, <2>1 DEF TargetOptIs
  <1>5. PICK z : Padded(b, r, opts, z)
    BY ONLY <1>3, <1>4, BuiltPadded DEF b
  <1>6. IsDao(b, targets, r, z)
    BY ONLY <1>2, <1>5, targets \in Seq(TargetAddr) DEF IsDao, opts
  <1>7. m \in Messages /\ Laid(m, Starts(r, opts, z), Types(opts, z), Count(opts, z))
    BY ONLY <1>1, <1>2, <1>5, LaidFlat DEF m
  <1>8. m.bytes = b /\ \A t \in 0..255 : m.mOptions[t] = 0
    <2>1. m = [bytes |-> b, mOptions |-> [t \in 0..255 |-> 0]]
      BY ONLY <1>5, DecodeIs DEF Padded, m
    <2> QED BY ONLY <2>1
  <1>9. Starts(r, opts, z)[1] = 0
    BY ONLY <1>7 DEF Laid
  <1>10. base \in TargetStates(b, targets, r, z)
    <2>1. /\ base.msg = m /\ base.found = <<>> /\ Len(<<>>) = 0 /\ <<>> \in Seq(A)
          /\ base \in [msg : Messages, found : Seq(A)]
      BY <1>7
    <2> HIDE DEF base
    <2>2. RPLTARGET \in 0..255
      BY DEF RPLTARGET
    <2>3. 0 <= n /\ 0 + 1 = 1
      BY <1>1
    <2> DEFINE k == Len(base.found)
               q == IF k <= n THEN k + 1 ELSE n + 1
    <2>4. k = 0 /\ q = 1
      BY ONLY <2>1, <2>3
    <2>5. 1..k = {}
      BY ONLY <2>4
    <2> HIDE DEF k, q
    <2>6. base.msg.bytes = b /\ base.msg.mOptions[RPLTARGET] = Starts(r, opts, z)[q]
      BY ONLY <1>8, <1>9, <2>1, <2>2, <2>4
    <2>7. Laid(base.msg, Starts(r, opts, z), Types(opts, z), Count(opts, z))
      BY ONLY <1>7, <2>1
    <2>8. \A j \in 1..k : base.found[j] = IF j <= n THEN targets[j] ELSE <<>>
      BY ONLY <2>5
    <2> QED BY ONLY <2>1, <2>6, <2>7, <2>8 DEF TargetStates, A, opts, n, k, q
  <1>11. n + 1 \in Nat
    BY <1>1
  <1>12. PICK st \in TargetStates(b, targets, r, z) : Targets(m, n + 1) = st.found /\ Len(st.found) = n + 1
    BY ONLY <1>6, <1>10, <1>11, TargetsFold
  <1> DEFINE f == st.found
  <1>13. f \in Seq(A) /\ \A j \in 1..(n + 1) : f[j] = IF j <= n THEN targets[j] ELSE <<>>
    BY <1>12 DEF TargetStates, n
  <1>14. targets \in Seq(A)
    <2> DEFINE M == TargetAddr
    <2>1. targets \in Seq(M) /\ M \subseteq A
      OBVIOUS
    <2> HIDE DEF M, A
    <2> QED BY ONLY <2>1
  <1>15. <<>> \in A /\ Len(targets) = n
    BY DEF n
  <1> HIDE DEF A, f
  <1>16. full \in Seq(A) /\ Len(full) = n + 1 /\ full[n + 1] = <<>> /\ \A j \in 1..n : full[j] = targets[j]
    BY ONLY <1>14, <1>15
  <1> HIDE DEF full
  <1>17. ASSUME NEW j, j \in 1..(n + 1) PROVE f[j] = full[j]
    <2>1. CASE j <= n
      <3>1. j \in 1..n
        BY ONLY <1>1, <1>17, <2>1
      <3> QED BY ONLY <1>13, <1>16, <1>17, <2>1, <3>1
    <2>2. CASE ~(j <= n)
      <3>1. j = n + 1
        BY ONLY <1>1, <1>17, <2>2
      <3>2. f[j] = <<>>
        BY ONLY <1>13, <1>17, <2>2
      <3> QED BY ONLY <1>16, <3>1, <3>2
    <2> QED BY ONLY <2>1, <2>2
  <1>18. f = full
    <2>1. Len(f) = n + 1
      BY ONLY <1>12 DEF f
    <2> QED BY ONLY <1>13, <1>16, <1>17, <2>1, SameSeq
  <1> QED BY <1>12, <1>18 DEF TargetsFound, f, full, m, b, msg, n

(* A message with one option of type t: it is found, and then no other. *)
OnlyOption(m, o, t) ==
    LET first == search_subopt(m, t)
    IN  /\ HasPart(m.bytes, Byte256, 0, o) /\ first.msg.bytes = m.bytes
        /\ first.offset = 0 /\ search_subopt(first.msg, t).offset = NotFound

(* Every message that was built with one option has that option only. *)
LEMMA OneOption ==
    ASSUME NEW t, t \in Byte256 \ {PAD0}, NEW data, OptionIs(OptionOf(t, data), t, data), Len(data) >= 1,
           HeaderLen + Len(data) + 2 <= BuffLen
    PROVE  OnlyOption(Decode(Options(AppendOwn(t, data))), OptionOf(t, data), t)
  <1> DEFINE o == OptionOf(t, data)
             opts == << o >>
             msg == AppendOwn(t, data)
             b == Options(msg)
             m == Decode(b)
             w == search_subopt(m, t)
             v == search_subopt(w.msg, t)
  <1>1. o \in Seq(Byte256) /\ o \in OptionBytes /\ Len(o) = Len(data) + 2 /\ Len(data) \in Nat /\ o[1] = t
    BY DEF OptionIs
  <1> HIDE DEF o
  <1>2. opts \in Seq(OptionBytes) /\ opts \in Seq(Seq(Byte256)) /\ Len(opts) = 1 /\ opts[1] = o
    <2> DEFINE O == OptionBytes
               T == Seq(Byte256)
    <2>1. o \in O /\ o \in T
      BY ONLY <1>1
    <2> HIDE DEF O, T
    <2>2. opts \in Seq(O) /\ opts \in Seq(T) /\ Len(opts) = 1 /\ opts[1] = o
      BY ONLY <2>1
    <2> QED BY ONLY <2>2 DEF O, T
  <1> HIDE DEF opts
  <1>3. PICK r : FlatRun(r, Byte256, opts)
    BY ONLY <1>2, FlattenRun
  <1>4. r[0] = <<>> /\ r[1] = <<>> \o o /\ Len(r[0]) = 0
    <2>1. r[0] = <<>> /\ \A k \in 1..1 : r[k] = r[k - 1] \o opts[k]
      BY ONLY <1>2, <1>3 DEF FlatRun
    <2>2. ASSUME NEW k, k \in 1..1 PROVE k = 1 /\ k - 1 = 0
      BY ONLY <2>2
    <2>3. 1 \in 1..1 /\ 1 - 1 = 0
      OBVIOUS
    <2>4. r[1] = r[1 - 1] \o opts[1]
      BY ONLY <2>1, <2>3
    <2>5. Len(<<>>) = 0
      OBVIOUS
    <2> QED BY ONLY <1>2, <2>1, <2>3, <2>4, <2>5
  <1>5. Holds(msg, r[Len(opts)])
    <2>1. HeaderLen \in Nat /\ BuffLen \in Nat
      BY OptionsAssumption
    <2>2. Empty.next = HeaderLen
      BY DEF Empty
    <2>3. ~(Len(data) + 2 < Len(data) + 2) /\ Empty.next + Len(data) + 2 <= BuffLen
      BY ONLY <1>1, <2>1, <2>2, HeaderLen + Len(data) + 2 <= BuffLen
    <2>4. Holds(append_suboption(Empty, Len(data) + 2, t, data), <<>> \o OptionOf(t, data))
      BY ONLY <2>3, OptionIs(OptionOf(t, data), t, data), EmptyHolds, AppendHolds
    <2> QED BY ONLY <1>2, <1>4, <2>4 DEF AppendOwn, o
  <1>6. \A i \in 1..Len(opts) : Len(opts[i]) >= 3
    <2>1. Len(o) >= 3
      BY ONLY <1>1, Len(data) >= 1
    <2>2. ASSUME NEW i, i \in 1..1 PROVE i = 1
      BY ONLY <2>2
    <2> QED BY ONLY <1>2, <2>1, <2>2
  <1> HIDE DEF msg, b, m
  <1>7. PICK z : Padded(b, r, opts, z)
    BY ONLY <1>5, <1>6, BuiltPadded DEF b
  <1> DEFINE S == Starts(r, opts, z)
             ty == Types(opts, z)
             c == Count(opts, z)
  <1>8. m \in Messages /\ Laid(m, S, ty, c)
    BY ONLY <1>2, <1>3, <1>7, LaidFlat DEF m
  <1>9. m.bytes = b /\ \A u \in 0..255 : m.mOptions[u] = 0
    <2>1. m = [bytes |-> b, mOptions |-> [u \in 0..255 |-> 0]]
      BY ONLY <1>7, DecodeIs DEF Padded, m
    <2> QED BY ONLY <2>1
  <1>10. HasPart(b, Byte256, 0, o)
    <2>1. 1 \in 1..Len(opts) /\ 1 - 1 = 0
      BY ONLY <1>2
    <2>2. HasPart(b, Byte256, Len(r[1 - 1]), opts[1])
      BY ONLY <1>2, <1>3, <1>7, <2>1, PaddedAt
    <2> QED BY ONLY <1>2, <1>4, <2>1, <2>2
  <1>11. c \in Nat /\ c >= 1 /\ z \in Nat
    <2>1. z \in Nat
      BY ONLY <1>7 DEF Padded
    <2> QED BY ONLY <1>2, <2>1 DEF Count, c
  <1>12. ty[1] = t /\ \A j \in 2..c : ty[j] = PAD0
    <2>1. \A j \in 1..c : ty[j] = IF j <= 1 THEN opts[j][1] ELSE PAD0
      BY ONLY <1>2 DEF Types, ty, c
    <2>2. 1 \in 1..c /\ 1 <= 1 /\ \A j \in 2..c : j \in 1..c /\ ~(j <= 1)
      BY ONLY <1>11
    <2> HIDE DEF ty, c
    <2> QED BY ONLY <1>1, <1>2, <2>1, <2>2
  <1> HIDE DEF S, ty, c, w, v
  <1>13. t \in 0..255 /\ t # PAD0
    BY DEF Byte256
  <1>14. S[1] = 0
    BY ONLY <1>8 DEF Laid
  <1>15. Finds(w, m, S, ty, c, t, 1, 1)
    <2>1. FirstFrom(ty, c, 1, t, 1)
      <3>1. 1 \in 1..(c + 1) /\ 1..(1 - 1) = {}
        BY ONLY <1>11
      <3> QED BY ONLY <1>12, <3>1 DEF FirstFrom
    <2>2. 1 \in 1..(c + 1)
      BY ONLY <1>11
    <2>3. m.mOptions[t] = S[1]
      BY ONLY <1>9, <1>13, <1>14
    <2> QED BY ONLY <1>8, <1>13, <2>1, <2>2, <2>3, SearchFinds DEF w
  <1>16. w.msg \in Messages /\ Laid(w.msg, S, ty, c) /\ w.msg.bytes = b /\ w.offset = 0 /\ w.msg.mOptions[t] = S[2]
    <2>1. 1 # c + 1 /\ 1 + 1 = 2
      BY ONLY <1>11
    <2> QED BY ONLY <1>9, <1>14, <1>15, <2>1 DEF Finds
  <1>17. Finds(v, w.msg, S, ty, c, t, 2, c + 1)
    <2> DEFINE e == c + 1
               x == w.msg
    <2>1. e \in 2..(c + 1) /\ 2 \in 1..(c + 1) /\ e = c + 1 /\ \A j \in 2..(e - 1) : j \in 2..c
      BY ONLY <1>11
    <2> HIDE DEF e, x
    <2>2. FirstFrom(ty, c, 2, t, e)
      BY ONLY <1>12, <1>13, <2>1 DEF FirstFrom
    <2>3. x \in Messages /\ Laid(x, S, ty, c) /\ x.mOptions[t] = S[2]
      BY ONLY <1>16 DEF x
    <2>4. Finds(search_subopt(x, t), x, S, ty, c, t, 2, e)
      BY ONLY <1>13, <2>1, <2>2, <2>3, SearchFinds
    <2> QED BY ONLY <2>4 DEF v, x, e
  <1>18. v.offset = NotFound
    BY ONLY <1>17 DEF Finds
  <1> QED BY ONLY <1>9, <1>10, <1>16, <1>18 DEF OnlyOption, w, v, m, b, msg, o

(* The lifetimes of a prefix, in network order. *)
Lifetimes == [1..4 -> Byte256]

(* The data of the option of a DIO end with the whole prefix. *)
LEMMA PrefixData ==
    ASSUME NEW addr, addr \in TargetAddr, NEW lifetime, lifetime \in Lifetimes
    PROVE  LET data == build_prefix_dioopt(addr, 8 * PrefixLen, lifetime)
           IN  /\ data \in Seq(Byte256) /\ Len(data) = 14 + PrefixLen
               /\ \A k \in 1..PrefixLen : data[14 + k] = addr[k]
  <1> DEFINE p == PrefixLen
             h == <<8 * p, 64>>
             z == <<0, 0, 0, 0>>
             f == [i \in 1..p |-> IF i <= (8 * p + 7) \div 8 THEN addr[i] ELSE 0]
             h1 == h \o lifetime
             h2 == h1 \o lifetime
             h3 == h2 \o z
             data == h3 \o f
  <1>1. p \in 0..31
    BY OptionsAssumption
  <1>2. data = build_prefix_dioopt(addr, 8 * PrefixLen, lifetime)
    BY DEF build_prefix_dioopt
  <1>3. addr \in [1..p -> Byte256] /\ lifetime \in [1..4 -> Byte256]
    BY DEF TargetAddr, Lifetimes
  <1> HIDE DEF p
  <1>4. p \in Nat /\ 8 * p \in Byte256 /\ 0 \in Byte256 /\ 64 \in Byte256 /\ (8 * p + 7) \div 8 = p
    BY ONLY <1>1 DEF Byte256
  <1>5. h \in Seq(Byte256) /\ Len(h) = 2 /\ z \in Seq(Byte256) /\ Len(z) = 4
    <2> DEFINE x == 8 * p
    <2>1. x \in Byte256
      BY <1>4
    <2> HIDE DEF x
    <2>2. <<x, 64>> \in Seq(Byte256) /\ Len(<<x, 64>>) = 2 /\ z \in Seq(Byte256) /\ Len(z) = 4
      BY ONLY <1>4, <2>1
    <2> QED BY ONLY <2>2 DEF x
  <1>6. lifetime \in Seq(Byte256) /\ Len(lifetime) = 4
    <2> DEFINE B == Byte256
               n == 4
    <2>1. n \in Nat /\ lifetime \in [1..n -> B]
      BY ONLY <1>3
    <2> HIDE DEF B, n
    <2>2. lifetime \in Seq(B) /\ Len(lifetime) = n
      BY ONLY <2>1
    <2> QED BY ONLY <2>2 DEF B, n
  <1>7. f = addr /\ addr \in Seq(Byte256) /\ Len(addr) = p
    <2>1. f = [i \in 1..p |-> addr[i]]
      BY ONLY <1>4
    <2> DEFINE B == Byte256
    <2>2. addr \in [1..p -> B]
      BY ONLY <1>3
    <2> HIDE DEF B, f
    <2>3. f = addr /\ addr \in Seq(B) /\ Len(addr) = p
      BY ONLY <1>4, <2>1, <2>2
    <2> QED BY ONLY <2>3 DEF B
  <1> HIDE DEF h, z, f
  <1>8. h1 \in Seq(Byte256) /\ Len(h1) = Len(h) + Len(lifetime)
    BY ONLY <1>5, <1>6, ConcatAt
  <1> HIDE DEF h1
  <1>9. h2 \in Seq(Byte256) /\ Len(h2) = Len(h1) + Len(lifetime)
    BY ONLY <1>6, <1>8, ConcatAt
  <1> HIDE DEF h2
  <1>10. h3 \in Seq(Byte256) /\ Len(h3) = Len(h2) + Len(z)
    BY ONLY <1>5, <1>9, ConcatAt
  <1> HIDE DEF h3
  <1>11. h3 \in Seq(Byte256) /\ f \in Seq(Byte256)
    BY ONLY <1>7, <1>10
  <1>12. /\ data \in Seq(Byte256) /\ Len(data) = Len(h3) + Len(f)
         /\ \A i \in 1..Len(f) : data[Len(h3) + i] = f[i]
    BY ONLY <1>11, ConcatAt
  <1> HIDE DEF data
  <1>13. Len(h3) = 14
    BY ONLY <1>5, <1>6, <1>8, <1>9, <1>10
  <1>14. Len(data) = 14 + p /\ \A k \in 1..p : data[14 + k] = addr[k]
    BY ONLY <1>7, <1>12, <1>13
  <1> QED BY ONLY <1>2, <1>12, <1>14 DEF p

(* The data of the option of a DIS. *)
LEMMA InfoData ==
    ASSUME NEW inst, inst \in Byte256
    PROVE  build_info_disopt(inst) \in Seq(Byte256) /\ Len(build_info_disopt(inst)) = PrefixLen + 3
  <1> DEFINE p == PrefixLen + 1
             h == <<inst, 64>>
             f == [i \in 1..p |-> 0]
             B == Byte256
  <1>1. p \in Nat /\ PrefixLen \in Nat
    BY OptionsAssumption
  <1>2. 0 \in B /\ 64 \in B /\ inst \in B
    BY DEF Byte256
  <1> HIDE DEF p, B
  <1>3. h \in Seq(B) /\ Len(h) = 2
    BY ONLY <1>2
  <1>4. f \in Seq(B) /\ Len(f) = p
    BY ONLY <1>1, <1>2
  <1>5. h \o f = build_info_disopt(inst)
    BY DEF build_info_disopt, p
  <1> HIDE DEF h, f
  <1>6. h \o f \in Seq(B) /\ Len(h \o f) = Len(h) + Len(f)
    BY ONLY <1>3, <1>4, ConcatAt
  <1>7. Len(h) + Len(f) = PrefixLen + 3
    BY ONLY <1>1, <1>3, <1>4 DEF p
  <1> QED BY ONLY <1>5, <1>6, <1>7 DEF B

(* Every DIO and every DIS is read as it was built: destprefix returns the prefix that build_dio was
   given, rplsolicitedinfo the solicitation, and both return NULL when they are called again. *)
THEOREM EveryOptionArrives ==
    ASSUME NEW addr, addr \in TargetAddr, NEW lifetime, lifetime \in Lifetimes, NEW inst, inst \in Byte256
    PROVE  PrefixFound(addr, lifetime) /\ SolicitationFound(inst)
  <1>0. /\ PrefixLen \in 0..31 /\ HeaderLen \in Nat /\ BuffLen \in Nat /\ HeaderLen + PrefixLen + 16 <= BuffLen
    BY OptionsAssumption
  <1>1. PrefixFound(addr, lifetime)
    <2> DEFINE p == PrefixLen
               data == build_prefix_dioopt(addr, 8 * PrefixLen, lifetime)
               o == OptionOf(DESTPREFIX, data)
               m == Decode(Options(AppendOwn(DESTPREFIX, data)))
               w == search_subopt(m, DESTPREFIX)
               b == m.bytes
    <2>1. data \in Seq(Byte256) /\ Len(data) = 14 + p /\ \A k \in 1..p : data[14 + k] = addr[k]
      BY ONLY addr \in TargetAddr, lifetime \in Lifetimes, PrefixData
    <2> HIDE DEF data, p
    <2>2. p \in Nat /\ Len(data) \in 1..255 /\ Len(data) >= 1 /\ HeaderLen + Len(data) + 2 <= BuffLen
      BY ONLY <1>0, <2>1 DEF p
    <2>3. DESTPREFIX \in Byte256 \ {PAD0}
      BY DEF DESTPREFIX, PAD0, Byte256
    <2>4. OptionIs(o, DESTPREFIX, data)
      BY ONLY <2>1, <2>2, <2>3, OptionFits
    <2>5. OnlyOption(m, o, DESTPREFIX)
      BY ONLY <2>2, <2>3, <2>4, OneOption
    <2> HIDE DEF o, m
    <2>6. Len(o) = 16 + p /\ o[1] = DESTPREFIX /\ o[2] = 14 + p /\ \A k \in 1..(14 + p) : o[2 + k] = data[k]
      <3>1. /\ Len(o) = Len(data) + 2 /\ o[1] = DESTPREFIX /\ o[2] = Len(data)
            /\ \A k \in 1..Len(data) : o[2 + k] = data[k]
        BY ONLY <2>4 DEF OptionIs
      <3> QED BY ONLY <2>1, <2>2, <3>1
    <2>7. HasPart(b, Byte256, 0, o) /\ w.offset = 0 /\ search_subopt(w.msg, DESTPREFIX).offset = NotFound
      BY ONLY <2>5 DEF OnlyOption
    <2> HIDE DEF w, b
    <2>8. b \in Seq(Byte256) /\ Len(b) \in Nat /\ 16 + p <= Len(b) /\ \A k \in 1..(16 + p) : b[k] = o[k]
      <3>1. b \in Seq(Byte256) /\ Len(b) \in Nat /\ 0 + Len(o) <= Len(b) /\ \A k \in 1..Len(o) : b[0 + k] = o[k]
        BY ONLY <2>7 DEF HasPart
      <3> QED BY ONLY <2>2, <2>6, <3>1
    <2>9. b[1] = DESTPREFIX /\ b[2] = 14 + p /\ \A k \in 1..p : b[16 + k] = addr[k]
      <3>1. 1 \in 1..(16 + p) /\ 2 \in 1..(16 + p)
        BY ONLY <2>2
      <3>2. ASSUME NEW k, k \in 1..p PROVE b[16 + k] = addr[k]
        <4>1. 16 + k \in 1..(16 + p) /\ 14 + k \in 1..(14 + p) /\ 2 + (14 + k) = 16 + k
          BY ONLY <2>2, <3>2
        <4>2. b[16 + k] = o[16 + k] /\ o[2 + (14 + k)] = data[14 + k] /\ data[14 + k] = addr[k]
          BY ONLY <2>1, <2>6, <2>8, <3>2, <4>1
        <4> QED BY ONLY <4>1, <4>2
      <3> QED BY ONLY <2>6, <2>8, <3>1, <3>2
    <2>10. SkipLen(m, 0) = 14 + p + 2 /\ ~(14 + p + 2 < 16 + p)
      <3>1. At(m, 0) = DESTPREFIX /\ At(m, 0 + 1) = 14 + p
        BY ONLY <2>9 DEF At, b
      <3>2. DESTPREFIX # PAD0
        BY DEF DESTPREFIX, PAD0
      <3> QED BY ONLY <2>2, <3>1, <3>2 DEF SkipLen
    <2> DEFINE u == SubSeq(b, 0 + 17, 0 + 16 + p)
               B == Byte256
    <2>11. b \in Seq(B)
      BY ONLY <2>8
    <2>12. addr \in [1..p -> B]
      BY ONLY addr \in TargetAddr DEF TargetAddr, p
    <2> HIDE DEF B
    <2>13. addr \in Seq(B) /\ Len(addr) = p
      BY ONLY <2>2, <2>12
    <2>14. u \in Seq(B) /\ Len(u) = p /\ \A k \in 1..p : u[k] = b[16 + k]
      <3> DEFINE x == 0 + 17
                 y == 0 + 16 + p
      <3>1. x \in 1..(Len(b) + 1) /\ y \in (x - 1)..Len(b) /\ y - x + 1 = p /\ \A k \in 1..p : x + k - 1 = 16 + k
        BY ONLY <2>2, <2>8
      <3> HIDE DEF x, y
      <3>2. SubSeq(b, x, y) \in Seq(B) /\ Len(SubSeq(b, x, y)) = p /\ \A k \in 1..p : SubSeq(b, x, y)[k] = b[x + k - 1]
        BY ONLY <2>2, <2>11, <3>1
      <3>3. SubSeq(b, x, y) \in Seq(B) /\ Len(SubSeq(b, x, y)) = p /\ \A k \in 1..p : SubSeq(b, x, y)[k] = b[16 + k]
        BY ONLY <3>1, <3>2
      <3> QED BY ONLY <3>3 DEF x, y
    <2> HIDE DEF u
    <2>15. u = addr
      <3>1. \A k \in 1..Len(u) : u[k] = addr[k]
        BY ONLY <2>9, <2>14
      <3>2. Len(u) = Len(addr)
        BY ONLY <2>13, <2>14
      <3> QED BY ONLY <2>13, <2>14, <3>1, <3>2, SameSeq
    <2>16. 0 # NotFound
      BY DEF NotFound
    <2>17. destprefix(m) = [msg |-> w.msg, prefix |-> addr]
      BY ONLY <2>7, <2>10, <2>15, <2>16 DEF destprefix, w, u, b, p
    <2>18. destprefix(w.msg).prefix = <<>>
      BY ONLY <2>7 DEF destprefix
    <2>19. m = Decode(Options(build_dio(addr, 8 * PrefixLen, lifetime)))
      BY ONLY DEF m, data, build_dio
    <2>20. destprefix(m).prefix = addr /\ destprefix(m).msg = w.msg
      BY ONLY <2>17
    <2> QED BY ONLY <2>18, <2>19, <2>20 DEF PrefixFound
  <1>2. SolicitationFound(inst)
    <2> DEFINE data == build_info_disopt(inst)
               o == OptionOf(SOLICITEDINFO, data)
               m == Decode(Options(AppendOwn(SOLICITEDINFO, data)))
    <2>1. data \in Seq(Byte256) /\ Len(data) = PrefixLen + 3
      BY ONLY inst \in Byte256, InfoData
    <2> HIDE DEF data
    <2>2. Len(data) \in 1..255 /\ Len(data) >= 1 /\ HeaderLen + Len(data) + 2 <= BuffLen
      BY ONLY <1>0, <2>1
    <2>3. SOLICITEDINFO \in Byte256 \ {PAD0}
      BY DEF SOLICITEDINFO, PAD0, Byte256
    <2>4. OptionIs(o, SOLICITEDINFO, data)
      BY ONLY <2>1, <2>2, <2>3, OptionFits
    <2>5. OnlyOption(m, o, SOLICITEDINFO)
      BY ONLY <2>2, <2>3, <2>4, OneOption
    <2> HIDE DEF o, m
    <2>6. m = Decode(Options(build_dis(inst)))
      BY ONLY DEF m, data, build_dis
    <2>7. search_subopt(m, SOLICITEDINFO).offset = 0
          /\ search_subopt(search_subopt(m, SOLICITEDINFO).msg, SOLICITEDINFO).offset = NotFound
      BY ONLY <2>5 DEF OnlyOption
    <2> QED BY ONLY <2>6, <2>7 DEF SolicitationFound, rplsolicitedinfo
  <1> QED BY ONLY <1>1, <1>2

(* Options of the run are options. *)
LEMMA OptionIn == Option \subseteq OptionBytes
  <1>1. {0, 1, 2, 3, 5, 8} \subseteq Byte256
    BY DEF Byte256
  <1>2. <<PAD0>> \in OptionBytes
    BY <1>1 DEF OptionBytes, PAD0
  <1>3. <<1, 1, 5>> \in OptionBytes
    BY <1>1 DEF OptionBytes, PAD0
  <1>4. <<RPLTARGET, 1, 8>> \in OptionBytes
    BY <1>1 DEF OptionBytes, PAD0, RPLTARGET
  <1>5. <<RPLTARGET, 2, 5, 1>> \in OptionBytes
    BY <1>1 DEF OptionBytes, PAD0, RPLTARGET
  <1>6. <<DESTPREFIX, 3, 5, 1, 8>> \in OptionBytes
    BY <1>1 DEF OptionBytes, PAD0, DESTPREFIX
  <1> QED BY ONLY <1>2, <1>3, <1>4, <1>5, <1>6 DEF Option

(* What the run checks of the options of messages (rplmsg.cpp, dao.cpp, dio.cpp, dis.cpp) is an
   instance. *)
THEOREM OptionsCorrect == Spec => []OptionsArrive
  <1>1. Init => OptionsInOrder
    <2> SUFFICES ASSUME Init, kind = "options", NEW calls, calls \in Tuples({RPLTARGET, DESTPREFIX}, MaxCalls)
                 PROVE  FoundInOrder(input, calls)
      BY DEF OptionsInOrder
    <2>1. input \in Option \X Option \X Option \X Option
      BY DEF Init
    <2>2. input \in Seq(OptionBytes) /\ input # <<>>
      <3> DEFINE O == OptionBytes
                 D == Option
      <3>1. D \subseteq O
        BY OptionIn
      <3>2. input \in D \X D \X D \X D
        BY <2>1
      <3> HIDE DEF O, D
      <3>3. PICK a \in D, b \in D, c \in D, d \in D : input = <<a, b, c, d>>
        BY ONLY <3>2
      <3>4. input \in Seq(O) /\ input # <<>>
        BY ONLY <3>1, <3>3
      <3> QED BY ONLY <3>4 DEF O
    <2>3. calls \in Seq(0..255)
      <3> DEFINE T == {RPLTARGET, DESTPREFIX}
                 B == 0..255
      <3>1. T \subseteq B
        BY DEF RPLTARGET, DESTPREFIX
      <3>2. calls \in [1..MaxCalls -> T] /\ MaxCalls \in Nat
        BY OptionBounds DEF Tuples
      <3> HIDE DEF T, B
      <3>3. calls \in Seq(B)
        BY ONLY <3>1, <3>2
      <3> QED BY ONLY <3>3 DEF B
    <2> QED BY ONLY <2>2, <2>3, EveryOptionFound
  <1>2. Init => TargetsArrive
    <2> DEFINE first == IF input = <<>> THEN [i \in 1..PrefixLen |-> 8] ELSE input[1]
               life == <<5, 7, 8, 1>>
    <2> SUFFICES ASSUME Init, kind = "targets", TargetsFit(input)
                 PROVE  TargetsFound(input) /\ PrefixFound(first, life) /\ SolicitationFound(7)
      BY DEF TargetsArrive
    <2>1. input \in Seq(TargetAddr)
      <3> DEFINE A == TargetAddr
                 D == Tuples({5, 0}, PrefixLen)
      <3>1. input \in UpTo(D, MaxTargets) /\ MaxTargets \in Nat
        BY OptionBounds DEF Init
      <3>2. D \subseteq A
        BY DEF Tuples, TargetAddr, Byte256
      <3> HIDE DEF A, D
      <3>3. input \in Seq(D)
        BY ONLY <3>1, UpToSeq
      <3>4. input \in Seq(A)
        BY ONLY <3>2, <3>3
      <3> QED BY ONLY <3>4 DEF A
    <2>2. first \in TargetAddr
      <3> DEFINE A == TargetAddr
                 d == [i \in 1..PrefixLen |-> 8]
      <3>1. d \in A
        BY DEF TargetAddr, Byte256
      <3>2. input \in Seq(A)
        BY ONLY <2>1
      <3> HIDE DEF A, d
      <3>3. CASE input = <<>>
        BY ONLY <3>1, <3>3 DEF d, A
      <3>4. CASE input # <<>>
        <4>1. input[1] \in A
          BY ONLY <3>2, <3>4
        <4> QED BY ONLY <3>4, <4>1 DEF A
      <3> QED BY ONLY <3>3, <3>4
    <2>3. life \in Lifetimes
      <3>1. {5, 7, 8, 1} \subseteq Byte256
        BY DEF Byte256
      <3> HIDE DEF Byte256
      <3> QED BY <3>1 DEF Lifetimes
    <2>4. 7 \in Byte256
      BY DEF Byte256
    <2>5. TargetsFound(input)
      BY ONLY <2>1, TargetsFit(input), EveryTargetArrives
    <2> HIDE DEF first, life
    <2> QED BY ONLY <2>2, <2>3, <2>4, <2>5, EveryOptionArrives
  <1>3. Init => OptionsArrive
    BY <1>1, <1>2 DEF OptionsArrive
  <1> QED
    BY <1>3, InputStays, PTL

-----------------------------------------------------------------------------
(* Attributes, and messages of them. *)
Attr == [type : Nat, data : Seq(Nat)]
AttrBuffers == [0..(Room - 1) -> Nat]
AttrMessages == {n \in [buf : AttrBuffers, len : Nat] : n.len <= Room /\ n.len % 4 = 0}

(* An attribute a is at s. *)
AttrAt(buf, s, a) ==
    /\ s \in Nat /\ Len(a.data) \in Nat /\ s + (4 + Len(a.data)) <= Room
    /\ buf[s] = 4 + Len(a.data) /\ buf[s + 2] = a.type
    /\ \A k \in 1..Len(a.data) : buf[s + 3 + k] = a.data[k]

(* The place of an attribute. *)
LEMMA SizeIs ==
    ASSUME NEW a, a \in Attr
    PROVE  /\ Len(a.data) \in Nat /\ Size(a) \in Nat /\ Size(a) = Aligned(4 + Len(a.data))
           /\ 4 + Len(a.data) <= Size(a) /\ Size(a) % 4 = 0 /\ Size(a) >= 4
  <1> DEFINE l == Len(a.data)
             q == (l + 3) \div 4
  <1>1. l \in Nat
    BY DEF Attr
  <1> HIDE DEF l
  <1>2. q \in Nat /\ 4 * q >= l /\ (4 + l + 3) \div 4 = q + 1
    BY ONLY <1>1
  <1>3. Size(a) = 4 + 4 * q /\ Aligned(4 + l) = ((4 + l + 3) \div 4) * 4
    BY DEF Size, Aligned, l
  <1> HIDE DEF q
  <1>4. (4 + 4 * q) % 4 = 0 /\ (q + 1) * 4 = 4 + 4 * q
    BY ONLY <1>2
  <1>5. /\ Size(a) \in Nat /\ Size(a) = Aligned(4 + l) /\ 4 + l <= Size(a) /\ Size(a) % 4 = 0 /\ Size(a) >= 4
    BY ONLY <1>1, <1>2, <1>3, <1>4
  <1> QED BY ONLY <1>1, <1>5 DEF l

(* A multiple of four is aligned. *)
LEMMA AlignedIs ==
    ASSUME NEW n \in Nat, n % 4 = 0
    PROVE  Aligned(n) = n
  <1>1. (n + 3) \div 4 = n \div 4 /\ (n \div 4) * 4 = n
    OBVIOUS
  <1> QED BY <1>1 DEF Aligned

(* The buffer p is buf with the bytes from at on. *)
PutAt(p, buf, at, bytes) ==
    /\ p \in AttrBuffers
    /\ \A k \in 0..(Room - 1) : k < at => p[k] = buf[k]
    /\ \A k \in 0..(Room - 1) : k >= at + Len(bytes) => p[k] = buf[k]
    /\ \A j \in 1..Len(bytes) : at + (j - 1) < Room => p[at + (j - 1)] = bytes[j]

(* Bytes that are put into a buffer. *)
LEMMA PutIs ==
    ASSUME NEW buf, buf \in AttrBuffers, NEW at, at \in Nat, NEW bytes, bytes \in Seq(Nat)
    PROVE  PutAt(Put(buf, at, bytes), buf, at, bytes)
  <1> DEFINE l == Len(bytes)
             p == Put(buf, at, bytes)
  <1>1. l \in Nat /\ DOMAIN bytes = 1..l /\ \A j \in 1..l : bytes[j] \in Nat
    OBVIOUS
  <1>2. Room \in Nat
    BY RoomAssumption
  <1>3. DOMAIN buf = 0..(Room - 1) /\ \A k \in 0..(Room - 1) : buf[k] \in Nat
    BY DEF AttrBuffers
  <1>4. p = [k \in 0..(Room - 1) |-> IF k - at + 1 \in 1..l THEN bytes[k - at + 1] ELSE buf[k]]
    BY ONLY <1>1, <1>3 DEF Put
  <1> HIDE DEF p, l
  <1>5. p \in AttrBuffers
    BY ONLY <1>1, <1>3, <1>4 DEF AttrBuffers
  <1>6. ASSUME NEW k, k \in 0..(Room - 1), k < at \/ k >= at + l PROVE p[k] = buf[k]
    <2>1. ~(k - at + 1 \in 1..l)
      BY ONLY <1>1, <1>2, <1>6, at \in Nat
    <2> QED BY ONLY <1>4, <1>6, <2>1
  <1>7. ASSUME NEW j, j \in 1..l, at + (j - 1) < Room PROVE p[at + (j - 1)] = bytes[j]
    <2> DEFINE k == at + (j - 1)
    <2>1. k \in 0..(Room - 1) /\ k - at + 1 = j
      BY ONLY <1>1, <1>2, <1>7, at \in Nat
    <2> HIDE DEF k
    <2>2. p[k] = bytes[j]
      BY ONLY <1>4, <1>7, <2>1
    <2> QED BY ONLY <2>2 DEF k
  <1> QED BY ONLY <1>5, <1>6, <1>7 DEF PutAt, p, l

(* An attribute that is put where there is room for it is there. *)
LEMMA PutAttr ==
    ASSUME NEW buf, buf \in AttrBuffers, NEW s, s \in Nat, NEW a, a \in Attr, s + (4 + Len(a.data)) <= Room
    PROVE  /\ Put(buf, s, Attribute(a.type, a.data)) \in AttrBuffers
           /\ \A k \in 0..(Room - 1) : k < s => Put(buf, s, Attribute(a.type, a.data))[k] = buf[k]
           /\ AttrAt(Put(buf, s, Attribute(a.type, a.data)), s, a)
  <1> DEFINE l == Len(a.data)
             d == a.data
             t == a.type
             h == <<4 + l, 0, t, 0>>
             o == h \o d
             p == Put(buf, s, o)
  <1>1. l \in Nat /\ d \in Seq(Nat) /\ t \in Nat
    BY DEF Attr
  <1>2. o = Attribute(a.type, a.data)
    BY DEF Attribute
  <1>3. Room \in Nat /\ s + (4 + l) <= Room
    BY RoomAssumption
  <1>0. Len(d) = l
    OBVIOUS
  <1> HIDE DEF l, d, t
  <1>4. h \in Seq(Nat) /\ Len(h) = 4 /\ h[1] = 4 + l /\ h[3] = t
    BY ONLY <1>1
  <1> HIDE DEF h
  <1>5. /\ o \in Seq(Nat) /\ Len(o) = Len(h) + Len(d)
        /\ \A i \in 1..Len(h) : o[i] = h[i]
        /\ \A i \in 1..Len(d) : o[Len(h) + i] = d[i]
    <2> DEFINE V == Nat
    <2>1. h \in Seq(V) /\ d \in Seq(V)
      BY ONLY <1>1, <1>4
    <2> HIDE DEF V
    <2>2. /\ o \in Seq(V) /\ Len(o) = Len(h) + Len(d)
          /\ \A i \in 1..Len(h) : o[i] = h[i]
          /\ \A i \in 1..Len(d) : o[Len(h) + i] = d[i]
      BY ONLY <2>1, ConcatAt
    <2> QED BY ONLY <2>2 DEF V
  <1> HIDE DEF o
  <1>6. Len(o) = 4 + l /\ o[1] = 4 + l /\ o[3] = t /\ \A i \in 1..l : o[4 + i] = d[i]
    <2>1. 1 \in 1..Len(h) /\ 3 \in 1..Len(h)
      BY ONLY <1>4
    <2> QED BY ONLY <1>0, <1>4, <1>5, <2>1
  <1>7. /\ p \in AttrBuffers /\ \A k \in 0..(Room - 1) : k < s => p[k] = buf[k]
        /\ \A j \in 1..Len(o) : s + (j - 1) < Room => p[s + (j - 1)] = o[j]
    <2>1. o \in Seq(Nat)
      BY ONLY <1>5
    <2>2. PutAt(p, buf, s, o)
      BY ONLY buf \in AttrBuffers, s \in Nat, <2>1, PutIs
    <2> QED BY ONLY <2>2 DEF PutAt
  <1> HIDE DEF p
  <1>8. p[s] = 4 + l /\ p[s + 2] = t
    <2>1. /\ 1 \in 1..(4 + l) /\ s + (1 - 1) < Room /\ s + (1 - 1) = s
          /\ 3 \in 1..(4 + l) /\ s + (3 - 1) < Room /\ 3 - 1 = 2
      BY ONLY <1>1, <1>3, s \in Nat
    <2>2. p[s + (1 - 1)] = o[1] /\ p[s + (3 - 1)] = o[3]
      BY ONLY <1>6, <1>7, <2>1
    <2> QED BY ONLY <1>6, <2>1, <2>2
  <1>9. ASSUME NEW k, k \in 1..l PROVE p[s + 3 + k] = d[k]
    <2> DEFINE j == 4 + k
    <2>1. j \in 1..(4 + l) /\ s + (j - 1) < Room /\ s + (j - 1) = s + 3 + k
      BY ONLY <1>1, <1>3, <1>9, s \in Nat
    <2>2. o[j] = d[k]
      BY ONLY <1>6, <1>9
    <2> HIDE DEF j
    <2>3. p[s + (j - 1)] = o[j]
      BY ONLY <1>6, <1>7, <2>1
    <2> QED BY ONLY <2>1, <2>2, <2>3
  <1>10. AttrAt(p, s, a)
    BY ONLY <1>1, <1>3, <1>8, <1>9, s \in Nat DEF AttrAt, l, d, t
  <1> QED BY ONLY <1>2, <1>7, <1>10 DEF p

(* An attribute stays when nothing of it is written over. *)
LEMMA AttrKept ==
    ASSUME NEW buf, NEW s, NEW a, AttrAt(buf, s, a), NEW new,
           \A k \in s..(s + (3 + Len(a.data))) : new[k] = buf[k]
    PROVE  AttrAt(new, s, a)
  <1> DEFINE l == Len(a.data)
  <1>1. s \in Nat /\ l \in Nat
    BY DEF AttrAt
  <1> HIDE DEF l
  <1>2. s \in s..(s + (3 + l)) /\ s + 2 \in s..(s + (3 + l)) /\ \A k \in 1..l : s + 3 + k \in s..(s + (3 + l))
    BY ONLY <1>1
  <1>3. \A k \in s..(s + (3 + l)) : new[k] = buf[k]
    BY DEF l
  <1>4. /\ s \in Nat /\ l \in Nat /\ s + (4 + l) <= Room /\ buf[s] = 4 + l /\ buf[s + 2] = a.type
        /\ \A k \in 1..l : buf[s + 3 + k] = a.data[k]
    BY ONLY AttrAt(buf, s, a) DEF AttrAt, l
  <1>5. \A k \in 1..l : new[s + 3 + k] = a.data[k]
    BY ONLY <1>2, <1>3, <1>4
  <1>6. new[s] = 4 + l /\ new[s + 2] = a.type
    BY ONLY <1>2, <1>3, <1>4
  <1> QED BY ONLY <1>4, <1>5, <1>6 DEF AttrAt, l

(* The attributes as are in n at the places S, one after the other from from on. *)
LinedUp(n, S, as, from) ==
    /\ S \in [1..(Len(as) + 1) -> Nat] /\ S[1] = from /\ S[Len(as) + 1] = n.len /\ from <= n.len
    /\ \A i \in 1..Len(as) : /\ S[i + 1] = S[i] + Size(as[i]) /\ from <= S[i] /\ S[i] + Size(as[i]) <= n.len
                             /\ AttrAt(n.buf, S[i], as[i])

(* And before from the buffer is as the old one. *)
Lays(n, old, from, as) ==
    /\ n \in AttrMessages /\ as \in Seq(Attr) /\ from \in Nat
    /\ \E S : LinedUp(n, S, as, from)
    /\ \A k \in 0..(Room - 1) : k < from => n.buf[k] = old[k]

(* addattr_l, where there is room. *)
LEMMA AddIs ==
    ASSUME NEW n, n \in AttrMessages, NEW a, a \in Attr
    PROVE  /\ n.len \in Nat /\ Aligned(n.len) = n.len
           /\ n.len + Size(a) > Room => AddTo(n, a) = n
           /\ n.len + Size(a) <= Room =>
                 AddTo(n, a) = [buf |-> Put(n.buf, n.len, Attribute(a.type, a.data)), len |-> n.len + Size(a)]
  <1>1. n.len \in Nat /\ n.len % 4 = 0 /\ Room \in Nat
    BY RoomAssumption DEF AttrMessages
  <1>2. Aligned(n.len) = n.len
    <2> DEFINE l == n.len
    <2>1. l \in Nat /\ l % 4 = 0
      BY <1>1
    <2> HIDE DEF l
    <2>2. Aligned(l) = l
      BY ONLY <2>1, AlignedIs
    <2> QED BY <2>2 DEF l
  <1>3. Size(a) = Aligned(4 + Len(a.data)) /\ Size(a) \in Nat
    BY ONLY a \in Attr, SizeIs
  <1>4. AddTo(n, a) = IF n.len + Size(a) > Room THEN n
                      ELSE [buf |-> Put(n.buf, n.len, Attribute(a.type, a.data)), len |-> n.len + Size(a)]
    BY ONLY <1>2, <1>3 DEF AddTo, addattr_l
  <1>5. n.len + Size(a) <= Room => ~(n.len + Size(a) > Room)
    BY ONLY <1>1, <1>3
  <1> QED BY ONLY <1>1, <1>2, <1>4, <1>5

(* The sequence t is s with e behind it. *)
Appended(t, s, e, V) ==
    /\ Len(s) \in Nat /\ t \in Seq(V) /\ Len(t) = Len(s) + 1 /\ t[Len(s) + 1] = e
    /\ \A i \in 1..Len(s) : s[i] \in V /\ t[i] = s[i]

(* The elements of a sequence that is made longer. *)
LEMMA AppendAt ==
    ASSUME NEW V, NEW s \in Seq(V), NEW e \in V
    PROVE  Appended(Append(s, e), s, e, V)
  BY DEF Appended

(* An attribute behind the others. *)
LEMMA LinedAppend ==
    ASSUME NEW n, NEW S, NEW as, NEW from, LinedUp(n, S, as, from), n.len \in Nat, from \in Nat, as \in Seq(Attr),
           NEW new, NEW a, a \in Attr, AttrAt(new.buf, n.len, a), new.len = n.len + Size(a), new.len <= Room,
           \A k \in 0..(Room - 1) : k < n.len => new.buf[k] = n.buf[k]
    PROVE  \E T : LinedUp(new, T, Append(as, a), from)
  <1> DEFINE buf == new.buf
             all == Append(as, a)
             m == Len(as)
             s == n.len
             z == Size(a)
  <1>1. s \in Nat /\ Room \in Nat /\ new.len = s + z /\ s + z <= Room
    BY RoomAssumption
  <1>2. z \in Nat /\ 4 + Len(a.data) <= z /\ Len(a.data) \in Nat
    BY SizeIs
  <1>3. m \in Nat /\ all \in Seq(Attr) /\ Len(all) = m + 1 /\ all[m + 1] = a
        /\ \A i \in 1..m : as[i] \in Attr /\ all[i] = as[i]
    <2>2. Appended(all, as, a, Attr)
      BY ONLY as \in Seq(Attr), a \in Attr, AppendAt
    <2> QED BY ONLY <2>2 DEF Appended
  <1>4. AttrAt(buf, s, a) /\ \A k \in 0..(Room - 1) : k < s => buf[k] = n.buf[k]
    OBVIOUS
  <1>5. /\ S \in [1..(m + 1) -> Nat] /\ S[1] = from /\ S[m + 1] = s /\ from <= s
        /\ \A i \in 1..m : /\ S[i + 1] = S[i] + Size(as[i]) /\ from <= S[i] /\ S[i] + Size(as[i]) <= s
                           /\ AttrAt(n.buf, S[i], as[i])
    BY DEF LinedUp
  <1> HIDE DEF buf, all, m, s, z
  <1> DEFINE T == [i \in 1..(m + 2) |-> IF i <= m + 1 THEN S[i] ELSE s + z]
  <1>6. /\ T \in [1..(m + 2) -> Nat] /\ T[m + 2] = s + z /\ \A i \in 1..(m + 1) : T[i] = S[i]
    BY ONLY <1>1, <1>2, <1>3, <1>5
  <1> HIDE DEF T
  <1>7. ASSUME NEW i, i \in 1..(m + 1)
         PROVE  /\ T[i + 1] = T[i] + Size(all[i]) /\ from <= T[i] /\ T[i] + Size(all[i]) <= s + z
                /\ AttrAt(buf, T[i], all[i])
    <2>1. CASE i = m + 1
      <3>1. T[i] = s /\ all[i] = a /\ i + 1 = m + 2 /\ s + z <= s + z
        BY ONLY <1>1, <1>2, <1>3, <1>5, <1>6, <1>7, <2>1
      <3> QED BY ONLY <1>4, <1>5, <1>6, <3>1 DEF z
    <2>2. CASE i # m + 1
      <3>1. i \in 1..m /\ i + 1 \in 1..(m + 1)
        BY ONLY <1>3, <1>7, <2>2
      <3> DEFINE o == S[i]
                 e == as[i]
      <3>2. T[i] = o /\ T[i + 1] = S[i + 1] /\ all[i] = e /\ e \in Attr /\ o \in Nat
        <4>1. e \in Attr
          BY ONLY <1>3, <3>1
        <4> QED BY ONLY <1>3, <1>5, <1>6, <1>7, <3>1, <4>1
      <3>3. S[i + 1] = o + Size(e) /\ from <= o /\ o + Size(e) <= s /\ AttrAt(n.buf, o, e)
        BY ONLY <1>5, <3>1
      <3> HIDE DEF o, e
      <3>4. Size(e) \in Nat /\ Len(e.data) \in Nat /\ 4 + Len(e.data) <= Size(e)
        BY ONLY <3>2, SizeIs
      <3>5. \A k \in o..(o + (3 + Len(e.data))) : k \in 0..(Room - 1) /\ k < s
        BY ONLY <1>1, <1>2, <3>2, <3>3, <3>4
      <3>6. \A k \in o..(o + (3 + Len(e.data))) : buf[k] = n.buf[k]
        BY ONLY <1>4, <3>5
      <3>7. AttrAt(buf, o, e)
        <4> DEFINE b == n.buf
        <4>1. AttrAt(b, o, e) /\ \A k \in o..(o + (3 + Len(e.data))) : buf[k] = b[k]
          BY ONLY <3>3, <3>6
        <4> HIDE DEF b
        <4> QED BY ONLY <4>1, AttrKept
      <3>8. o + Size(e) <= s + z
        BY ONLY <1>1, <1>2, <3>2, <3>3, <3>4
      <3> QED BY ONLY <3>2, <3>3, <3>7, <3>8
    <2> QED BY ONLY <2>1, <2>2
  <1>8. LinedUp(new, T, all, from)
    <2>1. m + 1 + 1 = m + 2 /\ 1 \in 1..(m + 1) /\ from <= s + z
      BY ONLY <1>1, <1>2, <1>3, <1>5, from \in Nat
    <2> QED BY ONLY <1>1, <1>3, <1>5, <1>6, <1>7, <2>1 DEF LinedUp, buf
  <1> QED BY ONLY <1>8 DEF all

(* An attribute that has room is behind the others. *)
LEMMA AddLays ==
    ASSUME NEW n, NEW old, NEW from, NEW as, Lays(n, old, from, as), NEW a, a \in Attr, n.len + Size(a) <= Room
    PROVE  Lays(AddTo(n, a), old, from, Append(as, a)) /\ AddTo(n, a).len = n.len + Size(a)
  <1> DEFINE new == AddTo(n, a)
             buf == Put(n.buf, n.len, Attribute(a.type, a.data))
             all == Append(as, a)
             s == n.len
             z == Size(a)
  <1>1. n \in AttrMessages /\ as \in Seq(Attr) /\ from \in Nat /\ \A k \in 0..(Room - 1) : k < from => n.buf[k] = old[k]
    BY DEF Lays
  <1>2. PICK S : LinedUp(n, S, as, from)
    BY DEF Lays
  <1>3. s \in Nat /\ s % 4 = 0 /\ n.buf \in AttrBuffers /\ Room \in Nat
    BY <1>1, RoomAssumption DEF AttrMessages
  <1>4. z \in Nat /\ z % 4 = 0 /\ 4 + Len(a.data) <= z /\ Len(a.data) \in Nat
    BY SizeIs
  <1>5. new = [buf |-> buf, len |-> s + z]
    BY ONLY <1>1, a \in Attr, n.len + Size(a) <= Room, AddIs
  <1>6. s + z <= Room
    OBVIOUS
  <1>8. /\ buf \in AttrBuffers /\ AttrAt(buf, s, a) /\ \A k \in 0..(Room - 1) : k < s => buf[k] = n.buf[k]
    <2>1. s + (4 + Len(a.data)) <= Room
      BY ONLY <1>3, <1>4, <1>6
    <2> QED BY ONLY <1>3, <2>1, a \in Attr, PutAttr
  <1> HIDE DEF buf, all, s, z, new
  <1>11. new.len = s + z /\ new.buf = buf /\ new \in AttrMessages
    <2>1. s + z \in Nat /\ (s + z) % 4 = 0
      BY ONLY <1>3, <1>4
    <2> QED BY ONLY <1>5, <1>6, <1>8, <2>1 DEF AttrMessages
  <1>12. all \in Seq(Attr)
    <2>1. as \in Seq(Attr)
      BY ONLY <1>1
    <2>2. Appended(all, as, a, Attr)
      BY ONLY <2>1, a \in Attr, AppendAt DEF all
    <2> QED BY ONLY <2>2 DEF Appended
  <1>13. \E T : LinedUp(new, T, all, from)
    <2>1. AttrAt(new.buf, n.len, a) /\ new.len = n.len + Size(a) /\ new.len <= Room
          /\ \A k \in 0..(Room - 1) : k < n.len => new.buf[k] = n.buf[k]
      BY ONLY <1>6, <1>8, <1>11 DEF s, z
    <2>2. n.len \in Nat /\ from \in Nat /\ as \in Seq(Attr)
      BY ONLY <1>1, <1>3 DEF s
    <2> QED BY ONLY <1>2, <2>1, <2>2, a \in Attr, LinedAppend DEF all
  <1>14. \A k \in 0..(Room - 1) : k < from => new.buf[k] = old[k]
    <2>1. ASSUME NEW k, k \in 0..(Room - 1), k < from PROVE new.buf[k] = old[k]
      <3>1. k < s
        <4>1. from <= s
          BY ONLY <1>2 DEF LinedUp, s
        <4> QED BY ONLY <1>1, <1>3, <2>1, <4>1
      <3> QED BY ONLY <1>1, <1>8, <1>11, <2>1, <3>1
    <2> QED BY ONLY <2>1
  <1>15. Lays(new, old, from, all)
    BY ONLY <1>1, <1>11, <1>12, <1>13, <1>14 DEF Lays
  <1> QED BY ONLY <1>11, <1>15 DEF new, all, s, z

(* The lists that fit, and their bytes. *)
FitStates == [got : Seq(Attr), bytes : Nat]
NoFit == [got |-> <<>>, bytes |-> 0]
FitFn(room) == [x \in FitStates |-> [a \in Attr |-> Fit(x, a, room)]]
AddFn == [x \in AttrMessages |-> [a \in Attr |-> AddTo(x, a)]]

(* A sequence as a function. *)
LEMMA SeqIs ==
    ASSUME NEW V, NEW s \in Seq(V)
    PROVE  Len(s) \in Nat /\ s \in [1..Len(s) -> V] /\ DOMAIN s = 1..Len(s)
  OBVIOUS

(* An attribute leaves a list, whether it fits or not. *)
LEMMA FitType ==
    ASSUME NEW x \in FitStates, NEW a \in Attr, NEW room
    PROVE  Fit(x, a, room) \in FitStates
  <1>1. Size(a) \in Nat
    BY SizeIs
  <1>2. x.got \in Seq(Attr) /\ x.bytes \in Nat
    BY DEF FitStates
  <1>3. Append(x.got, a) \in Seq(Attr)
    <2> DEFINE V == Attr
               g == x.got
    <2>1. g \in Seq(V) /\ a \in V
      BY <1>2
    <2> HIDE DEF V, g
    <2>2. Append(g, a) \in Seq(V)
      BY ONLY <2>1
    <2> QED BY ONLY <2>2 DEF V, g
  <1>4. x.bytes + Size(a) \in Nat
    BY <1>1, <1>2
  <1>5. [got |-> Append(x.got, a), bytes |-> x.bytes + Size(a)] \in FitStates
    BY ONLY <1>3, <1>4 DEF FitStates
  <1> QED BY <1>5 DEF Fit

(* The attributes are tried one after the other. *)
LEMMA FitFold ==
    ASSUME NEW as \in Seq(Attr), NEW room
    PROVE  Ends(Fitting(as, room), FitStates, FitFn(room), NoFit, as)
  <1> DEFINE n == Len(as)
             T == FitStates
             M == Attr
             step == FitFn(room)
             base == NoFit
             Eq(f) == f = [s \in SUBSET (1..n) |->
                              IF s = {} THEN base ELSE Fit(f[s \ {Max(s)}], as[Max(s)], room)]
             g == CHOOSE f : Eq(f)
             r == RunOf(g, n)
  <1>0. NoFit \in FitStates
    <2>1. <<>> \in Seq(Attr)
      OBVIOUS
    <2> QED BY ONLY <2>1 DEF FitStates, NoFit
  <1>1. n \in Nat /\ as \in [1..n -> M] /\ DOMAIN as = 1..n /\ base \in T
    BY <1>0, SeqIs
  <1>2. Fitting(as, room) = g[1..n]
    BY <1>1 DEF Fitting, NoFit, FoldLeft, MapThenFoldSet
  <1>3. step \in [T -> [M -> T]] /\ \A x \in T, e \in M : Fit(x, e, room) = step[x][e]
    BY FitType DEF FitFn
  <1>4. \A s \in SUBSET (1..n) : s # {} => as[Max(s)] \in M
    BY <1>1, MaxIn
  <1> HIDE DEF step, n, T, M, base
  <1>5. Eq(g)
    <2>1. PICK f : IsTable(f, T, step, base, n, as)
      BY <1>1, <1>3, FoldTable
    <2>2. Eq(f)
      BY <1>3, <1>4, <2>1, Zenon DEF IsTable
    <2> HIDE DEF Eq
    <2> QED BY <2>2
  <1>6. IsRun(r, T, step, base, n, as)
    <2>1. \A s \in SUBSET (1..n) : g[s] = IF s = {} THEN base ELSE Fit(g[s \ {Max(s)}], as[Max(s)], room)
      BY <1>5
    <2>2. Follows(g, T, step, base, n, as)
      BY <1>3, <1>4, <2>1 DEF Follows
    <2> HIDE DEF g
    <2> QED BY <1>1, <1>3, <2>2, TableRun
  <1>7. g[1..n] = r[n]
    BY <1>1 DEF RunOf
  <1> HIDE DEF r
  <1> QED
    BY <1>2, <1>6, <1>7 DEF Ends, n, T, step, base

(* A message stays one when an attribute is added. *)
LEMMA AddType ==
    ASSUME NEW n \in AttrMessages, NEW a \in Attr
    PROVE  AddTo(n, a) \in AttrMessages
  <1> DEFINE s == n.len
             z == Size(a)
             b == n.buf
             p == Put(b, s, Attribute(a.type, a.data))
  <1>1. s \in Nat /\ s % 4 = 0 /\ b \in AttrBuffers /\ Room \in Nat
    BY RoomAssumption DEF AttrMessages
  <1>2. z \in Nat /\ z % 4 = 0 /\ 4 + Len(a.data) <= z /\ Len(a.data) \in Nat
    BY SizeIs
  <1>3. /\ s + z > Room => AddTo(n, a) = n
        /\ s + z <= Room => AddTo(n, a) = [buf |-> p, len |-> s + z]
    BY AddIs
  <1> HIDE DEF s, z, b, p
  <1>4. CASE s + z <= Room
    <2>1. s + (4 + Len(a.data)) <= Room /\ s + z \in Nat /\ (s + z) % 4 = 0
      BY ONLY <1>1, <1>2, <1>4
    <2>2. p \in AttrBuffers
      BY ONLY <1>1, <2>1, a \in Attr, PutAttr DEF p
    <2>3. [buf |-> p, len |-> s + z] \in AttrMessages
      BY ONLY <1>4, <2>1, <2>2 DEF AttrMessages
    <2> QED BY ONLY <1>3, <1>4, <2>3
  <1>5. CASE ~(s + z <= Room)
    <2>1. s + z > Room
      BY ONLY <1>1, <1>2, <1>5
    <2> QED BY ONLY <1>3, <2>1, n \in AttrMessages
  <1> QED BY ONLY <1>4, <1>5

(* The attributes are added one after the other. *)
LEMMA AddFold ==
    ASSUME NEW as \in Seq(Attr), NEW m \in AttrMessages
    PROVE  Ends(AddAll(m, as), AttrMessages, AddFn, m, as)
  <1> DEFINE n == Len(as)
             T == AttrMessages
             M == Attr
             step == AddFn
             base == m
             Eq(f) == f = [s \in SUBSET (1..n) |->
                              IF s = {} THEN base ELSE AddTo(f[s \ {Max(s)}], as[Max(s)])]
             g == CHOOSE f : Eq(f)
             r == RunOf(g, n)
  <1>1. n \in Nat /\ as \in [1..n -> M] /\ DOMAIN as = 1..n /\ base \in T
    BY SeqIs
  <1>2. AddAll(m, as) = g[1..n]
    BY <1>1 DEF AddAll, FoldLeft, MapThenFoldSet
  <1>3. step \in [T -> [M -> T]] /\ \A x \in T, e \in M : AddTo(x, e) = step[x][e]
    BY AddType DEF AddFn
  <1>4. \A s \in SUBSET (1..n) : s # {} => as[Max(s)] \in M
    BY <1>1, MaxIn
  <1> HIDE DEF step, n, T, M, base
  <1>5. Eq(g)
    <2>1. PICK f : IsTable(f, T, step, base, n, as)
      BY <1>1, <1>3, FoldTable
    <2>2. Eq(f)
      BY <1>3, <1>4, <2>1, Zenon DEF IsTable
    <2> HIDE DEF Eq
    <2> QED BY <2>2
  <1>6. IsRun(r, T, step, base, n, as)
    <2>1. \A s \in SUBSET (1..n) : g[s] = IF s = {} THEN base ELSE AddTo(g[s \ {Max(s)}], as[Max(s)])
      BY <1>5
    <2>2. Follows(g, T, step, base, n, as)
      BY <1>3, <1>4, <2>1 DEF Follows
    <2> HIDE DEF g
    <2> QED BY <1>1, <1>3, <2>2, TableRun
  <1>7. g[1..n] = r[n]
    BY <1>1 DEF RunOf
  <1> HIDE DEF r
  <1> QED
    BY <1>2, <1>6, <1>7 DEF Ends, n, T, step, base

(* What is in a message after a list was added from from on is what fits of the list. *)
LEMMA AllLays ==
    ASSUME NEW as, as \in Seq(Attr), NEW n, NEW old, NEW from, Lays(n, old, from, <<>>)
    PROVE  /\ Lays(AddAll(n, as), old, from, Fitting(as, Room - from).got)
           /\ AddAll(n, as).len = from + Fitting(as, Room - from).bytes /\ Fitting(as, Room - from) \in FitStates
  <1> DEFINE room == Room - from
             l == Len(as)
  <1>1. n \in AttrMessages /\ from \in Nat /\ n.len = from /\ Room \in Nat
    <2>1. PICK S : LinedUp(n, S, <<>>, from)
      BY DEF Lays
    <2>2. Len(<<>>) + 1 = 1
      OBVIOUS
    <2>3. n.len = from
      BY ONLY <2>1, <2>2 DEF LinedUp
    <2> QED BY <2>3, RoomAssumption DEF Lays
  <1>2. l \in Nat /\ as \in [1..l -> Attr]
    BY SeqIs
  <1>3. PICK p : IsRun(p, FitStates, FitFn(room), NoFit, l, as) /\ Fitting(as, room) = p[l]
    BY FitFold DEF Ends
  <1>4. PICK q : IsRun(q, AttrMessages, AddFn, n, l, as) /\ AddAll(n, as) = q[l]
    BY <1>1, AddFold DEF Ends
  <1> HIDE DEF l, room
  <1>5. /\ p \in [0..l -> FitStates] /\ p[0] = NoFit
        /\ \A k \in 1..l : p[k] = FitFn(room)[p[k - 1]][as[k]]
    BY ONLY <1>3 DEF IsRun
  <1>6. /\ q \in [0..l -> AttrMessages] /\ q[0] = n
        /\ \A k \in 1..l : q[k] = AddFn[q[k - 1]][as[k]]
    BY ONLY <1>4 DEF IsRun
  <1> DEFINE P == {k \in 0..l : Lays(q[k], old, from, p[k].got) /\ q[k].len = from + p[k].bytes}
  <1>7. 0 \in P
    <2>1. NoFit.got = <<>> /\ NoFit.bytes = 0 /\ from + 0 = from
      BY <1>1 DEF NoFit
    <2>2. Lays(q[0], old, from, p[0].got) /\ q[0].len = from + p[0].bytes
      BY ONLY <1>1, <1>5, <1>6, <2>1, Lays(n, old, from, <<>>)
    <2>3. 0 \in 0..l
      BY <1>2
    <2> QED BY ONLY <2>2, <2>3
  <1>8. ASSUME NEW k \in 1..l, k - 1 \in P PROVE k \in P
    <2> DEFINE x == p[k - 1]
               y == q[k - 1]
               a == as[k]
    <2>1. k - 1 \in 0..l /\ k \in 0..l
      BY <1>2
    <2>2. x \in FitStates /\ y \in AttrMessages /\ a \in Attr
      BY ONLY <1>2, <1>5, <1>6, <2>1, k \in 1..l
    <2>3. p[k] = FitFn(room)[x][a] /\ q[k] = AddFn[y][a]
      BY ONLY <1>5, <1>6, k \in 1..l
    <2>4. Lays(y, old, from, x.got) /\ y.len = from + x.bytes
      BY ONLY <1>8
    <2> HIDE DEF x, y, a
    <2>5. p[k] = Fit(x, a, room) /\ q[k] = AddTo(y, a)
      BY ONLY <2>2, <2>3 DEF FitFn, AddFn
    <2>6. Size(a) \in Nat /\ x.bytes \in Nat
      <3>1. Size(a) \in Nat
        BY ONLY <2>2, SizeIs
      <3> QED BY ONLY <2>2, <3>1 DEF FitStates
    <2>7. CASE y.len + Size(a) <= Room
      <3>1. x.bytes + Size(a) <= room /\ from + (x.bytes + Size(a)) = y.len + Size(a)
        BY ONLY <1>1, <2>4, <2>6, <2>7 DEF room
      <3>2. Fit(x, a, room) = [got |-> Append(x.got, a), bytes |-> x.bytes + Size(a)]
        BY ONLY <3>1 DEF Fit
      <3>3. Lays(AddTo(y, a), old, from, Append(x.got, a)) /\ AddTo(y, a).len = y.len + Size(a)
        BY ONLY <2>2, <2>4, <2>7, AddLays
      <3>4. Lays(q[k], old, from, p[k].got) /\ q[k].len = from + p[k].bytes
        BY ONLY <2>5, <3>1, <3>2, <3>3
      <3> QED BY ONLY <2>1, <3>4
    <2>8. CASE ~(y.len + Size(a) <= Room)
      <3>1. ~(x.bytes + Size(a) <= room) /\ y.len + Size(a) > Room
        BY ONLY <1>1, <2>4, <2>6, <2>8 DEF room
      <3>2. Fit(x, a, room) = x
        BY ONLY <3>1 DEF Fit
      <3>3. AddTo(y, a) = y
        BY ONLY <2>2, <3>1, AddIs
      <3>4. Lays(q[k], old, from, p[k].got) /\ q[k].len = from + p[k].bytes
        BY ONLY <2>4, <2>5, <3>2, <3>3
      <3> QED BY ONLY <2>1, <3>4
    <2> QED BY ONLY <2>7, <2>8
  <1>9. \A k \in 0..l : k \in P
    <2> HIDE DEF P
    <2> QED BY ONLY <1>2, <1>7, <1>8, UpToInduction
  <1>10. l \in 0..l
    BY <1>2
  <1>11. Lays(q[l], old, from, p[l].got) /\ q[l].len = from + p[l].bytes /\ p[l] \in FitStates
    BY ONLY <1>5, <1>9, <1>10
  <1> QED BY ONLY <1>3, <1>4, <1>11 DEF room

(* Whether RTA_OK holds at o, and what Positions is from there on. *)
RtaOk(buf, from, len, o) == len - o >= 4 /\ buf[from + o] >= 4 /\ buf[from + o] <= len - o
PosAt(f, buf, from, len, o) ==
    IF RtaOk(buf, from, len, o) THEN <<from + o>> \o f[o + Aligned(buf[from + o])] ELSE <<>>

(* Aligning goes up, by three at most. *)
LEMMA AlignedUp ==
    ASSUME NEW n \in Nat
    PROVE  Aligned(n) \in Nat /\ n <= Aligned(n) /\ Aligned(n) <= n + 3
  <1> DEFINE q == (n + 3) \div 4
  <1>1. q \in Nat /\ 4 * q >= n /\ 4 * q <= n + 3
    OBVIOUS
  <1>2. Aligned(n) = q * 4
    BY DEF Aligned
  <1> HIDE DEF q
  <1> QED BY ONLY <1>1, <1>2, n \in Nat

(* RTA_NEXT goes forward, and not far beyond the end. *)
LEMMA PositionsIs ==
    ASSUME NEW buf, buf \in AttrBuffers, NEW from \in Nat, NEW len \in Nat, from + len <= Room
    PROVE  \E f : /\ Positions(buf, from, len) = f[0]
                  /\ \A o \in 0..(len + 3) : f[o] = PosAt(f, buf, from, len, o)
  <1> DEFINE N == len + 3
             Go == {o \in 0..N : RtaOk(buf, from, len, o)}
             Stop == {}
             val == [o \in 0..N |-> from + o]
             nxt == [o \in 0..N |-> o + Aligned(buf[from + o])]
             Eq(f) == f = [o \in 0..N |-> PosAt(f, buf, from, len, o)]
             g == CHOOSE f : Eq(f)
  <1>1. N \in Nat /\ Room \in Nat
    BY RoomAssumption
  <1>2. Positions(buf, from, len) = g[0]
    BY DEF Positions, PosAt, RtaOk
  <1>3. ASSUME NEW o \in 0..N, RtaOk(buf, from, len, o) PROVE o + Aligned(buf[from + o]) \in (o + 1)..N
    <2> DEFINE b == buf[from + o]
               a == Aligned(b)
    <2>1. len - o >= 4 /\ b >= 4 /\ b <= len - o
      BY ONLY <1>3 DEF RtaOk
    <2>2. from + o \in 0..(Room - 1)
      BY ONLY <1>1, <2>1, from \in Nat, len \in Nat, from + len <= Room, o \in 0..N
    <2>3. b \in Nat
      BY ONLY <2>2, buf \in AttrBuffers DEF AttrBuffers
    <2> HIDE DEF b
    <2>4. a \in Nat /\ b <= a /\ a <= b + 3
      BY ONLY <2>3, AlignedUp
    <2> HIDE DEF a
    <2>5. o + a \in (o + 1)..N
      BY ONLY <2>1, <2>3, <2>4, len \in Nat, o \in 0..N
    <2> QED BY ONLY <2>5 DEF a, b
  <1>4. Forward(Go, Stop, nxt, N)
    BY <1>3 DEF Forward
  <1>5. PICK f : IsScan(f, Go, Stop, val, nxt, N)
    <2> HIDE DEF N, Go, Stop, val, nxt
    <2> QED BY ONLY <1>1, <1>4, ScanExists
  <1>6. ASSUME NEW o \in 0..N PROVE Scan(f, Go, Stop, val, nxt, o) = PosAt(f, buf, from, len, o)
    <2>1. (o \in Go <=> RtaOk(buf, from, len, o)) /\ o \notin Stop /\ val[o] = from + o
          /\ nxt[o] = o + Aligned(buf[from + o])
      OBVIOUS
    <2> HIDE DEF Go, Stop, val, nxt
    <2> QED BY <2>1 DEF Scan, PosAt
  <1>7. Eq(f)
    <2>1. f = [o \in 0..N |-> Scan(f, Go, Stop, val, nxt, o)]
      BY <1>5 DEF IsScan
    <2> HIDE DEF N, Go, Stop, val, nxt
    <2> QED BY ONLY <1>6, <2>1
  <1>8. Eq(g)
    <2> HIDE DEF Eq
    <2> QED BY <1>7
  <1> HIDE DEF g, N
  <1>9. \A o \in 0..N : g[o] = PosAt(g, buf, from, len, o)
    BY ONLY <1>8
  <1> QED BY ONLY <1>2, <1>9 DEF N

(* There are n attributes at the places S, from from on up to the end. *)
Chain(buf, from, len, S, n) ==
    /\ buf \in AttrBuffers /\ from \in Nat /\ len \in Nat /\ from + len <= Room /\ n \in Nat
    /\ S \in [1..(n + 1) -> Nat] /\ S[1] = from /\ S[n + 1] = from + len
    /\ \A i \in 1..n : /\ from <= S[i] /\ buf[S[i]] \in Nat /\ buf[S[i]] >= 4 /\ S[i] + buf[S[i]] <= from + len
                       /\ S[i + 1] = S[i] + Aligned(buf[S[i]]) /\ from <= S[i + 1]

(* They are what the macros walk over. *)
LEMMA PositionsAre ==
    ASSUME NEW buf, NEW from, NEW len, NEW S, NEW n, Chain(buf, from, len, S, n)
    PROVE  Positions(buf, from, len) = [i \in 1..n |-> S[i]]
  <1> DEFINE Rest(k) == [j \in 1..k |-> S[n + 1 - k + (j - 1)]]
  <1>1. /\ buf \in AttrBuffers /\ from \in Nat /\ len \in Nat /\ from + len <= Room /\ n \in Nat
        /\ S \in [1..(n + 1) -> Nat] /\ S[1] = from /\ S[n + 1] = from + len
        /\ \A i \in 1..n : /\ from <= S[i] /\ buf[S[i]] \in Nat /\ buf[S[i]] >= 4 /\ S[i] + buf[S[i]] <= from + len
                           /\ S[i + 1] = S[i] + Aligned(buf[S[i]]) /\ from <= S[i + 1]
    BY DEF Chain
  <1>2. PICK f : Positions(buf, from, len) = f[0] /\ \A o \in 0..(len + 3) : f[o] = PosAt(f, buf, from, len, o)
    <2>1. buf \in AttrBuffers /\ from \in Nat /\ len \in Nat /\ from + len <= Room
      BY ONLY <1>1
    <2> HIDE DEF Rest
    <2> QED BY ONLY <2>1, PositionsIs
  <1>3. ASSUME NEW k, k \in 0..n PROVE Rest(k) \in Seq(Nat) /\ Len(Rest(k)) = k
    <2>1. k \in Nat /\ \A j \in 1..k : n + 1 - k + (j - 1) \in 1..(n + 1)
      BY ONLY <1>1, <1>3
    <2>2. \A j \in 1..k : S[n + 1 - k + (j - 1)] \in Nat
      BY ONLY <1>1, <2>1
    <2> QED BY ONLY <2>1, <2>2
  <1> DEFINE P == {k \in 0..n : f[S[n + 1 - k] - from] = Rest(k)}
  <1>4. 0 \in P
    <2>1. n + 1 - 0 = n + 1 /\ S[n + 1] - from = len /\ len \in 0..(len + 3) /\ ~(len - len >= 4) /\ 0 \in 0..n
      BY ONLY <1>1
    <2>2. f[len] = <<>>
      BY ONLY <1>2, <2>1 DEF PosAt, RtaOk
    <2>3. Rest(0) = <<>>
      OBVIOUS
    <2> HIDE DEF Rest
    <2> QED BY ONLY <2>1, <2>2, <2>3
  <1>5. ASSUME NEW k \in 1..n, k - 1 \in P PROVE k \in P
    <2> DEFINE i == n + 1 - k
               s == S[i]
               b == buf[s]
               o == s - from
               h == <<s>>
               R == Rest(k - 1)
               T == Rest(k)
    <2>1. i \in 1..n /\ n + 1 - (k - 1) = i + 1 /\ k \in 0..n /\ k - 1 \in 0..n
      BY ONLY <1>1, k \in 1..n
    <2>2. f[S[i + 1] - from] = R
      BY ONLY <1>5, <2>1
    <2>3. R \in Seq(Nat) /\ Len(R) = k - 1 /\ T \in Seq(Nat) /\ Len(T) = k
      BY ONLY <1>3, <2>1
    <2>4. T[1] = s /\ \A j \in 1..(k - 1) : T[1 + j] = R[j]
      <3>1. 1 \in 1..k /\ n + 1 - k + (1 - 1) = i
        BY ONLY <1>1, k \in 1..n
      <3>2. \A j \in 1..(k - 1) : 1 + j \in 1..k /\ n + 1 - k + (1 + j - 1) = n + 1 - (k - 1) + (j - 1)
        BY ONLY <1>1, k \in 1..n
      <3> QED BY ONLY <3>1, <3>2
    <2>5. s \in Nat /\ from <= s /\ b \in Nat /\ b >= 4 /\ s + b <= from + len /\ S[i + 1] = s + Aligned(b)
      <3>1. i \in 1..(n + 1)
        BY ONLY <1>1, <2>1
      <3> HIDE DEF i
      <3> QED BY ONLY <1>1, <2>1, <3>1
    <2> HIDE DEF i, s, b, R, T, Rest
    <2>6. o \in 0..(len + 3) /\ from + o = s /\ len - o >= 4 /\ b <= len - o
      BY ONLY <1>1, <2>5
    <2> HIDE DEF o
    <2>7. RtaOk(buf, from, len, o) /\ buf[from + o] = b
      BY ONLY <2>5, <2>6 DEF RtaOk, b
    <2>8. f[o] = h \o f[o + Aligned(b)]
      BY ONLY <1>2, <2>6, <2>7 DEF PosAt
    <2>9. o + Aligned(b) = S[i + 1] - from
      <3>1. Aligned(b) \in Nat
        BY ONLY <2>5, AlignedUp
      <3> QED BY ONLY <1>1, <2>5, <3>1 DEF o
    <2>10. f[o] = h \o R
      BY ONLY <2>2, <2>8, <2>9
    <2>11. h \in Seq(Nat) /\ Len(h) = 1 /\ h[1] = s
      BY ONLY <2>5
    <2> HIDE DEF h
    <2> DEFINE c == h \o R
               V == Nat
    <2>12. h \in Seq(V) /\ R \in Seq(V)
      BY ONLY <2>3, <2>11
    <2> HIDE DEF V
    <2>13. /\ c \in Seq(V) /\ Len(c) = Len(h) + Len(R)
           /\ \A j \in 1..Len(h) : c[j] = h[j]
           /\ \A j \in 1..Len(R) : c[Len(h) + j] = R[j]
      BY ONLY <2>12, ConcatAt
    <2> HIDE DEF c
    <2>14. Len(c) = k /\ c[1] = s /\ \A j \in 1..(k - 1) : c[1 + j] = R[j]
      <3>1. 1 \in 1..1 /\ 1 + (k - 1) = k
        BY ONLY k \in 1..n
      <3> QED BY ONLY <2>3, <2>11, <2>13, <3>1
    <2>15. ASSUME NEW j, j \in 1..k PROVE c[j] = T[j]
      <3>1. CASE j = 1
        BY ONLY <2>4, <2>14, <3>1
      <3>2. CASE j # 1
        <4> DEFINE d == j - 1
        <4>1. d \in 1..(k - 1) /\ j = 1 + d
          BY ONLY <2>15, <3>2, k \in 1..n
        <4> HIDE DEF d
        <4> QED BY ONLY <2>4, <2>14, <4>1
      <3> QED BY ONLY <3>1, <3>2
    <2>16. c = T
      <3>1. c \in Seq(V) /\ T \in Seq(V) /\ Len(c) = Len(T) /\ Len(c) = k
        BY ONLY <2>3, <2>13, <2>14 DEF V
      <3>2. \A j \in 1..Len(c) : c[j] = T[j]
        BY ONLY <2>15, <3>1
      <3> QED BY ONLY <3>1, <3>2, SameSeq
    <2> QED BY ONLY <2>1, <2>10, <2>16 DEF c, T, o, s, i
  <1>6. \A k \in 0..n : k \in P
    <2> HIDE DEF P
    <2> QED BY ONLY <1>1, <1>4, <1>5, UpToInduction
  <1>7. n \in 0..n /\ n + 1 - n = 1 /\ S[1] - from = 0
    BY ONLY <1>1
  <1>8. f[0] = Rest(n)
    <2> HIDE DEF Rest
    <2>1. f[S[n + 1 - n] - from] = Rest(n)
      BY ONLY <1>6, <1>7
    <2> QED BY ONLY <1>7, <2>1
  <1>9. Rest(n) = [i \in 1..n |-> S[i]]
    <2>1. \A j \in 1..n : n + 1 - n + (j - 1) = j
      BY ONLY <1>1
    <2> QED BY ONLY <2>1
  <1> QED BY ONLY <1>2, <1>8, <1>9

(* The attributes as are all that is in len bytes of a buffer from from on. *)
Carries(buf, from, len, S, as) ==
    /\ as \in Seq(Attr) /\ Chain(buf, from, len, S, Len(as))
    /\ \A i \in 1..Len(as) : AttrAt(buf, S[i], as[i])

(* Attribute i is the last of its type. *)
LastAt(as, t, i) ==
    /\ i \in 1..Len(as) /\ as[i].type = t /\ \A k \in (i + 1)..Len(as) : as[k].type # t

(* What parse_rtattr finds of a type. *)
FindsLast(at, S, as, t) ==
    \/ at = -1 /\ \A i \in 1..Len(as) : as[i].type # t
    \/ \E i \in 1..Len(as) : LastAt(as, t, i) /\ at = S[i]

(* The data of an attribute. *)
LEMMA PayloadIs ==
    ASSUME NEW buf, NEW s, NEW a, a \in Attr, AttrAt(buf, s, a)
    PROVE  Payload(buf, s) = a.data
  <1> DEFINE l == Len(a.data)
             d == a.data
  <1>1. d \in Seq(Nat) /\ l \in Nat
    BY DEF Attr
  <1>2. d = [k \in 1..l |-> d[k]]
    BY <1>1
  <1>3. buf[s] = 4 + l /\ \A k \in 1..l : buf[s + 3 + k] = d[k]
    BY ONLY AttrAt(buf, s, a) DEF AttrAt
  <1> HIDE DEF l, d
  <1>4. buf[s] - 4 = l
    BY ONLY <1>1, <1>3
  <1>5. Payload(buf, s) = [k \in 1..l |-> buf[s + 3 + k]]
    <2> DEFINE b == buf[s] - 4
    <2>1. Payload(buf, s) = [k \in 1..b |-> buf[s + 3 + k]]
      BY DEF Payload
    <2>2. b = l
      BY ONLY <1>4
    <2> HIDE DEF b
    <2> QED BY ONLY <2>1, <2>2
  <1> QED BY ONLY <1>2, <1>3, <1>5 DEF d

(* parse_rtattr keeps the last of each type. *)
LEMMA ParseFinds ==
    ASSUME NEW buf, NEW from, NEW len, NEW S, NEW as, Carries(buf, from, len, S, as), NEW max, NEW t, t \in 0..max
    PROVE  FindsLast(parse_rtattr(buf, from, len, max)[t], S, as, t)
  <1> DEFINE n == Len(as)
             all == [i \in 1..n |-> S[i]]
             I == {i \in 1..n : as[i].type = t}
             at == parse_rtattr(buf, from, len, max)[t]
  <1>1. n \in Nat
    <2>1. as \in Seq(Attr)
      BY DEF Carries
    <2> QED BY ONLY <2>1, SeqIs
  <1>2. Positions(buf, from, len) = all
    <2>1. Chain(buf, from, len, S, n)
      BY DEF Carries
    <2> HIDE DEF n
    <2> QED BY ONLY <2>1, PositionsAre
  <1>3. \A i \in 1..n : TypeAt(buf, S[i]) = as[i].type
    BY DEF Carries, AttrAt, TypeAt
  <1> HIDE DEF n
  <1>4. Len(all) = n
    BY ONLY <1>1
  <1>5. {i \in 1..Len(all) : TypeAt(buf, all[i]) = t} = I
    BY ONLY <1>3, <1>4
  <1> DEFINE j == IF I # {} THEN Max(I) ELSE 0
  <1>6. SelectLastInSeq(all, LAMBDA x : TypeAt(buf, x) = t) = j
    BY ONLY <1>5 DEF SelectLastInSeq
  <1>7. at = IF j = 0 THEN -1 ELSE all[j]
    BY ONLY <1>2, <1>6, t \in 0..max DEF parse_rtattr
  <1> HIDE DEF at
  <1>8. CASE I = {}
    <2>1. at = -1
      BY ONLY <1>7, <1>8
    <2>2. \A i \in 1..n : as[i].type # t
      BY ONLY <1>8
    <2> QED BY ONLY <2>1, <2>2 DEF FindsLast, n, at
  <1>9. CASE I # {}
    <2> DEFINE m == Max(I)
    <2>1. I \in SUBSET (1..n)
      OBVIOUS
    <2>2. m \in I /\ \A y \in I : y <= m
      <3> HIDE DEF I
      <3> QED BY ONLY <1>1, <1>9, <2>1, MaxTop
    <2>3. j = m
      BY ONLY <1>9
    <2> HIDE DEF m, j
    <2>4. m \in 1..n /\ as[m].type = t
      BY ONLY <2>2
    <2>5. \A k \in (m + 1)..n : as[k].type # t
      <3>1. ASSUME NEW k, k \in (m + 1)..n, as[k].type = t PROVE FALSE
        <4>1. k \in 1..n /\ ~(k <= m)
          BY ONLY <1>1, <2>4, <3>1
        <4> QED BY ONLY <2>2, <3>1, <4>1
      <3> QED BY ONLY <3>1
    <2>6. at = S[m] /\ m # 0
      <3>1. m # 0
        BY ONLY <1>1, <2>4
      <3> QED BY ONLY <1>7, <2>3, <2>4, <3>1
    <2>7. LastAt(as, t, m) /\ m \in 1..Len(as)
      BY ONLY <2>4, <2>5 DEF LastAt, n
    <2> QED BY ONLY <2>6, <2>7 DEF FindsLast, at
  <1> QED BY ONLY <1>8, <1>9

(* So the data that are found of a type are those of the last attribute of the type. *)
LEMMA ParsedLast ==
    ASSUME NEW buf, NEW from, NEW len, NEW S, NEW as, Carries(buf, from, len, S, as), NEW tb, NEW t,
           FindsLast(tb[t], S, as, t)
    PROVE  Parsed(tb, buf, t) = LastOf(as, t)
  <1> DEFINE at == tb[t]
             n == Len(as)
  <1>1. as \in Seq(Attr) /\ n \in Nat /\ DOMAIN as = 1..n /\ \A i \in 1..n : as[i] \in Attr
    <2>1. as \in Seq(Attr)
      BY DEF Carries
    <2>2. n \in Nat /\ as \in [1..n -> Attr] /\ DOMAIN as = 1..n
      BY ONLY <2>1, SeqIs
    <2> QED BY ONLY <2>1, <2>2
  <1>2. LastOf(as, t) = {as[i].data : i \in {k \in 1..n : LastAt(as, t, k)}}
    BY ONLY <1>1 DEF LastOf, LastAt
  <1>3. ASSUME NEW i, NEW k, LastAt(as, t, i), LastAt(as, t, k) PROVE i = k
    <2>1. i \in 1..n /\ k \in 1..n /\ ~(k \in (i + 1)..n) /\ ~(i \in (k + 1)..n)
      BY ONLY <1>3 DEF LastAt
    <2> HIDE DEF n
    <2> QED BY ONLY <1>1, <2>1
  <1>4. CASE at = -1 /\ \A i \in 1..n : as[i].type # t
    <2>1. Parsed(tb, buf, t) = {}
      BY ONLY <1>4 DEF Parsed
    <2>2. \A k \in 1..n : ~LastAt(as, t, k)
      BY ONLY <1>4 DEF LastAt
    <2> QED BY ONLY <1>2, <2>1, <2>2
  <1>5. ASSUME NEW i, i \in 1..n, LastAt(as, t, i), at = S[i] PROVE Parsed(tb, buf, t) = LastOf(as, t)
    <2>1. AttrAt(buf, S[i], as[i]) /\ as[i] \in Attr
      BY <1>1, <1>5 DEF Carries
    <2>2. Payload(buf, at) = as[i].data
      <3> DEFINE s == S[i]
                 a == as[i]
      <3>1. AttrAt(buf, s, a) /\ a \in Attr
        BY ONLY <2>1
      <3> HIDE DEF s, a
      <3>2. Payload(buf, s) = a.data
        BY ONLY <3>1, PayloadIs
      <3> QED BY ONLY <1>5, <3>2 DEF s, a
    <2>3. at # -1
      <3>1. S[i] \in Nat
        BY ONLY <2>1 DEF AttrAt
      <3> QED BY ONLY <1>5, <3>1
    <2>4. Parsed(tb, buf, t) = {as[i].data}
      <3>1. Parsed(tb, buf, t) = {Payload(buf, x) : x \in {at} \ {-1}}
        BY DEF Parsed
      <3>2. {at} \ {-1} = {at}
        BY ONLY <2>3
      <3> HIDE DEF at
      <3> QED BY ONLY <2>2, <3>1, <3>2
    <2>5. {k \in 1..n : LastAt(as, t, k)} = {i}
      BY ONLY <1>3, <1>5
    <2> QED BY ONLY <1>2, <2>4, <2>5
  <1> QED BY ONLY <1>4, <1>5, FindsLast(tb[t], S, as, t) DEF FindsLast

(* Attributes that are lined up are all there is. *)
LEMMA LinedCarries ==
    ASSUME NEW n, NEW S, NEW as, NEW from, LinedUp(n, S, as, from),
           n.buf \in AttrBuffers, n.len \in Nat, n.len <= Room, from \in Nat, as \in Seq(Attr)
    PROVE  Carries(n.buf, from, n.len - from, S, as)
  <1> DEFINE m == Len(as)
             e == n.len
             buf == n.buf
             len == e - from
  <1>1. m \in Nat /\ as \in [1..m -> Attr]
    BY ONLY as \in Seq(Attr), SeqIs
  <1>2. /\ S \in [1..(m + 1) -> Nat] /\ S[1] = from /\ S[m + 1] = e /\ from <= e
        /\ \A i \in 1..m : /\ S[i + 1] = S[i] + Size(as[i]) /\ from <= S[i] /\ S[i] + Size(as[i]) <= e
                           /\ AttrAt(buf, S[i], as[i])
    BY DEF LinedUp
  <1>3. buf \in AttrBuffers /\ e \in Nat /\ e <= Room /\ Room \in Nat
    BY RoomAssumption
  <1> HIDE DEF m, e, buf
  <1>4. len \in Nat /\ from + len = e
    BY ONLY <1>2, <1>3, from \in Nat
  <1> HIDE DEF len
  <1>5. ASSUME NEW i, i \in 1..m
        PROVE  /\ from <= S[i] /\ buf[S[i]] \in Nat /\ buf[S[i]] >= 4 /\ S[i] + buf[S[i]] <= from + len
               /\ S[i + 1] = S[i] + Aligned(buf[S[i]]) /\ from <= S[i + 1]
    <2> DEFINE s == S[i]
               a == as[i]
               l == Len(a.data)
               z == Size(a)
    <2>1. i \in 1..(m + 1) /\ a \in Attr
      <3>1. a \in Attr
        BY ONLY <1>1, <1>5
      <3>2. m \in Nat
        BY ONLY <1>1
      <3>3. i \in 1..(m + 1)
        BY ONLY <1>5, <3>2
      <3> QED BY ONLY <3>1, <3>3
    <2>2. s \in Nat /\ S[i + 1] = s + z /\ from <= s /\ s + z <= e /\ AttrAt(buf, s, a)
      BY ONLY <1>2, <1>5, <2>1
    <2> HIDE DEF s, a
    <2>3. l \in Nat /\ z \in Nat /\ z = Aligned(4 + l) /\ 4 + l <= z
      BY ONLY <2>1, SizeIs
    <2>4. buf[s] = 4 + l
      BY ONLY <2>2 DEF AttrAt
    <2> HIDE DEF l, z
    <2>5. buf[s] \in Nat /\ buf[s] >= 4 /\ s + buf[s] <= e /\ from <= s + z
      BY ONLY <1>3, <2>2, <2>3, <2>4, from \in Nat
    <2> QED BY ONLY <1>4, <2>2, <2>3, <2>4, <2>5 DEF s
  <1>6. Chain(buf, from, len, S, m)
    BY ONLY <1>1, <1>2, <1>3, <1>4, <1>5, from \in Nat DEF Chain
  <1> QED BY ONLY <1>2, <1>6, as \in Seq(Attr) DEF Carries, m, e, buf, len

(* The steps of parse_rtattr_byindex. *)
IndexFn(buf, max) == [x \in Seq(Nat) |-> [e \in Nat |-> Indexed(x, buf, e, max)]]

(* A position leaves a list, whether it is kept or not. *)
LEMMA IndexType ==
    ASSUME NEW buf, NEW max
    PROVE  /\ IndexFn(buf, max) \in [Seq(Nat) -> [Nat -> Seq(Nat)]]
           /\ \A x \in Seq(Nat), e \in Nat : Indexed(x, buf, e, max) = IndexFn(buf, max)[x][e]
  <1>1. ASSUME NEW x \in Seq(Nat), NEW e \in Nat PROVE Indexed(x, buf, e, max) \in Seq(Nat)
    <2>1. Append(x, e) \in Seq(Nat)
      OBVIOUS
    <2> QED BY ONLY <2>1, x \in Seq(Nat) DEF Indexed
  <1> QED BY <1>1 DEF IndexFn

(* The attributes are looked at one after the other. *)
LEMMA IndexFold ==
    ASSUME NEW all \in Seq(Nat), NEW buf, NEW max, NEW from, NEW len, Positions(buf, from, len) = all
    PROVE  Ends(parse_rtattr_byindex(buf, from, len, max), Seq(Nat), IndexFn(buf, max), <<>>, all)
  <1> DEFINE n == Len(all)
             T == Seq(Nat)
             M == Nat
             step == IndexFn(buf, max)
             base == <<>>
             Eq(f) == f = [s \in SUBSET (1..n) |->
                              IF s = {} THEN base ELSE Indexed(f[s \ {Max(s)}], buf, all[Max(s)], max)]
             g == CHOOSE f : Eq(f)
             r == RunOf(g, n)
  <1>1. n \in Nat /\ all \in [1..n -> M] /\ DOMAIN all = 1..n /\ base \in T
    BY SeqIs
  <1>2. parse_rtattr_byindex(buf, from, len, max) = g[1..n]
    BY <1>1 DEF parse_rtattr_byindex, FoldLeft, MapThenFoldSet
  <1>3. step \in [T -> [M -> T]] /\ \A x \in T, e \in M : Indexed(x, buf, e, max) = step[x][e]
    BY IndexType
  <1>4. \A s \in SUBSET (1..n) : s # {} => all[Max(s)] \in M
    BY <1>1, MaxIn
  <1> HIDE DEF step, n, T, M, base
  <1>5. Eq(g)
    <2>1. PICK f : IsTable(f, T, step, base, n, all)
      BY <1>1, <1>3, FoldTable
    <2>2. Eq(f)
      BY <1>3, <1>4, <2>1, Zenon DEF IsTable
    <2> HIDE DEF Eq
    <2> QED BY <2>2
  <1>6. IsRun(r, T, step, base, n, all)
    <2>1. \A s \in SUBSET (1..n) :
             g[s] = IF s = {} THEN base ELSE Indexed(g[s \ {Max(s)}], buf, all[Max(s)], max)
      BY <1>5
    <2>2. Follows(g, T, step, base, n, all)
      BY <1>3, <1>4, <2>1 DEF Follows
    <2> HIDE DEF g
    <2> QED BY <1>1, <1>3, <2>2, TableRun
  <1>7. g[1..n] = r[n]
    BY <1>1 DEF RunOf
  <1> HIDE DEF r
  <1> QED
    BY <1>2, <1>6, <1>7 DEF Ends, n, T, step, base

(* After k attributes, all of a type up to max, the first of them are kept, at most max. *)
LEMMA IndexIs ==
    ASSUME NEW buf, NEW from, NEW len, NEW S, NEW as, Carries(buf, from, len, S, as), NEW max \in Nat,
           \A i \in 1..Len(as) : as[i].type <= max
    PROVE  parse_rtattr_byindex(buf, from, len, max) = [i \in 1..(IF Len(as) < max THEN Len(as) ELSE max) |-> S[i]]
  <1> DEFINE n == Len(as)
             all == [i \in 1..n |-> S[i]]
             low(k) == IF k < max THEN k ELSE max
             Firsts(k) == [i \in 1..low(k) |-> S[i]]
             V == Nat
  <1>1. Chain(buf, from, len, S, n) /\ \A i \in 1..n : buf[S[i] + 2] = as[i].type
    BY DEF Carries, AttrAt
  <1>2. n \in Nat /\ S \in [1..(n + 1) -> Nat]
    <2> HIDE DEF n
    <2> QED BY ONLY <1>1 DEF Chain
  <1>3. Positions(buf, from, len) = all
    <2> HIDE DEF n
    <2> QED BY ONLY <1>1, PositionsAre
  <1>4. \A i \in 1..n : TypeAt(buf, S[i]) <= max
    BY <1>1 DEF TypeAt
  <1> HIDE DEF n
  <1>5. all \in Seq(Nat) /\ Len(all) = n /\ \A i \in 1..n : all[i] = S[i]
    <2>1. \A i \in 1..n : S[i] \in Nat
      BY ONLY <1>2
    <2> QED BY ONLY <1>2, <2>1
  <1> HIDE DEF all
  <1>6. PICK r : IsRun(r, Seq(Nat), IndexFn(buf, max), <<>>, n, all) /\ parse_rtattr_byindex(buf, from, len, max) = r[n]
    <2>1. Ends(parse_rtattr_byindex(buf, from, len, max), Seq(Nat), IndexFn(buf, max), <<>>, all)
      BY ONLY <1>3, <1>5, IndexFold
    <2> QED BY ONLY <1>5, <2>1 DEF Ends
  <1>7. /\ r \in [0..n -> Seq(Nat)] /\ r[0] = <<>>
        /\ \A k \in 1..n : r[k] = IndexFn(buf, max)[r[k - 1]][all[k]]
    BY ONLY <1>6 DEF IsRun
  <1>8. ASSUME NEW k, k \in 0..n
        PROVE  Firsts(k) \in Seq(Nat) /\ Len(Firsts(k)) = low(k) /\ \A i \in 1..low(k) : Firsts(k)[i] = S[i]
    <2>1. low(k) \in Nat /\ \A i \in 1..low(k) : i \in 1..(n + 1)
      BY ONLY <1>2, <1>8, max \in Nat
    <2>2. \A i \in 1..low(k) : S[i] \in Nat
      BY ONLY <1>2, <2>1
    <2> HIDE DEF low
    <2> QED BY ONLY <2>1, <2>2
  <1> DEFINE P == {k \in 0..n : r[k] = Firsts(k)}
  <1>9. 0 \in P
    <2>1. low(0) = 0 /\ 0 \in 0..n
      BY ONLY <1>2, max \in Nat
    <2>2. Firsts(0) = <<>>
      <3> HIDE DEF low
      <3> QED BY ONLY <2>1
    <2> HIDE DEF Firsts
    <2> QED BY ONLY <1>7, <2>1, <2>2
  <1>10. ASSUME NEW k \in 1..n, k - 1 \in P PROVE k \in P
    <2> DEFINE x == Firsts(k - 1)
               y == Firsts(k)
               e == S[k]
               p == low(k - 1)
    <2>1. k - 1 \in 0..n /\ k \in 0..n /\ k \in 1..(n + 1)
      BY ONLY <1>2, k \in 1..n
    <2>2. /\ x \in Seq(Nat) /\ Len(x) = p /\ \A i \in 1..p : x[i] = S[i]
          /\ y \in Seq(Nat) /\ Len(y) = low(k) /\ \A i \in 1..low(k) : y[i] = S[i]
      BY ONLY <1>8, <2>1
    <2>3. r[k - 1] = x /\ all[k] = e
      BY ONLY <1>5, <1>10, k \in 1..n
    <2>4. e \in Nat /\ TypeAt(buf, e) <= max
      BY ONLY <1>2, <1>4, <2>1, k \in 1..n
    <2>5. p \in Nat /\ (p < max => p = k - 1 /\ low(k) = p + 1 /\ k = p + 1) /\ (~(p < max) => low(k) = p)
      BY ONLY <1>2, max \in Nat, k \in 1..n
    <2> HIDE DEF x, y, e, p, low, Firsts
    <2>6. r[k] = Indexed(x, buf, e, max)
      <3>1. r[k] = IndexFn(buf, max)[x][e]
        BY ONLY <1>7, <2>3, k \in 1..n
      <3>2. x \in Seq(Nat) /\ e \in Nat
        BY ONLY <2>2, <2>4
      <3>3. \A u \in Seq(Nat), v \in Nat : Indexed(u, buf, v, max) = IndexFn(buf, max)[u][v]
        BY ONLY IndexType
      <3> QED BY ONLY <3>1, <3>2, <3>3, Zenon
    <2>7. CASE p < max
      <3>1. Indexed(x, buf, e, max) = Append(x, e)
        BY ONLY <2>2, <2>4, <2>7 DEF Indexed
      <3>2. Appended(Append(x, e), x, e, V)
        <4>1. x \in Seq(V) /\ e \in V
          BY ONLY <2>2, <2>4 DEF V
        <4> HIDE DEF V
        <4> QED BY ONLY <4>1, AppendAt
      <3> DEFINE t == Append(x, e)
      <3>3. t \in Seq(V) /\ Len(t) = p + 1 /\ t[p + 1] = e /\ \A i \in 1..p : t[i] = S[i]
        BY ONLY <2>2, <3>2 DEF Appended
      <3> HIDE DEF t
      <3>4. \A i \in 1..(p + 1) : t[i] = y[i]
        <4>1. ASSUME NEW i, i \in 1..(p + 1) PROVE t[i] = y[i]
          <5>1. y[i] = S[i]
            BY ONLY <2>2, <2>5, <2>7, <4>1
          <5>2. i = p + 1 \/ i \in 1..p
            BY ONLY <2>5, <4>1
          <5>3. e = S[p + 1]
            BY ONLY <2>5, <2>7 DEF e
          <5> QED BY ONLY <3>3, <5>1, <5>2, <5>3
        <4> QED BY ONLY <4>1
      <3>5. t = y
        <4>1. t \in Seq(V) /\ y \in Seq(V) /\ Len(t) = Len(y)
          BY ONLY <2>2, <2>5, <2>7, <3>3 DEF V
        <4>2. \A i \in 1..Len(t) : t[i] = y[i]
          BY ONLY <3>3, <3>4
        <4> HIDE DEF V
        <4> QED BY ONLY <4>1, <4>2, SameSeq
      <3>6. r[k] = y
        BY ONLY <2>6, <3>1, <3>5 DEF t
      <3> QED BY ONLY <2>1, <3>6 DEF y
    <2>8. CASE ~(p < max)
      <3>1. Indexed(x, buf, e, max) = x
        BY ONLY <2>2, <2>8 DEF Indexed
      <3>2. x = y
        <4>1. Len(x) = Len(y) /\ \A i \in 1..Len(x) : x[i] = y[i]
          BY ONLY <2>2, <2>5, <2>8
        <4>2. x \in Seq(V) /\ y \in Seq(V)
          BY ONLY <2>2 DEF V
        <4> HIDE DEF V
        <4> QED BY ONLY <4>1, <4>2, SameSeq
      <3>3. r[k] = y
        BY ONLY <2>6, <3>1, <3>2
      <3> QED BY ONLY <2>1, <3>3 DEF y
    <2> QED BY ONLY <2>7, <2>8
  <1>11. \A k \in 0..n : k \in P
    <2> HIDE DEF P
    <2> QED BY ONLY <1>2, <1>9, <1>10, UpToInduction
  <1>12. n \in 0..n
    BY ONLY <1>2
  <1>13. r[n] = Firsts(n)
    <2> HIDE DEF Firsts
    <2> QED BY ONLY <1>11, <1>12
  <1> QED BY ONLY <1>6, <1>13 DEF n

(* The attributes of g are from the list. *)
Drawn(g, as) == g \in Seq(Attr) /\ \A i \in 1..Len(g) : \E j \in 1..Len(as) : g[i] = as[j]

(* What fits of a list is from the list. *)
LEMMA FittingFrom ==
    ASSUME NEW as, as \in Seq(Attr), NEW room
    PROVE  Fitting(as, room).bytes \in Nat /\ Drawn(Fitting(as, room).got, as)
  <1> DEFINE l == Len(as)
  <1>1. l \in Nat /\ as \in [1..l -> Attr]
    BY SeqIs
  <1>2. PICK p : IsRun(p, FitStates, FitFn(room), NoFit, l, as) /\ Fitting(as, room) = p[l]
    BY FitFold DEF Ends
  <1> HIDE DEF l
  <1>3. /\ p \in [0..l -> FitStates] /\ p[0] = NoFit
        /\ \A k \in 1..l : p[k] = FitFn(room)[p[k - 1]][as[k]]
    BY ONLY <1>2 DEF IsRun
  <1> DEFINE From(x) == \A i \in 1..Len(x) : \E j \in 1..l : x[i] = as[j]
             P == {k \in 0..l : From(p[k].got)}
  <1>4. 0 \in P
    <2>1. p[0].got = <<>>
      BY ONLY <1>3 DEF NoFit
    <2>2. From(<<>>)
      OBVIOUS
    <2>3. 0 \in 0..l
      BY ONLY <1>1
    <2> HIDE DEF From
    <2> QED BY ONLY <2>1, <2>2, <2>3
  <1>5. ASSUME NEW k \in 1..l, k - 1 \in P PROVE k \in P
    <2> DEFINE x == p[k - 1]
               a == as[k]
               g == x.got
    <2>1. k - 1 \in 0..l /\ k \in 0..l
      BY ONLY <1>1, k \in 1..l
    <2>2. x \in FitStates /\ a \in Attr
      BY ONLY <1>1, <1>3, <2>1, k \in 1..l
    <2>3. p[k] = FitFn(room)[x][a]
      BY ONLY <1>3, k \in 1..l
    <2>4. From(g)
      BY ONLY <1>5
    <2> HIDE DEF x, a
    <2>5. p[k] = Fit(x, a, room)
      BY ONLY <2>2, <2>3 DEF FitFn
    <2>6. g \in Seq(Attr)
      BY ONLY <2>2 DEF FitStates
    <2> HIDE DEF g
    <2>7. Appended(Append(g, a), g, a, Attr)
      BY ONLY <2>2, <2>6, AppendAt
    <2>8. From(Append(g, a))
      <3> SUFFICES ASSUME NEW i, i \in 1..Len(Append(g, a)) PROVE \E j \in 1..l : Append(g, a)[i] = as[j]
        OBVIOUS
      <3> DEFINE t == Append(g, a)
                 m == Len(g)
      <3>1. m \in Nat /\ Len(t) = m + 1 /\ t[m + 1] = a /\ \A h \in 1..m : t[h] = g[h]
        BY ONLY <2>7 DEF Appended
      <3>2. i \in 1..Len(t) /\ From(g)
        BY ONLY <2>4, i \in 1..Len(Append(g, a))
      <3> HIDE DEF t, m
      <3>3. i = m + 1 \/ i \in 1..m
        BY ONLY <3>1, <3>2
      <3>4. CASE i = m + 1
        BY ONLY <3>1, <3>4, k \in 1..l DEF a, t
      <3>5. CASE i \in 1..m
        BY ONLY <3>1, <3>2, <3>5 DEF t, m
      <3> QED BY ONLY <3>3, <3>4, <3>5
    <2>9. Fit(x, a, room).got = Append(g, a) \/ Fit(x, a, room).got = g
      BY ONLY TRUE DEF Fit, g
    <2> HIDE DEF From
    <2> QED BY ONLY <2>1, <2>4, <2>5, <2>8, <2>9
  <1>6. \A k \in 0..l : k \in P
    <2> HIDE DEF P
    <2> QED BY ONLY <1>1, <1>4, <1>5, UpToInduction
  <1>7. l \in 0..l
    BY ONLY <1>1
  <1>8. From(p[l].got) /\ p[l] \in FitStates
    <2> HIDE DEF From
    <2> QED BY ONLY <1>3, <1>6, <1>7
  <1>9. p[l].got \in Seq(Attr) /\ p[l].bytes \in Nat
    BY ONLY <1>8 DEF FitStates
  <1>10. Drawn(p[l].got, as)
    BY ONLY <1>8, <1>9 DEF Drawn, l
  <1> QED BY ONLY <1>2, <1>9, <1>10

(* At the start there is nothing. *)
LEMMA StartLays == NoAttributes \in AttrMessages /\ Lays(NoAttributes, NoAttributes.buf, 0, <<>>)
  <1> DEFINE n == NoAttributes
             S == [i \in 1..1 |-> 0]
  <1>1. Room \in Nat
    BY RoomAssumption
  <1>2. n.len = 0 /\ n.buf = [k \in 0..(Room - 1) |-> 0]
    BY DEF NoAttributes
  <1>3. n \in AttrMessages
    <2>1. [k \in 0..(Room - 1) |-> 0] \in AttrBuffers
      BY DEF AttrBuffers
    <2>2. 0 \in Nat /\ 0 <= Room /\ 0 % 4 = 0
      BY ONLY <1>1
    <2> QED BY ONLY <2>1, <2>2 DEF AttrMessages, NoAttributes
  <1>4. Len(<<>>) = 0 /\ <<>> \in Seq(Attr)
    OBVIOUS
  <1>5. LinedUp(n, S, <<>>, 0)
    BY ONLY <1>2, <1>4 DEF LinedUp
  <1> QED BY ONLY <1>2, <1>3, <1>4, <1>5 DEF Lays

(* A list that was added to nothing. *)
LEMMA ListLays ==
    ASSUME NEW as, as \in Seq(Attr)
    PROVE  /\ Lays(AddAll(NoAttributes, as), NoAttributes.buf, 0, Fitting(as, Room).got)
           /\ AddAll(NoAttributes, as).len = Fitting(as, Room).bytes
  <1>1. Room - 0 = Room /\ Room \in Nat
    BY RoomAssumption
  <1>2. Fitting(as, Room).bytes \in Nat
    BY ONLY as \in Seq(Attr), FittingFrom
  <1>3. /\ Lays(AddAll(NoAttributes, as), NoAttributes.buf, 0, Fitting(as, Room - 0).got)
        /\ AddAll(NoAttributes, as).len = 0 + Fitting(as, Room - 0).bytes
    BY ONLY as \in Seq(Attr), StartLays, AllLays
  <1>4. 0 + Fitting(as, Room).bytes = Fitting(as, Room).bytes
    <2> DEFINE b == Fitting(as, Room).bytes
    <2>1. b \in Nat
      BY ONLY <1>2
    <2> HIDE DEF b
    <2>2. 0 + b = b
      BY ONLY <2>1
    <2> QED BY ONLY <2>2 DEF b
  <1> QED BY ONLY <1>1, <1>3, <1>4

(* What fits of a list arrives, in its order. *)
LEMMA EveryListArrives ==
    ASSUME NEW as, as \in Seq(Attr), NEW max \in Nat, \A i \in 1..Len(as) : as[i].type <= max
    PROVE  ListArrives(as, max)
  <1> DEFINE sent == AddAll(NoAttributes, as)
             outer == Fitting(as, Room)
             got == outer.got
             buf == sent.buf
             e == sent.len
             index == parse_rtattr_byindex(buf, 0, e, max)
             low == IF Len(got) < max THEN Len(got) ELSE max
  <1>1. Lays(sent, NoAttributes.buf, 0, got) /\ e = outer.bytes
    BY ListLays
  <1>2. sent \in AttrMessages /\ got \in Seq(Attr) /\ \E S : LinedUp(sent, S, got, 0)
    BY <1>1 DEF Lays
  <1>3. e \in Nat /\ e <= Room /\ buf \in AttrBuffers
    BY <1>2 DEF AttrMessages
  <1>4. PICK S : LinedUp(sent, S, got, 0)
    BY <1>2
  <1>5. Carries(buf, 0, e, S, got)
    <2>1. e - 0 = e /\ 0 \in Nat
      <3>1. e \in Nat
        BY ONLY <1>3
      <3> HIDE DEF e
      <3> QED BY ONLY <3>1
    <2>2. Carries(buf, 0, e - 0, S, got)
      <3> HIDE DEF sent, got
      <3> QED BY ONLY <1>2, <1>3, <1>4, <2>1, LinedCarries
    <2> HIDE DEF e, buf, got
    <2> QED BY ONLY <2>1, <2>2
  <1>6. \A i \in 1..Len(got) : got[i].type <= max
    <2>1. Drawn(got, as)
      BY ONLY as \in Seq(Attr), FittingFrom
    <2> HIDE DEF got
    <2> QED BY <2>1 DEF Drawn
  <1> HIDE DEF sent, got, buf, e
  <1>7. index = [i \in 1..low |-> S[i]]
    BY ONLY <1>5, <1>6, max \in Nat, IndexIs
  <1>8. Len(got) \in Nat /\ got \in [1..Len(got) -> Attr]
    BY ONLY <1>2, SeqIs
  <1>9. \A i \in 1..low : i \in 1..Len(got)
    BY ONLY <1>8, max \in Nat
  <1> HIDE DEF low, index
  <1>10. ASSUME NEW i, i \in 1..low PROVE Payload(buf, index[i]) = got[i].data
    <2> DEFINE s == S[i]
               a == got[i]
    <2>1. i \in 1..Len(got) /\ index[i] = s
      BY ONLY <1>7, <1>9, <1>10
    <2>2. AttrAt(buf, s, a) /\ a \in Attr
      <3>1. AttrAt(buf, s, a)
        BY ONLY <1>5, <2>1 DEF Carries
      <3>2. a \in Attr
        BY ONLY <1>8, <2>1
      <3> QED BY ONLY <3>1, <3>2
    <2> HIDE DEF s, a
    <2>3. Payload(buf, s) = a.data
      BY ONLY <2>2, PayloadIs
    <2> QED BY ONLY <2>1, <2>3 DEF a
  <1>11. [i \in DOMAIN index |-> Payload(buf, index[i])] = [i \in 1..low |-> got[i].data]
    <2>1. DOMAIN index = 1..low
      BY ONLY <1>7
    <2> QED BY ONLY <1>10, <2>1
  <1> HIDE DEF outer
  <1>12. e = outer.bytes /\ e <= Room
    BY ONLY <1>1, <1>3
  <1> QED BY ONLY <1>11, <1>12 DEF ListArrives, sent, outer, got, buf, e, index, low

(* A message without more behind its end. *)
LEMMA BareLays ==
    ASSUME NEW n, n \in AttrMessages
    PROVE  Lays(n, n.buf, n.len, <<>>)
  <1> DEFINE e == n.len
             S == [i \in 1..1 |-> e]
  <1>1. e \in Nat
    BY DEF AttrMessages
  <1>2. Len(<<>>) = 0 /\ <<>> \in Seq(Attr) /\ 0 + 1 = 1
    OBVIOUS
  <1>3. LinedUp(n, S, <<>>, e)
    <2>1. S \in [1..1 -> Nat] /\ S[1] = e /\ e <= e
      <3> HIDE DEF e
      <3> QED BY ONLY <1>1
    <2> HIDE DEF S
    <2> QED BY ONLY <1>2, <2>1 DEF LinedUp
  <1> QED BY ONLY n \in AttrMessages, <1>1, <1>2, <1>3 DEF Lays

(* The message m is sent with the header of a nest behind it. *)
Opened(m, sent, nest) ==
    /\ sent \in AttrMessages /\ m \in AttrMessages /\ m.len = sent.len + 4
    /\ \A k \in 0..(Room - 1) : k < sent.len => m.buf[k] = sent.buf[k]
    /\ m.buf[sent.len] = 4 /\ m.buf[sent.len + 2] = nest

(* addattr_nest, where there is room. *)
LEMMA OpenIs ==
    ASSUME NEW sent, sent \in AttrMessages, NEW nest, nest \in Nat, sent.len + 4 <= Room
    PROVE  /\ addattr_nest(sent, Room, nest).nest = sent.len
           /\ Opened(addattr_nest(sent, Room, nest).msg, sent, nest)
  <1> DEFINE h == [type |-> nest, data |-> <<>>]
             m == AddTo(sent, h)
             e == sent.len
  <1>1. h \in Attr /\ h.type = nest /\ Len(h.data) = 0 /\ h.data = <<>>
    BY DEF Attr
  <1>2. Size(h) = 4
    <2>1. 4 + 4 * ((0 + 3) \div 4) = 4
      OBVIOUS
    <2> HIDE DEF h
    <2> QED BY ONLY <1>1, <2>1 DEF Size
  <1>3. addattr_nest(sent, Room, nest) = [nest |-> Aligned(e), msg |-> m]
    <2> HIDE DEF h
    <2> QED BY ONLY <1>1 DEF addattr_nest, AddTo
  <1>4. e \in Nat /\ Aligned(e) = e
    <2> HIDE DEF h
    <2> QED BY ONLY <1>1, sent \in AttrMessages, AddIs
  <1> HIDE DEF h
  <1>5. m.len = e + 4 /\ Lays(m, sent.buf, e, Append(<<>>, h))
    <2>1. e + Size(h) <= Room
      BY <1>2
    <2>2. Lays(sent, sent.buf, e, <<>>)
      BY ONLY sent \in AttrMessages, BareLays
    <2> DEFINE b == sent.buf
               none == <<>>
    <2> HIDE DEF b, none
    <2>3. Lays(sent, b, e, none) /\ h \in Attr
      BY ONLY <1>1, <2>2 DEF b, none
    <2>4. Lays(AddTo(sent, h), b, e, Append(none, h)) /\ AddTo(sent, h).len = sent.len + Size(h)
      BY ONLY <2>1, <2>3, AddLays
    <2> QED BY ONLY <1>2, <2>4 DEF b, none
  <1> HIDE DEF m
  <1>6. m \in AttrMessages /\ \A k \in 0..(Room - 1) : k < e => m.buf[k] = sent.buf[k]
    BY ONLY <1>5 DEF Lays
  <1>7. PICK S : LinedUp(m, S, Append(<<>>, h), e)
    BY ONLY <1>5 DEF Lays
  <1> DEFINE one == Append(<<>>, h)
  <1>8. Len(one) = 1 /\ one[1] = h
    OBVIOUS
  <1> HIDE DEF one
  <1>9. AttrAt(m.buf, e, h)
    <2>1. S[1] = e /\ AttrAt(m.buf, S[1], one[1])
      <3>1. 1 \in 1..Len(one)
        BY ONLY <1>8
      <3> QED BY ONLY <1>7, <3>1 DEF LinedUp, one
    <2> QED BY ONLY <1>8, <2>1
  <1>10. m.buf[e] = 4 /\ m.buf[e + 2] = nest
    <2>1. m.buf[e] = 4 + Len(h.data) /\ m.buf[e + 2] = h.type
      BY ONLY <1>9 DEF AttrAt
    <2> QED BY ONLY <1>1, <2>1
  <1>11. Opened(m, sent, nest)
    BY ONLY sent \in AttrMessages, <1>5, <1>6, <1>10 DEF Opened
  <1> QED BY ONLY <1>3, <1>4, <1>11

(* The message c is n with the length of the nest at e. *)
Ended(c, n, e) ==
    /\ c.buf \in AttrBuffers /\ c.len = n.len /\ c.buf[e] = n.len - e
    /\ \A k \in 0..(Room - 1) : k # e => c.buf[k] = n.buf[k]

(* addattr_nest_end *)
LEMMA EndIs ==
    ASSUME NEW n, n \in AttrMessages, NEW e, e \in Nat, e + 4 <= n.len
    PROVE  Ended(addattr_nest_end(n, e), n, e)
  <1> DEFINE c == addattr_nest_end(n, e)
             l == n.len
             b == <<l - e>>
             buf == n.buf
             p == Put(buf, e, b)
  <1>1. n = [buf |-> buf, len |-> l] /\ buf \in AttrBuffers /\ l \in Nat /\ l <= Room /\ l % 4 = 0 /\ Room \in Nat
    BY RoomAssumption DEF AttrMessages
  <1>2. Aligned(l) = l
    <2> HIDE DEF l
    <2> QED BY ONLY <1>1, AlignedIs
  <1>3. c = [buf |-> p, len |-> l]
    <2>1. c = [n EXCEPT !.buf = Put(n.buf, e, <<Aligned(n.len) - e>>)]
      BY DEF addattr_nest_end
    <2>2. Put(n.buf, e, <<Aligned(n.len) - e>>) = p
      BY ONLY <1>2
    <2> HIDE DEF p, c
    <2>3. c = [n EXCEPT !.buf = p]
      BY ONLY <2>1, <2>2
    <2> HIDE DEF buf, l
    <2> QED BY ONLY <1>1, <2>3
  <1>4. e + 4 <= l
    OBVIOUS
  <1> HIDE DEF c, buf, l
  <1>5. l - e \in Nat
    BY ONLY <1>1, <1>4, e \in Nat
  <1>6. b \in Seq(Nat) /\ Len(b) = 1 /\ b[1] = l - e
    BY ONLY <1>5
  <1> HIDE DEF b
  <1>7. PutAt(p, buf, e, b)
    BY ONLY <1>1, <1>6, e \in Nat, PutIs
  <1> HIDE DEF p
  <1>8. p \in AttrBuffers /\ p[e] = l - e
    <2>1. 1 \in 1..1 /\ e + (1 - 1) = e /\ e < Room
      BY ONLY <1>1, <1>4, e \in Nat
    <2>2. p \in AttrBuffers /\ \A j \in 1..1 : e + (j - 1) < Room => p[e + (j - 1)] = b[j]
      BY ONLY <1>6, <1>7 DEF PutAt
    <2>3. e + (1 - 1) < Room => p[e + (1 - 1)] = b[1]
      BY ONLY <2>1, <2>2
    <2> QED BY ONLY <1>6, <2>1, <2>2, <2>3
  <1>9. \A k \in 0..(Room - 1) : k # e => p[k] = buf[k]
    <2>1. ASSUME NEW k, k \in 0..(Room - 1), k # e PROVE p[k] = buf[k]
      <3>1. k < e \/ k >= e + 1
        BY ONLY <1>1, <2>1, e \in Nat
      <3> QED BY ONLY <1>6, <1>7, <2>1, <3>1 DEF PutAt
    <2> QED BY ONLY <2>1
  <1>10. c.buf = p /\ c.len = l
    BY ONLY <1>3
  <1>11. Ended(c, n, e)
    BY ONLY <1>8, <1>9, <1>10 DEF Ended, l, buf
  <1> QED BY ONLY <1>11 DEF c

(* What is in the nest is still there. *)
LEMMA InnerCarries ==
    ASSUME NEW n, NEW old, NEW e, e \in Nat, NEW inner, Lays(n, old, e + 4, inner), NEW c, Ended(c, n, e)
    PROVE  \E S : Carries(c.buf, e + 4, n.len - (e + 4), S, inner)
  <1> DEFINE f == e + 4
             cb == c.buf
             nb == n.buf
             m == Len(inner)
             l == n.len
  <1>1. n \in AttrMessages /\ inner \in Seq(Attr) /\ f \in Nat
    BY DEF Lays
  <1>2. PICK S : LinedUp(n, S, inner, f)
    BY DEF Lays
  <1>3. l \in Nat /\ l <= Room /\ Room \in Nat
    BY <1>1, RoomAssumption DEF AttrMessages
  <1>4. cb \in AttrBuffers /\ c.len = l /\ \A k \in 0..(Room - 1) : k # e => cb[k] = nb[k]
    BY DEF Ended
  <1>5. m \in Nat /\ inner \in [1..m -> Attr]
    BY ONLY <1>1, SeqIs
  <1>6. /\ S \in [1..(m + 1) -> Nat] /\ S[1] = f /\ S[m + 1] = l /\ f <= l
        /\ \A i \in 1..m : /\ S[i + 1] = S[i] + Size(inner[i]) /\ f <= S[i] /\ S[i] + Size(inner[i]) <= l
                           /\ AttrAt(nb, S[i], inner[i])
    BY <1>2 DEF LinedUp
  <1> HIDE DEF cb, nb, m, l
  <1>7. ASSUME NEW i, i \in 1..m PROVE AttrAt(cb, S[i], inner[i])
    <2> DEFINE s == S[i]
               a == inner[i]
               d == Len(a.data)
               z == Size(a)
    <2>1. a \in Attr
      BY ONLY <1>5, <1>7
    <2>2. f <= s /\ s + z <= l /\ AttrAt(nb, s, a)
      BY ONLY <1>6, <1>7
    <2> HIDE DEF s, a
    <2>3. d \in Nat /\ z \in Nat /\ 4 + d <= z
      BY ONLY <2>1, SizeIs
    <2>4. s \in Nat
      BY ONLY <2>2 DEF AttrAt
    <2>5. \A k \in s..(s + (3 + d)) : cb[k] = nb[k]
      <3> HIDE DEF d, z
      <3>1. ASSUME NEW k, k \in s..(s + (3 + d)) PROVE k \in 0..(Room - 1) /\ k # e
        BY ONLY <1>3, <2>2, <2>3, <2>4, <3>1, e \in Nat
      <3> QED BY ONLY <1>4, <3>1
    <2>6. AttrAt(cb, s, a)
      BY ONLY <2>2, <2>5, AttrKept
    <2> QED BY ONLY <2>6 DEF s, a
  <1>8. LinedUp(c, S, inner, f)
    BY ONLY <1>4, <1>6, <1>7 DEF LinedUp, m, cb
  <1>9. Carries(c.buf, f, c.len - f, S, inner)
    <2>1. c.buf \in AttrBuffers /\ c.len \in Nat /\ c.len <= Room
      BY ONLY <1>3, <1>4 DEF cb
    <2> QED BY ONLY <1>1, <1>8, <2>1, LinedCarries
  <1>10. Carries(c.buf, f, n.len - f, S, inner)
    BY ONLY <1>4, <1>9 DEF l
  <1> QED BY ONLY <1>10

(* In len bytes of a buffer, the attributes got and behind them a nest at e. *)
HasNest(buf, len, got, nest, e) ==
    \E T, b : /\ b \in Attr /\ b.type = nest
              /\ Carries(buf, 0, len, T, Append(got, b)) /\ T[Len(got) + 1] = e

(* The attributes before the nest are still there, and the nest is one behind them. *)
LEMMA OuterCarries ==
    ASSUME NEW m, NEW sent, NEW nest, nest \in Nat, Opened(m, sent, nest), NEW got, NEW zero, Lays(sent, zero, 0, got),
           NEW n, NEW inner, Lays(n, m.buf, sent.len + 4, inner), NEW c, Ended(c, n, sent.len)
    PROVE  HasNest(c.buf, n.len, got, nest, sent.len)
  <1> DEFINE e == sent.len
             l == n.len
             cb == c.buf
             d == Payload(cb, e)
             b == [type |-> nest, data |-> d]
             z == l - e
             y == z - 4
  <1>1. got \in Seq(Attr) /\ \E S : LinedUp(sent, S, got, 0)
    BY DEF Lays
  <1>2. n \in AttrMessages /\ \A k \in 0..(Room - 1) : k < e + 4 => n.buf[k] = m.buf[k]
    BY DEF Lays
  <1>3. e + 4 <= l
    <2>1. PICK S : LinedUp(n, S, inner, sent.len + 4)
      BY DEF Lays
    <2> QED BY ONLY <2>1 DEF LinedUp
  <1>4. e \in Nat /\ e % 4 = 0 /\ l \in Nat /\ l <= Room /\ l % 4 = 0 /\ Room \in Nat
    BY <1>2, RoomAssumption DEF AttrMessages, Opened
  <1>5. cb \in AttrBuffers /\ c.len = l /\ cb[e] = z /\ \A k \in 0..(Room - 1) : k # e => cb[k] = n.buf[k]
    BY DEF Ended
  <1>6. (\A k \in 0..(Room - 1) : k < e => m.buf[k] = sent.buf[k]) /\ m.buf[e + 2] = nest
    BY DEF Opened
  <1> HIDE DEF e, l, cb, z
  <1>7. z \in Nat /\ z >= 4 /\ z % 4 = 0 /\ e + z = l /\ y \in Nat /\ 4 + y = z
    BY ONLY <1>3, <1>4 DEF z
  <1> HIDE DEF y
  <1>8. d = [k \in 1..y |-> cb[e + 3 + k]]
    <2>1. cb[e] - 4 = y
      BY ONLY <1>5 DEF y
    <2> DEFINE w == cb[e] - 4
    <2>2. d = [k \in 1..w |-> cb[e + 3 + k]]
      BY DEF Payload
    <2>3. w = y
      BY ONLY <2>1
    <2> HIDE DEF w, d
    <2> QED BY ONLY <2>2, <2>3
  <1> HIDE DEF d
  <1>9. d \in Seq(Nat) /\ Len(d) = y /\ \A k \in 1..y : d[k] = cb[e + 3 + k]
    <2>1. \A k \in 1..y : e + 3 + k \in 0..(Room - 1)
      BY ONLY <1>4, <1>7
    <2>2. \A k \in 1..y : cb[e + 3 + k] \in Nat
      BY ONLY <1>5, <2>1 DEF AttrBuffers
    <2>3. y \in Nat
      BY ONLY <1>7
    <2> QED BY ONLY <1>8, <2>2, <2>3
  <1>10. b \in Attr /\ b.type = nest /\ b.data = d
    BY ONLY <1>9, nest \in Nat DEF Attr
  <1> HIDE DEF b
  <1>11. Size(b) = z
    <2>1. Size(b) = Aligned(4 + Len(b.data))
      BY ONLY <1>10, SizeIs
    <2>2. Aligned(z) = z
      BY ONLY <1>7, AlignedIs
    <2> QED BY ONLY <1>7, <1>9, <1>10, <2>1, <2>2
  <1>12. cb[e + 2] = nest /\ \A k \in 0..(Room - 1) : k < e => cb[k] = sent.buf[k]
    <2>1. e + 2 \in 0..(Room - 1) /\ e + 2 < e + 4 /\ e + 2 # e
      BY ONLY <1>3, <1>4
    <2>2. ASSUME NEW k, k \in 0..(Room - 1), k < e PROVE cb[k] = sent.buf[k]
      <3>1. k < e + 4 /\ k # e
        BY ONLY <1>4, <2>2
      <3> QED BY ONLY <1>2, <1>5, <1>6, <2>2, <3>1
    <2> QED BY ONLY <1>2, <1>5, <1>6, <2>1, <2>2
  <1>13. AttrAt(cb, e, b)
    <2>1. e + (4 + y) <= Room
      BY ONLY <1>4, <1>7
    <2> QED BY ONLY <1>4, <1>5, <1>7, <1>9, <1>10, <1>12, <2>1 DEF AttrAt
  <1>14. PICK S : LinedUp(sent, S, got, 0)
    BY ONLY <1>1
  <1>15. PICK T : LinedUp(c, T, Append(got, b), 0)
    <2>1. AttrAt(c.buf, sent.len, b) /\ c.len = sent.len + Size(b) /\ c.len <= Room
          /\ \A k \in 0..(Room - 1) : k < sent.len => c.buf[k] = sent.buf[k]
      BY ONLY <1>4, <1>5, <1>7, <1>11, <1>12, <1>13 DEF e, cb
    <2>2. sent.len \in Nat /\ 0 \in Nat
      BY ONLY <1>4 DEF e
    <2> QED BY ONLY <1>1, <1>10, <1>14, <2>1, <2>2, LinedAppend
  <1>16. Appended(Append(got, b), got, b, Attr)
    BY ONLY <1>1, <1>10, AppendAt
  <1> DEFINE all == Append(got, b)
             g == Len(got)
  <1>17. all \in Seq(Attr) /\ Len(all) = g + 1 /\ all[g + 1] = b /\ g \in Nat
    BY ONLY <1>16 DEF Appended
  <1> HIDE DEF all, g
  <1>18. T[g + 1] = e
    <2>1. /\ T \in [1..(Len(all) + 1) -> Nat] /\ T[Len(all) + 1] = c.len
          /\ \A i \in 1..Len(all) : T[i + 1] = T[i] + Size(all[i])
      BY ONLY <1>15 DEF LinedUp, all
    <2>2. g + 1 \in 1..(g + 1) /\ g + 1 \in 1..(g + 1 + 1)
      BY ONLY <1>17
    <2>3. T[g + 1] \in Nat /\ T[g + 1 + 1] = T[g + 1] + Size(all[g + 1]) /\ T[g + 1 + 1] = l
      BY ONLY <1>5, <1>17, <2>1, <2>2
    <2>4. T[g + 1] \in Nat /\ l = T[g + 1] + z
      BY ONLY <1>11, <1>17, <2>3
    <2> QED BY ONLY <1>4, <1>7, <2>4
  <1>19. Carries(c.buf, 0, n.len, T, all)
    <2>1. c.buf \in AttrBuffers /\ c.len \in Nat /\ c.len <= Room /\ 0 \in Nat
      BY ONLY <1>4, <1>5 DEF cb
    <2>2. Carries(c.buf, 0, c.len - 0, T, all)
      BY ONLY <1>15, <1>17, <2>1, LinedCarries DEF all
    <2>3. c.len - 0 = n.len
      BY ONLY <1>4, <1>5 DEF l
    <2> QED BY ONLY <2>2, <2>3
  <1> QED BY ONLY <1>10, <1>18, <1>19 DEF HasNest, all, g, e

(* A type that is not that of an attribute behind a list. *)
LEMMA LastBefore ==
    ASSUME NEW got, got \in Seq(Attr), NEW b, b \in Attr, NEW t, b.type # t
    PROVE  LastOf(Append(got, b), t) = LastOf(got, t)
  <1> DEFINE all == Append(got, b)
             n == Len(got)
             I == {j \in DOMAIN got : got[j].type = t /\ \A k \in (j + 1)..Len(got) : got[k].type # t}
             J == {j \in DOMAIN all : all[j].type = t /\ \A k \in (j + 1)..Len(all) : all[k].type # t}
  <1>1. Appended(all, got, b, Attr)
    BY ONLY got \in Seq(Attr), b \in Attr, AppendAt
  <1>2. n \in Nat /\ DOMAIN got = 1..n
    BY ONLY got \in Seq(Attr), SeqIs
  <1>3. all \in Seq(Attr) /\ Len(all) = n + 1 /\ all[n + 1] = b /\ \A i \in 1..n : all[i] = got[i]
    BY ONLY <1>1 DEF Appended
  <1> HIDE DEF all
  <1>4. DOMAIN all = 1..(n + 1)
    BY ONLY <1>3, SeqIs
  <1>5. Len(got) = n
    OBVIOUS
  <1> HIDE DEF n
  <1>6. ASSUME NEW j, j \in I PROVE j \in J
    <2>1. j \in 1..n /\ got[j].type = t /\ \A k \in (j + 1)..n : got[k].type # t
      BY ONLY <1>2, <1>5, <1>6
    <2>2. j \in 1..(n + 1) /\ \A k \in (j + 1)..(n + 1) : k = n + 1 \/ (k \in (j + 1)..n /\ k \in 1..n)
      BY ONLY <1>2, <2>1
    <2>3. \A k \in (j + 1)..(n + 1) : all[k].type # t
      BY ONLY <1>3, <2>1, <2>2, b.type # t
    <2> QED BY ONLY <1>3, <1>4, <2>1, <2>2, <2>3
  <1>7. ASSUME NEW j, j \in J PROVE j \in I
    <2>1. j \in 1..(n + 1) /\ all[j].type = t /\ \A k \in (j + 1)..(n + 1) : all[k].type # t
      BY ONLY <1>3, <1>4, <1>7
    <2>2. j # n + 1
      BY ONLY <1>3, <2>1, b.type # t
    <2>3. j \in 1..n /\ \A k \in (j + 1)..n : k \in (j + 1)..(n + 1) /\ k \in 1..n
      BY ONLY <1>2, <2>1, <2>2
    <2>4. \A k \in (j + 1)..n : got[k].type # t
      BY ONLY <1>3, <2>1, <2>3
    <2> QED BY ONLY <1>2, <1>3, <1>5, <2>1, <2>3, <2>4
  <1>8. I = J
    <2> HIDE DEF I, J
    <2> QED BY ONLY <1>6, <1>7
  <1>9. \A j \in I : all[j] = got[j]
    BY ONLY <1>2, <1>3
  <1>10. LastOf(all, t) = {all[i].data : i \in J} /\ LastOf(got, t) = {got[i].data : i \in I}
    BY ONLY TRUE DEF LastOf
  <1> HIDE DEF I, J
  <1>11. {all[i].data : i \in J} = {got[i].data : i \in I}
    BY ONLY <1>8, <1>9
  <1> QED BY ONLY <1>10, <1>11 DEF all

(* What is parsed of a message c with the attributes got, and with inner in the nest
   that is the last. *)
Delivers(c, got, nest, inner, max) ==
    LET tb == parse_rtattr(c.buf, 0, c.len, max)
        inside == parse_rtattr(c.buf, tb[nest] + 4, c.buf[tb[nest]] - 4, max)
    IN  \A t \in 0..max : /\ t # nest => Parsed(tb, c.buf, t) = LastOf(got, t)
                          /\ Parsed(inside, c.buf, t) = LastOf(inner, t)

(* A nest that is closed delivers. *)
LEMMA ClosedDelivers ==
    ASSUME NEW m, NEW sent, NEW max, max \in Nat, NEW nest, nest \in 0..max, Opened(m, sent, nest),
           NEW got, NEW zero, Lays(sent, zero, 0, got),
           NEW n, NEW inner, Lays(n, m.buf, sent.len + 4, inner), NEW c, Ended(c, n, sent.len)
    PROVE  Delivers(c, got, nest, inner, max)
  <1> DEFINE e == sent.len
             l == n.len
             cb == c.buf
             tb == parse_rtattr(cb, 0, c.len, max)
             inside == parse_rtattr(cb, tb[nest] + 4, cb[tb[nest]] - 4, max)
  <1>1. nest \in Nat /\ got \in Seq(Attr) /\ e \in Nat /\ l \in Nat /\ c.len = l /\ cb[e] = l - e
    <2>1. nest \in Nat
      BY ONLY max \in Nat, nest \in 0..max
    <2>2. got \in Seq(Attr) /\ n \in AttrMessages /\ sent \in AttrMessages
      BY DEF Lays
    <2>3. e \in Nat /\ l \in Nat
      BY ONLY <2>2 DEF AttrMessages
    <2>4. c.len = l /\ cb[e] = l - e
      BY ONLY Ended(c, n, sent.len) DEF Ended
    <2> QED BY ONLY <2>1, <2>2, <2>3, <2>4
  <1>2. PICK T, b : b \in Attr /\ b.type = nest /\ Carries(cb, 0, l, T, Append(got, b)) /\ T[Len(got) + 1] = e
    <2>1. nest \in Nat
      BY ONLY <1>1
    <2>2. HasNest(cb, l, got, nest, e)
      BY <2>1, OuterCarries
    <2> HIDE DEF cb, l, e
    <2> QED BY ONLY <2>2 DEF HasNest
  <1>3. PICK S : Carries(cb, e + 4, l - (e + 4), S, inner)
    <2>1. e \in Nat
      BY ONLY <1>1
    <2> QED BY <2>1, InnerCarries
  <1> DEFINE all == Append(got, b)
             g == Len(got)
  <1>4. all \in Seq(Attr) /\ Len(all) = g + 1 /\ all[g + 1] = b /\ g \in Nat
    <2>1. got \in Seq(Attr) /\ b \in Attr
      BY ONLY <1>1, <1>2
    <2>2. Appended(all, got, b, Attr)
      BY ONLY <2>1, AppendAt
    <2> QED BY ONLY <2>2 DEF Appended
  <1>5. tb = parse_rtattr(cb, 0, l, max)
    BY ONLY <1>1
  <1> HIDE DEF all, cb, e, l, tb
  <1>6. Carries(cb, 0, l, T, all)
    BY ONLY <1>2 DEF all
  <1>7. \A t \in 0..max : FindsLast(tb[t], T, all, t)
    <2>1. \A t \in 0..max : FindsLast(parse_rtattr(cb, 0, l, max)[t], T, all, t)
      BY ONLY <1>6, ParseFinds
    <2> QED BY ONLY <1>5, <2>1
  <1>8. tb[nest] = e
    <2>1. g + 1 \in 1..Len(all) /\ all[g + 1].type = nest
      BY ONLY <1>2, <1>4
    <2>2. PICK i \in 1..Len(all) : LastAt(all, nest, i) /\ tb[nest] = T[i]
      BY ONLY <1>7, <2>1, nest \in 0..max DEF FindsLast
    <2>3. ~(g + 1 \in (i + 1)..Len(all))
      BY ONLY <2>1, <2>2 DEF LastAt
    <2>4. i = g + 1
      <3> HIDE DEF g
      <3> QED BY ONLY <1>4, <2>2, <2>3
    <2> QED BY ONLY <1>2, <2>2, <2>4 DEF g
  <1>9. inside = parse_rtattr(cb, e + 4, l - (e + 4), max)
    <2>1. l - (e + 4) = l - e - 4
      BY ONLY <1>1
    <2>2. tb[nest] + 4 = e + 4 /\ cb[tb[nest]] - 4 = l - (e + 4)
      BY ONLY <1>1, <1>8, <2>1
    <2> QED BY ONLY <2>2
  <1> HIDE DEF inside
  <1>10. \A t \in 0..max : FindsLast(inside[t], S, inner, t)
    <2> DEFINE from == e + 4
               len == l - from
    <2>1. Carries(cb, from, len, S, inner) /\ inside = parse_rtattr(cb, from, len, max)
      BY ONLY <1>3, <1>9
    <2> HIDE DEF from, len
    <2>2. \A t \in 0..max : FindsLast(parse_rtattr(cb, from, len, max)[t], S, inner, t)
      BY ONLY <2>1, ParseFinds
    <2> QED BY ONLY <2>1, <2>2
  <1>11. ASSUME NEW t, t \in 0..max, t # nest PROVE Parsed(tb, cb, t) = LastOf(got, t)
    <2>1. FindsLast(tb[t], T, all, t)
      BY ONLY <1>7, <1>11
    <2>2. Parsed(tb, cb, t) = LastOf(all, t)
      BY ONLY <1>6, <2>1, ParsedLast
    <2>3. LastOf(all, t) = LastOf(got, t)
      <3>1. b.type # t /\ b \in Attr /\ got \in Seq(Attr)
        BY ONLY <1>1, <1>2, <1>11
      <3> QED BY ONLY <3>1, LastBefore DEF all
    <2> QED BY ONLY <2>2, <2>3
  <1>12. ASSUME NEW t, t \in 0..max PROVE Parsed(inside, cb, t) = LastOf(inner, t)
    <2> DEFINE from == e + 4
               len == l - from
    <2>1. Carries(cb, from, len, S, inner) /\ FindsLast(inside[t], S, inner, t)
      BY ONLY <1>3, <1>10, <1>12
    <2> HIDE DEF from, len
    <2> QED BY ONLY <2>1, ParsedLast
  <1> QED BY ONLY <1>11, <1>12 DEF Delivers, cb, tb, inside

(* The parts of Closed, where all fits. *)
IsNested(as, nest, inner, m, sent, n) ==
    /\ sent = AddAll(NoAttributes, as) /\ m = addattr_nest(sent, Room, nest).msg
    /\ addattr_nest(sent, Room, nest).nest = sent.len
    /\ n = AddAll(m, inner) /\ Closed(as, nest, inner) = addattr_nest_end(n, sent.len)
    /\ Opened(m, sent, nest) /\ Lays(sent, NoAttributes.buf, 0, Fitting(as, Room).got)
    /\ Lays(n, m.buf, sent.len + 4, inner) /\ Ended(Closed(as, nest, inner), n, sent.len)

(* They are as they should be. *)
LEMMA NestedIs ==
    ASSUME NEW as, as \in Seq(Attr), NEW inner, inner \in Seq(Attr), NEW nest, nest \in Nat, NestFits(as, inner)
    PROVE  \E m, sent, n : IsNested(as, nest, inner, m, sent, n)
  <1> DEFINE sent == AddAll(NoAttributes, as)
             open == addattr_nest(sent, Room, nest)
             m == open.msg
             n == AddAll(m, inner)
             c == Closed(as, nest, inner)
             e == sent.len
             room == Room - (e + 4)
  <1>1. Lays(sent, NoAttributes.buf, 0, Fitting(as, Room).got) /\ e = Fitting(as, Room).bytes
    BY ONLY as \in Seq(Attr), ListLays
  <1>2. room >= 0 /\ Fitting(inner, room).got = inner
    BY ONLY <1>1, NestFits(as, inner) DEF NestFits
  <1>3. sent \in AttrMessages
    BY ONLY <1>1 DEF Lays
  <1>4. e \in Nat /\ Room \in Nat
    BY ONLY <1>3, RoomAssumption DEF AttrMessages
  <1>5. c = addattr_nest_end(n, open.nest)
    BY DEF Closed
  <1> HIDE DEF sent, n, c
  <1>6. e + 4 <= Room
    <2> HIDE DEF e
    <2> QED BY ONLY <1>2, <1>4
  <1>7. open.nest = e /\ Opened(m, sent, nest)
    BY ONLY <1>3, <1>6, nest \in Nat, OpenIs
  <1> HIDE DEF open, m
  <1>8. m \in AttrMessages /\ m.len = e + 4
    BY ONLY <1>7 DEF Opened
  <1>9. Lays(n, m.buf, e + 4, inner)
    <2>1. Lays(m, m.buf, m.len, <<>>)
      BY ONLY <1>8, BareLays
    <2> DEFINE b == m.buf
               f == e + 4
    <2>2. Lays(m, b, f, <<>>)
      BY ONLY <1>8, <2>1
    <2> HIDE DEF b, f
    <2>3. Lays(AddAll(m, inner), b, f, Fitting(inner, Room - f).got)
      BY ONLY <2>2, inner \in Seq(Attr), AllLays
    <2>4. Fitting(inner, Room - f).got = inner
      BY ONLY <1>2 DEF f
    <2>5. Lays(n, b, f, inner)
      BY ONLY <2>3, <2>4 DEF n
    <2> QED BY ONLY <2>5 DEF b, f
  <1>10. n \in AttrMessages /\ e + 4 <= n.len
    <2>1. PICK S : LinedUp(n, S, inner, e + 4)
      BY ONLY <1>9 DEF Lays
    <2>2. e + 4 <= n.len
      BY ONLY <2>1 DEF LinedUp
    <2> QED BY ONLY <1>9, <2>2 DEF Lays
  <1>11. Ended(c, n, e)
    <2>1. Ended(addattr_nest_end(n, e), n, e)
      <3> HIDE DEF e
      <3> QED BY ONLY <1>4, <1>10, EndIs
    <2> QED BY ONLY <1>5, <1>7, <2>1
  <1>12. IsNested(as, nest, inner, m, sent, n)
    <2>1. c = addattr_nest_end(n, sent.len)
      BY ONLY <1>5, <1>7
    <2>2. Opened(m, sent, nest) /\ open.nest = sent.len
      BY ONLY <1>7
    <2>3. sent = AddAll(NoAttributes, as) /\ m = addattr_nest(sent, Room, nest).msg /\ n = AddAll(m, inner)
          /\ addattr_nest(sent, Room, nest).nest = sent.len
      BY ONLY <2>2 DEF sent, m, n, open
    <2> QED BY ONLY <1>1, <1>9, <1>11, <2>1, <2>2, <2>3 DEF IsNested, c
  <1> QED BY ONLY <1>12

(* rta_addattr_l with an attribute, and as a step. *)
GrowTo(n, e, a) == rta_addattr_l(n, e, Room - e, a.type, a.data)
GrowFn(e) == [x \in AttrMessages |-> [a \in Attr |-> GrowTo(x, e, a)]]

(* The buffer is that of n but for the length of the nest, which reaches up to the end. *)
Marked(buf, n, e) ==
    buf \in AttrBuffers /\ buf[e] = n.len - e /\ \A k \in 0..(Room - 1) : k # e => buf[k] = n.buf[k]

(* The bytes of an attribute. *)
LEMMA AttributeIs ==
    ASSUME NEW a, a \in Attr
    PROVE  Attribute(a.type, a.data) \in Seq(Nat) /\ Len(Attribute(a.type, a.data)) = 4 + Len(a.data)
  <1> DEFINE d == a.data
             t == a.type
             l == Len(d)
             h == <<4 + l, 0, t, 0>>
  <1>1. d \in Seq(Nat) /\ t \in Nat /\ l \in Nat
    BY DEF Attr
  <1>2. Attribute(a.type, a.data) = h \o d
    BY DEF Attribute
  <1> HIDE DEF d, t
  <1>3. h \in Seq(Nat) /\ Len(h) = 4
    <2> HIDE DEF l
    <2> QED BY ONLY <1>1
  <1> HIDE DEF h
  <1> DEFINE V == Nat
  <1>4. h \in Seq(V) /\ d \in Seq(V)
    BY ONLY <1>1, <1>3
  <1> HIDE DEF V
  <1>5. h \o d \in Seq(V) /\ Len(h \o d) = Len(h) + Len(d)
    BY ONLY <1>4, ConcatAt
  <1> QED BY ONLY <1>2, <1>3, <1>5 DEF V, d

(* What rta_addattr_l does. *)
LEMMA GrowIs ==
    ASSUME NEW x, x \in AttrMessages, NEW e, e \in Nat, e < Room, NEW a, a \in Attr
    PROVE  /\ GrowTo(x, e, a) \in AttrMessages
           /\ Aligned(x.buf[e]) + Size(a) > Room - e => GrowTo(x, e, a) = x
           /\ ~(Aligned(x.buf[e]) + Size(a) > Room - e) =>
                 GrowTo(x, e, a).buf = Put(Put(x.buf, e + Aligned(x.buf[e]), Attribute(a.type, a.data)),
                                           e, <<Aligned(x.buf[e]) + Size(a)>>)
  <1> DEFINE at == Aligned(x.buf[e])
             z == Size(a)
             o == Attribute(a.type, a.data)
             f == e + at
             p == Put(x.buf, f, o)
             w == at + z
             b == <<w>>
             q == Put(p, e, b)
  <1>1. x = [buf |-> x.buf, len |-> x.len] /\ x.buf \in AttrBuffers /\ x.len \in Nat /\ x.len <= Room /\ x.len % 4 = 0
    BY DEF AttrMessages
  <1>2. at \in Nat
    <2> DEFINE v == x.buf[e]
    <2>1. v \in Nat
      <3>1. e \in 0..(Room - 1)
        BY ONLY e \in Nat, e < Room, RoomAssumption
      <3> QED BY ONLY <1>1, <3>1 DEF AttrBuffers
    <2> HIDE DEF v
    <2>2. Aligned(v) \in Nat
      BY ONLY <2>1, AlignedUp
    <2> QED BY ONLY <2>2 DEF v
  <1>3. z \in Nat /\ z = Aligned(4 + Len(a.data))
    BY ONLY a \in Attr, SizeIs
  <1>4. GrowTo(x, e, a) = IF w > Room - e THEN x ELSE [x EXCEPT !.buf = q]
    BY ONLY <1>3 DEF GrowTo, rta_addattr_l
  <1>5. o \in Seq(Nat)
    BY ONLY a \in Attr, AttributeIs
  <1> HIDE DEF at, z, o
  <1>6. f \in Nat /\ w \in Nat
    BY ONLY <1>2, <1>3, e \in Nat
  <1> HIDE DEF f, w
  <1>7. b \in Seq(Nat)
    BY ONLY <1>6
  <1> HIDE DEF b
  <1>8. p \in AttrBuffers
    <2> DEFINE xb == x.buf
    <2>1. xb \in AttrBuffers
      BY ONLY <1>1
    <2> HIDE DEF xb
    <2>2. PutAt(Put(xb, f, o), xb, f, o)
      BY ONLY <1>5, <1>6, <2>1, PutIs
    <2> QED BY ONLY <2>2 DEF PutAt, xb
  <1> HIDE DEF p
  <1>9. q \in AttrBuffers
    <2>1. PutAt(q, p, e, b)
      BY ONLY <1>7, <1>8, e \in Nat, PutIs
    <2> QED BY ONLY <2>1 DEF PutAt
  <1> HIDE DEF q
  <1>10. [x EXCEPT !.buf = q] = [buf |-> q, len |-> x.len]
    <2> DEFINE xb == x.buf
               xl == x.len
    <2>1. x = [buf |-> xb, len |-> xl]
      BY ONLY <1>1
    <2> HIDE DEF xb, xl
    <2>2. [x EXCEPT !.buf = q] = [buf |-> q, len |-> xl]
      BY ONLY <2>1
    <2> QED BY ONLY <2>2 DEF xl
  <1>11. [buf |-> q, len |-> x.len] \in AttrMessages
    BY ONLY <1>1, <1>9 DEF AttrMessages
  <1>12. GrowTo(x, e, a) \in AttrMessages
    BY ONLY <1>4, <1>10, <1>11, x \in AttrMessages
  <1>13. (w > Room - e => GrowTo(x, e, a) = x) /\ (~(w > Room - e) => GrowTo(x, e, a).buf = q)
    BY ONLY <1>4, <1>10
  <1> QED BY ONLY <1>12, <1>13 DEF w, q, p, b, f, at, z, o

(* The nest that is extended stays the one whose length is written at the end. *)
LEMMA GrowMarks ==
    ASSUME NEW n, n \in AttrMessages, NEW e, e \in Nat, e % 4 = 0, e + 4 <= n.len, NEW a, a \in Attr,
           NEW x, x \in AttrMessages, Marked(x.buf, n, e)
    PROVE  Marked(GrowTo(x, e, a).buf, AddTo(n, a), e) /\ e + 4 <= AddTo(n, a).len
  <1> DEFINE l == n.len
             z == Size(a)
             w == l - e
             o == Attribute(a.type, a.data)
             xb == x.buf
             nb == n.buf
             p == Put(xb, l, o)
             b == <<w + z>>
             q == Put(p, e, b)
             r == Put(nb, l, o)
             y == Len(o)
  <1>1. l \in Nat /\ l <= Room /\ l % 4 = 0 /\ Room \in Nat /\ nb \in AttrBuffers
    BY RoomAssumption DEF AttrMessages
  <1>2. xb \in AttrBuffers /\ xb[e] = w /\ \A k \in 0..(Room - 1) : k # e => xb[k] = nb[k]
    BY DEF Marked
  <1>3. z \in Nat
    BY SizeIs
  <1>4. o \in Seq(Nat) /\ y \in Nat
    <2>1. o \in Seq(Nat)
      BY ONLY a \in Attr, AttributeIs
    <2> HIDE DEF o
    <2> QED BY ONLY <2>1
  <1>5. e + 4 <= l
    OBVIOUS
  <1>6. /\ l + z > Room => AddTo(n, a) = n
        /\ l + z <= Room => AddTo(n, a) = [buf |-> r, len |-> l + z]
    BY ONLY n \in AttrMessages, a \in Attr, AddIs
  <1>7. e < Room
    <2> HIDE DEF l
    <2> QED BY ONLY <1>1, <1>5, e \in Nat
  <1>8. /\ Aligned(xb[e]) + z > Room - e => GrowTo(x, e, a) = x
        /\ ~(Aligned(xb[e]) + z > Room - e) =>
               GrowTo(x, e, a).buf = Put(Put(xb, e + Aligned(xb[e]), o), e, <<Aligned(xb[e]) + z>>)
    BY ONLY x \in AttrMessages, e \in Nat, <1>7, a \in Attr, GrowIs
  <1> HIDE DEF l, z, o, xb, nb, y
  <1>9. w \in Nat /\ w % 4 = 0 /\ e + w = l
    BY ONLY <1>1, <1>5, e \in Nat, e % 4 = 0
  <1>10. Aligned(xb[e]) = w
    <2> HIDE DEF w
    <2>1. Aligned(w) = w
      BY ONLY <1>9, AlignedIs
    <2> QED BY ONLY <1>2, <2>1
  <1>11. /\ w + z > Room - e => GrowTo(x, e, a) = x
         /\ ~(w + z > Room - e) => GrowTo(x, e, a).buf = q
    BY ONLY <1>8, <1>9, <1>10
  <1>12. CASE l + z > Room
    <2>1. w + z > Room - e
      BY ONLY <1>1, <1>3, <1>9, <1>12, e \in Nat
    <2> QED BY ONLY <1>5, <1>6, <1>11, <1>12, <2>1, Marked(x.buf, n, e) DEF l
  <1>13. CASE ~(l + z > Room)
    <2>1. ~(w + z > Room - e) /\ l + z <= Room /\ e + 4 <= l + z /\ (l + z) - e = w + z /\ w + z \in Nat
      BY ONLY <1>1, <1>3, <1>5, <1>9, <1>13, e \in Nat
    <2>2. b \in Seq(Nat) /\ Len(b) = 1 /\ b[1] = w + z
      <3> DEFINE v == w + z
      <3>1. v \in Nat
        BY ONLY <2>1
      <3> HIDE DEF v
      <3>2. <<v>> \in Seq(Nat) /\ Len(<<v>>) = 1 /\ <<v>>[1] = v
        BY ONLY <3>1
      <3> QED BY ONLY <3>2 DEF v
    <2>3. PutAt(p, xb, l, o)
      BY ONLY <1>1, <1>2, <1>4, PutIs
    <2>4. PutAt(r, nb, l, o)
      BY ONLY <1>1, <1>4, PutIs
    <2> HIDE DEF p, r, b
    <2>5. p \in AttrBuffers
      BY ONLY <2>3 DEF PutAt
    <2>6. PutAt(q, p, e, b)
      BY ONLY <2>2, <2>5, e \in Nat, PutIs
    <2> HIDE DEF q, w
    <2>7. q \in AttrBuffers /\ q[e] = w + z
      <3>1. 1 \in 1..1 /\ e + (1 - 1) = e /\ e < Room
        BY ONLY <1>7, e \in Nat
      <3>2. q \in AttrBuffers /\ \A j \in 1..1 : e + (j - 1) < Room => q[e + (j - 1)] = b[j]
        BY ONLY <2>2, <2>6 DEF PutAt
      <3>3. e + (1 - 1) < Room => q[e + (1 - 1)] = b[1]
        BY ONLY <3>1, <3>2
      <3> QED BY ONLY <2>2, <3>1, <3>2, <3>3
    <2>8. ASSUME NEW k, k \in 0..(Room - 1), k # e PROVE q[k] = r[k]
      <3>1. k \in Nat /\ k < Room
        BY ONLY <1>1, <2>8
      <3>2. q[k] = p[k]
        <4>1. k < e \/ k >= e + 1
          BY ONLY <2>8, <3>1, e \in Nat
        <4> QED BY ONLY <2>2, <2>6, <2>8, <4>1 DEF PutAt
      <3>3. k < l \/ k >= l + y \/ k - l + 1 \in 1..y
        BY ONLY <1>1, <1>4, <3>1
      <3>4. CASE k < l \/ k >= l + y
        <4>1. p[k] = xb[k] /\ r[k] = nb[k]
          BY ONLY <2>3, <2>4, <2>8, <3>4 DEF PutAt, y
        <4> QED BY ONLY <1>2, <2>8, <3>2, <4>1
      <3>5. CASE k - l + 1 \in 1..y
        <4> DEFINE j == k - l + 1
        <4>1. j \in 1..y /\ l + (j - 1) = k
          BY ONLY <1>1, <3>1, <3>5
        <4> HIDE DEF j
        <4>2. p[k] = o[j] /\ r[k] = o[j]
          BY ONLY <2>3, <2>4, <3>1, <4>1 DEF PutAt, y
        <4> QED BY ONLY <3>2, <4>2
      <3> QED BY ONLY <3>3, <3>4, <3>5
    <2>9. AddTo(n, a).buf = r /\ AddTo(n, a).len = l + z /\ GrowTo(x, e, a).buf = q
      BY ONLY <1>6, <1>11, <2>1
    <2>10. Marked(GrowTo(x, e, a).buf, AddTo(n, a), e)
      BY ONLY <2>1, <2>7, <2>8, <2>9 DEF Marked
    <2> QED BY ONLY <2>1, <2>9, <2>10
  <1> QED BY ONLY <1>12, <1>13

(* An attribute is added to the nest one after the other. *)
LEMMA GrowFold ==
    ASSUME NEW as, as \in Seq(Attr), NEW m, m \in AttrMessages, NEW e, e \in Nat, e < Room
    PROVE  Ends(GrowAll(m, e, as), AttrMessages, GrowFn(e), m, as)
  <1> DEFINE n == Len(as)
             T == AttrMessages
             M == Attr
             step == GrowFn(e)
             base == m
             Eq(f) == f = [s \in SUBSET (1..n) |->
                              IF s = {} THEN base ELSE GrowTo(f[s \ {Max(s)}], e, as[Max(s)])]
             g == CHOOSE f : Eq(f)
             r == RunOf(g, n)
             res == GrowAll(m, e, as)
  <1>1. n \in Nat /\ as \in [1..n -> M] /\ DOMAIN as = 1..n /\ base \in T
    BY SeqIs
  <1>2. res = g[1..n]
    BY <1>1 DEF GrowAll, GrowTo, FoldLeft, MapThenFoldSet
  <1> HIDE DEF res
  <1>3. step \in [T -> [M -> T]] /\ \A x \in T, a \in M : GrowTo(x, e, a) = step[x][a]
    BY GrowIs DEF GrowFn
  <1>4. \A s \in SUBSET (1..n) : s # {} => as[Max(s)] \in M
    BY <1>1, MaxIn
  <1> HIDE DEF step, n, T, M, base
  <1>5. Eq(g)
    <2>1. PICK f : IsTable(f, T, step, base, n, as)
      BY <1>1, <1>3, FoldTable
    <2>2. Eq(f)
      BY <1>3, <1>4, <2>1, Zenon DEF IsTable
    <2> HIDE DEF Eq
    <2> QED BY <2>2
  <1>6. IsRun(r, T, step, base, n, as)
    <2>1. \A s \in SUBSET (1..n) : g[s] = IF s = {} THEN base ELSE GrowTo(g[s \ {Max(s)}], e, as[Max(s)])
      BY <1>5
    <2>2. Follows(g, T, step, base, n, as)
      BY <1>3, <1>4, <2>1 DEF Follows
    <2> HIDE DEF g
    <2> QED BY <1>1, <1>3, <2>2, TableRun
  <1>7. g[1..n] = r[n]
    BY <1>1 DEF RunOf
  <1> HIDE DEF r
  <1>8. Ends(res, AttrMessages, GrowFn(e), m, as)
    BY <1>2, <1>6, <1>7 DEF Ends, n, T, step, base
  <1> QED BY ONLY <1>8 DEF res

(* A buffer that is marked is given by that. *)
LEMMA MarkedOnce ==
    ASSUME NEW p, NEW q, NEW n, NEW e, e \in Nat, Marked(p, n, e), Marked(q, n, e)
    PROVE  p = q
  <1>1. p \in [0..(Room - 1) -> Nat] /\ q \in [0..(Room - 1) -> Nat]
    BY DEF Marked, AttrBuffers
  <1>2. \A k \in 0..(Room - 1) : p[k] = q[k]
    BY DEF Marked
  <1> DEFINE D == 0..(Room - 1)
  <1>3. p = [k \in D |-> p[k]] /\ q = [k \in D |-> q[k]] /\ \A k \in D : p[k] = q[k]
    BY ONLY <1>1, <1>2
  <1> HIDE DEF D
  <1> QED BY ONLY <1>3

(* So the nest is the same, extended or closed. *)
LEMMA GrownIsClosed ==
    ASSUME NEW as, NEW nest, NEW inner, inner \in Seq(Attr), NEW m, NEW sent, NEW n,
           IsNested(as, nest, inner, m, sent, n)
    PROVE  Grown(as, nest, inner).buf = Closed(as, nest, inner).buf
  <1> DEFINE e == sent.len
             l == Len(inner)
             x == Grown(as, nest, inner)
  <1>1. /\ sent = AddAll(NoAttributes, as) /\ m = addattr_nest(sent, Room, nest).msg
        /\ addattr_nest(sent, Room, nest).nest = e /\ n = AddAll(m, inner)
        /\ Opened(m, sent, nest) /\ Ended(Closed(as, nest, inner), n, e)
    BY DEF IsNested
  <1>2. sent \in AttrMessages /\ m \in AttrMessages /\ m.len = e + 4 /\ m.buf[e] = 4
    BY ONLY <1>1 DEF Opened
  <1>3. e \in Nat /\ e % 4 = 0 /\ m.len <= Room /\ m.buf \in AttrBuffers /\ Room \in Nat
    BY ONLY <1>2, RoomAssumption DEF AttrMessages
  <1>4. x = GrowAll(m, e, inner)
    BY ONLY <1>1 DEF Grown
  <1> HIDE DEF e, x
  <1>5. e < Room /\ (e + 4) - e = 4 /\ e + 4 <= e + 4
    BY ONLY <1>2, <1>3
  <1>6. PICK p : IsRun(p, AttrMessages, GrowFn(e), m, l, inner) /\ x = p[l]
    <2>1. Ends(GrowAll(m, e, inner), AttrMessages, GrowFn(e), m, inner)
      BY ONLY <1>2, <1>3, <1>5, inner \in Seq(Attr), GrowFold
    <2> QED BY ONLY <1>4, <2>1 DEF Ends
  <1>7. PICK q : IsRun(q, AttrMessages, AddFn, m, l, inner) /\ n = q[l]
    <2>1. Ends(AddAll(m, inner), AttrMessages, AddFn, m, inner)
      BY ONLY <1>2, inner \in Seq(Attr), AddFold
    <2> QED BY ONLY <1>1, <2>1 DEF Ends
  <1>8. l \in Nat /\ inner \in [1..l -> Attr]
    BY ONLY inner \in Seq(Attr), SeqIs
  <1> HIDE DEF l
  <1>9. p \in [0..l -> AttrMessages] /\ p[0] = m /\ \A k \in 1..l : p[k] = GrowFn(e)[p[k - 1]][inner[k]]
    BY ONLY <1>6 DEF IsRun
  <1>10. q \in [0..l -> AttrMessages] /\ q[0] = m /\ \A k \in 1..l : q[k] = AddFn[q[k - 1]][inner[k]]
    BY ONLY <1>7 DEF IsRun
  <1> DEFINE P == {k \in 0..l : Marked(p[k].buf, q[k], e) /\ e + 4 <= q[k].len}
  <1>11. 0 \in P
    <2>1. Marked(m.buf, m, e) /\ e + 4 <= m.len
      BY ONLY <1>2, <1>3, <1>5 DEF Marked
    <2>2. 0 \in 0..l
      BY ONLY <1>8
    <2> QED BY ONLY <1>9, <1>10, <2>1, <2>2
  <1>12. ASSUME NEW k \in 1..l, k - 1 \in P PROVE k \in P
    <2> DEFINE u == p[k - 1]
               v == q[k - 1]
               a == inner[k]
    <2>1. k - 1 \in 0..l /\ k \in 0..l
      BY ONLY <1>8, k \in 1..l
    <2>2. u \in AttrMessages /\ v \in AttrMessages /\ a \in Attr
      BY ONLY <1>8, <1>9, <1>10, <2>1, k \in 1..l
    <2>3. p[k] = GrowFn(e)[u][a] /\ q[k] = AddFn[v][a]
      BY ONLY <1>9, <1>10, k \in 1..l
    <2>4. Marked(u.buf, v, e) /\ e + 4 <= v.len
      BY ONLY <1>12
    <2> HIDE DEF u, v, a
    <2>5. p[k] = GrowTo(u, e, a) /\ q[k] = AddTo(v, a)
      BY ONLY <2>2, <2>3 DEF GrowFn, AddFn
    <2>6. Marked(GrowTo(u, e, a).buf, AddTo(v, a), e) /\ e + 4 <= AddTo(v, a).len
      BY ONLY <1>3, <2>2, <2>4, GrowMarks
    <2> QED BY ONLY <2>1, <2>5, <2>6
  <1>13. \A k \in 0..l : k \in P
    <2> HIDE DEF P
    <2> QED BY ONLY <1>8, <1>11, <1>12, UpToInduction
  <1>14. l \in 0..l
    BY ONLY <1>8
  <1>15. Marked(x.buf, n, e)
    BY ONLY <1>6, <1>7, <1>13, <1>14
  <1>16. Marked(Closed(as, nest, inner).buf, n, e)
    BY ONLY <1>1 DEF Ended, Marked
  <1> DEFINE c == Closed(as, nest, inner).buf
             xb == x.buf
  <1>17. Marked(xb, n, e) /\ Marked(c, n, e)
    BY ONLY <1>15, <1>16
  <1> HIDE DEF c, xb
  <1>18. xb = c
    BY ONLY <1>3, <1>17, MarkedOnce
  <1> QED BY ONLY <1>18 DEF xb, c, x

(* A nest that fits arrives, with what is before it and what is in it. *)
LEMMA EveryNestArrives ==
    ASSUME NEW as, as \in Seq(Attr), NEW inner, inner \in Seq(Attr), NEW max, max \in Nat, NEW nest, nest \in 0..max,
           NestFits(as, inner)
    PROVE  NestArrives(as, nest, inner, max)
  <1>1. nest \in Nat
    BY ONLY max \in Nat, nest \in 0..max
  <1>2. PICK m, sent, n : IsNested(as, nest, inner, m, sent, n)
    BY ONLY <1>1, as \in Seq(Attr), inner \in Seq(Attr), NestFits(as, inner), NestedIs
  <1> DEFINE c == Closed(as, nest, inner)
             got == Fitting(as, Room).got
             zero == NoAttributes.buf
  <1>3. /\ Opened(m, sent, nest) /\ Lays(sent, zero, 0, got)
        /\ Lays(n, m.buf, sent.len + 4, inner) /\ Ended(c, n, sent.len)
    BY ONLY <1>2 DEF IsNested
  <1> HIDE DEF c, got, zero
  <1>4. Delivers(c, got, nest, inner, max)
    BY ONLY <1>3, max \in Nat, nest \in 0..max, ClosedDelivers
  <1>5. Grown(as, nest, inner).buf = c.buf
    BY ONLY <1>2, inner \in Seq(Attr), GrownIsClosed DEF c
  <1> QED BY ONLY <1>4, <1>5 DEF NestArrives, Delivers, c, got

-----------------------------------------------------------------------------
(* The type of the last attribute of a list. *)
LEMMA LastHere ==
    ASSUME NEW got, got \in Seq(Attr), NEW b, b \in Attr
    PROVE  LastOf(Append(got, b), b.type) = {b.data}
  <1> DEFINE all == Append(got, b)
             n == Len(got)
             t == b.type
             J == {j \in DOMAIN all : all[j].type = t /\ \A k \in (j + 1)..Len(all) : all[k].type # t}
  <1>1. Appended(all, got, b, Attr)
    BY ONLY got \in Seq(Attr), b \in Attr, AppendAt
  <1>2. all \in Seq(Attr) /\ Len(all) = n + 1 /\ all[n + 1] = b /\ n \in Nat
    BY ONLY <1>1 DEF Appended
  <1> HIDE DEF all
  <1>3. DOMAIN all = 1..(n + 1)
    BY ONLY <1>2, SeqIs
  <1> HIDE DEF n
  <1>4. n + 1 \in J
    <2>1. n + 1 \in 1..(n + 1) /\ \A k \in (n + 1 + 1)..(n + 1) : FALSE
      BY ONLY <1>2
    <2> QED BY ONLY <1>2, <1>3, <2>1
  <1>5. ASSUME NEW j, j \in J PROVE j = n + 1
    <2>1. j \in 1..(n + 1) /\ ~(n + 1 \in (j + 1)..(n + 1))
      BY ONLY <1>2, <1>3, <1>5
    <2> QED BY ONLY <1>2, <2>1
  <1>6. LastOf(all, t) = {all[i].data : i \in J}
    BY ONLY TRUE DEF LastOf
  <1>7. J = {n + 1}
    <2> HIDE DEF J
    <2> QED BY ONLY <1>4, <1>5
  <1> HIDE DEF J
  <1>8. {all[i].data : i \in J} = {b.data}
    BY ONLY <1>2, <1>7
  <1> QED BY ONLY <1>6, <1>8 DEF all

(* What is parsed of a type, where it is one. *)
LEMMA ParsedOne ==
    ASSUME NEW tb, NEW buf, NEW t, NEW d, Parsed(tb, buf, t) = {d}
    PROVE  Payload(buf, tb[t]) = d
  <1> DEFINE at == tb[t]
  <1>1. {Payload(buf, x) : x \in {at} \ {-1}} = {d}
    BY DEF Parsed
  <1> HIDE DEF at
  <1>2. Payload(buf, at) = d
    BY ONLY <1>1
  <1> QED BY ONLY <1>2 DEF at

(* There is room for the request of configure_wpan. *)
WpanFits(index, name, lowpan) ==
    8 + (Size([type |-> IFLA_LINK, data |-> index]) + (Size([type |-> IFLA_IFNAME, data |-> name])
        + (4 + Size([type |-> IFLA_INFO_KIND, data |-> lowpan])))) <= Room

(* An attribute of a type and data. *)
LEMMA AttrIs ==
    ASSUME NEW t \in Nat, NEW d \in Seq(Nat)
    PROVE  [type |-> t, data |-> d] \in Attr
  BY DEF Attr

(* The request of configure_wpan (netlink.cpp), whatever its name is, has the interface, the name
   and, in the nest, the kind of the link where parse_rtattr finds them. *)
THEOREM EveryWpanArrives ==
    ASSUME NEW index, index \in Seq(Nat), NEW name, name \in Seq(Nat), NEW lowpan, lowpan \in Seq(Nat),
           WpanFits(index, name, lowpan)
    PROVE  WpanArrives(index, name, lowpan)
  <1> DEFINE zeros == <<0, 0, 0, 0>>
             a == [type |-> IFLA_GROUP, data |-> zeros]
             b == [type |-> IFLA_LINK, data |-> index]
             d == [type |-> IFLA_IFNAME, data |-> name]
             k == [type |-> IFLA_INFO_KIND, data |-> lowpan]
             zero == NoAttributes.buf
             n1 == AddTo(NoAttributes, a)
             n2 == AddTo(n1, b)
             n3 == AddTo(n2, d)
             open == addattr_nest(n3, Room, IFLA_LINKINFO)
             m == open.msg
             n == AddTo(m, k)
             c == addattr_nest_end(n, open.nest)
             none == <<>>
             l1 == Append(none, a)
             l2 == Append(l1, b)
             l3 == Append(l2, d)
             in == Append(none, k)
  <1>1. /\ IFLA_GROUP \in Nat /\ IFLA_LINK \in Nat /\ IFLA_IFNAME \in Nat /\ IFLA_INFO_KIND \in Nat
        /\ IFLA_LINK \in 0..IFLA_GROUP /\ IFLA_IFNAME \in 0..IFLA_GROUP /\ IFLA_INFO_KIND \in 0..IFLA_GROUP
        /\ IFLA_LINKINFO \in 0..IFLA_GROUP /\ IFLA_LINK # IFLA_LINKINFO /\ IFLA_IFNAME # IFLA_LINKINFO
        /\ IFLA_LINK # IFLA_IFNAME /\ IFLA_LINKINFO \in Nat
    BY DEF IFLA_GROUP, IFLA_LINK, IFLA_IFNAME, IFLA_INFO_KIND, IFLA_LINKINFO
  <1>2. zeros \in Seq(Nat) /\ Len(zeros) = 4
    OBVIOUS
  <1> HIDE DEF zeros
  <1>3. a \in Attr /\ b \in Attr /\ d \in Attr /\ k \in Attr
    <2>1. a \in Attr
      BY ONLY <1>1, <1>2, AttrIs
    <2>2. b \in Attr
      BY ONLY <1>1, index \in Seq(Nat), AttrIs
    <2>3. d \in Attr
      BY ONLY <1>1, name \in Seq(Nat), AttrIs
    <2>4. k \in Attr
      BY ONLY <1>1, lowpan \in Seq(Nat), AttrIs
    <2> QED BY ONLY <2>1, <2>2, <2>3, <2>4
  <1>4. /\ a.type = IFLA_GROUP /\ b.type = IFLA_LINK /\ d.type = IFLA_IFNAME /\ k.type = IFLA_INFO_KIND
        /\ a.data = zeros /\ b.data = index /\ d.data = name /\ k.data = lowpan
    OBVIOUS
  <1>5. configure_wpan(index, name, lowpan) = c
    BY DEF configure_wpan, AddTo, zeros
  <1>6. 8 + (Size(b) + (Size(d) + (4 + Size(k)))) <= Room
    BY DEF WpanFits
  <1> HIDE DEF a, b, d, k, c, n, m, open
  <1>7. Size(a) = 8
    <2>1. 4 + 4 * ((4 + 3) \div 4) = 8
      OBVIOUS
    <2> QED BY ONLY <1>2, <1>4, <2>1 DEF Size
  <1>8. Size(b) \in Nat /\ Size(d) \in Nat /\ Size(k) \in Nat /\ Room \in Nat
    <2>1. Size(b) \in Nat
      BY ONLY <1>3, SizeIs
    <2>2. Size(d) \in Nat
      BY ONLY <1>3, SizeIs
    <2>3. Size(k) \in Nat
      BY ONLY <1>3, SizeIs
    <2> QED BY ONLY <2>1, <2>2, <2>3, RoomAssumption
  <1> DEFINE sb == Size(b)
             sd == Size(d)
             sk == Size(k)
  <1>9. sb \in Nat /\ sd \in Nat /\ sk \in Nat /\ Room \in Nat /\ 8 + (sb + (sd + (4 + sk))) <= Room
    BY ONLY <1>6, <1>8
  <1> HIDE DEF sb, sd, sk, zero, none
  <1>10. Lays(NoAttributes, zero, 0, none) /\ NoAttributes.len = 0
    <2>1. NoAttributes.len = 0
      BY DEF NoAttributes
    <2> QED BY ONLY <2>1, StartLays DEF zero, none
  <1>11. Lays(n1, zero, 0, l1) /\ n1.len = 8
    <2>1. NoAttributes.len + Size(a) <= Room /\ NoAttributes.len + Size(a) = 8
      BY ONLY <1>7, <1>9, <1>10
    <2> QED BY ONLY <1>3, <1>10, <2>1, AddLays
  <1> HIDE DEF n1, l1
  <1>12. Lays(n2, zero, 0, l2) /\ n2.len = 8 + sb
    <2>1. n1.len + Size(b) <= Room /\ n1.len + Size(b) = 8 + sb
      BY ONLY <1>9, <1>11 DEF sb
    <2> QED BY ONLY <1>3, <1>11, <2>1, AddLays
  <1> HIDE DEF n2, l2
  <1>13. Lays(n3, zero, 0, l3) /\ n3.len = 8 + sb + sd
    <2>1. n2.len + Size(d) <= Room /\ n2.len + Size(d) = 8 + sb + sd
      BY ONLY <1>9, <1>12 DEF sd
    <2> QED BY ONLY <1>3, <1>12, <2>1, AddLays
  <1> HIDE DEF n3, l3
  <1>14. n3 \in AttrMessages /\ l1 \in Seq(Attr) /\ l2 \in Seq(Attr) /\ l3 \in Seq(Attr)
    BY ONLY <1>11, <1>12, <1>13 DEF Lays
  <1>15. open.nest = n3.len /\ Opened(m, n3, IFLA_LINKINFO)
    <2>1. n3.len + 4 <= Room
      BY ONLY <1>9, <1>13
    <2> QED BY ONLY <1>1, <1>14, <2>1, OpenIs DEF open, m
  <1>16. m \in AttrMessages /\ m.len = n3.len + 4
    BY ONLY <1>15 DEF Opened
  <1> DEFINE mb == m.buf
             f == n3.len + 4
  <1>17. Lays(n, mb, f, in)
    <2>1. Lays(m, mb, f, none)
      BY ONLY <1>16, BareLays DEF none
    <2>2. m.len + Size(k) <= Room
      BY ONLY <1>9, <1>13, <1>16 DEF sk
    <2> HIDE DEF mb, f
    <2>3. Lays(AddTo(m, k), mb, f, in)
      BY ONLY <1>3, <2>1, <2>2, AddLays
    <2> QED BY ONLY <2>3 DEF n
  <1> DEFINE e == n3.len
  <1>18. Ended(c, n, e)
    <2>1. PICK S : LinedUp(n, S, in, f)
      BY ONLY <1>17 DEF Lays
    <2>2. n \in AttrMessages /\ e + 4 <= n.len
      <3>1. f <= n.len
        BY ONLY <2>1 DEF LinedUp
      <3> QED BY ONLY <1>17, <3>1 DEF Lays
    <2>3. e \in Nat
      BY ONLY <1>9, <1>13
    <2> HIDE DEF e
    <2>4. Ended(addattr_nest_end(n, e), n, e)
      BY ONLY <2>2, <2>3, EndIs
    <2> QED BY ONLY <1>15, <2>4 DEF c, e
  <1>19. Delivers(c, l3, IFLA_LINKINFO, in, IFLA_GROUP)
    <2> HIDE DEF in
    <2> QED BY ONLY <1>1, <1>13, <1>15, <1>17, <1>18, ClosedDelivers
  <1> DEFINE cb == c.buf
             tb == parse_rtattr(cb, 0, c.len, IFLA_GROUP)
             inside == parse_rtattr(cb, tb[IFLA_LINKINFO] + 4, cb[tb[IFLA_LINKINFO]] - 4, IFLA_GROUP)
  <1>20. \A t \in 0..IFLA_GROUP : /\ t # IFLA_LINKINFO => Parsed(tb, cb, t) = LastOf(l3, t)
                                  /\ Parsed(inside, cb, t) = LastOf(in, t)
    BY ONLY <1>19 DEF Delivers
  <1> HIDE DEF cb, tb, inside
  <1>21. /\ Parsed(tb, cb, IFLA_LINK) = LastOf(l3, IFLA_LINK) /\ Parsed(tb, cb, IFLA_IFNAME) = LastOf(l3, IFLA_IFNAME)
         /\ Parsed(inside, cb, IFLA_INFO_KIND) = LastOf(in, IFLA_INFO_KIND)
    BY ONLY <1>1, <1>20
  <1>22. LastOf(l3, IFLA_IFNAME) = {name}
    <2>1. LastOf(l3, d.type) = {d.data}
      BY ONLY <1>3, <1>14, LastHere DEF l3
    <2> QED BY ONLY <1>4, <2>1
  <1>23. LastOf(l3, IFLA_LINK) = {index}
    <2>1. LastOf(l2, b.type) = {b.data}
      BY ONLY <1>3, <1>14, LastHere DEF l2
    <2>2. LastOf(l3, IFLA_LINK) = LastOf(l2, IFLA_LINK)
      <3>1. d.type # IFLA_LINK
        BY ONLY <1>1, <1>4
      <3> QED BY ONLY <1>3, <1>14, <3>1, LastBefore DEF l3
    <2> QED BY ONLY <1>4, <2>1, <2>2
  <1>24. LastOf(in, IFLA_INFO_KIND) = {lowpan}
    <2>1. none \in Seq(Attr)
      BY DEF none
    <2>2. LastOf(in, k.type) = {k.data}
      BY ONLY <1>3, <2>1, LastHere
    <2> QED BY ONLY <1>4, <2>2
  <1>25. Payload(cb, tb[IFLA_LINK]) = index
    <2>1. Parsed(tb, cb, IFLA_LINK) = {index}
      BY ONLY <1>21, <1>23
    <2> QED BY ONLY <2>1, ParsedOne
  <1>26. Payload(cb, tb[IFLA_IFNAME]) = name
    <2>1. Parsed(tb, cb, IFLA_IFNAME) = {name}
      BY ONLY <1>21, <1>22
    <2> QED BY ONLY <2>1, ParsedOne
  <1>27. Payload(cb, inside[IFLA_INFO_KIND]) = lowpan
    <2>1. Parsed(inside, cb, IFLA_INFO_KIND) = {lowpan}
      BY ONLY <1>21, <1>24
    <2> QED BY ONLY <2>1, ParsedOne
  <1> QED BY ONLY <1>5, <1>25, <1>26, <1>27 DEF WpanArrives, cb, tb, inside

(* Attributes of the run are attributes, of a type up to 3. *)
LEMMA AttributesIn ==
    ASSUME NEW D, NEW n \in Nat, \A d \in D : d \in Seq(Nat), NEW as, as \in UpTo(Attributes(D), n)
    PROVE  /\ as \in Seq(Attr) /\ Len(as) \in Nat
           /\ \A i \in 1..Len(as) : as[i].type <= 3 /\ as[i].data \in D
  <1> DEFINE A == Attributes(D)
             V == Attr
             l == Len(as)
  <1>1. \A a \in A : a \in V /\ a.type <= 3 /\ a.data \in D
    BY DEF Attributes, Attr
  <1> HIDE DEF A, V
  <1>2. as \in Seq(A)
    BY UpToSeq DEF A
  <1>3. l \in Nat /\ as \in [1..l -> A]
    BY ONLY <1>2, SeqIs
  <1>4. as \in Seq(V)
    <2>1. A \subseteq V
      BY ONLY <1>1
    <2> QED BY ONLY <1>2, <2>1, SeqMono
  <1> HIDE DEF l
  <1>5. \A i \in 1..l : as[i] \in A
    BY ONLY <1>3
  <1> QED BY ONLY <1>1, <1>3, <1>4, <1>5 DEF V, l

(* Bytes behind a few. *)
LEMMA BytesBehind ==
    ASSUME NEW s, s \in Seq(Nat), NEW d, d \in Seq(Nat)
    PROVE  s \o d \in Seq(Nat) /\ Len(s \o d) = Len(s) + Len(d)
  <1> DEFINE V == Nat
  <1>1. s \in Seq(V) /\ d \in Seq(V)
    OBVIOUS
  <1> HIDE DEF V
  <1>2. s \o d \in Seq(V) /\ Len(s \o d) = Len(s) + Len(d)
    BY ONLY <1>1, ConcatAt
  <1> QED BY ONLY <1>2 DEF V

(* Up to four bytes of data take four. *)
LEMMA SizeSmall ==
    ASSUME NEW t, NEW d, Len(d) \in 1..4
    PROVE  Size([type |-> t, data |-> d]) = 8
  <1> DEFINE l == Len(d)
  <1>1. l \in 1..4
    OBVIOUS
  <1>2. Size([type |-> t, data |-> d]) = 4 + 4 * ((l + 3) \div 4)
    BY DEF Size
  <1> HIDE DEF l
  <1>3. (l + 3) \div 4 = 1
    BY ONLY <1>1
  <1> QED BY ONLY <1>2, <1>3

(* The attributes of a request arrive, in whatever sizes (addattr_l, addattr_nest, addattr_nest_end,
   rta_addattr_l, parse_rtattr, parse_rtattr_byindex): in their order what fits of a list, of each
   type the last, also with a nest behind them, and in the nest all that was put into it. *)
THEOREM EveryAttributeArrives ==
    ASSUME NEW as, as \in Seq(Attr), NEW inner, inner \in Seq(Attr), NEW max \in Nat, NEW nest, nest \in 0..max,
           \A i \in 1..Len(as) : as[i].type <= max
    PROVE  ListArrives(as, max) /\ (NestFits(as, inner) => NestArrives(as, nest, inner, max))
  <1>1. ListArrives(as, max)
    BY EveryListArrives
  <1>2. ASSUME NestFits(as, inner) PROVE NestArrives(as, nest, inner, max)
    BY ONLY <1>2, as \in Seq(Attr), inner \in Seq(Attr), max \in Nat, nest \in 0..max, EveryNestArrives
  <1> QED BY ONLY <1>1, <1>2

(* What the run checks of requests to the kernel (libnetlink.c, configure_wpan of netlink.cpp) is an
   instance. *)
THEOREM RequestsCorrect == Spec => []RequestsAnswered
  <1>1. Init => AttributesArrive
    <2> DEFINE as == input[1]
               inner == input[2]
               D == {<<>>, <<7>>, Eui8 \o <<9>>}
               E == {<<>>, <<7, 8>>}
               index == <<1, 0, 0, 0>>
               name == <<1>> \o (IF inner = <<>> THEN <<>> ELSE inner[1].data)
               lowpan == <<6, 6>>
    <2> SUFFICES ASSUME Init, kind = "attributes"
                 PROVE  /\ ListArrives(as, 3) /\ (NestFits(as, inner) => NestArrives(as, 2, inner, 3))
                        /\ WpanArrives(index, name, lowpan)
      BY DEF AttributesArrive
    <2>1. as \in UpTo(Attributes(D), 3) /\ inner \in UpTo(Attributes(E), 2)
      BY DEF Init
    <2>2. \A d \in D : d \in Seq(Nat)
      <3>1. Eui8 \in Seq(Nat) /\ <<9>> \in Seq(Nat) /\ <<>> \in Seq(Nat) /\ <<7>> \in Seq(Nat)
        BY DEF Eui8
      <3>2. Eui8 \o <<9>> \in Seq(Nat)
        <4> DEFINE s == Eui8
                   d == <<9>>
        <4>1. s \in Seq(Nat) /\ d \in Seq(Nat)
          BY ONLY <3>1
        <4> HIDE DEF s, d
        <4>2. s \o d \in Seq(Nat)
          BY ONLY <4>1, BytesBehind
        <4> QED BY ONLY <4>2 DEF s, d
      <3> QED BY ONLY <3>1, <3>2
    <2>3. \A d \in E : d \in Seq(Nat)
      <3>1. <<>> \in Seq(Nat) /\ <<7, 8>> \in Seq(Nat)
        OBVIOUS
      <3> QED BY ONLY <3>1
    <2>4. \A d \in E : d = <<>> \/ d = <<7, 8>>
      OBVIOUS
    <2> HIDE DEF as, inner, D, E
    <2>5. as \in Seq(Attr) /\ \A i \in 1..Len(as) : as[i].type <= 3
      <3>1. 3 \in Nat
        OBVIOUS
      <3> QED BY ONLY <2>1, <2>2, <3>1, AttributesIn
    <2>6. inner \in Seq(Attr) /\ Len(inner) \in Nat /\ \A i \in 1..Len(inner) : inner[i].data \in E
      <3>1. 2 \in Nat
        OBVIOUS
      <3> QED BY ONLY <2>1, <2>3, <3>1, AttributesIn
    <2>7. ListArrives(as, 3) /\ (NestFits(as, inner) => NestArrives(as, 2, inner, 3))
      <3>1. 3 \in Nat /\ 2 \in 0..3
        OBVIOUS
      <3> QED BY ONLY <2>5, <2>6, <3>1, EveryAttributeArrives
    <2>8. WpanArrives(index, name, lowpan)
      <3> DEFINE first == IF inner = <<>> THEN <<>> ELSE inner[1].data
      <3>1. first = <<>> \/ first = <<7, 8>>
        <4>1. CASE inner = <<>>
          BY ONLY <4>1
        <4>2. CASE inner # <<>>
          <5> DEFINE V == Attr
          <5>1. inner \in Seq(V)
            BY ONLY <2>6
          <5> HIDE DEF V
          <5>2. 1 \in 1..Len(inner)
            BY ONLY <4>2, <5>1
          <5>3. inner[1].data \in E
            BY ONLY <2>6, <5>2
          <5> QED BY ONLY <2>4, <4>2, <5>3
        <4> QED BY ONLY <4>1, <4>2
      <3>2. name = <<1>> \o first
        OBVIOUS
      <3> HIDE DEF first, name
      <3>3. name \in Seq(Nat) /\ Len(name) \in 1..4
        <4> DEFINE one == <<1>>
        <4>1. one \in Seq(Nat) /\ Len(one) = 1
          OBVIOUS
        <4>2. <<>> \in Seq(Nat) /\ Len(<<>>) = 0 /\ <<7, 8>> \in Seq(Nat) /\ Len(<<7, 8>>) = 2
          OBVIOUS
        <4>3. first \in Seq(Nat) /\ (Len(first) = 0 \/ Len(first) = 2)
          BY ONLY <3>1, <4>2
        <4>4. name = one \o first
          BY ONLY <3>2
        <4> HIDE DEF one
        <4>5. one \o first \in Seq(Nat) /\ Len(one \o first) = Len(one) + Len(first)
          BY ONLY <4>1, <4>3, BytesBehind
        <4>6. name \in Seq(Nat) /\ Len(name) = 1 + Len(first)
          BY ONLY <4>1, <4>4, <4>5
        <4>7. 1 + Len(first) \in 1..4
          <5> DEFINE f == Len(first)
          <5>1. f = 0 \/ f = 2
            BY ONLY <4>3
          <5> HIDE DEF f
          <5>2. 1 + f \in 1..4
            BY ONLY <5>1
          <5> QED BY ONLY <5>2 DEF f
        <4> QED BY ONLY <4>6, <4>7
      <3>4. index \in Seq(Nat) /\ Len(index) \in 1..4 /\ lowpan \in Seq(Nat) /\ Len(lowpan) \in 1..4
        OBVIOUS
      <3> HIDE DEF index, lowpan
      <3>5. /\ Size([type |-> IFLA_LINK, data |-> index]) = 8
            /\ Size([type |-> IFLA_IFNAME, data |-> name]) = 8
            /\ Size([type |-> IFLA_INFO_KIND, data |-> lowpan]) = 8
        BY ONLY <3>3, <3>4, SizeSmall
      <3>6. 8 + (8 + (8 + (4 + 8))) <= Room
        BY WpanRoom, RoomAssumption
      <3>7. WpanFits(index, name, lowpan)
        BY ONLY <3>5, <3>6 DEF WpanFits
      <3> QED BY ONLY <3>3, <3>4, <3>7, EveryWpanArrives
    <2> QED BY ONLY <2>7, <2>8
  <1>2. AttributesArrive /\ TalkAnswersOwn => RequestsAnswered
    BY DEF RequestsAnswered
  <1> QED
    BY <1>1, <1>2, InputStays, TalkCorrect, PTL
=============================================================================
