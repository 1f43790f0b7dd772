----------------------------- MODULE JoinProofs -----------------------------
(***************************************************************************)
(* Theorems about Join, for every set of pledges, every bound, and however *)
(* many replies a read finds together.                                     *)
(***************************************************************************)
EXTENDS Join, FiniteSetTheorems, TLAPS

(* What markvalid makes of an entry, old or fresh. *)
LEMMA Marked ==
    ASSUME TypeOK, NEW a \in Neighbour, NEW g \in Garbage
    PROVE  \E q \in {g, neighbours[a].queryId} :
             /\ q \in Nat
             /\ MarkValid(Lookup(a, g)) = Zeroed(TRUE, q)
  BY JoinAssumption DEF TypeOK, Entry, MarkValid, Lookup, Zeroed

(* Since markvalid forgets the answer, a join request is a new query, or   *)
(* is declined for want of a registrar.                                    *)
LEMMA NewQuery ==
    ASSUME NEW q
    PROVE  Outcome(Zeroed(TRUE, q)) = IF client THEN "query" ELSE "decline"
  BY DEF Outcome, join_declined, join_accepted, Zeroed

(* What a join request comes to, with a registrar and without one. *)
QueryEffect(p) ==
    /\ neighbours' = [neighbours EXCEPT ![p] = Zeroed(TRUE, Len(asked) + 1)]
    /\ asked' = Append(asked, p)
    /\ pending' \in {pending, pending \cup {Len(asked) + 1}}
    /\ queries_outstanding' = queries_outstanding + 1
    /\ na' = NoNA /\ waiting' = waiting \cup {p}

DeclineEffect(p, q) ==
    /\ neighbours' = [neighbours EXCEPT ![p] = Zeroed(TRUE, q)]
    /\ UNCHANGED <<asked, pending, queries_outstanding>>
    /\ na' = [to |-> p, status |-> "decline"]
    /\ waiting' = waiting \ {p}

(* What a join request does to the state. *)
LEMMA JoinSolicitEffect ==
    ASSUME TypeOK, NEW p \in Pledge, JoinSolicit(p)
    PROVE  \E q \in Garbage \cup {neighbours[p].queryId} :
             /\ q \in Nat
             /\ client => QueryEffect(p)
             /\ ~client => DeclineEffect(p, q)
  <1>1. PICK g \in Garbage :
          LET n       == MarkValid(Lookup(p, g))
              outcome == Outcome(n)
              session == Len(asked) + 1
          IN  /\ neighbours' = [neighbours EXCEPT ![p] =
                   IF outcome = "query" THEN Zeroed(TRUE, session) ELSE n]
              /\ IF outcome = "query"
                 THEN /\ asked' = Append(asked, p)
                      /\ pending' = IF connected THEN pending \cup {session}
                                    ELSE pending
                      /\ queries_outstanding' = queries_outstanding + 1
                 ELSE UNCHANGED <<asked, pending, queries_outstanding>>
              /\ IF outcome \in Verdict THEN Advertise(p, outcome)
                 ELSE na' = NoNA /\ waiting' = waiting \cup {p}
    BY Zenon DEF JoinSolicit, StartQuery
  <1>2. PICK q \in {g, neighbours[p].queryId} :
          q \in Nat /\ MarkValid(Lookup(p, g)) = Zeroed(TRUE, q)
    BY Marked DEF Neighbour
  <1>3. Outcome(Zeroed(TRUE, q)) = IF client THEN "query" ELSE "decline"
    BY NewQuery
  <1>4. CASE client
    <2>1. Outcome(MarkValid(Lookup(p, g))) = "query"
      BY <1>2, <1>3, <1>4
    <2>2. "query" \notin Verdict
      BY DEF Verdict
    <2>3. neighbours' = [neighbours EXCEPT ![p] = Zeroed(TRUE, Len(asked) + 1)]
      BY <1>1, <1>2, <2>1, Zenon
    <2>4. pending' \in {pending, pending \cup {Len(asked) + 1}}
      BY <1>1, <2>1, Zenon
    <2>5. QueryEffect(p)
      BY <1>1, <2>1, <2>2, <2>3, <2>4, Zenon DEF QueryEffect
    <2> QED
      BY <1>2, <1>4, <2>5
  <1>5. CASE ~client
    <2>1. Outcome(MarkValid(Lookup(p, g))) = "decline"
      BY <1>2, <1>3, <1>5
    <2>2. "decline" \in Verdict /\ "decline" # "query"
      BY DEF Verdict
    <2>3. neighbours' = [neighbours EXCEPT ![p] = Zeroed(TRUE, q)]
      BY <1>1, <1>2, <2>1, <2>2, Zenon
    <2>4. DeclineEffect(p, q)
      BY <1>1, <2>1, <2>2, <2>3, Zenon DEF DeclineEffect, Advertise
    <2> QED
      BY <1>2, <1>5, <2>4
  <1> QED
    BY <1>4, <1>5

----------------------------------------------------------------------------
(* Initially every variable has its type. *)
LEMMA InitType == Init => TypeOK
  BY JoinAssumption
     DEF Init, TypeOK, Zeroed, Entry, Neighbour, Verdict, NoNA, Session

(* A join request preserves the types. *)
LEMMA JoinSolicitType ==
    ASSUME TypeOK, NEW p \in Pledge, JoinSolicit(p)
    PROVE  TypeOK'
  <1>1. PICK q \in Garbage \cup {neighbours[p].queryId} :
          /\ q \in Nat
          /\ client => QueryEffect(p)
          /\ ~client => DeclineEffect(p, q)
    BY JoinSolicitEffect
  <1>2. /\ Len(asked) < MaxQueries
        /\ UNCHANGED <<client, connected, alive, decided, replies, solicits, waits>>
    BY DEF JoinSolicit, StartQuery
  <1>3. Len(asked) \in Nat /\ Len(asked) + 1 \in Session
    BY <1>2, JoinAssumption DEF TypeOK, Session
  <1>4. Zeroed(TRUE, q) \in Entry /\ Zeroed(TRUE, Len(asked) + 1) \in Entry
    BY <1>1, <1>3 DEF Zeroed, Entry
  <1>5. p \in Neighbour /\ client \in BOOLEAN
    BY DEF TypeOK, Neighbour
  <1>6. CASE client
    <2>1. QueryEffect(p)
      BY <1>1, <1>6
    <2>2. neighbours' \in [Neighbour -> Entry]
      BY <1>4, <1>5, <2>1 DEF QueryEffect, TypeOK
    <2>3. na' \in NA \cup {NoNA} /\ waiting' \subseteq Pledge
      BY <2>1 DEF QueryEffect, TypeOK
    <2>4. asked' \in Seq(Pledge) /\ Len(asked') <= MaxQueries
      BY <1>2, <1>3, <2>1, JoinAssumption DEF QueryEffect, TypeOK
    <2>5. pending' \subseteq Session /\ queries_outstanding' \in Nat
      BY <1>3, <2>1 DEF QueryEffect, TypeOK
    <2> QED
      BY <1>2, <2>2, <2>3, <2>4, <2>5 DEF TypeOK
  <1>7. CASE ~client
    <2>1. DeclineEffect(p, q)
      BY <1>1, <1>7
    <2>2. neighbours' \in [Neighbour -> Entry]
      BY <1>4, <1>5, <2>1 DEF DeclineEffect, TypeOK
    <2>3. na' \in NA \cup {NoNA} /\ waiting' \subseteq Pledge
      BY <1>5, <2>1 DEF DeclineEffect, TypeOK, NA, Verdict
    <2> QED
      BY <1>2, <2>1, <2>2, <2>3 DEF DeclineEffect, TypeOK
  <1> QED
    BY <1>5, <1>6, <1>7

(* What the other solicitations may change. *)
LEMMA SolicitFacts ==
    ASSUME TypeOK, NEW marked \in SUBSET Neighbour, Solicit(marked)
    PROVE  /\ neighbours' \in [Neighbour -> Entry]
           /\ \A a \in Neighbour :
                neighbours'[a].queryId \in Garbage \cup {neighbours[a].queryId}
           /\ solicits' \in 0 .. MaxSolicit
           /\ UNCHANGED <<graspVars, client, connected, alive, decided, waiting,
                          waits>>
  <1>1. PICK g \in [marked -> Garbage] :
          neighbours' = [a \in Neighbour |-> IF a \in marked
                                             THEN MarkValid(Lookup(a, g[a]))
                                             ELSE neighbours[a]]
    BY DEF Solicit
  <1>2. ASSUME NEW a \in Neighbour
        PROVE  /\ neighbours'[a] \in Entry
               /\ neighbours'[a].queryId \in Garbage \cup {neighbours[a].queryId}
    <2>1. CASE a \in marked
      <3>1. PICK q \in {g[a], neighbours[a].queryId} :
              q \in Nat /\ MarkValid(Lookup(a, g[a])) = Zeroed(TRUE, q)
        BY <2>1, Marked
      <3>2. neighbours'[a] = Zeroed(TRUE, q) /\ g[a] \in Garbage
        BY <1>1, <2>1, <3>1
      <3> QED
        BY <3>1, <3>2 DEF Zeroed, Entry
    <2>2. CASE a \notin marked
      BY <1>1, <2>2 DEF TypeOK
    <2> QED
      BY <2>1, <2>2
  <1>3. neighbours' \in [Neighbour -> Entry]
    BY <1>1, <1>2, Zenon
  <1>4. solicits' \in 0 .. MaxSolicit
    BY JoinAssumption DEF Solicit, TypeOK
  <1> QED
    BY <1>2, <1>3, <1>4 DEF Solicit

(* What reading replies may change: at most one entry gets an answer, to   *)
(* the session it holds.                                                   *)
LEMMA ReadReplyFacts ==
    ASSUME TypeOK, NEW k \in 1 .. MaxRead, ReadReply(k)
    PROVE  /\ Head(replies) \in Reply /\ Len(replies) > 0
           /\ neighbours' \in [Neighbour -> Entry]
           /\ \A a \in Neighbour : neighbours'[a].queryId = neighbours[a].queryId
           /\ replies' \in Seq(Reply) /\ Len(replies') < Len(replies)
           /\ \A i \in 1 .. Len(replies') : replies'[i] = replies[i + k]
           /\ queries_outstanding > 0
           /\ queries_outstanding' = queries_outstanding - 1
           /\ waiting' \subseteq waiting
           /\ \/ na' = NoNA
              \/ \E a \in Neighbour :
                   /\ Head(replies).type = "M_END"
                   /\ neighbours[a].queryId = Head(replies).session
                   /\ na' = [to |-> a, status |->
                               IF decided[Head(replies).session] = "accept"
                               THEN "accept" ELSE "decline"]
           /\ UNCHANGED <<asked, pending, client, connected, alive, decided,
                          solicits, waits>>
  <1>1. /\ poll_setup /\ k \in 1 .. Len(replies)
        /\ replies' = SubSeq(replies, k + 1, Len(replies))
        /\ queries_outstanding' = queries_outstanding - 1
        /\ UNCHANGED <<asked, pending, client, connected, alive, decided,
                       solicits, waits>>
    BY DEF ReadReply, ReadCbor, Received
  <1>2. /\ Len(replies) \in Nat /\ Len(replies) > 0 /\ Head(replies) \in Reply
        /\ replies' \in Seq(Reply) /\ Len(replies') = Len(replies) - k
        /\ \A i \in 1 .. Len(replies') : replies'[i] = replies[i + k]
    BY <1>1 DEF TypeOK
  <1>3. CASE /\ na' = NoNA /\ UNCHANGED <<neighbours, waiting>>
    BY <1>1, <1>2, <1>3 DEF TypeOK, poll_setup
  <1>4. ASSUME NEW a \in Matching(Head(replies).session),
               Head(replies).type = "M_END",
               LET accept == decided[Head(replies).session] = "accept"
               IN  /\ neighbours' = [neighbours EXCEPT ![a] =
                                       set_accepted(neighbours[a], accept)]
                   /\ Advertise(a, IF accept THEN "accept" ELSE "decline")
        PROVE  /\ neighbours' \in [Neighbour -> Entry]
               /\ \A b \in Neighbour :
                    neighbours'[b].queryId = neighbours[b].queryId
               /\ waiting' \subseteq waiting
               /\ a \in Neighbour
               /\ neighbours[a].queryId = Head(replies).session
               /\ na' = [to |-> a, status |->
                           IF decided[Head(replies).session] = "accept"
                           THEN "accept" ELSE "decline"]
    <2>1. a \in Neighbour /\ neighbours[a].queryId = Head(replies).session
      BY <1>4 DEF Matching
    <2>2. neighbours[a] \in Entry
      BY <2>1 DEF TypeOK
    <2> DEFINE e == set_accepted(neighbours[a],
                                 decided[Head(replies).session] = "accept")
    <2>3. e \in Entry /\ e.queryId = neighbours[a].queryId
      BY <2>2 DEF set_accepted, Entry
    <2>4. neighbours' = [neighbours EXCEPT ![a] = e]
      BY <1>4
    <2> HIDE DEF e
    <2>5. /\ neighbours' \in [Neighbour -> Entry]
          /\ \A b \in Neighbour : neighbours'[b].queryId = neighbours[b].queryId
      BY <2>1, <2>3, <2>4 DEF TypeOK
    <2> QED
      BY <1>4, <2>1, <2>5 DEF Advertise
  <1> QED
    BY <1>1, <1>2, <1>3, <1>4 DEF ReadReply, ReadCbor, TypeOK, poll_setup

(* Every step preserves the types. *)
LEMMA NextType == TypeOK /\ [Next]_vars => TypeOK'
  <1> SUFFICES ASSUME TypeOK, [Next]_vars PROVE TypeOK'
    OBVIOUS
  <1>1. ASSUME NEW p \in Pledge, JoinSolicit(p) PROVE TypeOK'
    BY <1>1, JoinSolicitType
  <1>2. ASSUME NEW p \in Pledge,
               NoAroSolicit(p) \/ PlainSolicit(p) \/ UnicastSolicit(p)
        PROVE  TypeOK'
    <2>1. PICK marked \in SUBSET Neighbour : Solicit(marked)
      BY <1>2 DEF NoAroSolicit, PlainSolicit, UnicastSolicit, Neighbour
    <2>2. na' \in NA \cup {NoNA}
      BY <1>2 DEF NoAroSolicit, PlainSolicit, UnicastSolicit, NA, Neighbour
    <2> QED
      BY <2>1, <2>2, SolicitFacts DEF TypeOK, graspVars
  <1>3. CASE BrokenPipe
    BY <1>3 DEF BrokenPipe, TypeOK, graspVars
  <1>4. ASSUME NEW i \in Session, NEW v \in Verdict, RegistrarEnd(i, v)
        PROVE  TypeOK'
    BY <1>4 DEF RegistrarEnd, TypeOK, Reply
  <1>5. ASSUME NEW i \in Session, RegistrarWait(i) PROVE TypeOK'
    BY <1>5, JoinAssumption DEF RegistrarWait, TypeOK, Reply
  <1>6. CASE RegistrarClose
    BY <1>6 DEF RegistrarClose, TypeOK
  <1>7. ASSUME NEW k \in 1 .. MaxRead, ReadReply(k) PROVE TypeOK'
    <2>1. na' \in NA \cup {NoNA}
      BY <1>7, ReadReplyFacts DEF NA, Verdict
    <2>2. waiting' \subseteq Pledge /\ queries_outstanding' \in Nat
      BY <1>7, ReadReplyFacts DEF TypeOK
    <2> QED
      BY <1>7, <2>1, <2>2, ReadReplyFacts DEF TypeOK
  <1>8. CASE UNCHANGED vars
    BY <1>8 DEF vars, nceVars, graspVars, TypeOK
  <1> QED
    BY <1>1, <1>2, <1>3, <1>4, <1>5, <1>6, <1>7, <1>8 DEF Next

(* Every variable keeps its type, however many replies a read finds: in    *)
(* particular the unsigned queries_outstanding never wraps below zero.     *)
THEOREM TypeCorrect == Spec => []TypeOK
  BY InitType, NextType, PTL DEF Spec
----------------------------------------------------------------------------
(* The value an uninitialised queryId may hold is no session: for instance *)
(* because the heap is zeroed.                                             *)
CleanHeap == Garbage \cap Session = {}

(* Every step preserves that a session belongs to the node that holds it.  *)
LEMMA NextSessions ==
    ASSUME CleanHeap, TypeOK, SessionsInv, [Next]_vars
    PROVE  SessionsInv'
  <1>1. ASSUME NEW p \in Pledge, JoinSolicit(p) PROVE SessionsInv'
    <2>1. PICK q \in Garbage \cup {neighbours[p].queryId} :
            /\ q \in Nat
            /\ client => QueryEffect(p)
            /\ ~client => DeclineEffect(p, q)
      BY <1>1, JoinSolicitEffect
    <2>2. p \in Neighbour /\ client \in BOOLEAN /\ Len(asked) \in Nat
      BY DEF TypeOK, Neighbour
    <2>3. CASE client
      <3>1. /\ neighbours' = [neighbours EXCEPT ![p] = Zeroed(TRUE, Len(asked) + 1)]
            /\ asked' = Append(asked, p)
        BY <2>1, <2>3 DEF QueryEffect
      <3>2. /\ Len(asked') = Len(asked) + 1
            /\ asked'[Len(asked) + 1] = p
            /\ \A i \in 1 .. Len(asked) : asked'[i] = asked[i]
        BY <3>1 DEF TypeOK
      <3>3. neighbours'[p].queryId = Len(asked) + 1
        BY <2>2, <3>1 DEF TypeOK, Zeroed
      <3>4. ASSUME NEW a \in Neighbour, a # p
            PROVE  neighbours'[a].queryId = neighbours[a].queryId
        BY <3>1, <3>4 DEF TypeOK
      <3>5. ASSUME NEW a \in Neighbour, neighbours'[a].queryId \in Session
            PROVE  LET q1 == neighbours'[a].queryId
                   IN  /\ q1 <= Len(asked') /\ asked'[q1] = a
                       /\ \A j \in q1 + 1 .. Len(asked') : asked'[j] # a
        <4>1. CASE a = p
          BY <2>2, <3>2, <3>3, <4>1
        <4>2. CASE a # p
          <5>1. LET q1 == neighbours[a].queryId
                IN  /\ q1 \in Session /\ q1 <= Len(asked) /\ asked[q1] = a
                    /\ \A j \in q1 + 1 .. Len(asked) : asked[j] # a
            BY <3>4, <3>5, <4>2 DEF SessionsInv
          <5>2. neighbours[a].queryId \in 1 .. Len(asked)
            BY <5>1, <2>2, JoinAssumption DEF Session
          <5> QED
            BY <5>1, <5>2, <2>2, <3>2, <3>4, <4>2
        <4> QED
          BY <4>1, <4>2
      <3> QED
        BY <3>5 DEF SessionsInv
    <2>4. CASE ~client
      <3>1. /\ neighbours' = [neighbours EXCEPT ![p] = Zeroed(TRUE, q)]
            /\ asked' = asked
        BY <2>1, <2>4 DEF DeclineEffect
      <3>2. ASSUME NEW a \in Neighbour
            PROVE  neighbours'[a].queryId \in Garbage \cup {neighbours[a].queryId}
        BY <2>1, <2>2, <3>1 DEF TypeOK, Zeroed
      <3> QED
        BY <3>1, <3>2 DEF SessionsInv, CleanHeap
    <2> QED
      BY <2>2, <2>3, <2>4
  <1>2. ASSUME NEW p \in Pledge,
               NoAroSolicit(p) \/ PlainSolicit(p) \/ UnicastSolicit(p)
        PROVE  SessionsInv'
    <2>1. PICK marked \in SUBSET Neighbour : Solicit(marked)
      BY <1>2 DEF NoAroSolicit, PlainSolicit, UnicastSolicit, Neighbour
    <2>2. /\ asked' = asked
          /\ \A a \in Neighbour :
               neighbours'[a].queryId \in Garbage \cup {neighbours[a].queryId}
      BY <2>1, SolicitFacts DEF graspVars
    <2> QED
      BY <2>2 DEF SessionsInv, CleanHeap
  <1>3. ASSUME NEW k \in 1 .. MaxRead, ReadReply(k) PROVE SessionsInv'
    <2>1. /\ asked' = asked
          /\ \A a \in Neighbour : neighbours'[a].queryId = neighbours[a].queryId
      BY <1>3, ReadReplyFacts
    <2> QED
      BY <2>1 DEF SessionsInv
  <1>4. CASE UNCHANGED <<neighbours, asked>>
    BY <1>4 DEF SessionsInv
  <1>5. ASSUME NEW i \in Session,
               RegistrarWait(i) \/ \E v \in Verdict : RegistrarEnd(i, v)
        PROVE  UNCHANGED <<neighbours, asked>>
    BY <1>5 DEF RegistrarWait, RegistrarEnd
  <1>6. BrokenPipe \/ RegistrarClose \/ UNCHANGED vars
          => UNCHANGED <<neighbours, asked>>
    BY DEF BrokenPipe, RegistrarClose, vars, nceVars, graspVars
  <1> QED
    BY <1>1, <1>2, <1>3, <1>4, <1>5, <1>6 DEF Next

(* Every step preserves that the registrar only answers what it was asked. *)
LEMMA NextRegistrar ==
    ASSUME TypeOK, RegistrarInv, [Next]_vars
    PROVE  RegistrarInv'
  <1>1. ASSUME NEW p \in Pledge, JoinSolicit(p) PROVE RegistrarInv'
    <2>1. PICK q \in Garbage \cup {neighbours[p].queryId} :
            /\ q \in Nat
            /\ client => QueryEffect(p)
            /\ ~client => DeclineEffect(p, q)
      BY <1>1, JoinSolicitEffect
    <2>2. client \in BOOLEAN /\ Len(asked) \in Nat
      BY DEF TypeOK
    <2>3. pending' \subseteq 1 .. Len(asked')
      <3>1. CASE client
        <4>1. /\ asked' = Append(asked, p)
              /\ pending' \in {pending, pending \cup {Len(asked) + 1}}
          BY <2>1, <3>1 DEF QueryEffect
        <4>2. Len(asked') = Len(asked) + 1
          BY <4>1 DEF TypeOK
        <4> QED
          BY <2>2, <4>1, <4>2 DEF RegistrarInv
      <3>2. CASE ~client
        BY <2>1, <3>2 DEF DeclineEffect, RegistrarInv
      <3> QED
        BY <2>2, <3>1, <3>2
    <2>4. UNCHANGED <<replies, decided>>
      BY <1>1 DEF JoinSolicit, StartQuery
    <2> QED
      BY <2>3, <2>4 DEF RegistrarInv
  <1>2. ASSUME NEW i \in Session, NEW v \in Verdict, RegistrarEnd(i, v)
        PROVE  RegistrarInv'
    <2>1. /\ pending' \subseteq pending /\ asked' = asked
          /\ decided' = [decided EXCEPT ![i] = v]
          /\ replies' = Append(replies, [type |-> "M_END", session |-> i])
      BY <1>2 DEF RegistrarEnd
    <2>2. ASSUME NEW k \in 1 .. Len(replies'), replies'[k].type = "M_END"
          PROVE  decided'[replies'[k].session] \in Verdict
      <3>1. CASE k = Len(replies) + 1
        <4>1. replies'[k] = [type |-> "M_END", session |-> i]
          BY <2>1, <3>1 DEF TypeOK
        <4> QED
          BY <2>1, <4>1 DEF TypeOK
      <3>2. CASE k # Len(replies) + 1
        <4>0. /\ Len(replies') = Len(replies) + 1 /\ Len(replies) \in Nat
              /\ \A j \in 1 .. Len(replies) : replies'[j] = replies[j]
          BY <2>1 DEF TypeOK
        <4>1. k \in 1 .. Len(replies) /\ replies'[k] = replies[k]
          BY <2>2, <3>2, <4>0
        <4>2. replies[k] \in Reply
          BY <4>1 DEF TypeOK
        <4>3. replies[k].session \in Session
          BY <4>2 DEF Reply
        <4>4. decided[replies[k].session] \in Verdict
          BY <2>2, <4>1 DEF RegistrarInv
        <4> QED
          BY <2>1, <4>1, <4>3, <4>4 DEF TypeOK
      <3> QED
        BY <3>1, <3>2
    <2> QED
      BY <2>1, <2>2 DEF RegistrarInv
  <1>3. ASSUME NEW i \in Session, RegistrarWait(i) PROVE RegistrarInv'
    BY <1>3 DEF RegistrarWait, RegistrarInv, TypeOK
  <1>4. CASE RegistrarClose
    BY <1>4 DEF RegistrarClose, RegistrarInv
  <1>5. ASSUME NEW k \in 1 .. MaxRead, ReadReply(k) PROVE RegistrarInv'
    <2>1. k \in 1 .. Len(replies) /\ replies' = SubSeq(replies, k + 1, Len(replies))
      BY <1>5 DEF ReadReply, ReadCbor
    <2>2. \A i \in 1 .. Len(replies') :
            i + k \in 1 .. Len(replies) /\ replies'[i] = replies[i + k]
      BY <2>1 DEF TypeOK
    <2>3. UNCHANGED <<asked, pending, decided>>
      BY <1>5, ReadReplyFacts
    <2> QED
      BY <2>2, <2>3 DEF RegistrarInv
  <1>6. CASE UNCHANGED <<pending, asked, replies, decided>>
    BY <1>6 DEF RegistrarInv
  <1>7. ASSUME NEW p \in Pledge,
               NoAroSolicit(p) \/ PlainSolicit(p) \/ UnicastSolicit(p)
        PROVE  UNCHANGED <<pending, asked, replies, decided>>
    BY <1>7 DEF NoAroSolicit, PlainSolicit, UnicastSolicit, Solicit, graspVars
  <1>8. BrokenPipe \/ UNCHANGED vars
          => UNCHANGED <<pending, asked, replies, decided>>
    BY DEF BrokenPipe, vars, graspVars
  <1> QED
    BY <1>1, <1>2, <1>3, <1>4, <1>5, <1>6, <1>7, <1>8 DEF Next

(* With a registrar, a step that tells a node something tells it what the  *)
(* registrar decided on that node's last query.                            *)
LEMMA NextAnswer ==
    ASSUME TypeOK, SessionsInv, RegistrarInv, AnswerIsToLastQuery, [Next]_vars
    PROVE  AnswerIsToLastQuery'
  <1>1. CASE na' = NoNA
    BY <1>1 DEF AnswerIsToLastQuery, NoNA, Verdict
  <1>2. ASSUME NEW p \in Pledge, JoinSolicit(p) PROVE AnswerIsToLastQuery'
    <2>1. client => na' = NoNA
      BY <1>2, JoinSolicitEffect DEF QueryEffect
    <2>2. client' = client
      BY <1>2 DEF JoinSolicit, StartQuery
    <2> QED
      BY <1>1, <2>1, <2>2 DEF AnswerIsToLastQuery
  <1>3. ASSUME NEW p \in Pledge, PlainSolicit(p) PROVE AnswerIsToLastQuery'
    BY <1>3 DEF PlainSolicit, AnswerIsToLastQuery, Verdict
  <1>4. ASSUME NEW k \in 1 .. MaxRead, ReadReply(k) PROVE AnswerIsToLastQuery'
    <2>1. ASSUME NEW a \in Neighbour, Head(replies).type = "M_END",
                 neighbours[a].queryId = Head(replies).session,
                 na' = [to |-> a, status |->
                          IF decided[Head(replies).session] = "accept"
                          THEN "accept" ELSE "decline"]
          PROVE  AnswerIsToLastQuery'
      <3> DEFINE i == Head(replies).session
      <3>1. Head(replies) \in Reply /\ Head(replies) = replies[1]
            /\ 1 \in 1 .. Len(replies) /\ UNCHANGED <<asked, decided>>
        BY <1>4, ReadReplyFacts DEF TypeOK
      <3>2. i \in Session
        BY <3>1 DEF Reply
      <3>3. decided[i] \in Verdict
        BY <2>1, <3>1 DEF RegistrarInv
      <3>4. /\ i <= Len(asked) /\ asked[i] = a
            /\ \A j \in i + 1 .. Len(asked) : asked[j] # a
        BY <2>1, <3>2 DEF SessionsInv
      <3>5. i \in 1 .. Len(asked)
        BY <3>2, <3>4, JoinAssumption DEF Session, TypeOK
      <3>6. na'.to = a /\ na'.status = decided[i]
        BY <2>1, <3>3 DEF Verdict
      <3> HIDE DEF i
      <3> QED
        BY <3>1, <3>4, <3>5, <3>6 DEF AnswerIsToLastQuery
    <2> QED
      BY <1>1, <1>4, <2>1, ReadReplyFacts
  <1>5. ASSUME NEW p \in Pledge, NoAroSolicit(p) \/ UnicastSolicit(p)
        PROVE  na' = NoNA
    BY <1>5 DEF NoAroSolicit, UnicastSolicit
  <1>6. ASSUME NEW i \in Session,
               RegistrarWait(i) \/ \E v \in Verdict : RegistrarEnd(i, v)
        PROVE  na' = NoNA
    BY <1>6 DEF RegistrarWait, RegistrarEnd
  <1>7. BrokenPipe \/ RegistrarClose => na' = NoNA
    BY DEF BrokenPipe, RegistrarClose
  <1>8. CASE UNCHANGED vars
    BY <1>8 DEF vars, nceVars, graspVars, AnswerIsToLastQuery
  <1> QED
    BY <1>1, <1>2, <1>3, <1>4, <1>5, <1>6, <1>7, <1>8 DEF Next

(* Where no uninitialised queryId looks like a session, a node is only     *)
(* ever told the registrar's verdict on the last query made for it,        *)
(* however the queries and the replies interleave and whichever replies    *)
(* are lost.                                                               *)
THEOREM AnswersAreJustified ==
    ASSUME CleanHeap
    PROVE  Spec => []AnswerIsToLastQuery
  <1> DEFINE IInv == TypeOK /\ SessionsInv /\ RegistrarInv /\ AnswerIsToLastQuery
  <1>1. Init => IInv
    <2> SUFFICES ASSUME Init PROVE IInv
      OBVIOUS
    <2>1. TypeOK
      BY InitType
    <2>2. SessionsInv
      BY JoinAssumption DEF Init, SessionsInv, Zeroed, Session
    <2>3. RegistrarInv /\ AnswerIsToLastQuery
      BY DEF Init, RegistrarInv, AnswerIsToLastQuery, NoNA, Verdict
    <2> QED
      BY <2>1, <2>2, <2>3
  <1>2. IInv /\ [Next]_vars => IInv'
    BY NextType, NextSessions, NextRegistrar, NextAnswer
  <1> QED
    BY <1>1, <1>2, PTL DEF Spec
----------------------------------------------------------------------------
(* Every step preserves the count of what is still to be read. *)
LEMMA NextCount ==
    ASSUME TypeOK, RegistrarInv, CountInv, [Next]_vars
    PROVE  CountInv'
  <1>1. /\ IsFiniteSet(pending) /\ Cardinality(pending) \in Nat
        /\ Len(replies) \in Nat /\ queries_outstanding \in Nat
        /\ Len(asked) \in Nat /\ waits \in Nat
    <2>1. IsFiniteSet(Session)
      BY FS_Interval, JoinAssumption DEF Session
    <2> QED
      BY <2>1, FS_Subset, FS_CardinalityType, JoinAssumption DEF TypeOK
  <1>2. ASSUME NEW p \in Pledge, JoinSolicit(p) PROVE CountInv'
    <2>1. UNCHANGED <<replies, waits>>
      BY <1>2 DEF JoinSolicit, StartQuery
    <2>2. CASE client
      <3>1. /\ pending' \in {pending, pending \cup {Len(asked) + 1}}
            /\ queries_outstanding' = queries_outstanding + 1
        BY <1>2, <2>2, JoinSolicitEffect DEF QueryEffect
      <3>2. Cardinality(pending') \in {Cardinality(pending), Cardinality(pending) + 1}
        BY <1>1, <3>1, FS_AddElement
      <3> QED
        BY <1>1, <2>1, <3>1, <3>2 DEF CountInv
    <2>3. CASE ~client
      <3>1. UNCHANGED <<pending, queries_outstanding>>
        BY <1>2, <2>3, JoinSolicitEffect DEF DeclineEffect
      <3> QED
        BY <2>1, <3>1 DEF CountInv
    <2> QED
      BY <2>2, <2>3 DEF TypeOK
  <1>3. ASSUME NEW i \in Session, NEW v \in Verdict, RegistrarEnd(i, v)
        PROVE  CountInv'
    <2>1. /\ i \in pending /\ pending' = pending \ {i}
          /\ UNCHANGED <<queries_outstanding, waits>>
          /\ Len(replies') = Len(replies) + 1
      BY <1>3 DEF RegistrarEnd, TypeOK
    <2>2. Cardinality(pending') = Cardinality(pending) - 1
      BY <1>1, <2>1, FS_RemoveElement
    <2> QED
      BY <1>1, <2>1, <2>2 DEF CountInv
  <1>4. ASSUME NEW i \in Session, RegistrarWait(i) PROVE CountInv'
    BY <1>1, <1>4 DEF RegistrarWait, CountInv
  <1>5. CASE RegistrarClose
    <2>1. pending' = {} /\ UNCHANGED <<replies, queries_outstanding, waits>>
      BY <1>5 DEF RegistrarClose
    <2>2. Cardinality(pending') = 0
      BY <2>1, FS_EmptySet
    <2> QED
      BY <1>1, <2>1, <2>2 DEF CountInv
  <1>6. ASSUME NEW k \in 1 .. MaxRead, ReadReply(k) PROVE CountInv'
    <2>1. /\ UNCHANGED <<pending, waits>>
          /\ Len(replies') < Len(replies) /\ Len(replies') \in Nat
          /\ queries_outstanding' = queries_outstanding - 1
      BY <1>6, ReadReplyFacts
    <2> QED
      BY <1>1, <2>1 DEF CountInv
  <1>7. CASE UNCHANGED <<pending, replies, queries_outstanding, waits>>
    BY <1>7 DEF CountInv
  <1>8. ASSUME NEW p \in Pledge,
               NoAroSolicit(p) \/ PlainSolicit(p) \/ UnicastSolicit(p)
        PROVE  UNCHANGED <<pending, replies, queries_outstanding, waits>>
    BY <1>8 DEF NoAroSolicit, PlainSolicit, UnicastSolicit, Solicit, graspVars
  <1>9. BrokenPipe \/ UNCHANGED vars
          => UNCHANGED <<pending, replies, queries_outstanding, waits>>
    BY DEF BrokenPipe, vars, graspVars
  <1> QED
    BY <1>2, <1>3, <1>4, <1>5, <1>6, <1>7, <1>8, <1>9 DEF Next

(* As long as the registrar sends no M_WAIT, the client keeps polling      *)
(* while there is an answer to come or to read, whatever is lost.          *)
THEOREM RepliesPolled == Spec => []RepliesArePolled
  <1> DEFINE IInv == TypeOK /\ RegistrarInv /\ CountInv
  <1>1. Init => IInv
    <2> SUFFICES ASSUME Init PROVE IInv
      OBVIOUS
    <2>1. TypeOK
      BY InitType
    <2>2. RegistrarInv
      BY DEF Init, RegistrarInv
    <2>3. CountInv
      BY FS_EmptySet DEF Init, CountInv
    <2> QED
      BY <2>1, <2>2, <2>3
  <1>2. IInv /\ [Next]_vars => IInv'
    BY NextType, NextRegistrar, NextCount
  <1>3. IInv => RepliesArePolled
    <2> SUFFICES ASSUME IInv, waits = 0, pending # {} \/ replies # <<>>
                 PROVE  queries_outstanding > 0
      BY DEF RepliesArePolled
    <2>1. IsFiniteSet(pending)
      <3>1. IsFiniteSet(Session)
        BY FS_Interval, JoinAssumption DEF Session
      <3> QED
        BY <3>1, FS_Subset DEF TypeOK
    <2>2. Cardinality(pending) \in Nat /\ (pending # {} => Cardinality(pending) > 0)
      BY <2>1, FS_CardinalityType, FS_EmptySet
    <2>3. Len(replies) \in Nat /\ (replies # <<>> => Len(replies) > 0)
      BY DEF TypeOK
    <2>4. Cardinality(pending) + Len(replies) <= queries_outstanding
      BY DEF CountInv
    <2> QED
      BY <2>2, <2>3, <2>4 DEF TypeOK
  <1> QED
    BY <1>1, <1>2, <1>3, PTL DEF Spec
=============================================================================
