-------------------------------- MODULE Join --------------------------------
(***************************************************************************)
(* The join assistant: one interface that hears the neighbour              *)
(* solicitations of pledges, its neighbour table, its grasp_client and the *)
(* registrar at the other end of the TCP connection.                       *)
(*                                                                         *)
(* Every pledge solicits for its own address and its own EUI-64.  The      *)
(* registrar (external) answers the queries in any order, and may first    *)
(* send an M_WAIT for one.                                                 *)
(***************************************************************************)
EXTENDS Integers, Sequences, FiniteSets

CONSTANTS
    Pledge,         \* the nodes that ask to join, by address
    Me,             \* the address of this interface
    Garbage,        \* what an uninitialised queryId may hold
    MaxQueries,     \* bound: queries started
    MaxSolicit,     \* bound: the other solicitations
    MaxWait,        \* bound: M_WAIT messages
    MaxRead,        \* how many replies one read() may find together
    MayClose        \* whether the registrar may close the connection

ASSUME JoinAssumption ==
    /\ Me \notin Pledge
    /\ IsFiniteSet(Pledge)
    /\ Garbage \subseteq Nat /\ Garbage # {}
    /\ MaxQueries \in Nat /\ MaxSolicit \in Nat /\ MaxWait \in Nat
    /\ MaxRead \in Nat \ {0}
    /\ MayClose \in BOOLEAN

VARIABLES
    neighbours,     \* the neighbour cache of the interface
    client,         \* join_query_client # NULL: started with a registrar
    connected,      \* the registrar has not closed the connection
    alive,          \* the process has not been killed by SIGPIPE
    asked,          \* asked[i] is who the i-th session is for; its length
                    \* is the static counter lastsession, less 123456
    decided,        \* what the registrar has answered to the i-th session
    pending,        \* the sessions the registrar has still to answer
    replies,        \* what it has written, and the client not read
    queries_outstanding,
    na,             \* the neighbour advertisement this step sent
    waiting,        \* the pledges whose last request had no answer yet
    solicits, waits \* bounds

nceVars == <<neighbours, na, waiting>>
graspVars == <<asked, pending, replies, queries_outstanding>>
vars == <<nceVars, graspVars, client, connected, alive, decided, solicits, waits>>

Neighbour == Pledge \cup {Me}
Verdict == {"accept", "decline"}
Session == 1 .. MaxQueries
Reply == [type : {"M_END", "M_WAIT"}, session : Session]

Entry == [valid : BOOLEAN, alreadyDeclined : BOOLEAN, alreadyAccepted : BOOLEAN,
          joinQueryStarted : BOOLEAN, queryId : Nat]

(* An entry after zero_node. *)
Zeroed(valid, queryId) ==
    [valid |-> valid, alreadyDeclined |-> FALSE, alreadyAccepted |-> FALSE,
     joinQueryStarted |-> FALSE, queryId |-> queryId]

NA == [to : Neighbour, status : Verdict \cup {"plain"}]
NoNA == [to |-> Me, status |-> "none"]

----------------------------------------------------------------------------
(* markvalid calls zero_node, which resets all but queryId. *)
MutMarkValidAll(n) == Zeroed(TRUE, 0)
MarkValid(n) == Zeroed(TRUE, n.queryId)

(* neighbours[a]: a fresh rpl_node has a queryId nobody has written. *)
Lookup(a, garbage) ==
    IF neighbours[a].valid THEN neighbours[a] ELSE Zeroed(FALSE, garbage)

join_declined(n) == ~n.joinQueryStarted /\ n.alreadyDeclined
join_accepted(n) == ~n.joinQueryStarted /\ n.alreadyAccepted
set_accepted(n, accepted) ==
    [valid |-> n.valid, alreadyDeclined |-> ~accepted,
     alreadyAccepted |-> accepted, joinQueryStarted |-> FALSE,
     queryId |-> n.queryId]

(* rpl_node::reply_neighbour_advert: an NA with the status in its ARO. *)
Advertise(p, status) ==
    /\ na' = [to |-> p, status |-> status]
    /\ waiting' = waiting \ {p}

(* find_neighbour_by_grasp_sessionid returns the first of these. *)
MutMatchingOwner(session) == {a \in Pledge : a = asked[session]}
Matching(session) ==
    {a \in Neighbour : neighbours[a].valid /\ neighbours[a].queryId = session}

MutPollAlways == TRUE
poll_setup == queries_outstanding > 0

(* The count after a reply, of whatever type. *)
MutReceivedReset == 0
Received == queries_outstanding - 1

----------------------------------------------------------------------------
Init ==
    /\ neighbours = [a \in Neighbour |-> Zeroed(FALSE, 0)]
    /\ client \in BOOLEAN
    /\ connected = TRUE /\ alive = TRUE
    /\ asked = <<>> /\ decided = [i \in Session |-> "none"]
    /\ pending = {} /\ replies = <<>> /\ queries_outstanding = 0
    /\ na = NoNA /\ waiting = {}
    /\ solicits = 0 /\ waits = 0

(* What reply_mcast_neighbour_join does, given an ARO. *)
Outcome(n) ==
    IF join_declined(n) THEN "decline"
    ELSE IF n.joinQueryStarted THEN "silent"
    ELSE IF join_accepted(n) THEN "accept"
    ELSE IF client THEN "query" ELSE "decline"

(* start_query_for_aro, send_cbor: the first write after the registrar has *)
(* closed the connection still succeeds, and goes nowhere.                 *)
StartQuery(p) ==
    /\ asked' = Append(asked, p)
    /\ pending' = IF connected THEN pending \cup {Len(asked) + 1} ELSE pending
    /\ queries_outstanding' = queries_outstanding + 1

(* An NS with an ARO, to all hosts: markvalid, reply_mcast_neighbour_join. *)
JoinSolicit(p) ==
    /\ alive
    /\ Len(asked) < MaxQueries
    /\ \E g \in Garbage :
         LET n       == MarkValid(Lookup(p, g))
             outcome == Outcome(n)
             session == Len(asked) + 1
         IN  /\ neighbours' = [neighbours EXCEPT ![p] =
                  IF outcome = "query" THEN Zeroed(TRUE, session) ELSE n]
             /\ IF outcome = "query"
                THEN StartQuery(p)
                ELSE UNCHANGED <<asked, pending, queries_outstanding>>
             /\ IF outcome \in Verdict THEN Advertise(p, outcome)
                ELSE na' = NoNA /\ waiting' = waiting \cup {p}
    /\ UNCHANGED <<client, connected, alive, decided, replies, solicits, waits>>

(* The connection is gone: the write that starts a query raises SIGPIPE,   *)
(* which nothing catches.                                                  *)
BrokenPipe ==
    /\ alive /\ client /\ ~connected
    /\ Len(asked) < MaxQueries
    /\ alive' = FALSE
    /\ na' = NoNA
    /\ UNCHANGED <<neighbours, waiting, graspVars, client, connected, decided,
                   solicits, waits>>

(* What the other solicitations have in common. *)
Solicit(marked) ==
    /\ alive
    /\ solicits < MaxSolicit
    /\ solicits' = solicits + 1
    /\ \E g \in [marked -> Garbage] :
         neighbours' = [a \in Neighbour |-> IF a \in marked
                                            THEN MarkValid(Lookup(a, g[a]))
                                            ELSE neighbours[a]]
    /\ UNCHANGED <<graspVars, client, connected, alive, decided, waiting, waits>>

(* An NS to all hosts, without an ARO. *)
NoAroSolicit(p) == Solicit({p}) /\ na' = NoNA

(* An NS to a solicited-node group: reply_mcast_neighbour_advert. *)
PlainSolicit(p) == Solicit({p}) /\ na' = [to |-> p, status |-> "plain"]

(* A unicast NS for our address: network_interface::reply_neighbour_advert *)
(* marks the source as valid.  The target, this interface, has got an      *)
(* entry before.                                                           *)
UnicastSolicit(p) ==
    /\ Solicit({p} \cup {a \in {Me} : ~neighbours[a].valid})
    /\ na' = NoNA

(* The registrar writes an M_END, or an M_WAIT before it. *)
RegistrarEnd(i, v) ==
    /\ connected
    /\ i \in pending
    /\ pending' = pending \ {i}
    /\ decided' = [decided EXCEPT ![i] = v]
    /\ replies' = Append(replies, [type |-> "M_END", session |-> i])
    /\ na' = NoNA
    /\ UNCHANGED <<neighbours, waiting, asked, queries_outstanding, client,
                   connected, alive, solicits, waits>>

RegistrarWait(i) ==
    /\ connected
    /\ i \in pending
    /\ waits < MaxWait
    /\ waits' = waits + 1
    /\ replies' = Append(replies, [type |-> "M_WAIT", session |-> i])
    /\ na' = NoNA
    /\ UNCHANGED <<neighbours, waiting, asked, pending, queries_outstanding,
                   client, connected, alive, decided, solicits>>

RegistrarClose ==
    /\ MayClose /\ client /\ connected
    /\ connected' = FALSE
    /\ pending' = {}
    /\ na' = NoNA
    /\ UNCHANGED <<neighbours, waiting, asked, replies, queries_outstanding,
                   client, alive, decided, solicits, waits>>

(* read_cbor takes what there is, the k messages that have arrived, and     *)
(* decodes the first one only.                                             *)
ReadCbor(k) == SubSeq(replies, k + 1, Len(replies))

(* grasp_client::process_grasp_reply, decode_grasp_reply, and              *)
(* network_interface::process_grasp_reply.                                 *)
ReadReply(k) ==
    /\ alive
    /\ poll_setup
    /\ k \in 1 .. Len(replies)
    /\ replies' = ReadCbor(k)
    /\ queries_outstanding' = Received
    /\ LET r      == Head(replies)
           accept == decided[r.session] = "accept"
       IN  IF r.type = "M_END" /\ Matching(r.session) # {}
           THEN \E a \in Matching(r.session) :
                  /\ neighbours' = [neighbours EXCEPT ![a] =
                                       set_accepted(neighbours[a], accept)]
                  /\ Advertise(a, IF accept THEN "accept" ELSE "decline")
           ELSE na' = NoNA /\ UNCHANGED <<neighbours, waiting>>
    /\ UNCHANGED <<asked, pending, client, connected, alive, decided, solicits,
                   waits>>

Next ==
    \/ \E p \in Pledge : \/ JoinSolicit(p) \/ NoAroSolicit(p)
                         \/ PlainSolicit(p) \/ UnicastSolicit(p)
    \/ BrokenPipe
    \/ \E i \in Session : RegistrarWait(i) \/ \E v \in Verdict : RegistrarEnd(i, v)
    \/ RegistrarClose
    \/ \E k \in 1 .. MaxRead : ReadReply(k)

Spec == Init /\ [][Next]_vars

(* The process polls and reads; the registrar answers every query. *)
Fairness ==
    /\ WF_vars(\E k \in 1 .. MaxRead : ReadReply(k))
    /\ \A i \in Session : WF_vars(\E v \in Verdict : RegistrarEnd(i, v))

FairSpec == Spec /\ Fairness

----------------------------------------------------------------------------
TypeOK ==
    /\ neighbours \in [Neighbour -> Entry]
    /\ {client, connected, alive} \subseteq BOOLEAN
    /\ asked \in Seq(Pledge) /\ Len(asked) <= MaxQueries
    /\ decided \in [Session -> Verdict \cup {"none"}]
    /\ pending \subseteq Session
    /\ replies \in Seq(Reply)
    /\ queries_outstanding \in Nat
    /\ na \in NA \cup {NoNA}
    /\ waiting \subseteq Pledge
    /\ solicits \in 0 .. MaxSolicit /\ waits \in 0 .. MaxWait

(* neighbouradvert.cpp:294 on start_query_for_aro, "reply to query will    *)
(* send return value": with a registrar, a node is only told what the      *)
(* registrar decided on the last query made for it, never the answer to an *)
(* earlier query or to another node's.                                     *)
AnswerIsToLastQuery ==
    client /\ na.status \in Verdict =>
        \E i \in 1 .. Len(asked) :
            /\ asked[i] = na.to
            /\ decided[i] = na.status
            /\ \A j \in i + 1 .. Len(asked) : asked[j] # na.to

(* poll_setup: the socket is polled as long as the registrar has an answer *)
(* to give, or has given one that is not read, also after it lost some     *)
(* that came together.  An M_WAIT is counted as an answer and breaks this. *)
RepliesArePolled ==
    waits = 0 /\ (pending # {} \/ replies # <<>>) => queries_outstanding > 0

(* The inductive strengthening of the two.  A queryId that is a session is *)
(* the last session of its own node.                                       *)
SessionsInv ==
    \A a \in Neighbour :
        LET q == neighbours[a].queryId
        IN  q \in Session =>
                /\ q <= Len(asked) /\ asked[q] = a
                /\ \A j \in q + 1 .. Len(asked) : asked[j] # a

(* The registrar has been asked for what it answers. *)
RegistrarInv ==
    /\ pending \subseteq 1 .. Len(asked)
    /\ \A k \in 1 .. Len(replies) :
         replies[k].type = "M_END" => decided[replies[k].session] \in Verdict

(* queries_outstanding counts at least what is still to be read. *)
CountInv ==
    waits = 0 => Cardinality(pending) + Len(replies) <= queries_outstanding

(* Nothing was lost: the connection is there, no reply came together with   *)
(* another one, and no M_WAIT was counted as an answer.                    *)
Undamaged ==
    /\ alive /\ connected /\ waits = 0
    /\ queries_outstanding = Cardinality(pending) + Len(replies)

(* neighbouradvert.cpp:294: a pledge that asks to join is told accepted or *)
(* declined, whatever other solicitations it sends meanwhile, unless       *)
(* something gets lost on the connection.                                  *)
JoinAnswered == \A p \in Pledge : p \in waiting ~> (p \notin waiting \/ ~Undamaged)

(* neighbouradvert.cpp:294, "reply to query will send return value": every *)
(* pledge that asks is told.                                               *)
ReplySendsValue == \A p \in Pledge : p \in waiting ~> p \notin waiting

(* neighbouradvert.cpp:262, "the query is still in progress, in which      *)
(* case, do nothing": as long as the registrar has a query of a pledge to  *)
(* answer, no other one is made for it.                                    *)
InProgressDoesNothing ==
    [][\A p \in Pledge, i \in pending : asked[i] = p /\ asked' # asked => asked'[Len(asked')] # p]_vars
=============================================================================
