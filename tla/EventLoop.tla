----------------------------- MODULE EventLoop -----------------------------
(***************************************************************************)
(* network_interface::main_loop of one process, its queue things_to_do and *)
(* the two events a dag_network keeps in it, mSendDioEvent and             *)
(* mSendDaoEvent.                                                          *)
(*                                                                         *)
(* The code only looks at differences of times, so times are kept relative *)
(* to the current second: "usec" is the clock, an alarm has the seconds    *)
(* still to go, and the state space is finite although time never ends.    *)
(* Handlers take no time; time passes in poll.                             *)
(***************************************************************************)
EXTENDS Integers, FiniteSets

CONSTANTS
    USEC,           \* clock ticks in a second: 1000000
    MSEC,           \* clock ticks in a millisecond: 1000
    UIntMod,        \* 2^32: msec*1000 is an unsigned int
    Interval,       \* mInterval_msec, the option -W
    MaxTimeout,     \* 60*1000: the longest poll, in milliseconds
    MaxPackets,     \* bound: how many packets ask for an event
    MaxUnplug       \* bound: how many interfaces disappear

ASSUME TimeAssumption ==
    /\ USEC \in Nat /\ MSEC \in Nat \ {0} /\ USEC % MSEC = 0 /\ USEC > MSEC
    /\ UIntMod \in Nat /\ UIntMod > 2 * MSEC
    /\ Interval \in Nat \ {0} /\ MaxTimeout \in Nat \ {0}
    /\ MaxPackets \in Nat /\ MaxUnplug \in Nat

Event == {"dio", "dao"}
None == "none"

VARIABLES
    usec,           \* tv_usec of the clock
    alarm,          \* alarm_time of each event, the seconds relative
    status,         \* where the event is: see Status
    pc, left,       \* where main_loop is, and the ticks left of the poll
    signal_usr1,
    root,           \* root_node(): started with -p, never sends a DAO
    bestparent,     \* dag_bestparent # NULL
    packets, unplugged,     \* bounds
    fired,          \* the event this step invoked
    quiet           \* ticks since the last DIO, no schedule_dio in between

clockVars == <<usec, left>>
bounds == <<packets, unplugged>>
nodeVars == <<root, bestparent>>
vars == <<clockVars, alarm, status, pc, signal_usr1, nodeVars, bounds, fired,
          quiet>>

(* "null": not allocated.  "freed": deleted, but mSendDioEvent still       *)
(* points to it.                                                           *)
Status == {"null", "queued", "freed"}

----------------------------------------------------------------------------
(* The division of C rounds towards zero. *)
Quotient(a, b) == IF a >= 0 THEN a \div b ELSE -((-a) \div b)

(* set_alarm: the loop takes off whole seconds while MORE than one is there. *)
MutSetAlarmNoCarry(msec) ==
    [sec |-> 0, usec |-> usec + ((msec * MSEC) % UIntMod)]
set_alarm(msec) ==
    LET u     == usec + ((msec * MSEC) % UIntMod)
        carry == IF u <= USEC THEN 0 ELSE (u - 1) \div USEC
    IN  [sec |-> carry, usec |-> u - carry * USEC]

(* The alarm of an event that is not in the queue does not matter. *)
Unset == [sec |-> 0, usec |-> 0]

passed(e) == \/ alarm[e].sec < 0
             \/ alarm[e].sec = 0 /\ alarm[e].usec <= usec

(* rpl_eventless(a, b): b comes out of the queue before a, or with it. *)
eventless(a, b) ==
    \/ alarm[b].sec < alarm[a].sec
    \/ alarm[b].sec = alarm[a].sec /\ alarm[b].usec <= alarm[a].usec

things_to_do == {e \in Event : status[e] = "queued"}

(* The events that top() may return: of equal ones, any. *)
Tops == {e \in things_to_do : \A a \in things_to_do : eventless(a, e)}

MutMillisecondsUp(e) ==
    (alarm[e].sec * USEC + alarm[e].usec - usec) \div MSEC + 1
miliseconds_util(e) ==
    alarm[e].sec * (USEC \div MSEC) + Quotient(alarm[e].usec - usec, MSEC)

(* The timeout poll is called with. *)
Timeout ==
    LET util == {miliseconds_util(e) : e \in Tops}
        near == {t \in util : t >= 0 /\ t < MaxTimeout}
    IN  IF near = {} THEN MaxTimeout ELSE CHOOSE t \in near : TRUE

(* The alarm of an event in the queue, or of one made for it. *)
Arm(e, msec) ==
    /\ alarm' = [alarm EXCEPT ![e] = set_alarm(msec)]
    /\ status' = [status EXCEPT ![e] = "queued"]

(* The interval after which an event that was invoked is due again. *)
MutRepeatSoon == 1
MutRepeatAtOnce == 0
repeat_msec == Interval

----------------------------------------------------------------------------
(* main schedules the first DIO; schedule_dio does nothing in a node that  *)
(* has no rank, hence in every node but the root.                          *)
Init ==
    /\ usec \in 0 .. USEC - 1
    /\ root \in BOOLEAN /\ bestparent = FALSE
    /\ status = [e \in Event |->
                   IF root /\ e = "dio" THEN "queued" ELSE "null"]
    /\ alarm = [e \in Event |->
                  IF root /\ e = "dio" THEN set_alarm(2) ELSE Unset]
    /\ pc = "serve" /\ left = 0
    /\ signal_usr1 = FALSE
    /\ packets = 0 /\ unplugged = 0
    /\ fired = None /\ quiet = Interval * MSEC

(* The head of the queue is due: eat_event, doit, requeue. *)
Serve(e) ==
    /\ pc = "serve"
    /\ e \in Tops
    /\ passed(e)
    /\ Arm(e, repeat_msec)
    /\ fired' = e
    /\ quiet' = IF e = "dio" THEN 0 ELSE quiet
    /\ UNCHANGED <<clockVars, pc, signal_usr1, nodeVars, bounds>>

(* Nothing is due: poll.  Even with a timeout of 0 it takes a tick, so the *)
(* busy loop of an event that is due in less than a millisecond ends.      *)
Poll ==
    /\ pc = "serve"
    /\ \A e \in Tops : ~passed(e)
    /\ pc' = "poll"
    /\ left' = IF Timeout = 0 THEN 1 ELSE Timeout * MSEC
    /\ fired' = None
    /\ UNCHANGED <<usec, alarm, status, signal_usr1, nodeVars, bounds, quiet>>

(* Time passes. *)
Tick ==
    /\ pc = "poll"
    /\ left > 0
    /\ left' = left - 1
    /\ usec' = (usec + 1) % USEC
    /\ alarm' = IF usec + 1 < USEC THEN alarm
                ELSE [e \in Event |-> IF e \in things_to_do
                                      THEN [alarm[e] EXCEPT !.sec = @ - 1]
                                      ELSE alarm[e]]
    /\ quiet' = IF quiet < Interval * MSEC THEN quiet + 1 ELSE quiet
    /\ UNCHANGED <<status, pc, signal_usr1, nodeVars, bounds, fired>>

Wakeup == pc = "poll" /\ pc' = "signals" /\ fired' = None

(* poll returns 0. *)
PollTimeout ==
    /\ Wakeup
    /\ left = 0
    /\ UNCHANGED <<clockVars, alarm, status, signal_usr1, nodeVars, bounds, quiet>>

(* A DIS, or a commitment to a parent: schedule_dio(1), when the node has  *)
(* a rank.  Through a pointer to a freed event, the event may come back to *)
(* life or the process may die.                                            *)
ScheduleDio ==
    /\ Wakeup
    /\ packets < MaxPackets
    /\ root \/ bestparent
    /\ Arm("dio", 2)
    /\ packets' = packets + 1
    /\ quiet' = Interval * MSEC
    /\ UNCHANGED <<clockVars, signal_usr1, nodeVars, unplugged>>

UseAfterFree ==
    /\ pc = "poll" /\ pc' = "dead" /\ fired' = None
    /\ root \/ bestparent
    /\ status["dio"] = "freed"
    /\ UNCHANGED <<clockVars, alarm, status, signal_usr1, nodeVars, bounds, quiet>>

(* A DIO that makes its sender the best parent, or a DAO of a new child:   *)
(* schedule_dao.                                                           *)
ScheduleDao ==
    /\ Wakeup
    /\ packets < MaxPackets
    /\ ~root
    /\ Arm("dao", 2)
    /\ packets' = packets + 1
    /\ bestparent' = TRUE
    /\ UNCHANGED <<clockVars, signal_usr1, root, unplugged, quiet>>

(* ~rpl_event, clear_event: the dag_network forgets its DAO event only. *)
Deleted(e) == IF status[e] # "queued" THEN status[e]
              ELSE IF e = "dao" THEN "null" ELSE "freed"

(* RTM_DELLINK: del_linkinfo deletes the network_interface, whose          *)
(* destructor calls clear_events.                                          *)
Unplug ==
    /\ Wakeup
    /\ unplugged < MaxUnplug
    /\ status' = [e \in Event |-> Deleted(e)]
    /\ alarm' = [e \in Event |-> Unset]
    /\ unplugged' = unplugged + 1
    /\ UNCHANGED <<clockVars, signal_usr1, nodeVars, packets, quiet>>

(* SIGUSR1 ends a poll, and is only noted anywhere else. *)
Signal ==
    /\ ~signal_usr1 /\ pc # "dead"
    /\ packets < MaxPackets
    /\ signal_usr1' = TRUE
    /\ packets' = packets + 1
    /\ pc' = IF pc = "poll" THEN "signals" ELSE pc
    /\ fired' = None
    /\ UNCHANGED <<clockVars, alarm, status, nodeVars, unplugged, quiet>>

(* The end of the loop: repair_dao_send. *)
MutSignalsIgnored ==
    /\ pc = "signals"
    /\ pc' = "serve"
    /\ fired' = None
    /\ UNCHANGED <<clockVars, alarm, status, signal_usr1, nodeVars, bounds, quiet>>
Signals ==
    /\ pc = "signals"
    /\ pc' = "serve"
    /\ signal_usr1' = FALSE
    /\ IF signal_usr1 /\ bestparent
       THEN Arm("dao", 2)
       ELSE UNCHANGED <<alarm, status>>
    /\ fired' = None
    /\ UNCHANGED <<clockVars, nodeVars, bounds, quiet>>

Next ==
    \/ \E e \in Event : Serve(e)
    \/ Poll \/ Tick \/ PollTimeout
    \/ ScheduleDio \/ ScheduleDao \/ Unplug \/ UseAfterFree
    \/ Signal \/ Signals

Spec == Init /\ [][Next]_vars

(* The process runs, and time passes. *)
Fairness ==
    /\ WF_vars(\E e \in Event : Serve(e))
    /\ WF_vars(Poll)
    /\ WF_vars(Tick)
    /\ WF_vars(PollTimeout)
    /\ WF_vars(Signals)

FairSpec == Spec /\ Fairness

----------------------------------------------------------------------------
(* alarm_time, relative to the clock, in ticks *)
Due(e) == alarm[e].sec * USEC + alarm[e].usec - usec

(* set_alarm: tv_usec may be a whole second, but never more. *)
TypeOK ==
    /\ usec \in 0 .. USEC - 1
    /\ alarm \in [Event -> [sec : Int, usec : 0 .. USEC]]
    /\ status \in [Event -> Status]
    /\ pc \in {"serve", "poll", "signals", "dead"}
    /\ left \in 0 .. MaxTimeout * MSEC
    /\ {signal_usr1, root, bestparent} \subseteq BOOLEAN
    /\ packets \in 0 .. MaxPackets /\ unplugged \in 0 .. MaxUnplug
    /\ fired \in Event \cup {None}
    /\ quiet \in 0 .. Interval * MSEC

(* main_loop, eventless, miliseconds_util: an event in the queue is never  *)
(* a millisecond late, whatever the other event, packets and signals do.   *)
Timely == \A e \in things_to_do : Due(e) > -MSEC

(* sunshine.8.ronn:62, "The number of miliseconds between DIO              *)
(* announcements": two DIOs are at least that far apart, unless            *)
(* schedule_dio was called since the first.                                *)
IntervalKept ==
    [][Serve("dio") => quiet = Interval * MSEC]_vars

(* main_loop: a signal is handled, also when it comes just before poll, as *)
(* long as the process lives.                                              *)
SignalHandled == signal_usr1 ~> (~signal_usr1 \/ pc = "dead")

(* main_loop: an event in the queue is invoked, unless it is deleted or    *)
(* the process dies: it is not starved by the other one, by packets or by  *)
(* signals, of which there is a finite number.                             *)
EventsFire ==
    \A e \in Event :
       status[e] = "queued" ~> (fired = e \/ status[e] # "queued" \/ pc = "dead")

(* dag.cpp:791 on schedule_dao, "this routine sets up to send a DAO on a   *)
(* regular basis": an event that is queued to send one does so, whatever   *)
(* becomes of other interfaces, as long as the process lives.              *)
DaoOnRegularBasis == status["dao"] = "queued" ~> (fired = "dao" \/ pc = "dead")
=============================================================================
