-------------------------- MODULE EventLoopProofs --------------------------
(***************************************************************************)
(* Theorems about EventLoop, for every clock, interval and poll timeout.   *)
(***************************************************************************)
EXTENDS EventLoop, TLAPS

(* Division and remainder, for a positive divisor. *)
LEMMA DivMod ==
    ASSUME NEW a \in Int, NEW b \in Nat, b > 0
    PROVE  /\ a \div b \in Int /\ a % b \in 0 .. b - 1
           /\ a = b * (a \div b) + (a % b)
  OBVIOUS

(* A second is a whole number of milliseconds. *)
LEMMA Units ==
    /\ USEC \in Nat /\ MSEC \in Nat /\ MSEC > 0 /\ USEC > MSEC
    /\ USEC \div MSEC \in Int
    /\ USEC = MSEC * (USEC \div MSEC)
    /\ UIntMod \in Nat /\ UIntMod > 0
    /\ Interval \in Nat /\ MaxTimeout \in Nat /\ MaxTimeout > 0
    /\ Interval * MSEC \in Nat /\ MaxTimeout * MSEC \in Nat
    /\ MaxTimeout * MSEC >= 1
  <1>1. /\ USEC \in Nat /\ MSEC \in Nat /\ MSEC > 0 /\ USEC > MSEC /\ USEC % MSEC = 0
        /\ UIntMod \in Nat /\ UIntMod > 2 * MSEC
        /\ Interval \in Nat /\ MaxTimeout \in Nat /\ MaxTimeout > 0
    BY TimeAssumption
  <1>2. USEC \div MSEC \in Int /\ USEC = MSEC * (USEC \div MSEC)
    BY <1>1, DivMod
  <1>3. Interval * MSEC \in Nat /\ MaxTimeout * MSEC \in Nat /\ MaxTimeout * MSEC >= 1
    BY <1>1
  <1> QED
    BY <1>1, <1>2, <1>3

(* set_alarm: tv_usec is within a second, and the alarm is due after as    *)
(* many ticks as an unsigned int holds of them.                            *)
LEMMA SetAlarm ==
    ASSUME usec \in 0 .. USEC - 1, NEW m \in Nat
    PROVE  /\ set_alarm(m) \in [sec : Int, usec : 0 .. USEC]
           /\ (m * MSEC) % UIntMod \in 0 .. UIntMod - 1
           /\ set_alarm(m).sec * USEC + set_alarm(m).usec - usec = (m * MSEC) % UIntMod
  <1> DEFINE w     == (m * MSEC) % UIntMod
             u     == usec + w
             carry == IF u <= USEC THEN 0 ELSE (u - 1) \div USEC
  <1>1. w \in 0 .. UIntMod - 1
    BY Units, DivMod
  <1>2. u \in Nat
    BY <1>1, Units
  <1>3. carry \in Int /\ u - carry * USEC \in 0 .. USEC
    <2>1. CASE u <= USEC
      BY <1>2, <2>1, Units
    <2>2. CASE u > USEC
      <3> DEFINE q == (u - 1) \div USEC
      <3>1. /\ q \in Int /\ (u - 1) % USEC \in 0 .. USEC - 1
            /\ u - 1 = USEC * q + ((u - 1) % USEC)
        <4> HIDE DEF u
        <4> QED BY <1>2, Units, DivMod
      <3>2. USEC * q = q * USEC /\ q * USEC \in Int
        <4> HIDE DEF q
        <4> QED BY <3>1, Units
      <3>3. carry = q
        BY <2>2, <1>2, Units
      <3> HIDE DEF q, u, carry
      <3> QED
        BY <1>2, <3>1, <3>2, <3>3, Units
    <2> QED
      BY <1>2, <2>1, <2>2, Units
  <1>4. set_alarm(m) = [sec |-> carry, usec |-> u - carry * USEC]
    BY DEF set_alarm
  <1>5. carry * USEC \in Int
    <2> HIDE DEF carry
    <2> QED BY <1>3, Units
  <1>6. carry * USEC + (u - carry * USEC) - usec = w
    <2> HIDE DEF carry, w
    <2> QED BY <1>1, <1>5, Units
  <1> HIDE DEF carry, u, w
  <1>7. (m * MSEC) % UIntMod = w
    BY DEF w
  <1> QED
    BY <1>1, <1>3, <1>4, <1>6, <1>7

----------------------------------------------------------------------------
(* What the comparisons of struct timeval say of the ticks still to go. *)

(* The ticks an alarm is away, as an integer. *)
LEMMA DueInt ==
    ASSUME TypeOK, NEW e \in Event
    PROVE  /\ Due(e) \in Int
           /\ alarm[e].sec \in Int /\ alarm[e].usec \in 0 .. USEC
           /\ alarm[e].sec * USEC \in Int
  <1>1. alarm[e] \in [sec : Int, usec : 0 .. USEC]
    BY DEF TypeOK
  <1>2. alarm[e].sec \in Int /\ alarm[e].usec \in 0 .. USEC /\ usec \in Int
    BY <1>1, Units DEF TypeOK
  <1>3. alarm[e].sec * USEC \in Int
    BY <1>2, Units
  <1> QED
    BY <1>2, <1>3, Units DEF Due

(* A second more is at least USEC ticks more. *)
LEMMA SecondsOrder ==
    ASSUME NEW a \in Int, NEW b \in Int, NEW c \in Nat, a < b
    PROVE  /\ a * c \in Int /\ b * c \in Int
           /\ a * c + c <= b * c
  <1>1. PICK d \in Nat : b = a + 1 + d
    <2>1. b - a - 1 \in Nat /\ b = a + 1 + (b - a - 1)
      OBVIOUS
    <2> QED BY <2>1
  <1>2. d * c \in Nat
    BY <1>1
  <1>3. b * c = a * c + c + d * c
    BY <1>1
  <1> QED
    BY <1>2, <1>3

(* An alarm that has passed is not ahead of the clock, one that has not is. *)
LEMMA PassedDue ==
    ASSUME TypeOK, NEW e \in Event
    PROVE  passed(e) <=> Due(e) <= 0
  <1>1. /\ alarm[e].sec \in Int /\ alarm[e].usec \in 0 .. USEC
        /\ usec \in 0 .. USEC - 1
    BY DueInt DEF TypeOK
  <1>2. CASE alarm[e].sec < 0
    <2>1. /\ alarm[e].sec * USEC \in Int
          /\ alarm[e].sec * USEC + USEC <= 0
      BY <1>1, <1>2, SecondsOrder, Units
    <2> QED
      BY <1>1, <1>2, <2>1, Units DEF passed, Due
  <1>3. CASE alarm[e].sec = 0
    BY <1>1, <1>3, Units DEF passed, Due
  <1>4. CASE alarm[e].sec > 0
    <2>1. /\ alarm[e].sec * USEC \in Int
          /\ USEC <= alarm[e].sec * USEC
      BY <1>1, <1>4, SecondsOrder, Units
    <2> QED
      BY <1>1, <1>4, <2>1, Units DEF passed, Due
  <1> QED
    BY <1>1, <1>2, <1>3, <1>4

(* rpl_eventless orders the queue by the time that is left, although       *)
(* tv_usec may be a whole second.                                          *)
LEMMA EventlessDue ==
    ASSUME TypeOK, NEW a \in Event, NEW b \in Event, eventless(a, b)
    PROVE  Due(b) <= Due(a)
  <1>1. /\ alarm[a].sec \in Int /\ alarm[a].usec \in 0 .. USEC
        /\ alarm[b].sec \in Int /\ alarm[b].usec \in 0 .. USEC
        /\ alarm[a].sec * USEC \in Int /\ alarm[b].sec * USEC \in Int
        /\ usec \in 0 .. USEC - 1
    BY DueInt DEF TypeOK
  <1>2. CASE alarm[b].sec < alarm[a].sec
    <2>1. alarm[b].sec * USEC + USEC <= alarm[a].sec * USEC
      BY <1>1, <1>2, SecondsOrder, Units
    <2> QED
      BY <1>1, <2>1, Units DEF Due
  <1>3. CASE alarm[b].sec = alarm[a].sec /\ alarm[b].usec <= alarm[a].usec
    BY <1>1, <1>3, Units DEF Due
  <1> QED
    BY <1>2, <1>3 DEF eventless

(* Division in C, towards zero, is less than one off. *)
LEMMA QuotientBounds ==
    ASSUME NEW a \in Int
    PROVE  /\ Quotient(a, MSEC) \in Int
           /\ Quotient(a, MSEC) * MSEC \in Int
           /\ a - MSEC < Quotient(a, MSEC) * MSEC
           /\ Quotient(a, MSEC) * MSEC < a + MSEC
  <1>1. CASE a >= 0
    <2> DEFINE q == a \div MSEC
    <2>1. q \in Int /\ a % MSEC \in 0 .. MSEC - 1 /\ a = MSEC * q + (a % MSEC)
      BY DivMod, Units
    <2>2. Quotient(a, MSEC) = q
      BY <1>1 DEF Quotient
    <2> HIDE DEF q
    <2>3. MSEC * q = q * MSEC /\ q * MSEC \in Int
      BY <2>1, Units
    <2> QED
      BY <2>1, <2>2, <2>3, Units
  <1>2. CASE a < 0
    <2> DEFINE q == (-a) \div MSEC
    <2>1. /\ q \in Int /\ (-a) % MSEC \in 0 .. MSEC - 1
          /\ -a = MSEC * q + ((-a) % MSEC)
      BY DivMod, Units
    <2>2. Quotient(a, MSEC) = -q
      BY <1>2 DEF Quotient
    <2> HIDE DEF q
    <2>3. MSEC * q = q * MSEC /\ q * MSEC \in Int /\ (-q) * MSEC = -(q * MSEC)
      BY <2>1, Units
    <2> QED
      BY <2>1, <2>2, <2>3, Units
  <1> QED
    BY <1>1, <1>2

(* miliseconds_util is less than a millisecond off, on either side. *)
LEMMA UtilBounds ==
    ASSUME TypeOK, NEW e \in Event
    PROVE  /\ miliseconds_util(e) \in Int
           /\ miliseconds_util(e) * MSEC \in Int
           /\ Due(e) - MSEC < miliseconds_util(e) * MSEC
           /\ miliseconds_util(e) * MSEC < Due(e) + MSEC
  <1> DEFINE s == alarm[e].sec
             d == alarm[e].usec - usec
             k == USEC \div MSEC
             q == Quotient(d, MSEC)
  <1>1. s \in Int /\ d \in Int /\ s * USEC \in Int /\ k \in Int
    BY DueInt, Units DEF TypeOK
  <1>2. Due(e) = s * USEC + d
    BY DueInt, Units DEF Due, TypeOK
  <1>3. miliseconds_util(e) = s * k + q
    BY DEF miliseconds_util
  <1>4. q \in Int /\ q * MSEC \in Int /\ d - MSEC < q * MSEC /\ q * MSEC < d + MSEC
    BY <1>1, QuotientBounds
  <1>5. USEC = MSEC * k
    BY Units
  <1> HIDE DEF s, d, k, q
  <1>6. s * k \in Int /\ (s * k + q) * MSEC = s * USEC + q * MSEC
    BY <1>1, <1>4, <1>5, Units
  <1> QED
    BY <1>1, <1>2, <1>3, <1>4, <1>6, Units

----------------------------------------------------------------------------
(* The timeout of poll. *)

(* Of two events that compare, one is at the top. *)
LEMMA TopExists ==
    ASSUME TypeOK, things_to_do # {}
    PROVE  Tops # {}
  <1>1. \A a, b \in Event : eventless(a, b) \/ eventless(b, a)
    <2> SUFFICES ASSUME NEW a \in Event, NEW b \in Event
                 PROVE  eventless(a, b) \/ eventless(b, a)
      OBVIOUS
    <2>1. /\ alarm[a].sec \in Int /\ alarm[a].usec \in Int
          /\ alarm[b].sec \in Int /\ alarm[b].usec \in Int
      BY DueInt, Units
    <2> QED
      BY <2>1 DEF eventless
  <1>2. \A a \in Event : eventless(a, a)
    BY <1>1
  <1>3. things_to_do \subseteq {"dio", "dao"}
    BY DEF things_to_do, Event
  <1>4. CASE "dio" \in things_to_do /\ eventless("dao", "dio")
    BY <1>2, <1>3, <1>4 DEF Tops, Event
  <1>5. CASE "dao" \in things_to_do /\ eventless("dio", "dao")
    BY <1>2, <1>3, <1>5 DEF Tops, Event
  <1>6. CASE "dio" \notin things_to_do
    BY <1>2, <1>3, <1>6 DEF Tops, Event
  <1>7. CASE "dao" \notin things_to_do
    BY <1>2, <1>3, <1>7 DEF Tops, Event
  <1> QED
    BY <1>1, <1>4, <1>5, <1>6, <1>7 DEF Event

(* The ticks poll waits for. *)
Wait == IF Timeout = 0 THEN 1 ELSE Timeout * MSEC

(* When nothing is due, poll waits for a tick at least, no longer than     *)
(* MaxTimeout, and no event in the queue is then a millisecond late.       *)
LEMMA PollWait ==
    ASSUME TypeOK, \A e \in Tops : ~passed(e)
    PROVE  /\ Wait \in 1 .. MaxTimeout * MSEC
           /\ \A e \in things_to_do : Due(e) - Wait > -MSEC
  <1> DEFINE util == {miliseconds_util(e) : e \in Tops}
             near == {t \in util : t >= 0 /\ t < MaxTimeout}
  <1>1. Timeout = IF near = {} THEN MaxTimeout ELSE CHOOSE t \in near : TRUE
    BY DEF Timeout
  <1>2. things_to_do \subseteq Event /\ Tops \subseteq things_to_do
    BY DEF things_to_do, Tops
  <1>3. ASSUME NEW t \in Nat, t <= MaxTimeout, Timeout = t,
               \A a \in things_to_do : Due(a) > 0 /\ t * MSEC < Due(a) + MSEC
        PROVE  /\ Wait \in 1 .. MaxTimeout * MSEC
               /\ \A e \in things_to_do : Due(e) - Wait > -MSEC
    <2>1. \A a \in things_to_do : Due(a) \in Int
      BY <1>2, DueInt
    <2>2. CASE t = 0
      <3>1. Wait = 1
        BY <2>2, <1>3 DEF Wait
      <3> QED
        BY <3>1, <2>1, <1>3, Units
    <2>3. CASE t > 0
      <3>1. Wait = t * MSEC
        BY <2>3, <1>3 DEF Wait
      <3>2. t * MSEC \in Nat /\ t * MSEC >= 1 /\ t * MSEC <= MaxTimeout * MSEC
        BY <1>3, <2>3, Units, SecondsOrder
      <3> QED
        BY <3>1, <3>2, <2>1, <1>3, Units
    <2> QED
      BY <1>3, <2>2, <2>3
  <1>4. ASSUME NEW e \in Tops
        PROVE  /\ e \in Event
               /\ miliseconds_util(e) \in Int /\ miliseconds_util(e) >= 0
               /\ miliseconds_util(e) * MSEC \in Int
               /\ Due(e) \in Int /\ Due(e) > 0
               /\ miliseconds_util(e) * MSEC < Due(e) + MSEC
               /\ \A a \in things_to_do : Due(a) \in Int /\ Due(a) >= Due(e)
    <2>1. e \in Event /\ Due(e) \in Int /\ Due(e) > 0
      BY <1>2, <1>4, PassedDue, DueInt
    <2>2. \A a \in things_to_do : Due(a) \in Int /\ Due(a) >= Due(e)
      BY <1>2, <1>4, <2>1, EventlessDue, DueInt DEF Tops
    <2>3. /\ miliseconds_util(e) \in Int
          /\ miliseconds_util(e) * MSEC \in Int
          /\ Due(e) - MSEC < miliseconds_util(e) * MSEC
          /\ miliseconds_util(e) * MSEC < Due(e) + MSEC
      BY <2>1, UtilBounds
    <2>4. miliseconds_util(e) >= 0
      <3>1. SUFFICES ASSUME miliseconds_util(e) < 0
                     PROVE  FALSE
        BY <2>3
      <3>2. miliseconds_util(e) * MSEC + MSEC <= 0
        BY <3>1, <2>3, SecondsOrder, Units
      <3> QED
        BY <3>2, <2>1, <2>3, Units
    <2> QED
      BY <2>1, <2>2, <2>3, <2>4
  <1>5. CASE things_to_do = {}
    <2>1. near = {}
      BY <1>2, <1>5
    <2>2. Timeout = MaxTimeout
      BY <1>1, <2>1
    <2> QED
      BY <1>3, <1>5, <2>2, Units
  <1>6. CASE things_to_do # {} /\ near = {}
    <2>1. Timeout = MaxTimeout
      BY <1>1, <1>6
    <2>2. PICK e \in Tops : TRUE
      BY <1>6, TopExists
    <2>3. miliseconds_util(e) >= MaxTimeout
      <3>1. miliseconds_util(e) \in util
        BY <2>2
      <3> QED
        BY <3>1, <1>4, <1>6, Units
    <2>4. MaxTimeout * MSEC <= miliseconds_util(e) * MSEC
      BY <2>3, <1>4, <2>2, SecondsOrder, Units
    <2>5. \A a \in things_to_do : Due(a) > 0 /\ MaxTimeout * MSEC < Due(a) + MSEC
      BY <2>2, <2>4, <1>4, Units
    <2> QED
      BY <1>3, <2>1, <2>5, Units
  <1>7. CASE near # {}
    <2>1. Timeout \in near
      BY <1>1, <1>7
    <2>2. PICK e \in Tops : Timeout = miliseconds_util(e)
      BY <2>1
    <2>3. Timeout \in Nat /\ Timeout <= MaxTimeout
      BY <2>1, <2>2, <1>4, Units
    <2>4. \A a \in things_to_do : Due(a) > 0 /\ Timeout * MSEC < Due(a) + MSEC
      BY <2>2, <1>4, Units
    <2> QED
      BY <1>3, <2>3, <2>4
  <1> QED
    BY <1>5, <1>6, <1>7

----------------------------------------------------------------------------
(* What the steps do to the queue. *)

(* set_alarm and the queue: the event is due after as many ticks as the    *)
(* unsigned product holds, the other event is left alone.                  *)
LEMMA ArmDue ==
    ASSUME TypeOK, NEW e \in Event, NEW m \in Nat, Arm(e, m), usec' = usec
    PROVE  /\ alarm' \in [Event -> [sec : Int, usec : 0 .. USEC]]
           /\ status' \in [Event -> Status]
           /\ Due(e)' = (m * MSEC) % UIntMod
           /\ Due(e)' \in Nat
           /\ e \in things_to_do'
           /\ \A a \in Event \ {e} : /\ Due(a)' = Due(a)
                                     /\ status'[a] = status[a]
                                     /\ a \in things_to_do' <=> a \in things_to_do
  <1>1. /\ set_alarm(m) \in [sec : Int, usec : 0 .. USEC]
        /\ (m * MSEC) % UIntMod \in 0 .. UIntMod - 1
        /\ set_alarm(m).sec * USEC + set_alarm(m).usec - usec = (m * MSEC) % UIntMod
    BY SetAlarm DEF TypeOK
  <1>2. alarm'[e] = set_alarm(m) /\ \A a \in Event \ {e} : alarm'[a] = alarm[a]
    BY DEF Arm, TypeOK
  <1>3. status'[e] = "queued" /\ \A a \in Event \ {e} : status'[a] = status[a]
    BY DEF Arm, TypeOK
  <1>4. alarm' \in [Event -> [sec : Int, usec : 0 .. USEC]]
    BY <1>1 DEF Arm, TypeOK
  <1>5. status' \in [Event -> Status]
    BY DEF Arm, TypeOK, Status
  <1>6. Due(e)' = (m * MSEC) % UIntMod /\ Due(e)' \in Nat
    BY <1>1, <1>2, Units DEF Due
  <1>7. \A a \in Event \ {e} : Due(a)' = Due(a)
    BY <1>2 DEF Due
  <1> QED
    BY <1>3, <1>4, <1>5, <1>6, <1>7 DEF things_to_do

(* A tick brings every event in the queue a tick closer, also when the     *)
(* clock begins a new second.                                              *)
LEMMA TickDue ==
    ASSUME TypeOK, Tick
    PROVE  /\ usec' \in 0 .. USEC - 1
           /\ alarm' \in [Event -> [sec : Int, usec : 0 .. USEC]]
           /\ things_to_do' = things_to_do
           /\ \A e \in things_to_do : Due(e)' = Due(e) - 1
  <1>1. usec \in 0 .. USEC - 1 /\ usec' = (usec + 1) % USEC
    BY DEF TypeOK, Tick
  <1>2. things_to_do' = things_to_do /\ things_to_do \subseteq Event
    BY DEF Tick, things_to_do
  <1>3. ASSUME NEW e \in Event
        PROVE  /\ alarm[e] \in [sec : Int, usec : 0 .. USEC]
               /\ Due(e) \in Int
               /\ alarm[e].sec \in Int /\ alarm[e].usec \in 0 .. USEC
               /\ alarm[e].sec * USEC \in Int
    BY DueInt DEF TypeOK
  <1>4. CASE usec + 1 < USEC
    <2>1. usec' = usec + 1
      BY <1>1, <1>4, Units
    <2>2. alarm' = alarm
      BY <1>4 DEF Tick
    <2>3. \A e \in things_to_do : Due(e)' = Due(e) - 1
      BY <2>1, <2>2, <1>1, <1>2, <1>3, Units DEF Due
    <2> QED
      BY <1>1, <1>2, <1>4, <2>1, <2>2, <2>3, Units DEF TypeOK
  <1>5. CASE usec + 1 = USEC
    <2>1. usec' = 0
      BY <1>1, <1>5, Units
    <2>2. alarm' = [e \in Event |-> IF e \in things_to_do
                                    THEN [alarm[e] EXCEPT !.sec = @ - 1]
                                    ELSE alarm[e]]
      BY <1>1, <1>5, Units DEF Tick
    <2>3. alarm' \in [Event -> [sec : Int, usec : 0 .. USEC]]
      BY <2>2, <1>3
    <2>4. ASSUME NEW e \in things_to_do
          PROVE  Due(e)' = Due(e) - 1
      <3>1. alarm'[e].sec = alarm[e].sec - 1 /\ alarm'[e].usec = alarm[e].usec
        BY <1>2, <1>3, <2>2
      <3>2. (alarm[e].sec - 1) * USEC = alarm[e].sec * USEC - USEC
        BY <1>2, <1>3, Units
      <3> QED
        BY <1>1, <1>2, <1>3, <1>5, <2>1, <3>1, <3>2, Units DEF Due
    <2> QED
      BY <1>1, <1>2, <2>1, <2>3, <2>4, Units
  <1> QED
    BY <1>1, <1>4, <1>5, Units

----------------------------------------------------------------------------
(* Types *)

(* The initial state: only the root has an event. *)
LEMMA InitType == Init => TypeOK
  <1> SUFFICES ASSUME Init PROVE TypeOK
    OBVIOUS
  <1>1. usec \in 0 .. USEC - 1
    BY DEF Init
  <1>2. set_alarm(2) \in [sec : Int, usec : 0 .. USEC]
    BY <1>1, SetAlarm
  <1>3. Unset \in [sec : Int, usec : 0 .. USEC]
    BY Units DEF Unset
  <1>4. alarm \in [Event -> [sec : Int, usec : 0 .. USEC]]
    BY <1>2, <1>3 DEF Init
  <1>5. status \in [Event -> Status]
    BY DEF Init, Status
  <1>6. {signal_usr1, root, bestparent} \subseteq BOOLEAN
    BY Zenon DEF Init
  <1>7. /\ packets \in 0 .. MaxPackets /\ unplugged \in 0 .. MaxUnplug
        /\ left \in 0 .. MaxTimeout * MSEC /\ quiet \in 0 .. Interval * MSEC
        /\ pc = "serve" /\ fired = None
    BY Units, TimeAssumption DEF Init
  <1> QED
    BY <1>1, <1>4, <1>5, <1>6, <1>7 DEF TypeOK

(* Every step keeps the types. *)
LEMMA NextType ==
    ASSUME TypeOK, [Next]_vars
    PROVE  TypeOK'
  <1> USE DEF Wakeup, clockVars, bounds, nodeVars
  <1>0. /\ 2 \in Nat /\ repeat_msec \in Nat /\ "dio" \in Event /\ "dao" \in Event
        /\ None \notin Event
    BY Units DEF repeat_msec, Event, None
  <1>1. ASSUME NEW e \in Event, Serve(e) PROVE TypeOK'
    <2>1. /\ alarm' \in [Event -> [sec : Int, usec : 0 .. USEC]]
          /\ status' \in [Event -> Status]
      BY <1>0, <1>1, ArmDue DEF Serve
    <2>2. quiet' \in 0 .. Interval * MSEC
      BY <1>1, Units DEF Serve, TypeOK
    <2> QED
      BY <1>1, <2>1, <2>2 DEF Serve, TypeOK
  <1>2. CASE Poll
    <2>1. left' = Wait /\ Wait \in 1 .. MaxTimeout * MSEC
      BY <1>2, PollWait DEF Poll, Wait
    <2>2. left' \in 0 .. MaxTimeout * MSEC
      BY <2>1, Units
    <2> QED
      BY <1>2, <2>2 DEF Poll, TypeOK
  <1>3. CASE Tick
    <2>1. /\ usec' \in 0 .. USEC - 1
          /\ alarm' \in [Event -> [sec : Int, usec : 0 .. USEC]]
      BY <1>3, TickDue
    <2>2. left' \in 0 .. MaxTimeout * MSEC
      BY <1>3, Units DEF Tick, TypeOK
    <2>3. quiet' \in 0 .. Interval * MSEC
      BY <1>3, Units DEF Tick, TypeOK
    <2> QED
      BY <1>3, <2>1, <2>2, <2>3 DEF Tick, TypeOK
  <1>4. CASE PollTimeout
    BY <1>4 DEF PollTimeout, TypeOK
  <1>5. CASE ScheduleDio
    <2>1. /\ alarm' \in [Event -> [sec : Int, usec : 0 .. USEC]]
          /\ status' \in [Event -> Status]
      BY <1>0, <1>5, ArmDue DEF ScheduleDio
    <2>2. packets' \in 0 .. MaxPackets /\ quiet' \in 0 .. Interval * MSEC
      BY <1>5, Units, TimeAssumption DEF ScheduleDio, TypeOK
    <2> QED
      BY <1>5, <2>1, <2>2 DEF ScheduleDio, TypeOK
  <1>6. CASE ScheduleDao
    <2>1. /\ alarm' \in [Event -> [sec : Int, usec : 0 .. USEC]]
          /\ status' \in [Event -> Status]
      BY <1>0, <1>6, ArmDue DEF ScheduleDao
    <2>2. packets' \in 0 .. MaxPackets
      BY <1>6, TimeAssumption DEF ScheduleDao, TypeOK
    <2>3. {signal_usr1, root, bestparent}' \subseteq BOOLEAN
      BY <1>6, Zenon DEF ScheduleDao, TypeOK
    <2> QED
      BY <1>6, <2>1, <2>2, <2>3 DEF ScheduleDao, TypeOK
  <1>7. CASE Unplug
    <2>1. alarm' \in [Event -> [sec : Int, usec : 0 .. USEC]]
      BY <1>7, Units DEF Unplug, Unset
    <2>2. status' \in [Event -> Status]
      BY <1>7 DEF Unplug, Deleted, TypeOK, Status
    <2>3. unplugged' \in 0 .. MaxUnplug
      BY <1>7, TimeAssumption DEF Unplug, TypeOK
    <2> QED
      BY <1>7, <2>1, <2>2, <2>3 DEF Unplug, TypeOK
  <1>8. CASE UseAfterFree
    BY <1>8 DEF UseAfterFree, TypeOK
  <1>9. CASE Signal
    <2>1. packets' \in 0 .. MaxPackets
      BY <1>9, TimeAssumption DEF Signal, TypeOK
    <2>2. {signal_usr1, root, bestparent}' \subseteq BOOLEAN
      BY <1>9, Zenon DEF Signal, TypeOK
    <2> QED
      BY <1>9, <2>1, <2>2 DEF Signal, TypeOK
  <1>10. CASE Signals
    <2>1. /\ alarm' \in [Event -> [sec : Int, usec : 0 .. USEC]]
          /\ status' \in [Event -> Status]
      <3>1. CASE signal_usr1 /\ bestparent
        BY <1>0, <1>10, <3>1, ArmDue DEF Signals
      <3>2. CASE ~(signal_usr1 /\ bestparent)
        BY <1>10, <3>2 DEF Signals, TypeOK
      <3> QED BY <3>1, <3>2
    <2>2. {signal_usr1, root, bestparent}' \subseteq BOOLEAN
      BY <1>10, Zenon DEF Signals, TypeOK
    <2> QED
      BY <1>10, <2>1, <2>2 DEF Signals, TypeOK
  <1>11. CASE UNCHANGED vars
    BY <1>11 DEF vars, TypeOK
  <1> QED
    BY <1>1, <1>2, <1>3, <1>4, <1>5, <1>6, <1>7, <1>8, <1>9, <1>10, <1>11 DEF Next

(* The times of the loop stay in range whatever the interval: set_alarm    *)
(* never leaves more than a second in tv_usec, and poll is never called    *)
(* with a negative timeout or one above a minute.                          *)
THEOREM TypeCorrect == Spec => []TypeOK
  <1>1. Init => TypeOK
    BY InitType
  <1>2. TypeOK /\ [Next]_vars => TypeOK'
    BY NextType
  <1> QED
    BY <1>1, <1>2, PTL DEF Spec

----------------------------------------------------------------------------
(* Timely is not inductive by itself: within a poll nothing looks at the   *)
(* queue, so what has to be known is how late an event will be when the    *)
(* poll has used up its timeout.                                           *)

(* The ticks that pass before main_loop looks at the queue again. *)
Ahead == IF pc = "poll" THEN left ELSE 0

LoopInv ==
    /\ TypeOK
    /\ \A e \in things_to_do : Due(e) - Ahead > -MSEC

(* The part of LoopInv that is about time. *)
LEMMA LoopArm ==
    ASSUME LoopInv, NEW e \in Event, NEW m \in Nat, Arm(e, m), usec' = usec,
           pc' # "poll"
    PROVE  \A a \in things_to_do' : Due(a)' - Ahead' > -MSEC
  <1>1. /\ Due(e)' \in Nat
        /\ \A a \in Event \ {e} : /\ Due(a)' = Due(a)
                                  /\ a \in things_to_do' <=> a \in things_to_do
    BY ArmDue DEF LoopInv
  <1>2. Ahead' = 0 /\ Ahead \in Nat
    BY DEF Ahead, LoopInv, TypeOK
  <1>3. things_to_do' \subseteq Event
    BY DEF things_to_do
  <1>4. \A a \in Event : Due(a) \in Int
    BY DueInt DEF LoopInv
  <1>5. ASSUME NEW a \in things_to_do'
        PROVE  Due(a)' - Ahead' > -MSEC
    <2>1. CASE a = e
      BY <1>1, <1>2, <2>1, Units
    <2>2. CASE a # e
      <3>1. a \in Event /\ a \in things_to_do /\ Due(a)' = Due(a)
        BY <1>1, <1>3, <1>5, <2>2
      <3>2. Due(a) - Ahead > -MSEC /\ Due(a) \in Int
        BY <3>1, <1>4 DEF LoopInv
      <3> QED
        BY <3>1, <3>2, <1>2, Units
    <2> QED BY <2>1, <2>2
  <1> QED BY <1>5

(* A step that leaves clock and queue alone, or empties the queue, and     *)
(* does not begin a poll.                                                  *)
LEMMA LoopFrame ==
    ASSUME LoopInv, usec' = usec, pc' = "poll" => pc = "poll" /\ left' = left,
           \A a \in things_to_do' : a \in things_to_do /\ alarm'[a] = alarm[a]
    PROVE  \A a \in things_to_do' : Due(a)' - Ahead' > -MSEC
  <1>1. Ahead \in Nat /\ Ahead' \in Nat /\ Ahead' <= Ahead
    BY DEF Ahead, LoopInv, TypeOK
  <1>2. ASSUME NEW a \in things_to_do'
        PROVE  Due(a)' - Ahead' > -MSEC
    <2>1. a \in Event /\ a \in things_to_do /\ Due(a)' = Due(a)
      BY <1>2 DEF things_to_do, Due
    <2>2. Due(a) - Ahead > -MSEC /\ Due(a) \in Int
      BY <2>1, DueInt DEF LoopInv
    <2> QED
      BY <1>1, <2>1, <2>2, Units
  <1> QED BY <1>2

(* Every step keeps LoopInv. *)
LEMMA NextLoop ==
    ASSUME LoopInv, [Next]_vars
    PROVE  LoopInv'
  <1> USE DEF Wakeup, clockVars, bounds, nodeVars
  <1>0. /\ 2 \in Nat /\ repeat_msec \in Nat /\ "dio" \in Event /\ "dao" \in Event
    BY Units DEF repeat_msec, Event
  <1>t. TypeOK'
    BY NextType DEF LoopInv
  <1>s. SUFFICES \A a \in things_to_do' : Due(a)' - Ahead' > -MSEC
    BY <1>t DEF LoopInv
  <1>1. ASSUME NEW e \in Event, Serve(e)
        PROVE  \A a \in things_to_do' : Due(a)' - Ahead' > -MSEC
    BY <1>0, <1>1, LoopArm DEF Serve
  <1>2. CASE Poll
    <2>1. /\ Ahead' = Wait
          /\ \A e \in things_to_do : Due(e) - Wait > -MSEC
      BY <1>2, PollWait DEF Poll, Wait, Ahead, LoopInv
    <2>2. things_to_do' = things_to_do /\ \A e \in Event : Due(e)' = Due(e)
      BY <1>2 DEF Poll, things_to_do, Due
    <2>3. things_to_do \subseteq Event
      BY DEF things_to_do
    <2> QED
      BY <2>1, <2>2, <2>3
  <1>3. CASE Tick
    <2>1. things_to_do' = things_to_do /\ \A e \in things_to_do : Due(e)' = Due(e) - 1
      BY <1>3, TickDue DEF LoopInv
    <2>2. Ahead' = Ahead - 1 /\ Ahead \in Int
      BY <1>3 DEF Tick, Ahead, LoopInv, TypeOK
    <2>3. \A e \in things_to_do : Due(e) \in Int /\ Due(e) - Ahead > -MSEC
      BY DueInt DEF LoopInv, things_to_do
    <2> QED
      BY <2>1, <2>2, <2>3, Units
  <1>4. CASE PollTimeout
    BY <1>4, LoopFrame DEF PollTimeout, things_to_do
  <1>5. CASE ScheduleDio
    BY <1>0, <1>5, LoopArm DEF ScheduleDio
  <1>6. CASE ScheduleDao
    BY <1>0, <1>6, LoopArm DEF ScheduleDao
  <1>7. CASE Unplug
    <2>1. things_to_do' = {}
      BY <1>7 DEF Unplug, things_to_do, Deleted
    <2> QED
      BY <2>1
  <1>8. CASE UseAfterFree
    BY <1>8, LoopFrame DEF UseAfterFree, things_to_do
  <1>9. CASE Signal
    BY <1>9, LoopFrame DEF Signal, things_to_do
  <1>10. CASE Signals
    <2>1. CASE signal_usr1 /\ bestparent
      BY <1>0, <1>10, <2>1, LoopArm DEF Signals
    <2>2. CASE ~(signal_usr1 /\ bestparent)
      BY <1>10, <2>2, LoopFrame DEF Signals, things_to_do
    <2> QED BY <2>1, <2>2
  <1>11. CASE UNCHANGED vars
    BY <1>11, LoopFrame DEF vars, things_to_do
  <1> QED
    BY <1>1, <1>2, <1>3, <1>4, <1>5, <1>6, <1>7, <1>8, <1>9, <1>10, <1>11 DEF Next

(* The first DIO of the root is not late. *)
LEMMA InitLoop == Init => LoopInv
  <1> SUFFICES ASSUME Init PROVE LoopInv
    OBVIOUS
  <1>1. TypeOK
    BY InitType
  <1>2. ASSUME NEW e \in things_to_do
        PROVE  Due(e) - Ahead > -MSEC
    <2>1. e = "dio" /\ root /\ e \in Event
      BY <1>2 DEF Init, things_to_do, Event
    <2>2. alarm[e] = set_alarm(2) /\ Ahead = 0
      BY <2>1 DEF Init, Ahead
    <2>3. Due(e) \in Nat
      <3>1. usec \in 0 .. USEC - 1
        BY <1>1 DEF TypeOK
      <3>2. /\ (2 * MSEC) % UIntMod \in 0 .. UIntMod - 1
            /\ set_alarm(2).sec * USEC + set_alarm(2).usec - usec = (2 * MSEC) % UIntMod
        BY <3>1, SetAlarm
      <3>3. Due(e) = (2 * MSEC) % UIntMod
        BY <2>2, <3>2 DEF Due
      <3> QED
        BY <3>2, <3>3, Units
    <2> QED
      BY <2>2, <2>3, Units
  <1> QED
    BY <1>1, <1>2 DEF LoopInv

(* LoopInv is an invariant. *)
THEOREM LoopInvariant == Spec => []LoopInv
  <1>1. LoopInv /\ [Next]_vars => LoopInv'
    BY NextLoop
  <1> QED
    BY InitLoop, <1>1, PTL DEF Spec

(* main_loop never invokes an event a millisecond late, for every interval,*)
(* every clock rate and any number of packets, signals and interfaces that *)
(* disappear: rounding to milliseconds, the carry of set_alarm, the order  *)
(* of the queue and the bound of a minute on the poll never add up.        *)
THEOREM NeverLate == Spec => []Timely
  <1>1. LoopInv => Timely
    <2> SUFFICES ASSUME LoopInv, NEW e \in things_to_do PROVE Due(e) > -MSEC
      BY DEF Timely
    <2>1. Due(e) \in Int /\ Due(e) - Ahead > -MSEC
      BY DueInt DEF LoopInv, things_to_do
    <2>2. Ahead \in Nat
      BY DEF Ahead, LoopInv, TypeOK
    <2> QED
      BY <2>1, <2>2, Units
  <1> QED
    BY LoopInvariant, <1>1, PTL

----------------------------------------------------------------------------
(* The interval between two DIOs.  set_alarm multiplies in an unsigned     *)
(* int, so an interval of 2^32 ticks and more comes out shorter: the       *)
(* theorem is about the intervals that do not wrap.                        *)

(* A DIO in the queue waits for what is missing of the interval, unless    *)
(* schedule_dio asked for it.                                              *)
QuietInv ==
    /\ TypeOK
    /\ status["dio"] = "queued" => \/ quiet = Interval * MSEC
                                   \/ Due("dio") + quiet >= Interval * MSEC

(* Every step keeps QuietInv. *)
LEMMA NextQuiet ==
    ASSUME Interval * MSEC < UIntMod, QuietInv, [Next]_vars
    PROVE  QuietInv'
  <1> USE DEF Wakeup, clockVars, bounds, nodeVars
  <1> DEFINE Waits == status["dio"] = "queued" =>
                        \/ quiet = Interval * MSEC
                        \/ Due("dio") + quiet >= Interval * MSEC
  <1>0. /\ 2 \in Nat /\ repeat_msec \in Nat /\ "dio" \in Event /\ "dao" \in Event
        /\ "dio" # "dao" /\ "dio" \in Event \ {"dao"}
    BY Units DEF repeat_msec, Event
  <1>t. TypeOK /\ TypeOK' /\ Waits
    BY NextType DEF QuietInv
  <1>d. Due("dio") \in Int /\ quiet \in Nat /\ quiet <= Interval * MSEC
    BY <1>0, <1>t, DueInt, Units DEF TypeOK
  <1>s. SUFFICES Waits'
    BY <1>t DEF QuietInv
  <1>k. ASSUME status'["dio"] = status["dio"], alarm'["dio"] = alarm["dio"],
               usec' = usec, quiet' = quiet
        PROVE  Waits'
    BY <1>k, <1>t DEF Due
  <1>r. ASSUME NEW m \in Nat, Arm("dao", m), usec' = usec, quiet' = quiet
        PROVE  Waits'
    <2>1. Due("dio")' = Due("dio") /\ status'["dio"] = status["dio"]
      BY <1>0, <1>r, <1>t, ArmDue
    <2> QED
      BY <1>r, <1>t, <2>1
  <1>1. ASSUME NEW e \in Event, Serve(e) PROVE Waits'
    <2>1. CASE e = "dio"
      <3>1. Due("dio")' = (repeat_msec * MSEC) % UIntMod
        BY <1>0, <1>1, <1>t, <2>1, ArmDue DEF Serve
      <3>2. (Interval * MSEC) % UIntMod = Interval * MSEC
        BY Units
      <3>3. quiet' = 0
        BY <1>1, <2>1 DEF Serve
      <3> QED
        BY <3>1, <3>2, <3>3, Units DEF repeat_msec
    <2>2. CASE e = "dao"
      BY <1>0, <1>1, <1>r, <2>2 DEF Serve
    <2> QED
      BY <2>1, <2>2 DEF Event
  <1>2. CASE Poll
    BY <1>2, <1>k DEF Poll
  <1>3. CASE Tick
    <2>1. status' = status
      BY <1>3 DEF Tick
    <2>2. CASE status["dio"] = "queued"
      <3>1. Due("dio")' = Due("dio") - 1
        BY <1>0, <1>3, <1>t, <2>2, TickDue DEF things_to_do
      <3>2. quiet' = IF quiet < Interval * MSEC THEN quiet + 1 ELSE quiet
        BY <1>3 DEF Tick
      <3> QED
        BY <1>d, <1>t, <2>1, <2>2, <3>1, <3>2, Units
    <2>3. CASE status["dio"] # "queued"
      BY <2>1, <2>3
    <2> QED BY <2>2, <2>3
  <1>4. CASE PollTimeout
    BY <1>4, <1>k DEF PollTimeout
  <1>5. CASE ScheduleDio
    BY <1>5 DEF ScheduleDio
  <1>6. CASE ScheduleDao
    BY <1>0, <1>6, <1>r DEF ScheduleDao
  <1>7. CASE Unplug
    BY <1>0, <1>7 DEF Unplug, Deleted
  <1>8. CASE UseAfterFree
    BY <1>8, <1>k DEF UseAfterFree
  <1>9. CASE Signal
    BY <1>9, <1>k DEF Signal
  <1>10. CASE Signals
    <2>1. CASE signal_usr1 /\ bestparent
      BY <1>0, <1>10, <2>1, <1>r DEF Signals
    <2>2. CASE ~(signal_usr1 /\ bestparent)
      BY <1>10, <2>2, <1>k DEF Signals
    <2> QED BY <2>1, <2>2
  <1>11. CASE UNCHANGED vars
    BY <1>11, <1>k DEF vars
  <1> QED
    BY <1>1, <1>2, <1>3, <1>4, <1>5, <1>6, <1>7, <1>8, <1>9, <1>10, <1>11 DEF Next

(* Two DIOs are an interval apart unless schedule_dio comes between them,  *)
(* whatever the DAO event, packets, signals and the poll do, for every     *)
(* interval whose microseconds fit an unsigned int.                        *)
THEOREM DioIntervals ==
    ASSUME Interval * MSEC < UIntMod
    PROVE  Spec => IntervalKept
  <1>1. Init => QuietInv
    BY InitType DEF Init, QuietInv
  <1>2. QuietInv /\ [Next]_vars => QuietInv'
    BY NextQuiet
  <1>3. QuietInv /\ [Next]_vars => [Serve("dio") => quiet = Interval * MSEC]_vars
    <2> SUFFICES ASSUME QuietInv, Serve("dio")
                 PROVE  quiet = Interval * MSEC
      BY DEF QuietInv
    <2>1. "dio" \in Event /\ TypeOK
      BY DEF Event, QuietInv
    <2>2. Due("dio") <= 0 /\ Due("dio") \in Int
      BY <2>1, PassedDue, DueInt DEF Serve
    <2>3. status["dio"] = "queued"
      BY DEF Serve, Tops, things_to_do
    <2>4. quiet \in 0 .. Interval * MSEC
      BY <2>1 DEF TypeOK
    <2> QED
      BY <2>2, <2>3, <2>4, Units DEF QuietInv
  <1> QED
    BY <1>1, <1>2, <1>3, PTL DEF Spec, IntervalKept
=============================================================================
