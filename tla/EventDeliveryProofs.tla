------------------------ MODULE EventDeliveryProofs ------------------------
(***************************************************************************)
(* Proofs about EventDelivery, for any set of configurations, any number   *)
(* of attempts, and any number of requests and faults.                     *)
(***************************************************************************)
EXTENDS EventDelivery, DataFacts, FiniteSetTheorems

LEMMA OrderFacts ==
    /\ Len(Order) = 7 /\ DOMAIN Order = 1 .. 7
    /\ Order[1] = "websocket" /\ Order[2] = "rabbitmq" /\ Order[3] = "nats"
    /\ Order[4] = "sqs" /\ Order[5] = "webhook" /\ Order[6] = "pusher"
    /\ Order[7] = "kafka"
  BY DEF Order

(* The emission of an event goes to a later controller that is on and      *)
(* wants the event, and skips none of these.                               *)
LEMMA AfterFacts ==
    ASSUME NEW e, NEW i \in 0 .. 7
    PROVE  /\ After(e, i) \in i + 1 .. 8
           /\ After(e, i) # 8 => /\ On(Order[After(e, i)])
                                 /\ Wants(e, Order[After(e, i)])
           /\ \A j \in i + 1 .. 7 :
                On(Order[j]) /\ Wants(e, Order[j]) => After(e, i) <= j
  <1> DEFINE later == {j \in i + 1 .. Len(Order) : On(Order[j]) /\ Wants(e, Order[j])}
  <1>1. After(e, i) = IF later = {} THEN 8 ELSE CHOOSE j \in later : \A k \in later : j <= k
    BY OrderFacts DEF After
  <1>2. later \subseteq i + 1 .. 7
    BY OrderFacts
  <1>3. CASE later = {}
    BY <1>1, <1>3, OrderFacts
  <1>4. CASE later # {}
    <2>1. \E j \in later : \A k \in later : j <= k
      BY <1>2, <1>4, LeastExists
    <2>2. After(e, i) \in later /\ \A k \in later : After(e, i) <= k
      BY <1>1, <1>4, <2>1
    <2> QED
      BY <1>2, <2>2, OrderFacts
  <1> QED
    BY <1>3, <1>4

(* The name of a new connection is free. *)
LEMMA NewIdFacts ==
    ASSUME NEW S, IsFiniteSet(S)
    PROVE  NewId(S) \in Nat \ {0} /\ NewId(S) \notin S
  <1>1. Cardinality(S) \in Nat
    BY FS_CardinalityType
  <1>2. \E n \in 1 .. Cardinality(S) + 1 : n \notin S
    <2> SUFFICES ASSUME 1 .. Cardinality(S) + 1 \subseteq S PROVE FALSE
      OBVIOUS
    <2>1. Cardinality(1 .. Cardinality(S) + 1) = Cardinality(S) + 1
      BY <1>1, FS_Interval
    <2>2. Cardinality(1 .. Cardinality(S) + 1) <= Cardinality(S)
      BY FS_Subset
    <2> QED
      BY <1>1, <2>1, <2>2
  <1> QED
    BY <1>1, <1>2 DEF NewId
-----------------------------------------------------------------------------
(* An emission is before the first controller, at one that is on and wants *)
(* the event, or past the last; the flag that the QR code is gone is set   *)
(* past Pusher only.                                                       *)
EmissionAt(e, m) ==
    /\ DOMAIN m = {"at", "step", "tries", "bare", "thrown", "failed"}
    /\ m.at \in 0 .. 8 /\ m.tries \in Nat /\ m.bare \in BOOLEAN /\ m.thrown \in BOOLEAN
    /\ m.failed \in BOOLEAN /\ (m.failed => m.at = 8)
    /\ m.at \in 1 .. 7 => On(Order[m.at]) /\ Wants(e, Order[m.at])
    /\ m.bare => m.at > 6
    /\ m.at = 0 => m.step = "enter" /\ m.tries = 0

EmissionInv ==
    /\ DOMAIN emission = Kinds
    /\ \A e \in Kinds : EmissionAt(e, emission[e])
    /\ DOMAIN count = {"sets", "faults"} /\ count.faults \in Nat

(* What a step does to the emission of e: nothing, *)
Rests(e) == emission'[e] = emission[e]

(* its start,                                      *)
Begins(e) ==
    /\ emission[e].at = 0
    /\ emission'[e] = [emission[e] EXCEPT !.at = After(e, 0)]
    /\ EmissionAt(e, emission'[e])
    /\ \/ "early" \in config
       \/ ~(rabbit.first \/ kafka.first \/ nats = "dialing")

(* a step inside a controller that is not NATS,    *)
Stays(e) ==
    /\ emission[e].at \in {2, 5, 7} /\ emission'[e].at = emission[e].at
    /\ emission'[e].thrown = emission[e].thrown /\ emission'[e].failed = emission[e].failed
    /\ emission'[e].bare = emission[e].bare
    /\ EmissionAt(e, emission'[e])

(* the call of the next controller,                *)
Returns(e) ==
    /\ emission[e].at \in 1 .. 7 /\ emission'[e].at = After(e, emission[e].at)
    /\ emission'[e].thrown = emission[e].thrown /\ emission'[e].failed = emission[e].failed
    /\ emission[e].at = 3 => Nats(e)
    /\ emission[e].at <= 5 => emission'[e].step = "enter" /\ emission'[e].tries = 0
    /\ EmissionAt(e, emission'[e])

(* or its end at a controller that rejects.        *)
Excused(e) == (e = "limit" /\ On("pusher")) \/ ("badKey" \in config /\ Wants(e, "webhook"))

Throws(e) ==
    /\ emission[e].at \in 1 .. 7 /\ emission'[e].at = 8 /\ emission'[e].thrown = TRUE
    /\ EmissionAt(e, emission'[e])
    /\ ~emission'[e].failed => emission[e].at \in {5, 6} /\ Excused(e)

Moves(e) == Begins(e) \/ Stays(e) \/ Returns(e) \/ Throws(e)

LEMMA MoveFacts ==
    ASSUME EmissionInv, NEW e \in Kinds, NEW new, Move(e, new)
    PROVE  /\ DOMAIN emission' = Kinds /\ emission'[e] = new
           /\ \A k \in Kinds \ {e} : Rests(k)
  BY DEF EmissionInv, Move, Rests

LEMMA AtFacts ==
    ASSUME EmissionInv, NEW e \in Kinds, NEW s, NEW step, At(e, s, step)
    PROVE  /\ emission[e].at \in 1 .. 7 /\ Order[emission[e].at] = s
           /\ emission[e].step = step
           /\ s = "websocket" <=> emission[e].at = 1
           /\ s = "rabbitmq" <=> emission[e].at = 2
           /\ s = "nats" <=> emission[e].at = 3
           /\ s = "sqs" <=> emission[e].at = 4
           /\ s = "webhook" <=> emission[e].at = 5
           /\ s = "pusher" <=> emission[e].at = 6
           /\ s = "kafka" <=> emission[e].at = 7
  BY OrderFacts DEF EmissionInv, EmissionAt, At, Ended

LEMMA ReturnFacts ==
    ASSUME EmissionInv, UNCHANGED config, NEW e \in Kinds, emission[e].at \in 1 .. 7, Return(e),
           emission[e].at = 3 => Nats(e)
    PROVE  Returns(e)
  <1> DEFINE m == emission[e]
             a == After(e, m.at)
             new == [m EXCEPT !.at = a, !.step = "enter", !.tries = 0]
  <1>1. EmissionAt(e, m)
    BY DEF EmissionInv
  <1>2. emission'[e] = new
    BY MoveFacts DEF Return
  <1>3. /\ a \in m.at + 1 .. 8
        /\ a # 8 => On(Order[a]) /\ Wants(e, Order[a])
    BY AfterFacts
  <1> HIDE DEF a
  <1>4. /\ new.at = a /\ new.step = "enter" /\ new.tries = 0
        /\ new.bare = m.bare /\ new.thrown = m.thrown /\ new.failed = m.failed
        /\ DOMAIN new = DOMAIN m
    BY <1>1 DEF EmissionAt
  <1>5. EmissionAt(e, new)
    BY <1>1, <1>3, <1>4 DEF EmissionAt
  <1> QED
    BY <1>1, <1>2, <1>4, <1>5 DEF Returns, a

LEMMA ThrowFacts ==
    ASSUME EmissionInv, NEW e \in Kinds, emission[e].at \in 1 .. 7,
           NEW failed \in BOOLEAN, Throw(e, failed),
           ~failed => emission[e].at \in {5, 6} /\ Excused(e)
    PROVE  Throws(e)
  <1> DEFINE m == emission[e]
             new == [m EXCEPT !.at = Len(Order) + 1, !.thrown = TRUE, !.failed = failed]
  <1>1. EmissionAt(e, m)
    BY DEF EmissionInv
  <1>2. emission'[e] = new
    BY MoveFacts DEF Throw
  <1>3. /\ new.at = 8 /\ new.thrown = TRUE /\ new.failed = failed /\ new.step = m.step
        /\ new.bare = m.bare /\ new.tries = m.tries
        /\ DOMAIN new = DOMAIN m
    BY <1>1, OrderFacts DEF EmissionAt
  <1>4. EmissionAt(e, new)
    BY <1>1, <1>3 DEF EmissionAt
  <1> QED
    BY <1>1, <1>2, <1>3, <1>4 DEF Throws

(* A step inside a controller sets the step, and the tries or not. *)
LEMMA StayFacts ==
    ASSUME EmissionInv, NEW e \in Kinds, emission[e].at \in {2, 5, 7}, NEW s,
           NEW tries \in Nat,
           \/ Move(e, [emission[e] EXCEPT !.step = s])
           \/ Move(e, [emission[e] EXCEPT !.tries = tries])
           \/ Move(e, [emission[e] EXCEPT !.step = s, !.tries = tries])
    PROVE  Stays(e)
  <1> DEFINE m == emission[e]
  <1>1. EmissionAt(e, m)
    BY DEF EmissionInv
  <1>2. PICK new \in {[m EXCEPT !.step = s], [m EXCEPT !.tries = tries],
                      [m EXCEPT !.step = s, !.tries = tries]} : Move(e, new)
    OBVIOUS
  <1>3. emission'[e] = new
    BY <1>2, MoveFacts
  <1>4. /\ new.at = m.at /\ new.thrown = m.thrown /\ new.failed = m.failed /\ new.bare = m.bare
        /\ new.tries \in Nat /\ DOMAIN new = DOMAIN m
    BY <1>1, <1>2 DEF EmissionAt
  <1>5. EmissionAt(e, new)
    BY <1>1, <1>4 DEF EmissionAt
  <1> QED
    BY <1>3, <1>4, <1>5 DEF Stays

LEMMA FaultFacts ==
    ASSUME EmissionInv, Fault
    PROVE  DOMAIN count' = {"sets", "faults"} /\ count'.faults \in Nat
  BY DEF EmissionInv, Fault

LEMMA BeginMoves == ASSUME EmissionInv, NEW e \in Kinds, Begin(e) PROVE Begins(e)
  <1> DEFINE m == emission[e]
             new == [m EXCEPT !.at = After(e, 0)]
  <1>1. EmissionAt(e, m) /\ m.at = 0
    BY DEF EmissionInv, Begin
  <1>2. emission'[e] = new /\ UNCHANGED config
    BY MoveFacts DEF Begin
  <1>3. /\ After(e, 0) \in 1 .. 8
        /\ After(e, 0) # 8 => On(Order[After(e, 0)]) /\ Wants(e, Order[After(e, 0)])
    BY AfterFacts
  <1>4. /\ new.at = After(e, 0) /\ new.tries = m.tries
        /\ new.bare = m.bare /\ new.thrown = m.thrown /\ new.failed = m.failed
        /\ DOMAIN new = DOMAIN m
    BY <1>1 DEF EmissionAt
  <1>5. EmissionAt(e, new)
    BY <1>1, <1>3, <1>4 DEF EmissionAt
  <1> QED
    BY <1>1, <1>2, <1>5 DEF Begins, Begin

LEMMA PusherMoves == ASSUME EmissionInv, NEW e \in Kinds, Pusher(e) PROVE Returns(e) \/ Throws(e)
  <1> DEFINE m == emission[e]
             now == [m EXCEPT !.bare = e = "qrcode"]
             new == [now EXCEPT !.at = After(e, m.at)]
  <1>1. EmissionAt(e, m) /\ m.at = 6 /\ UNCHANGED config
    BY AtFacts DEF EmissionInv, Pusher
  <1>2. CASE e = "limit"
    <2>1. Throw(e, FALSE)
      BY <1>2, Zenon DEF Pusher
    <2>2. On("pusher")
      BY <1>1, OrderFacts DEF EmissionAt
    <2>3. Excused(e)
      BY <1>2, <2>2 DEF Excused
    <2>4. emission[e].at \in 1 .. 7 /\ emission[e].at \in {5, 6} /\ FALSE \in BOOLEAN
      BY <1>1
    <2> QED
      BY <2>1, <2>3, <2>4, ThrowFacts, Zenon
  <1>3. CASE e # "limit"
    <2>1. now.at = m.at /\ DOMAIN now = DOMAIN m /\ now.bare = (e = "qrcode")
      BY <1>1 DEF EmissionAt
    <2>2. Move(e, [now EXCEPT !.at = After(e, now.at)])
      BY <1>3 DEF Pusher
    <2>3. emission'[e] = new
      BY <2>1, <2>2, MoveFacts
    <2>4. /\ After(e, 6) \in 7 .. 8
          /\ After(e, 6) # 8 => On(Order[After(e, 6)]) /\ Wants(e, Order[After(e, 6)])
      BY AfterFacts
    <2>5. /\ new.at = After(e, 6) /\ new.tries = m.tries
          /\ new.bare \in BOOLEAN /\ new.thrown = m.thrown /\ new.failed = m.failed
          /\ DOMAIN new = DOMAIN m
      BY <1>1, <2>1 DEF EmissionAt
    <2>6. EmissionAt(e, new)
      BY <1>1, <2>4, <2>5 DEF EmissionAt
    <2> QED
      BY <1>1, <2>3, <2>5, <2>6 DEF Returns
  <1> QED
    BY <1>2, <1>3

LEMMA RabbitMoves ==
    ASSUME EmissionInv, NEW e \in Kinds, RabbitEnter(e) \/ RabbitPublish(e)
    PROVE  Stays(e) \/ Returns(e)
  <1>1. emission[e].at = 2 /\ UNCHANGED config
    BY AtFacts DEF RabbitEnter, RabbitPublish
  <1>2. CASE Return(e)
    BY <1>1, <1>2, ReturnFacts
  <1>3. CASE Move(e, [emission[e] EXCEPT !.step = "read"])
    BY <1>1, <1>3, StayFacts, 0 \in Nat
  <1> QED
    BY <1>2, <1>3 DEF RabbitEnter, RabbitPublish

LEMMA KafkaMoves ==
    ASSUME EmissionInv, NEW e \in Kinds,
           \/ KafkaEnter(e) \/ KafkaRead(e) \/ KafkaGlobal(e)
           \/ \E t \in Targets : KafkaSent(e, t) \/ KafkaSendFails(e, t)
    PROVE  Stays(e) \/ Returns(e)
  <1>1. emission[e].at = 7 /\ UNCHANGED config
    BY AtFacts DEF KafkaEnter, KafkaRead, KafkaGlobal, KafkaSent, KafkaSendFails
  <1>2. emission[e].tries + 1 \in Nat
    BY DEF EmissionInv, EmissionAt
  <1>3. \/ Return(e)
        \/ Move(e, [emission[e] EXCEPT !.tries = emission[e].tries + 1])
        \/ \E s : \/ Move(e, [emission[e] EXCEPT !.step = s])
                  \/ Move(e, [emission[e] EXCEPT !.step = s, !.tries = 0])
    BY DEF KafkaEnter, KafkaRead, KafkaGlobal, KafkaSent, KafkaSendFails
  <1>4. CASE Return(e)
    BY <1>1, <1>4, ReturnFacts
  <1>5. CASE Move(e, [emission[e] EXCEPT !.tries = emission[e].tries + 1])
    BY <1>1, <1>2, <1>5, StayFacts
  <1>6. ASSUME NEW s, Move(e, [emission[e] EXCEPT !.step = s])
        PROVE  Stays(e)
    BY <1>1, <1>6, StayFacts, 0 \in Nat
  <1>7. ASSUME NEW s, Move(e, [emission[e] EXCEPT !.step = s, !.tries = 0])
        PROVE  Stays(e)
    BY <1>1, <1>7, StayFacts, 0 \in Nat
  <1> QED
    BY <1>3, <1>4, <1>5, <1>6, <1>7

LEMMA WebhookMoves ==
    ASSUME EmissionInv, NEW e \in Kinds,
           WebhookEnter(e) \/ WebhookGlobal(e) \/ \E t \in Targets : Post(e, t)
    PROVE  Stays(e) \/ Returns(e) \/ Throws(e)
  <1>1. emission[e].at = 5 /\ UNCHANGED config
    BY AtFacts DEF WebhookEnter, WebhookGlobal, Post
  <1>2. emission[e].tries + 1 \in Nat
    BY DEF EmissionInv, EmissionAt
  <1>3. \/ Return(e)
        \/ Throw(e, FALSE) /\ "badKey" \in config
        \/ Move(e, [emission[e] EXCEPT !.tries = emission[e].tries + 1])
        \/ \E s : \/ Move(e, [emission[e] EXCEPT !.step = s])
                  \/ Move(e, [emission[e] EXCEPT !.step = s, !.tries = 0])
    BY DEF WebhookEnter, WebhookGlobal, Post, Posted
  <1>4. CASE Return(e)
    BY <1>1, <1>4, ReturnFacts
  <1>5. CASE Move(e, [emission[e] EXCEPT !.tries = emission[e].tries + 1])
    BY <1>1, <1>2, <1>5, StayFacts
  <1>6. ASSUME NEW s, Move(e, [emission[e] EXCEPT !.step = s])
        PROVE  Stays(e)
    BY <1>1, <1>6, StayFacts, 0 \in Nat
  <1>7. ASSUME NEW s, Move(e, [emission[e] EXCEPT !.step = s, !.tries = 0])
        PROVE  Stays(e)
    BY <1>1, <1>7, StayFacts, 0 \in Nat
  <1>8. CASE Throw(e, FALSE) /\ "badKey" \in config
    <2>1. Wants(e, "webhook")
      BY <1>1, OrderFacts DEF EmissionInv, EmissionAt
    <2>2. Excused(e)
      BY <1>8, <2>1 DEF Excused
    <2>3. emission[e].at \in 1 .. 7 /\ emission[e].at \in {5, 6} /\ FALSE \in BOOLEAN
      BY <1>1
    <2> QED
      BY <1>8, <2>2, <2>3, ThrowFacts, Zenon
  <1> QED
    BY <1>3, <1>4, <1>5, <1>6, <1>7, <1>8

LEMMA EmissionStepMoves ==
    ASSUME EmissionInv, NEW e \in Kinds, EmissionStep(e) \/ Begin(e)
    PROVE  /\ UNCHANGED <<config, rows, client, nats>>
           /\ Moves(e) /\ \A k \in Kinds \ {e} : Rests(k)
           /\ DOMAIN emission' = Kinds
           /\ DOMAIN count' = {"sets", "faults"}
           /\ count'.faults \in Nat /\ count'.faults >= count.faults
  <1>1. UNCHANGED <<config, rows, client, nats>>
    BY DEF EmissionStep, Begin, links, Websocket, Nats, Sqs, Pusher, ReadFails, RabbitEnter,
           RabbitPublish, WebhookEnter, WebhookGlobal, KafkaEnter, KafkaRead, KafkaGlobal,
           Post, KafkaSent, KafkaSendFails
  <1>2. \E new : Move(e, new)
    BY DEF EmissionStep, Begin, Websocket, Nats, Sqs, Pusher, ReadFails, RabbitEnter,
           RabbitPublish, WebhookEnter, WebhookGlobal, KafkaEnter, KafkaRead, KafkaGlobal,
           Post, Posted, KafkaSent, KafkaSendFails, Return, Throw
  <1>3. Fault \/ UNCHANGED count
    BY DEF EmissionStep, Begin, Websocket, Nats, Sqs, Pusher, ReadFails, RabbitEnter,
           RabbitPublish, WebhookEnter, WebhookGlobal, KafkaEnter, KafkaRead, KafkaGlobal,
           Post, KafkaSent, KafkaSendFails
  <1>4. /\ DOMAIN count' = {"sets", "faults"}
        /\ count'.faults \in Nat /\ count'.faults >= count.faults
    BY <1>3 DEF EmissionInv, Fault
  <1>5. ASSUME Websocket(e) \/ Nats(e) \/ Sqs(e) PROVE Moves(e)
    <2>1. \E s \in {"websocket", "nats", "sqs"} :
             At(e, s, "enter") /\ Return(e) /\ (s = "nats" => Nats(e))
      BY <1>5, Zenon DEF Websocket, Nats, Sqs
    <2>2. /\ emission[e].at \in 1 .. 7 /\ Return(e)
          /\ emission[e].at = 3 => Nats(e)
      BY <2>1, AtFacts
    <2> QED
      BY <1>1, <2>2, ReturnFacts DEF Moves
  <1>6. ASSUME ReadFails(e) PROVE Moves(e)
    <2>1. PICK s \in Sinks : At(e, s, IF s \in {"rabbitmq", "kafka"} THEN "read" ELSE "enter")
      BY <1>6 DEF ReadFails
    <2>2. emission[e].at \in 1 .. 7 /\ Throw(e, TRUE)
      BY <1>6, <2>1, AtFacts DEF ReadFails
    <2> QED
      BY <2>2, ThrowFacts DEF Moves
  <1>7. Moves(e)
    BY <1>5, <1>6, BeginMoves, PusherMoves, RabbitMoves, KafkaMoves, WebhookMoves
    DEF Moves, EmissionStep
  <1> QED
    BY <1>1, <1>2, <1>4, <1>7, MoveFacts

LEMMA NextMoves ==
    ASSUME EmissionInv, [Next]_vars
    PROVE  /\ UNCHANGED config
           /\ \A e \in Kinds : Rests(e) \/ Moves(e)
           /\ DOMAIN emission' = Kinds
           /\ DOMAIN count' = {"sets", "faults"}
           /\ count'.faults \in Nat /\ count'.faults >= count.faults
  <1>1. CASE \E e \in Kinds : EmissionStep(e) \/ Begin(e)
    BY <1>1, EmissionStepMoves
  <1>2. CASE LinkStep \/ BrokerFault \/ (\E s \in Sinks, on \in BOOLEAN : Set(s, on)) \/ UNCHANGED vars
    <2>1. UNCHANGED <<config, emission>>
      BY <1>2 DEF LinkStep, Dial, BrokerFault, Set, vars, links, RabbitDialled, RabbitDialFails,
         RabbitChannelFails, KafkaDialled, KafkaDialFails, RabbitTimer, KafkaTimer,
         KafkaCleaned, NatsDialled, RabbitLost, RabbitChannelClosed
    <2>2. Fault \/ UNCHANGED count \/ count' = [count EXCEPT !.sets = count.sets + 1]
      BY <1>2 DEF LinkStep, Dial, BrokerFault, Set, vars, links, RabbitDialled, RabbitDialFails,
         RabbitChannelFails, KafkaDialled, KafkaDialFails, RabbitTimer, KafkaTimer,
         KafkaCleaned, NatsDialled, RabbitLost, RabbitChannelClosed
    <2>3. /\ DOMAIN count' = {"sets", "faults"}
          /\ count'.faults \in Nat /\ count'.faults >= count.faults
      BY <2>2 DEF EmissionInv, Fault
    <2> QED
      BY <2>1, <2>3 DEF EmissionInv, Rests
  <1> QED
    BY <1>1, <1>2 DEF Next

LEMMA EmissionInvNext == EmissionInv /\ [Next]_vars => EmissionInv'
  <1> SUFFICES ASSUME EmissionInv, [Next]_vars PROVE EmissionInv'
    OBVIOUS
  <1>1. ASSUME NEW e \in Kinds PROVE EmissionAt(e, emission[e])'
    <2>1. UNCHANGED config /\ (Rests(e) \/ Moves(e))
      BY NextMoves
    <2>2. EmissionAt(e, emission'[e])
      BY <2>1 DEF EmissionInv, Rests, Moves, Begins, Stays, Returns, Throws
    <2> QED
      BY <2>1, <2>2 DEF EmissionAt, On
  <1> QED
    BY <1>1, NextMoves DEF EmissionInv

LEMMA EmissionInvInit == Init => EmissionInv
  <1> SUFFICES ASSUME Init PROVE EmissionInv
    OBVIOUS
  <1>1. DOMAIN emission = Kinds /\ count = [sets |-> 0, faults |-> 0]
    BY DEF Init
  <1>2. ASSUME NEW e \in Kinds PROVE EmissionAt(e, emission[e])
    <2>1. emission[e] = [at |-> 0, step |-> "enter", tries |-> 0, bare |-> FALSE,
                         thrown |-> FALSE, failed |-> FALSE]
      BY DEF Init
    <2> QED
      BY <2>1 DEF EmissionAt
  <1> QED
    BY <1>1, <1>2 DEF EmissionInv
-----------------------------------------------------------------------------
(* Copies only gather, and an event without its QR code is handed over by  *)
(* Pusher and by the controller after it.                                  *)
HandInv ==
    /\ DOMAIN got = Kinds /\ DOMAIN bare = Kinds
    /\ \A e \in Kinds : bare[e] \subseteq {"pusher", "kafka"}

LEMMA HandOverFacts ==
    ASSUME EmissionInv, HandInv, NEW e \in Kinds, NEW copies, HandOver(e, copies),
           emission[e].at \in 1 .. 7
    PROVE  /\ HandInv' /\ \A k \in Kinds : got[k] \subseteq got'[k]
           /\ copies \subseteq got'[e]
  <1>1. /\ DOMAIN got' = Kinds /\ DOMAIN bare' = Kinds
        /\ got'[e] = got[e] \cup copies
        /\ \A k \in Kinds \ {e} : got'[k] = got[k] /\ bare'[k] = bare[k]
    BY DEF HandInv, HandOver
  <1>2. bare'[e] \subseteq {"pusher", "kafka"}
    <2>1. emission[e].bare => Order[emission[e].at] = "kafka"
      BY OrderFacts DEF EmissionInv, EmissionAt
    <2>2. bare'[e] = bare[e] \/ (emission[e].bare /\ bare'[e] = bare[e] \cup {Order[emission[e].at]})
      BY DEF HandInv, HandOver
    <2> QED
      BY <2>1, <2>2 DEF HandInv
  <1> QED
    BY <1>1, <1>2 DEF HandInv

LEMMA HandInvNext ==
    ASSUME EmissionInv, HandInv, [Next]_vars
    PROVE  HandInv' /\ \A k \in Kinds : got[k] \subseteq got'[k]
  <1>1. CASE UNCHANGED <<got, bare>>
    BY <1>1 DEF HandInv
  <1>2. ASSUME NEW e \in Kinds, NEW copies, emission[e].at \in 1 .. 7, HandOver(e, copies)
        PROVE  HandInv' /\ \A k \in Kinds : got[k] \subseteq got'[k]
    BY <1>2, HandOverFacts
  <1>3. ASSUME NEW e \in Kinds, Pusher(e)
        PROVE  HandInv' /\ \A k \in Kinds : got[k] \subseteq got'[k]
    <2>1. CASE e = "limit"
      BY <1>1, <1>3, <2>1 DEF Pusher
    <2>2. CASE e # "limit"
      <3> DEFINE now == [emission[e] EXCEPT !.bare = e = "qrcode"]
                 copies == IF client THEN Copies("pusher") ELSE Copies("pusher") \ {<<"pusher", "local">>}
      <3>1. PICK small \in BOOLEAN :
              /\ got' = [got EXCEPT ![e] = IF small THEN @ \cup copies ELSE @]
              /\ bare' = [bare EXCEPT ![e] = IF small /\ now.bare /\ copies # {}
                                             THEN @ \cup {"pusher"} ELSE @]
        BY <1>3, <2>2 DEF Pusher
      <3> HIDE DEF now, copies
      <3> QED
        BY <3>1 DEF HandInv
    <2> QED
      BY <2>1, <2>2
  <1>4. ASSUME NEW e \in Kinds, EmissionStep(e)
        PROVE  \/ UNCHANGED <<got, bare>> \/ Pusher(e)
               \/ \E copies : emission[e].at \in 1 .. 7 /\ HandOver(e, copies)
    <2>1. \/ UNCHANGED <<got, bare>> \/ Pusher(e)
          \/ (\E s, step : At(e, s, step)) /\ \E copies : HandOver(e, copies)
      BY <1>4 DEF EmissionStep, Websocket, Nats, Sqs, ReadFails, RabbitEnter,
         RabbitPublish, WebhookEnter, WebhookGlobal, KafkaEnter, KafkaRead, KafkaGlobal,
         Post, Posted, KafkaSent, KafkaSendFails, Answered
    <2> QED
      BY <2>1, AtFacts
  <1>5. CASE Next /\ ~\E e \in Kinds : EmissionStep(e)
    <2>1. UNCHANGED <<got, bare>>
      BY <1>5 DEF Next, LinkStep, Dial, BrokerFault, Set, Begin, links, RabbitDialled, RabbitDialFails,
         RabbitChannelFails, KafkaDialled, KafkaDialFails, RabbitTimer, KafkaTimer,
         KafkaCleaned, NatsDialled, RabbitLost, RabbitChannelClosed
    <2> QED
      BY <1>1, <2>1
  <1> QED
    BY <1>1, <1>2, <1>3, <1>4, <1>5 DEF vars

(* What Contained rests on: natsClient is dialled before the first event,  *)
(* and NATS is not skipped.                                                *)
NatsInv ==
    /\ nats # "none" => "nats" \in config
    /\ nats = "dialing" /\ "early" \notin config => \A e \in Kinds : emission[e].at = 0
    /\ "early" \notin config /\ "requests" \notin config /\ nats = "up" =>
         \A e \in Kinds :
            emission[e].at > 3 /\ ~emission[e].failed /\ Wants(e, "nats") =>
              Copies("nats") \subseteq got[e]

ThrownInv ==
    \A e \in Kinds : emission[e].thrown => emission[e].failed \/ Excused(e)

LEMMA ThrownInvNext ==
    ASSUME EmissionInv, ThrownInv, [Next]_vars PROVE ThrownInv'
  <1> SUFFICES ASSUME NEW e \in Kinds, emission'[e].thrown, ~emission'[e].failed
               PROVE  Excused(e)
    BY NextMoves DEF ThrownInv, Excused, On, Wants
  <1>1. Rests(e) \/ Moves(e)
    BY NextMoves
  <1>2. CASE Begins(e)
    BY <1>2 DEF Begins, ThrownInv, EmissionInv, EmissionAt
  <1> QED
    BY <1>1, <1>2 DEF ThrownInv, Rests, Moves, Stays, Returns, Throws

LEMMA NatsInvNext ==
    ASSUME EmissionInv, HandInv, NatsInv, [Next]_vars PROVE NatsInv'
  <1> DEFINE Early == "early" \in config
             Frozen == "early" \notin config /\ "requests" \notin config
  <1>1. UNCHANGED config
    BY NextMoves
  <1>2. /\ nats' \in {"up", "none"} /\ nats = "dialing" /\ UNCHANGED emission
        \/ UNCHANGED nats
    BY DEF Next, LinkStep, Dial, BrokerFault, Set, Begin, EmissionStep, vars, links,
       RabbitDialled, RabbitDialFails, RabbitChannelFails, KafkaDialled, KafkaDialFails,
       RabbitTimer, KafkaTimer, KafkaCleaned, NatsDialled, RabbitLost, RabbitChannelClosed,
       Websocket, Nats, Sqs, Pusher, ReadFails, RabbitEnter, RabbitPublish, WebhookEnter,
       WebhookGlobal, KafkaEnter, KafkaRead, KafkaGlobal, Post, KafkaSent, KafkaSendFails
  <1>3. nats' # "none" => "nats" \in config'
    BY <1>1, <1>2 DEF NatsInv
  <1>4. ASSUME nats' = "dialing", ~Early, NEW e \in Kinds PROVE emission'[e].at = 0
    <2>1. nats = "dialing" /\ \A k \in Kinds : emission[k].at = 0
      BY <1>2, <1>4 DEF NatsInv
    <2>2. ~Begins(e) /\ ~Stays(e) /\ ~Returns(e) /\ ~Throws(e)
      BY <1>4, <2>1 DEF Begins, Stays, Returns, Throws
    <2> QED
      BY <2>1, <2>2, NextMoves DEF Rests, Moves
  <1>5. ASSUME Frozen, nats' = "up", NEW e \in Kinds,
               emission'[e].at > 3, ~emission'[e].failed, Wants(e, "nats")
        PROVE  Copies("nats")' \subseteq got'[e]
    <2>1. UNCHANGED rows
      BY <1>5 DEF Next, LinkStep, Dial, BrokerFault, Set, Begin, EmissionStep, vars, links,
         RabbitDialled, RabbitDialFails, RabbitChannelFails, KafkaDialled, KafkaDialFails,
         RabbitTimer, KafkaTimer, KafkaCleaned, NatsDialled, RabbitLost, RabbitChannelClosed,
         Websocket, Nats, Sqs, Pusher, ReadFails, RabbitEnter, RabbitPublish, WebhookEnter,
         WebhookGlobal, KafkaEnter, KafkaRead, KafkaGlobal, Post, KafkaSent, KafkaSendFails
    <2>2. Copies("nats")' = Copies("nats")
      BY <1>1, <2>1 DEF Copies
    <2>3. nats = "up"
      <3>1. CASE nats = "dialing"
        <4>1. \A k \in Kinds : emission'[k].at = 0
          BY <1>2, <1>5, <3>1 DEF NatsInv
        <4> QED
          BY <1>5, <4>1
      <3> QED
        BY <1>2, <1>5, <3>1
    <2>4. On("nats") /\ nats # "dialing"
      BY <2>3 DEF NatsInv, On
    <2>5. CASE emission[e].at > 3 /\ ~emission[e].failed
      BY <1>5, <2>2, <2>3, <2>5, HandInvNext DEF NatsInv
    <2>6. CASE emission[e].at = 3 /\ Nats(e)
      <3>1. Copies("nats") \subseteq got'[e]
        BY <2>3, <2>6, HandOverFacts DEF Nats
      <3> QED
        BY <2>2, <3>1
    <2>7. CASE emission[e].at < 3 /\ emission'[e].at = After(e, emission[e].at)
      <3>1. emission[e].at \in 0 .. 2
        BY <2>7 DEF EmissionInv, EmissionAt
      <3>2. After(e, emission[e].at) <= 3
        BY <1>5, <2>4, <3>1, AfterFacts, OrderFacts
      <3> QED
        BY <1>5, <2>7, <3>2, <3>1, AfterFacts
    <2>8. \/ emission[e].at > 3 /\ ~emission[e].failed
          \/ emission[e].at = 3 /\ Nats(e)
          \/ emission[e].at < 3 /\ emission'[e].at = After(e, emission[e].at)
      <3>1. EmissionAt(e, emission[e]) /\ emission[e].at \in 0 .. 8
        BY DEF EmissionInv, EmissionAt
      <3>2. CASE Rests(e) \/ Stays(e)
        BY <1>5, <3>1, <3>2 DEF Rests, Stays
      <3>3. CASE Begins(e)
        <4>1. emission[e].at = 0 /\ emission'[e] = [emission[e] EXCEPT !.at = After(e, 0)]
          BY <3>3 DEF Begins
        <4>2. emission'[e].at = After(e, 0)
          BY <3>1, <4>1 DEF EmissionAt
        <4> QED
          BY <4>1, <4>2
      <3>4. CASE Returns(e)
        BY <1>5, <3>1, <3>4 DEF Returns
      <3>5. CASE Throws(e)
        BY <1>5, <3>1, <3>5 DEF Throws, EmissionAt
      <3> QED
        BY <3>2, <3>3, <3>4, <3>5, NextMoves DEF Moves
    <2> QED
      BY <2>5, <2>6, <2>7, <2>8
  <1> QED
    BY <1>1, <1>3, <1>4, <1>5 DEF NatsInv, Wants

ContainedInv == EmissionInv /\ HandInv /\ NatsInv /\ ThrownInv

LEMMA ContainedInvInit == Init => ContainedInv
  <1> SUFFICES ASSUME Init PROVE ContainedInv
    OBVIOUS
  <1>1. EmissionInv
    BY EmissionInvInit
  <1>2. HandInv
    BY DEF Init, HandInv
  <1>3. \A e \in Kinds : emission[e].at = 0 /\ emission[e].thrown = FALSE
    BY DEF Init
  <1>4. nats = IF "nats" \in config THEN "dialing" ELSE "none"
    BY DEF Init
  <1> QED
    BY <1>1, <1>2, <1>3, <1>4 DEF ContainedInv, NatsInv, ThrownInv

(* An endpoint that fails and a broker that is down keep no event from the *)
(* later controllers of EventManager.emit: only a failed read or upload of *)
(* its own, the QR event without a QR code and a jwt_key that cannot sign  *)
(* stop it, the last two with NATS's copies handed over; and what Pusher   *)
(* deletes is in the copies before it. For any options, requests, faults.  *)
THEOREM ContainedHolds == Spec => []Contained
  <1>1. Init => ContainedInv
    BY ContainedInvInit
  <1>2. ContainedInv /\ [Next]_vars => ContainedInv'
    BY EmissionInvNext, HandInvNext, NatsInvNext, ThrownInvNext DEF ContainedInv
  <1>3. ContainedInv => Contained
    <2> SUFFICES ASSUME ContainedInv, NEW e \in Kinds
                 PROVE  /\ emission[e].thrown =>
                             \/ emission[e].failed
                             \/ e = "limit" /\ On("pusher")
                             \/ "badKey" \in config /\ Wants(e, "webhook")
                        /\ /\ Ended(e) /\ ~emission[e].failed /\ Wants(e, "nats")
                           /\ nats = "up" /\ ~On("early") /\ ~On("requests")
                           => Copies("nats") \subseteq got[e]
                        /\ bare[e] \subseteq {"pusher", "kafka"}
      BY DEF Contained
    <2> QED
      BY OrderFacts DEF ContainedInv, NatsInv, ThrownInv, HandInv, Excused, Ended, On
  <1> QED
    BY <1>1, <1>2, <1>3, PTL DEF Spec
-----------------------------------------------------------------------------
(* retryWebhookRequest: the answers to the POSTs of an event, one target   *)
(* after the other.                                                        *)
Replies == {"ok", Refusal, "error", "none"}
Settles(posts, n) == posts[n] \in {"ok", Refusal} \/ n = MaxPosts
Pending(posts) == \A n \in 1 .. Len(posts) : ~Settles(posts, n)
Closed(posts) == posts = <<>> \/ Settles(posts, Len(posts))
Sound(posts) == posts \in Seq(Replies) /\ \A n \in 1 .. Len(posts) - 1 : ~Settles(posts, n)

(* Where the emission is says which POSTs have been made: none before the  *)
(* webhook and when it enters, as many as there were tries while a target  *)
(* is posted to, and a closed series of them after it.                     *)
PostsAt(m, posts) ==
    /\ DOMAIN posts = Targets
    /\ \A t \in Targets : Sound(posts[t])
    /\ m.at < 5 \/ (m.at = 5 /\ m.step = "enter") => posts["local"] = <<>> /\ posts["global"] = <<>>
    /\ m.at = 5 /\ m.step = "enter" => m.tries = 0
    /\ m.at = 5 => m.step \in {"enter", "local", "localDone", "global"}
    /\ m.at = 5 /\ m.step = "local" =>
         Pending(posts["local"]) /\ Len(posts["local"]) = m.tries /\ posts["global"] = <<>>
    /\ m.at = 5 /\ m.step = "localDone" =>
         Closed(posts["local"]) /\ posts["global"] = <<>> /\ m.tries = 0
    /\ m.at = 5 /\ m.step = "global" =>
         Closed(posts["local"]) /\ Pending(posts["global"]) /\ Len(posts["global"]) = m.tries
    /\ m.at > 5 => Closed(posts["local"]) /\ Closed(posts["global"])

PostsInv ==
    /\ DOMAIN answers = Kinds
    /\ \A e \in Kinds : PostsAt(emission[e], answers[e])

(* One more answer: the series is closed by it, or stays pending. *)
LEMMA ReplyFacts ==
    ASSUME NEW posts, Sound(posts), Pending(posts), NEW answer \in Replies
    PROVE  LET now == Append(posts, answer)
               last == answer \in {"ok", Refusal} \/ Len(posts) + 1 = MaxPosts
           IN  /\ Sound(now) /\ Len(now) = Len(posts) + 1
               /\ last => Closed(now)
               /\ ~last => Pending(now)
  <1> DEFINE now == Append(posts, answer)
  <1>1. posts \in Seq(Replies) /\ Len(posts) \in Nat
    BY DEF Sound
  <1>2. /\ now \in Seq(Replies) /\ Len(now) = Len(posts) + 1
        /\ now[Len(posts) + 1] = answer
        /\ \A n \in 1 .. Len(posts) : now[n] = posts[n]
    BY <1>1
  <1> HIDE DEF now
  <1>3. \A n \in 1 .. Len(posts) : ~Settles(now, n)
    BY <1>2 DEF Pending, Settles
  <1>4. Settles(now, Len(now)) <=> answer \in {"ok", Refusal} \/ Len(posts) + 1 = MaxPosts
    BY <1>2 DEF Settles
  <1>5. Sound(now)
    BY <1>1, <1>2, <1>3 DEF Sound
  <1>6. ~Settles(now, Len(now)) => Pending(now)
    BY <1>1, <1>2, <1>3 DEF Pending
  <1> QED
    BY <1>2, <1>4, <1>5, <1>6 DEF Closed, now

LEMMA PostKeeps ==
    ASSUME EmissionInv, PostsInv, NEW e \in Kinds, NEW t \in Targets, Post(e, t)
    PROVE  PostsAt(emission'[e], answers'[e])
  <1> DEFINE m == emission[e]
             posts == answers[e]
             tries == m.tries + 1
  <1>1. /\ m.at = 5 /\ m.step = t /\ PostsAt(m, posts) /\ EmissionAt(e, m)
        /\ DOMAIN answers = Kinds
    BY AtFacts DEF Post, PostsInv, EmissionInv
  <1>1a. DOMAIN m = {"at", "step", "tries", "bare", "thrown", "failed"}
    BY <1>1 DEF EmissionAt
  <1>2. PICK answer \in Replies :
          /\ answers' = [answers EXCEPT ![e][t] = Append(@, answer)]
          /\ IF answer \in {"ok", Refusal} \/ tries = MaxPosts
             THEN Posted(e, t)
             ELSE Move(e, [m EXCEPT !.tries = tries])
    BY DEF Post, Answered, Replies
  <1> DEFINE now == Append(posts[t], answer)
             last == answer \in {"ok", Refusal} \/ tries = MaxPosts
             other == IF t = "local" THEN "global" ELSE "local"
  <1>3. /\ t \in {"local", "global"} /\ other \in Targets /\ other # t
        /\ Sound(posts[t]) /\ Pending(posts[t]) /\ Len(posts[t]) = m.tries
    BY <1>1 DEF PostsAt, Targets
  <1>4. /\ Sound(now) /\ Len(now) = tries
        /\ last => Closed(now)
        /\ ~last => Pending(now)
    BY <1>3, ReplyFacts
  <1>5. /\ answers'[e][t] = now /\ answers'[e][other] = posts[other]
        /\ DOMAIN answers'[e] = Targets
    BY <1>1, <1>2, <1>3 DEF PostsAt
  <1>6. \A k \in Targets : Sound(answers'[e][k])
    BY <1>1, <1>3, <1>4, <1>5 DEF Targets, PostsAt
  <1> HIDE DEF now, tries
  <1>7. CASE t = "local"
    <2>1. answers'[e]["local"] = now /\ answers'[e]["global"] = <<>>
      BY <1>1, <1>5, <1>7 DEF PostsAt
    <2>2. CASE ~last
      <3>0. Pending(now) /\ Len(now) = tries
        BY <1>4, <2>2
      <3>1. emission'[e] = [m EXCEPT !.tries = tries]
        BY <1>2, <2>2, MoveFacts
      <3>2. emission'[e].at = 5 /\ emission'[e].step = "local" /\ emission'[e].tries = tries
        BY <1>1, <1>1a, <1>7, <3>1
      <3> QED
        BY <1>5, <1>6, <2>1, <3>0, <3>2 DEF PostsAt
    <2>3. CASE last
      <3>0. Closed(answers'[e]["local"])
        BY <1>4, <2>1, <2>3
      <3>1. emission'[e] = [m EXCEPT !.step = "localDone", !.tries = 0]
        BY <1>2, <1>7, <2>3, MoveFacts DEF Posted
      <3>2. emission'[e].at = 5 /\ emission'[e].step = "localDone" /\ emission'[e].tries = 0
        BY <1>1, <1>1a, <3>1
      <3> QED
        BY <1>5, <1>6, <2>1, <3>0, <3>2 DEF PostsAt
    <2> QED
      BY <2>2, <2>3
  <1>8. CASE t = "global"
    <2>1. /\ answers'[e]["global"] = now /\ answers'[e]["local"] = posts["local"]
          /\ Closed(posts["local"])
      BY <1>1, <1>5, <1>8 DEF PostsAt
    <2>2. CASE ~last
      <3>0. Pending(now) /\ Len(now) = tries
        BY <1>4, <2>2
      <3>1. emission'[e] = [m EXCEPT !.tries = tries]
        BY <1>2, <2>2, MoveFacts
      <3>2. emission'[e].at = 5 /\ emission'[e].step = "global" /\ emission'[e].tries = tries
        BY <1>1, <1>1a, <1>8, <3>1
      <3> QED
        BY <1>5, <1>6, <2>1, <3>0, <3>2 DEF PostsAt
    <2>3. CASE last
      <3>0. Closed(answers'[e]["global"])
        BY <1>4, <2>1, <2>3
      <3>1. Return(e) /\ UNCHANGED config
        BY <1>2, <1>8, <2>3 DEF Posted, Post
      <3>2. Returns(e)
        BY <1>1, <3>1, ReturnFacts
      <3>3. emission'[e].at \in 6 .. 8
        BY <1>1, <3>2, AfterFacts DEF Returns
      <3> QED
        BY <1>5, <1>6, <2>1, <3>0, <3>3 DEF PostsAt
    <2> QED
      BY <2>2, <2>3
  <1> QED
    BY <1>3, <1>7, <1>8

(* At the webhook an emission is moved by the webhook's own steps. *)
LEMMA WebhookSteps ==
    ASSUME EmissionInv, NEW e \in Kinds, EmissionStep(e), emission[e].at = 5
    PROVE  \/ WebhookEnter(e) \/ WebhookGlobal(e)
           \/ \E t \in Targets : Post(e, t)
           \/ /\ emission[e].step = "enter" /\ UNCHANGED answers
              /\ emission'[e].at = 8
  <1>1. CASE ReadFails(e)
    <2>1. PICK s \in Sinks : At(e, s, IF s \in {"rabbitmq", "kafka"} THEN "read" ELSE "enter")
      BY <1>1 DEF ReadFails
    <2>2. emission[e].step = "enter"
      BY <2>1, AtFacts, OrderFacts
    <2>3. emission'[e] = [emission[e] EXCEPT !.at = 8, !.thrown = TRUE, !.failed = TRUE]
      BY <1>1, MoveFacts, OrderFacts DEF ReadFails, Throw
    <2>4. emission'[e].at = 8
      BY <2>3 DEF EmissionInv, EmissionAt
    <2> QED
      BY <1>1, <2>2, <2>4 DEF ReadFails
  <1>2. ~(Websocket(e) \/ Nats(e) \/ Sqs(e) \/ Pusher(e))
    BY AtFacts DEF Websocket, Nats, Sqs, Pusher
  <1>3. ~(RabbitEnter(e) \/ RabbitPublish(e))
    BY AtFacts DEF RabbitEnter, RabbitPublish
  <1>4. ~(KafkaEnter(e) \/ KafkaRead(e) \/ KafkaGlobal(e))
    BY AtFacts DEF KafkaEnter, KafkaRead, KafkaGlobal
  <1>5. ~\E t \in Targets : KafkaSent(e, t) \/ KafkaSendFails(e, t)
    BY AtFacts DEF KafkaSent, KafkaSendFails
  <1> QED
    BY <1>1, <1>2, <1>3, <1>4, <1>5 DEF EmissionStep

(* Away from the webhook nothing is posted. *)
LEMMA PostsOnlyThere ==
    ASSUME EmissionInv, [Next]_vars, UNCHANGED answers => FALSE
    PROVE  \E e \in Kinds, t \in Targets : Post(e, t)
  <1>1. Next /\ ~UNCHANGED answers
    BY DEF vars
  <1> QED
    BY <1>1 DEF Next, LinkStep, Dial, BrokerFault, Set, Begin, EmissionStep, links,
       RabbitDialled, RabbitDialFails, RabbitChannelFails, KafkaDialled, KafkaDialFails,
       RabbitTimer, KafkaTimer, KafkaCleaned, NatsDialled, RabbitLost, RabbitChannelClosed,
       Websocket, Nats, Sqs, Pusher, ReadFails, RabbitEnter, RabbitPublish, WebhookEnter,
       WebhookGlobal, KafkaEnter, KafkaRead, KafkaGlobal, KafkaSent, KafkaSendFails

(* An emission that is under way is moved by a step of its own. *)
LEMMA MovedBySteps ==
    ASSUME EmissionInv, [Next]_vars, NEW e \in Kinds, emission[e].at # 0, ~Rests(e)
    PROVE  EmissionStep(e)
  <1>1. ~UNCHANGED emission
    BY DEF Rests
  <1>2. PICK k \in Kinds : EmissionStep(k) \/ Begin(k)
    BY <1>1 DEF Next, LinkStep, Dial, BrokerFault, Set, vars, links, RabbitDialled,
       RabbitDialFails, RabbitChannelFails, KafkaDialled, KafkaDialFails, RabbitTimer,
       KafkaTimer, KafkaCleaned, NatsDialled, RabbitLost, RabbitChannelClosed
  <1>3. k = e
    BY <1>2, EmissionStepMoves
  <1> QED
    BY <1>2, <1>3 DEF Begin

LEMMA PostsMove ==
    ASSUME EmissionInv, PostsInv, NEW e \in Kinds, Moves(e), emission[e].at # 5
    PROVE  PostsAt(emission'[e], answers[e])
  <1> DEFINE m == emission[e]
             n == emission'[e]
  <1>1. PostsAt(m, answers[e]) /\ EmissionAt(e, m) /\ m.at \in 0 .. 8
    BY DEF PostsInv, EmissionInv, EmissionAt
  <1>2. m.at < 5 => answers[e]["local"] = <<>> /\ answers[e]["global"] = <<>>
    BY <1>1 DEF PostsAt
  <1>3. m.at > 5 => Closed(answers[e]["local"]) /\ Closed(answers[e]["global"])
    BY <1>1 DEF PostsAt
  <1>4. /\ n.at \in 0 .. 8 /\ n.at >= m.at
        /\ n.at = 5 => m.at < 5 /\ n.step = "enter"
        /\ n.at = 5 => n.tries = 0
    <2>1. CASE Begins(e)
      <3>1. n = [m EXCEPT !.at = After(e, 0)] /\ m.at = 0 /\ EmissionAt(e, n)
        BY <2>1 DEF Begins
      <3>2. n.step = m.step /\ n.tries = m.tries
        BY <1>1, <3>1 DEF EmissionAt
      <3> QED
        BY <1>1, <3>1, <3>2 DEF EmissionAt
    <2>2. CASE Stays(e)
      BY <1>1, <2>2 DEF Stays, EmissionAt
    <2>3. CASE Returns(e)
      BY <1>1, <2>3, AfterFacts DEF Returns
    <2>4. CASE Throws(e)
      BY <1>1, <2>4 DEF Throws
    <2> QED
      BY <2>1, <2>2, <2>3, <2>4 DEF Moves
  <1> QED
    BY <1>1, <1>2, <1>3, <1>4 DEF PostsAt, Closed

LEMMA WebhookKeeps ==
    ASSUME EmissionInv, PostsInv, NEW e \in Kinds, emission[e].at = 5,
           EmissionStep(e), ~\E t \in Targets : Post(e, t)
    PROVE  UNCHANGED answers /\ PostsAt(emission'[e], answers[e])
  <1> DEFINE m == emission[e]
  <1>1. /\ PostsAt(m, answers[e])
        /\ DOMAIN m = {"at", "step", "tries", "bare", "thrown", "failed"}
    BY DEF PostsInv, EmissionInv, EmissionAt
  <1>2. CASE WebhookEnter(e) /\ "badKey" \notin config
    <2>1. m.step = "enter" /\ UNCHANGED answers
      BY <1>2, AtFacts DEF WebhookEnter
    <2>2. \E s \in {"local", "localDone"} : emission'[e] = [m EXCEPT !.step = s]
      BY <1>2, MoveFacts DEF WebhookEnter
    <2>3. /\ emission'[e].at = 5 /\ emission'[e].step \in {"local", "localDone"}
          /\ emission'[e].tries = m.tries
      BY <1>1, <2>2
    <2>4. answers[e]["local"] = <<>> /\ answers[e]["global"] = <<>> /\ m.tries = 0
      BY <1>1, <2>1 DEF PostsAt
    <2>5. Pending(<<>>) /\ Closed(<<>>) /\ Len(<<>>) = 0
      BY DEF Pending, Closed
    <2> QED
      BY <1>1, <2>1, <2>3, <2>4, <2>5 DEF PostsAt
  <1>2a. CASE WebhookEnter(e) /\ "badKey" \in config
    <2>1. m.step = "enter" /\ UNCHANGED answers
      BY <1>2a, AtFacts DEF WebhookEnter
    <2>2. emission'[e] = [m EXCEPT !.at = 8, !.thrown = TRUE, !.failed = FALSE]
      BY <1>2a, MoveFacts, OrderFacts DEF WebhookEnter, Throw
    <2>3. emission'[e].at = 8
      BY <1>1, <2>2
    <2>4. answers[e]["local"] = <<>> /\ answers[e]["global"] = <<>>
      BY <1>1, <2>1 DEF PostsAt
    <2> QED
      BY <1>1, <2>1, <2>3, <2>4 DEF PostsAt, Closed
  <1>3. CASE WebhookGlobal(e)
    <2>1. m.step = "localDone" /\ UNCHANGED <<config, answers>>
      BY <1>3, AtFacts DEF WebhookGlobal
    <2>2. Closed(answers[e]["local"]) /\ answers[e]["global"] = <<>> /\ m.tries = 0
      BY <1>1, <2>1 DEF PostsAt
    <2>3. Pending(<<>>) /\ Closed(<<>>) /\ Len(<<>>) = 0
      BY DEF Pending, Closed
    <2>4. CASE "global" \in config
      <3>1. emission'[e] = [m EXCEPT !.step = "global"]
        BY <1>3, <2>4, MoveFacts DEF WebhookGlobal
      <3>2. emission'[e].at = 5 /\ emission'[e].step = "global" /\ emission'[e].tries = m.tries
        BY <1>1, <3>1
      <3> QED
        BY <1>1, <2>1, <2>2, <2>3, <3>2 DEF PostsAt
    <2>5. CASE "global" \notin config
      <3>1. Returns(e)
        BY <1>3, <2>1, <2>5, ReturnFacts DEF WebhookGlobal
      <3>2. emission'[e].at \in 6 .. 8
        BY <3>1, AfterFacts DEF Returns
      <3> QED
        BY <1>1, <2>1, <2>2, <2>3, <3>2 DEF PostsAt
    <2> QED
      BY <2>4, <2>5
  <1>4. CASE m.step = "enter" /\ UNCHANGED answers /\ emission'[e].at = 8
    <2>1. answers[e]["local"] = <<>> /\ answers[e]["global"] = <<>>
      BY <1>1, <1>4 DEF PostsAt
    <2> QED
      BY <1>1, <1>4, <2>1 DEF PostsAt, Closed
  <1> QED
    BY <1>2, <1>2a, <1>3, <1>4, WebhookSteps

LEMMA PostsInvNext ==
    ASSUME EmissionInv, PostsInv, [Next]_vars PROVE PostsInv'
  <1>1. CASE \E e \in Kinds, t \in Targets : Post(e, t)
    <2>1. PICK e \in Kinds, t \in Targets : Post(e, t)
      BY <1>1
    <2>2. \A k \in Kinds \ {e} : Rests(k)
      BY <2>1, EmissionStepMoves DEF EmissionStep
    <2>3. PICK answer : answers' = [answers EXCEPT ![e][t] = Append(@, answer)]
      BY <2>1 DEF Post, Answered
    <2>4. DOMAIN answers' = Kinds /\ \A k \in Kinds \ {e} : answers'[k] = answers[k]
      BY <2>3 DEF PostsInv
    <2>5. PostsAt(emission'[e], answers'[e])
      BY <2>1, PostKeeps
    <2> QED
      BY <2>2, <2>4, <2>5 DEF PostsInv, Rests
  <1>2. CASE ~\E e \in Kinds, t \in Targets : Post(e, t)
    <2>1. UNCHANGED answers
      BY <1>2, PostsOnlyThere
    <2>2. ASSUME NEW e \in Kinds PROVE PostsAt(emission'[e], answers[e])
      <3>1. CASE Rests(e)
        BY <3>1 DEF PostsInv, Rests
      <3>2. CASE emission[e].at = 5 /\ ~Rests(e)
        <4>1. EmissionStep(e)
          BY <3>2, MovedBySteps
        <4> QED
          BY <1>2, <3>2, <4>1, WebhookKeeps
      <3>3. CASE emission[e].at # 5 /\ ~Rests(e)
        BY <3>3, NextMoves, PostsMove
      <3> QED
        BY <3>1, <3>2, <3>3
    <2> QED
      BY <2>1, <2>2 DEF PostsInv
  <1> QED
    BY <1>1, <1>2

LEMMA PostsInvInit == Init => PostsInv
  <1> SUFFICES ASSUME Init PROVE PostsInv
    OBVIOUS
  <1>1. answers = [k \in Kinds |-> [t \in Targets |-> <<>>]]
    BY DEF Init
  <1>2. ASSUME NEW e \in Kinds PROVE PostsAt(emission[e], answers[e])
    <2>1. /\ DOMAIN answers[e] = Targets
          /\ answers[e]["local"] = <<>> /\ answers[e]["global"] = <<>>
      BY <1>1 DEF Targets
    <2>2. emission[e] = [at |-> 0, step |-> "enter", tries |-> 0, bare |-> FALSE,
                         thrown |-> FALSE, failed |-> FALSE]
      BY DEF Init
    <2>3. Sound(<<>>) /\ emission[e].at = 0
      BY <2>2 DEF Sound
    <2> QED
      BY <2>1, <2>3 DEF PostsAt, Targets
  <1> QED
    BY <1>1, <1>2 DEF PostsInv

(* The POSTs of an event to a target end with the first answer that        *)
(* settles it and with the last of the MaxPosts attempts, and no other     *)
(* way: for any number of attempts, options and faults.                    *)
THEOREM RetriesHold == Spec => []RetriesAreSound
  <1>1. Init => EmissionInv /\ PostsInv
    BY EmissionInvInit, PostsInvInit
  <1>2. EmissionInv /\ PostsInv /\ [Next]_vars => (EmissionInv /\ PostsInv)'
    BY EmissionInvNext, PostsInvNext
  <1>3. EmissionInv /\ PostsInv => RetriesAreSound
    <2> SUFFICES ASSUME EmissionInv, PostsInv, NEW e \in Kinds, NEW t \in Targets
                 PROVE  /\ \A n \in 1 .. Len(answers[e][t]) - 1 : ~Settles(answers[e][t], n)
                        /\ answers[e][t] # <<>> /\ ~At(e, "webhook", t) => Settles(answers[e][t], Len(answers[e][t]))
      BY DEF RetriesAreSound, Settles
    <2>1. PostsAt(emission[e], answers[e]) /\ EmissionAt(e, emission[e])
      BY DEF PostsInv, EmissionInv
    <2>2. \A n \in 1 .. Len(answers[e][t]) - 1 : ~Settles(answers[e][t], n)
      BY <2>1 DEF PostsAt, Sound
    <2>3. ASSUME answers[e][t] # <<>>, ~At(e, "webhook", t) PROVE Closed(answers[e][t])
      <3>1. emission[e].at = 5 => emission[e].step # t
        BY <2>3, OrderFacts DEF At, Ended
      <3>2. t \in {"local", "global"} /\ emission[e].at \in 0 .. 8
        BY <2>1 DEF Targets, EmissionAt
      <3>3. Closed(<<>>)
        BY DEF Closed
      <3> QED
        BY <2>1, <2>3, <3>1, <3>2, <3>3 DEF PostsAt
    <2> QED
      BY <2>2, <2>3 DEF Closed
  <1> QED
    BY <1>1, <1>2, <1>3, PTL DEF Spec
-----------------------------------------------------------------------------
(* The reconnections of a link l that is up or not: one timer or one dial  *)
(* is under way while it reconnects and none otherwise; a link that is     *)
(* down, and neither reconnects nor dials for the first time, has used up  *)
(* its attempts.                                                           *)
Counters == {"first", "reconnecting", "attempts", "timers", "dials"}
LinkAt(l, up) ==
    /\ Counters \subseteq DOMAIN l
    /\ l.attempts \in 0 .. MaxAttempts /\ l.timers \in Nat /\ l.dials \in Nat
    /\ l.timers + l.dials = IF l.reconnecting THEN 1 ELSE 0
    /\ l.first => ~l.reconnecting /\ l.attempts = 0 /\ ~up
    /\ l.reconnecting => ~up
    /\ up => l.attempts = 0
    /\ ~up /\ ~l.reconnecting /\ ~l.first => l.attempts = MaxAttempts

LEMMA ScheduleFacts ==
    ASSUME NEW l, Counters \subseteq DOMAIN l
    PROVE  /\ DOMAIN Schedule(l) = DOMAIN l
           /\ \A f \in DOMAIN l \ {"reconnecting", "attempts", "timers"} : Schedule(l)[f] = l[f]
           /\ l.attempts >= MaxAttempts \/ l.reconnecting => Schedule(l) = l
           /\ ~(l.attempts >= MaxAttempts \/ l.reconnecting) =>
                /\ Schedule(l).reconnecting
                /\ Schedule(l).attempts = l.attempts + 1
                /\ Schedule(l).timers = l.timers + 1
  BY DEF Schedule, Counters

(* What is left of a link when a dial of it ends *)
Undialled(l, first) == IF first THEN [l EXCEPT !.first = FALSE] ELSE [l EXCEPT !.dials = @ - 1]

LEMMA ConnectedFacts ==
    ASSUME NEW l, NEW first \in BOOLEAN, LinkAt(l, FALSE), Dialling(l, first)
    PROVE  /\ DOMAIN Connected(l, first) = DOMAIN l
           /\ \A f \in DOMAIN l \ Counters : Connected(l, first)[f] = l[f]
           /\ LinkAt(Connected(l, first), TRUE)
           /\ ~Connected(l, first).reconnecting /\ ~Connected(l, first).first
  <1> DEFINE u == Undialled(l, first)
             m == [u EXCEPT !.attempts = 0, !.reconnecting = FALSE]
  <1>1. /\ DOMAIN u = DOMAIN l
        /\ \A f \in DOMAIN l \ Counters : u[f] = l[f]
        /\ ~u.first /\ u.timers = 0 /\ u.dials = 0
    BY DEF LinkAt, Dialling, Counters, Undialled
  <1> HIDE DEF u
  <1>2. DOMAIN m = DOMAIN l /\ \A f \in DOMAIN l \ Counters : m[f] = l[f]
    BY <1>1 DEF LinkAt, Counters
  <1>2a. /\ DOMAIN m = DOMAIN l
        /\ ~m.first /\ m.timers = 0 /\ m.dials = 0
        /\ ~m.reconnecting /\ m.attempts = 0
    BY <1>1 DEF LinkAt, Counters
  <1>3. Connected(l, first) = m
    BY DEF Connected, u, Undialled
  <1> HIDE DEF m
  <1>4. LinkAt(m, TRUE)
    <2>1. Counters \subseteq DOMAIN m
      BY <1>2a DEF LinkAt
    <2>2. 0 \in 0 .. MaxAttempts
      BY BoundsArePositive
    <2> QED
      BY <1>2a, <2>1, <2>2 DEF LinkAt
  <1> QED
    BY <1>2, <1>2a, <1>3, <1>4

LEMMA FailedFacts ==
    ASSUME NEW l, NEW first \in BOOLEAN, LinkAt(l, FALSE), Dialling(l, first)
    PROVE  /\ DOMAIN Failed(l, first) = DOMAIN l
           /\ \A f \in DOMAIN l \ Counters : Failed(l, first)[f] = l[f]
           /\ LinkAt(Failed(l, first), FALSE) /\ ~Failed(l, first).first
           /\ l.attempts < MaxAttempts =>
                /\ Failed(l, first).reconnecting
                /\ Failed(l, first).attempts = l.attempts + 1
           /\ l.attempts = MaxAttempts =>
                /\ ~Failed(l, first).reconnecting
                /\ Failed(l, first).attempts = l.attempts
  <1> DEFINE u == Undialled(l, first)
             v == IF first THEN u ELSE [Schedule(u) EXCEPT !.reconnecting = FALSE]
  <1>1. /\ DOMAIN u = DOMAIN l
        /\ \A f \in DOMAIN l \ Counters : u[f] = l[f]
        /\ ~u.first /\ u.timers = 0 /\ u.dials = 0
        /\ u.attempts = l.attempts /\ (u.reconnecting <=> ~first)
        /\ first => l.attempts = 0
    BY DEF LinkAt, Dialling, Counters, Undialled
  <1> HIDE DEF u
  <1>2. ~first => Schedule(u) = u
    BY <1>1, ScheduleFacts DEF LinkAt
  <1>3. /\ DOMAIN v = DOMAIN l
        /\ \A f \in DOMAIN l \ Counters : v[f] = l[f]
        /\ ~v.first /\ v.timers = 0 /\ v.dials = 0
        /\ v.attempts = l.attempts /\ ~v.reconnecting
    BY <1>1, <1>2 DEF LinkAt, Counters
  <1>4. Failed(l, first) = Schedule(v)
    BY DEF Failed, u, Undialled
  <1> HIDE DEF v
  <1>5. Counters \subseteq DOMAIN v /\ l.attempts \in 0 .. MaxAttempts
    BY <1>3 DEF LinkAt
  <1>6. MaxAttempts \in Nat \ {0}
    BY BoundsArePositive
  <1>7. /\ DOMAIN Schedule(v) = DOMAIN l
        /\ \A f \in DOMAIN l \ Counters : Schedule(v)[f] = l[f]
        /\ ~Schedule(v).first /\ Schedule(v).dials = 0
    BY <1>3, <1>5, ScheduleFacts DEF Counters
  <1>8. ASSUME l.attempts < MaxAttempts
        PROVE  /\ LinkAt(Schedule(v), FALSE)
               /\ Schedule(v).reconnecting /\ Schedule(v).attempts = l.attempts + 1
    <2>1. /\ Schedule(v).reconnecting /\ Schedule(v).attempts = l.attempts + 1
          /\ Schedule(v).timers = 1
      BY <1>3, <1>5, <1>6, <1>8, ScheduleFacts
    <2>2. LinkAt(Schedule(v), FALSE)
      BY <1>3, <1>5, <1>6, <1>7, <1>8, <2>1 DEF LinkAt
    <2> QED
      BY <2>1, <2>2
  <1>9. ASSUME l.attempts = MaxAttempts
        PROVE  /\ LinkAt(Schedule(v), FALSE)
               /\ ~Schedule(v).reconnecting /\ Schedule(v).attempts = l.attempts
    <2>1. Schedule(v) = v
      BY <1>3, <1>5, <1>6, <1>9, ScheduleFacts
    <2>2. LinkAt(v, FALSE)
      BY <1>3, <1>5, <1>6, <1>9 DEF LinkAt
    <2> QED
      BY <1>3, <2>1, <2>2
  <1>10. l.attempts < MaxAttempts \/ l.attempts = MaxAttempts
    BY <1>5, <1>6
  <1>11. ~(l.attempts < MaxAttempts /\ l.attempts = MaxAttempts)
    BY <1>5, <1>6
  <1> QED
    BY <1>4, <1>7, <1>8, <1>9, <1>10, <1>11, Zenon

(* A loss, or an event that finds the link down, schedules a reconnection  *)
(* unless one is due or the link has been given up.                        *)
LEMMA LostFacts ==
    ASSUME NEW l, NEW up \in BOOLEAN, LinkAt(l, up), ~l.first, ~l.reconnecting
    PROVE  /\ DOMAIN Schedule(l) = DOMAIN l
           /\ \A f \in DOMAIN l \ Counters : Schedule(l)[f] = l[f]
           /\ LinkAt(Schedule(l), FALSE) /\ ~Schedule(l).first
           /\ up => Schedule(l).reconnecting /\ Schedule(l).attempts = 1
           /\ ~up => Schedule(l) = l
  <1>1. /\ Counters \subseteq DOMAIN l /\ MaxAttempts \in Nat \ {0}
        /\ l.attempts \in 0 .. MaxAttempts
    BY BoundsArePositive DEF LinkAt
  <1>2. /\ DOMAIN Schedule(l) = DOMAIN l
        /\ \A f \in DOMAIN l \ Counters : Schedule(l)[f] = l[f]
        /\ ~Schedule(l).first /\ Schedule(l).dials = l.dials
    BY <1>1, ScheduleFacts DEF Counters, LinkAt
  <1>3. CASE up
    <2>1. /\ Schedule(l).reconnecting /\ Schedule(l).attempts = 1
          /\ Schedule(l).timers = l.timers + 1
      BY <1>1, <1>3, ScheduleFacts DEF LinkAt
    <2>2. LinkAt(Schedule(l), FALSE)
      BY <1>1, <1>2, <1>3, <2>1 DEF LinkAt
    <2> QED
      BY <1>2, <1>3, <2>1, <2>2
  <1>4. CASE ~up
    <2>1. Schedule(l) = l
      BY <1>1, <1>4, ScheduleFacts DEF LinkAt
    <2> QED
      BY <1>2, <1>4, <2>1
  <1> QED
    BY <1>3, <1>4

(* The steps of BrokerLink, from a link l to a link m *)
Standing(l, up) == IF up THEN "up" ELSE IF l.reconnecting \/ l.first THEN "waiting" ELSE "gaveUp"
LinkNext(l, up, m, now) ==
    \/ Standing(m, now) = Standing(l, up) /\ m.attempts = l.attempts
    \/ Standing(l, up) = "waiting" /\ Standing(m, now) = "up" /\ m.attempts = 0
    \/ Standing(l, up) = "up" /\ Standing(m, now) = "waiting" /\ m.attempts = 1
    \/ /\ Standing(l, up) = "waiting" /\ l.attempts < MaxAttempts
       /\ Standing(m, now) = "waiting" /\ m.attempts = l.attempts + 1
    \/ /\ Standing(l, up) = "waiting" /\ l.attempts = MaxAttempts
       /\ Standing(m, now) = "gaveUp" /\ m.attempts = l.attempts

SameCounters(l, m) ==
    /\ m.first = l.first /\ m.reconnecting = l.reconnecting /\ m.attempts = l.attempts
    /\ m.timers = l.timers /\ m.dials = l.dials

LEMMA LinkAtSame ==
    ASSUME NEW l, NEW m, NEW up \in BOOLEAN, LinkAt(l, up), DOMAIN m = DOMAIN l, SameCounters(l, m)
    PROVE  LinkAt(m, up)
  BY DEF LinkAt, SameCounters

(* A link that dials for the first time or again is not up. *)
LEMMA DiallingFacts ==
    ASSUME NEW l, NEW up \in BOOLEAN, LinkAt(l, up), NEW first \in BOOLEAN, Dialling(l, first)
    PROVE  ~up /\ (l.first \/ l.reconnecting)
  BY DEF LinkAt, Dialling

LEMMA ConnectedNext ==
    ASSUME NEW l, NEW first \in BOOLEAN, LinkAt(l, FALSE), Dialling(l, first)
    PROVE  LinkNext(l, FALSE, Connected(l, first), TRUE)
  <1>1. LinkAt(Connected(l, first), TRUE)
    BY ConnectedFacts
  <1>2. l.first \/ l.reconnecting
    BY DiallingFacts
  <1>3. Connected(l, first).attempts = 0
    BY <1>1 DEF LinkAt
  <1> QED
    BY <1>2, <1>3 DEF LinkNext, Standing

LEMMA FailedNext ==
    ASSUME NEW l, NEW first \in BOOLEAN, LinkAt(l, FALSE), Dialling(l, first)
    PROVE  LinkNext(l, FALSE, Failed(l, first), FALSE)
  <1>1. Standing(l, FALSE) = "waiting"
    BY DiallingFacts DEF Standing
  <1>2. l.attempts < MaxAttempts \/ l.attempts = MaxAttempts
    BY BoundsArePositive DEF LinkAt
  <1>3. CASE l.attempts < MaxAttempts
    <2>1. Standing(Failed(l, first), FALSE) = "waiting" /\ Failed(l, first).attempts = l.attempts + 1
      BY <1>3, FailedFacts DEF Standing
    <2> QED
      BY <1>1, <1>3, <2>1 DEF LinkNext
  <1>4. CASE l.attempts = MaxAttempts
    <2>1. Standing(Failed(l, first), FALSE) = "gaveUp" /\ Failed(l, first).attempts = l.attempts
      BY <1>4, FailedFacts DEF Standing
    <2> QED
      BY <1>1, <1>4, <2>1 DEF LinkNext
  <1> QED
    BY <1>2, <1>3, <1>4

LEMMA LostNext ==
    ASSUME NEW l, NEW up \in BOOLEAN, LinkAt(l, up), ~l.first, ~l.reconnecting
    PROVE  LinkNext(l, up, Schedule(l), FALSE)
  <1>1. CASE up
    <2>1. Standing(l, up) = "up" /\ Standing(Schedule(l), FALSE) = "waiting" /\ Schedule(l).attempts = 1
      BY <1>1, LostFacts DEF Standing
    <2> QED
      BY <2>1 DEF LinkNext
  <1>2. CASE ~up
    <2>1. Schedule(l) = l /\ up = FALSE
      BY <1>2, LostFacts
    <2> QED
      BY <2>1 DEF LinkNext
  <1> QED
    BY <1>1, <1>2

(* A reconnection timer fires: a dial takes its place. *)
LEMMA TimerFacts ==
    ASSUME NEW l, NEW up \in BOOLEAN, LinkAt(l, up), l.timers > 0
    PROVE  LET m == [l EXCEPT !.timers = @ - 1, !.dials = @ + 1]
           IN  /\ DOMAIN m = DOMAIN l
               /\ \A f \in DOMAIN l \ Counters : m[f] = l[f]
               /\ LinkAt(m, up) /\ LinkNext(l, up, m, up)
  <1> DEFINE m == [l EXCEPT !.timers = @ - 1, !.dials = @ + 1]
  <1>1. DOMAIN m = DOMAIN l /\ \A f \in DOMAIN l \ Counters : m[f] = l[f]
    BY DEF LinkAt, Counters
  <1>2. /\ m.first = l.first /\ m.reconnecting = l.reconnecting /\ m.attempts = l.attempts
        /\ m.timers = l.timers - 1 /\ m.dials = l.dials + 1
    BY DEF LinkAt, Counters
  <1> HIDE DEF m
  <1>3. LinkAt(m, up)
    BY <1>1, <1>2 DEF LinkAt
  <1>4. LinkNext(l, up, m, up)
    BY <1>2 DEF LinkNext, Standing
  <1> QED
    BY <1>1, <1>3, <1>4 DEF m
-----------------------------------------------------------------------------
(* No event comes before the first dials have ended: what the constructors *)
(* of the controllers start has ended when the first instance connects.    *)
DialsFirst == \A c \in Configs : "early" \notin c

ConfigInv == config \in Configs

RabbitFields == Counters \cup {"chan", "open", "closing"}
RabbitInv ==
    /\ DOMAIN rabbit = RabbitFields /\ IsFiniteSet(rabbit.open)
    /\ rabbit.chan # 0 => rabbit.chan \in rabbit.open
    /\ rabbit.first => rabbit.open = {} /\ \A e \in Kinds : emission[e].at = 0
    /\ "rabbitmq" \in config => LinkAt(rabbit, rabbit.chan # 0)
    /\ "rabbitmq" \notin config =>
         /\ rabbit.chan = 0 /\ rabbit.open = {} /\ ~rabbit.first /\ ~rabbit.reconnecting
         /\ rabbit.attempts = 0 /\ rabbit.timers = 0 /\ rabbit.dials = 0

(* What is left to show of a step when the emissions are known to move *)
RabbitKept(m) ==
    /\ DOMAIN m = RabbitFields /\ IsFiniteSet(m.open)
    /\ m.chan # 0 => m.chan \in m.open
    /\ m.first => rabbit.first /\ m.open = {}
    /\ LinkAt(m, m.chan # 0) /\ LinkNext(rabbit, rabbit.chan # 0, m, m.chan # 0)

LEMMA RabbitFieldFacts ==
    /\ "chan" \in RabbitFields \ Counters /\ "open" \in RabbitFields \ Counters
    /\ "closing" \in RabbitFields \ Counters /\ Counters \subseteq RabbitFields
  BY DEF RabbitFields, Counters

LEMMA RabbitDials ==
    ASSUME RabbitInv, "rabbitmq" \in config, NEW first \in BOOLEAN,
           RabbitDialled(first) \/ RabbitDialFails(first) \/ RabbitChannelFails(first)
    PROVE  RabbitKept(rabbit')
  <1> DEFINE c == NewId(rabbit.open \cup {rabbit.chan})
  <1>1. /\ DOMAIN rabbit = RabbitFields /\ IsFiniteSet(rabbit.open)
        /\ LinkAt(rabbit, rabbit.chan # 0) /\ Dialling(rabbit, first)
    BY DEF RabbitInv, RabbitDialled, RabbitDialFails, RabbitChannelFails
  <1>2. rabbit.chan = 0 /\ LinkAt(rabbit, FALSE)
    <2>1. ~(rabbit.chan # 0)
      BY <1>1, DiallingFacts
    <2> QED
      BY <1>1, <2>1
  <1>3. c \in Nat \ {0} /\ IsFiniteSet(rabbit.open \cup {c})
    BY <1>1, FS_AddElement, NewIdFacts
  <1> HIDE DEF c
  <1>4. CASE RabbitDialled(first)
    <2> DEFINE k == Connected(rabbit, first)
               m == [k EXCEPT !.chan = c, !.open = @ \cup {c}]
    <2>1. rabbit' = m
      BY <1>4 DEF RabbitDialled, c
    <2>2. /\ DOMAIN k = RabbitFields /\ k.open = rabbit.open
          /\ LinkAt(k, TRUE) /\ ~k.first
          /\ LinkNext(rabbit, FALSE, k, TRUE)
      BY <1>1, <1>2, ConnectedFacts, ConnectedNext, RabbitFieldFacts
    <2> HIDE DEF k
    <2>3. /\ DOMAIN m = RabbitFields /\ m.chan = c /\ m.open = rabbit.open \cup {c}
          /\ SameCounters(k, m)
      BY <2>2 DEF RabbitFields, Counters, SameCounters
    <2> HIDE DEF m
    <2>4. LinkAt(m, TRUE)
      BY <2>2, <2>3, LinkAtSame
    <2>5. LinkNext(rabbit, FALSE, m, TRUE)
      BY <2>2, <2>3 DEF LinkNext, Standing, SameCounters
    <2>6. (m.chan # 0) = TRUE /\ (rabbit.chan # 0) = FALSE
      BY <1>2, <1>3, <2>3
    <2>7. ~m.first
      BY <2>2, <2>3 DEF SameCounters
    <2> QED
      BY <1>3, <2>1, <2>3, <2>4, <2>5, <2>6, <2>7 DEF RabbitKept
  <1>5. ASSUME NEW r, DOMAIN r = RabbitFields, SameCounters(rabbit, r), r.chan = 0,
               IsFiniteSet(r.open), rabbit' = Failed(r, first)
        PROVE  RabbitKept(rabbit')
    <2> DEFINE m == Failed(r, first)
    <2>1. LinkAt(r, FALSE) /\ Dialling(r, first)
      BY <1>1, <1>2, <1>5, LinkAtSame DEF SameCounters, Dialling
    <2>2. /\ DOMAIN m = RabbitFields /\ m.open = r.open /\ m.chan = 0 /\ ~m.first
          /\ LinkAt(m, FALSE) /\ LinkNext(r, FALSE, m, FALSE)
      BY <1>5, <2>1, FailedFacts, FailedNext, RabbitFieldFacts
    <2> HIDE DEF m
    <2>3. LinkNext(rabbit, FALSE, m, FALSE)
      BY <1>5, <2>2 DEF LinkNext, Standing, SameCounters
    <2>4. (m.chan # 0) = FALSE /\ (rabbit.chan # 0) = FALSE
      BY <1>2, <2>2
    <2> QED
      BY <1>5, <2>2, <2>3, <2>4 DEF RabbitKept, m
  <1>6. CASE RabbitDialFails(first)
    <2>1. rabbit' = Failed(rabbit, first) /\ SameCounters(rabbit, rabbit)
      BY <1>6 DEF RabbitDialFails, SameCounters
    <2> QED
      BY <1>1, <1>2, <1>5, <2>1
  <1>7. CASE RabbitChannelFails(first)
    <2> DEFINE r == [rabbit EXCEPT !.open = @ \cup {c}]
    <2>1. rabbit' = Failed(r, first)
      BY <1>7 DEF RabbitChannelFails, c
    <2>2. /\ DOMAIN r = RabbitFields /\ SameCounters(rabbit, r) /\ r.chan = 0
          /\ r.open = rabbit.open \cup {c}
      BY <1>1, <1>2 DEF SameCounters, RabbitFields, Counters
    <2> QED
      BY <1>3, <1>5, <2>1, <2>2
  <1> QED
    BY <1>4, <1>6, <1>7

(* A connection or a channel that ends: r is the link without it. *)
LEMMA LossKeeps ==
    ASSUME RabbitInv, "rabbitmq" \in config, ~rabbit.first, NEW r, DOMAIN r = RabbitFields,
           SameCounters(rabbit, r), IsFiniteSet(r.open), r.chan # 0 => rabbit.chan # 0,
           rabbit' = Loss(r)
    PROVE  RabbitKept(rabbit')
  <1> DEFINE up == rabbit.chan # 0
  <1>1. LinkAt(rabbit, up) /\ LinkAt(r, up) /\ ~r.first
    BY LinkAtSame DEF RabbitInv, SameCounters
  <1>2. CASE r.reconnecting
    <2>1. rabbit' = r /\ ~up
      BY <1>1, <1>2 DEF Loss, LinkAt
    <2>2. r.chan = 0
      BY <2>1
    <2>3. (r.chan # 0) = FALSE /\ up = FALSE
      BY <2>1, <2>2
    <2>4. LinkNext(rabbit, FALSE, r, FALSE)
      BY DEF LinkNext, Standing, SameCounters
    <2>5. LinkAt(r, FALSE)
      BY <1>1, <2>3
    <2> QED
      BY <1>1, <2>1, <2>2, <2>3, <2>4, <2>5 DEF RabbitKept
  <1>3. CASE ~r.reconnecting
    <2> DEFINE l == Cleanup(r)
               m == Schedule(l)
    <2>1. rabbit' = m
      BY <1>3 DEF Loss
    <2>2. DOMAIN l = RabbitFields /\ l.chan = 0 /\ l.open = r.open /\ SameCounters(r, l)
      BY DEF Cleanup, RabbitFields, Counters, SameCounters
    <2> HIDE DEF l
    <2>3. LinkAt(l, up) /\ ~l.first /\ ~l.reconnecting
      BY <1>1, <1>3, <2>2, LinkAtSame DEF SameCounters
    <2>4. /\ DOMAIN m = RabbitFields /\ m.chan = 0 /\ m.open = r.open /\ ~m.first
          /\ LinkAt(m, FALSE) /\ LinkNext(l, up, m, FALSE)
      BY <2>2, <2>3, LostFacts, LostNext, RabbitFieldFacts
    <2> HIDE DEF m
    <2>5. LinkNext(rabbit, up, m, FALSE)
      BY <2>2, <2>4 DEF LinkNext, Standing, SameCounters
    <2>6. (m.chan # 0) = FALSE
      BY <2>4
    <2> QED
      BY <2>1, <2>4, <2>5, <2>6 DEF RabbitKept
  <1> QED
    BY <1>2, <1>3

LEMMA RabbitLoses ==
    ASSUME RabbitInv, "rabbitmq" \in config,
           (\E c \in rabbit.open : RabbitLost(c)) \/ RabbitChannelClosed
    PROVE  RabbitKept(rabbit')
  <1>1. DOMAIN rabbit = RabbitFields /\ IsFiniteSet(rabbit.open)
    BY DEF RabbitInv
  <1>2. ~rabbit.first
    BY DEF RabbitInv, RabbitLost, RabbitChannelClosed, RabbitUp
  <1>3. ASSUME NEW c \in rabbit.open, RabbitLost(c) PROVE RabbitKept(rabbit')
    <2> DEFINE r == [rabbit EXCEPT !.open = @ \ {c}, !.closing = @ \ {c}]
    <2>1. rabbit' = Loss(r)
      BY <1>3 DEF RabbitLost
    <2>2. /\ DOMAIN r = RabbitFields /\ SameCounters(rabbit, r)
          /\ r.chan = rabbit.chan /\ r.open = rabbit.open \ {c}
      BY <1>1 DEF SameCounters, RabbitFields, Counters
    <2> HIDE DEF r
    <2>3. IsFiniteSet(rabbit.open \ {c})
      BY <1>1, FS_RemoveElement
    <2> QED
      BY <1>2, <2>1, <2>2, <2>3, LossKeeps
  <1>4. CASE RabbitChannelClosed
    <2> DEFINE r == [rabbit EXCEPT !.chan = 0]
    <2>1. rabbit' = Loss(r)
      BY <1>4 DEF RabbitChannelClosed
    <2>2. /\ DOMAIN r = RabbitFields /\ SameCounters(rabbit, r)
          /\ r.chan = 0 /\ r.open = rabbit.open
      BY <1>1 DEF SameCounters, RabbitFields, Counters
    <2> HIDE DEF r
    <2> QED
      BY <1>1, <1>2, <2>1, <2>2, LossKeeps
  <1> QED
    BY <1>3, <1>4

LEMMA RabbitRests ==
    ASSUME RabbitInv, "rabbitmq" \in config, UNCHANGED rabbit
    PROVE  RabbitKept(rabbit')
  <1>1. LinkNext(rabbit, rabbit.chan # 0, rabbit, rabbit.chan # 0)
    BY DEF LinkNext
  <1> QED
    BY <1>1 DEF RabbitKept, RabbitInv

LEMMA RabbitTimes ==
    ASSUME RabbitInv, "rabbitmq" \in config, RabbitTimer
    PROVE  RabbitKept(rabbit')
  <1> DEFINE up == rabbit.chan # 0
             m == [rabbit EXCEPT !.timers = @ - 1, !.dials = @ + 1]
  <1>1. rabbit' = m /\ rabbit.timers > 0 /\ LinkAt(rabbit, up)
    BY DEF RabbitTimer, RabbitInv
  <1>2. /\ DOMAIN m = DOMAIN rabbit
        /\ \A f \in DOMAIN rabbit \ Counters : m[f] = rabbit[f]
        /\ LinkAt(m, up) /\ LinkNext(rabbit, up, m, up)
    BY <1>1, TimerFacts
  <1>3. m.chan = rabbit.chan /\ m.open = rabbit.open /\ m.first = rabbit.first
    BY DEF RabbitInv, RabbitFields, Counters
  <1> HIDE DEF m
  <1> QED
    BY <1>1, <1>2, <1>3 DEF RabbitKept, RabbitInv

LEMMA RabbitEmits ==
    ASSUME EmissionInv, RabbitInv, "rabbitmq" \in config, NEW e \in Kinds,
           RabbitEnter(e) \/ RabbitPublish(e)
    PROVE  RabbitKept(rabbit')
  <1>1. ~rabbit.first
    BY AtFacts DEF RabbitInv, RabbitEnter, RabbitPublish
  <1>2. CASE UNCHANGED rabbit
    BY <1>2, RabbitRests
  <1>3. CASE rabbit' = Schedule(rabbit) /\ rabbit.chan = 0 /\ ~rabbit.reconnecting
    <2> DEFINE m == Schedule(rabbit)
    <2>1. LinkAt(rabbit, FALSE) /\ (rabbit.chan # 0) = FALSE
      BY <1>3 DEF RabbitInv
    <2>2. m = rabbit
      BY <1>1, <1>3, <2>1, LostFacts
    <2> QED
      BY <1>2, <1>3, <2>2
  <1>4. RabbitEnter(e) => UNCHANGED rabbit \/ (rabbit' = Schedule(rabbit) /\ rabbit.chan = 0 /\ ~rabbit.reconnecting)
    BY DEF RabbitEnter, Ensure
  <1>5. RabbitPublish(e) => UNCHANGED rabbit
    BY DEF RabbitPublish, RabbitInv, RabbitUp
  <1> QED
    BY <1>2, <1>3, <1>4, <1>5

(* Without the controller there is no link, and nothing happens to it. *)
LEMMA NoRabbit ==
    ASSUME EmissionInv, RabbitInv, "rabbitmq" \notin config, [Next]_vars
    PROVE  UNCHANGED rabbit
  <1>1. /\ rabbit.chan = 0 /\ rabbit.open = {} /\ ~rabbit.first
        /\ rabbit.timers = 0 /\ rabbit.dials = 0
    BY DEF RabbitInv
  <1>2. ASSUME NEW e \in Kinds, NEW step, At(e, "rabbitmq", step) PROVE FALSE
    <2>1. emission[e].at = 2
      BY <1>2, AtFacts
    <2>2. On("rabbitmq")
      BY <2>1, OrderFacts DEF EmissionInv, EmissionAt
    <2> QED
      BY <2>2 DEF On
  <1>3. ~\E first \in BOOLEAN : RabbitDialled(first) \/ RabbitDialFails(first) \/ RabbitChannelFails(first)
    <2>1. \A first \in BOOLEAN : ~Dialling(rabbit, first)
      BY <1>1 DEF Dialling
    <2> QED
      BY <2>1 DEF RabbitDialled, RabbitDialFails, RabbitChannelFails
  <1>4. ~RabbitTimer /\ ~BrokerFault
    BY <1>1 DEF RabbitTimer, BrokerFault, RabbitLost, RabbitChannelClosed, RabbitUp
  <1>5. ~\E e \in Kinds : RabbitEnter(e) \/ RabbitPublish(e)
    BY <1>2 DEF RabbitEnter, RabbitPublish
  <1> QED
    BY <1>3, <1>4, <1>5 DEF Next, LinkStep, Dial, Set, Begin, EmissionStep, vars, links,
       KafkaDialled, KafkaDialFails, KafkaTimer, KafkaCleaned, NatsDialled,
       Websocket, Nats, Sqs, Pusher, ReadFails, WebhookEnter, WebhookGlobal, Post,
       KafkaEnter, KafkaRead, KafkaGlobal, KafkaSent, KafkaSendFails

LEMMA RabbitNext ==
    ASSUME EmissionInv, RabbitInv, "rabbitmq" \in config, [Next]_vars
    PROVE  RabbitKept(rabbit')
  <1>1. CASE UNCHANGED rabbit
    BY <1>1, RabbitRests
  <1>2. CASE \E first \in BOOLEAN : RabbitDialled(first) \/ RabbitDialFails(first) \/ RabbitChannelFails(first)
    BY <1>2, RabbitDials
  <1>3. CASE BrokerFault
    BY <1>3, RabbitLoses DEF BrokerFault
  <1>4. CASE RabbitTimer
    BY <1>4, RabbitTimes
  <1>5. CASE \E e \in Kinds : RabbitEnter(e) \/ RabbitPublish(e)
    BY <1>5, RabbitEmits
  <1> QED
    BY <1>1, <1>2, <1>3, <1>4, <1>5 DEF Next, LinkStep, Dial, Set, Begin, EmissionStep, vars, links,
       KafkaDialled, KafkaDialFails, KafkaTimer, KafkaCleaned, NatsDialled,
       Websocket, Nats, Sqs, Pusher, ReadFails, WebhookEnter, WebhookGlobal, Post,
       KafkaEnter, KafkaRead, KafkaGlobal, KafkaSent, KafkaSendFails

(* While a link dials for the first time no event is under way. *)
LEMMA NoneBegins ==
    ASSUME EmissionInv, DialsFirst, ConfigInv, [Next]_vars, rabbit.first \/ kafka.first,
           \A e \in Kinds : emission[e].at = 0
    PROVE  \A e \in Kinds : emission'[e].at = 0
  <1> SUFFICES ASSUME NEW e \in Kinds PROVE emission'[e].at = 0
    OBVIOUS
  <1>1. ~Begins(e) /\ ~Stays(e) /\ ~Returns(e) /\ ~Throws(e)
    BY DEF Begins, Stays, Returns, Throws, DialsFirst, ConfigInv
  <1> QED
    BY <1>1, NextMoves DEF Rests, Moves

LEMMA RabbitInvNext ==
    ASSUME DialsFirst, ConfigInv, EmissionInv, RabbitInv, [Next]_vars
    PROVE  RabbitInv' /\ ConfigInv'
  <1>1. UNCHANGED config
    BY NextMoves
  <1>2. CASE "rabbitmq" \in config
    <2>1. RabbitKept(rabbit')
      BY <1>2, RabbitNext
    <2>2. rabbit'.first => \A e \in Kinds : emission'[e].at = 0
      BY <2>1, NoneBegins DEF RabbitKept, RabbitInv
    <2> QED
      BY <1>1, <1>2, <2>1, <2>2 DEF RabbitKept, RabbitInv, ConfigInv
  <1>3. CASE "rabbitmq" \notin config
    BY <1>1, <1>3, NoRabbit DEF RabbitInv, ConfigInv
  <1> QED
    BY <1>2, <1>3

LEMMA RabbitInvInit == Init => RabbitInv /\ ConfigInv
  <1> SUFFICES ASSUME Init PROVE RabbitInv /\ ConfigInv
    OBVIOUS
  <1>1. /\ DOMAIN rabbit = RabbitFields /\ IsFiniteSet(rabbit.open) /\ rabbit.chan = 0
        /\ rabbit.open = {} /\ (rabbit.first <=> "rabbitmq" \in config) /\ ~rabbit.reconnecting
        /\ rabbit.attempts = 0 /\ rabbit.timers = 0 /\ rabbit.dials = 0
    BY FS_EmptySet DEF Init, RabbitFields, Counters
  <1>2. \A e \in Kinds : emission[e].at = 0
    BY DEF Init
  <1>3. Counters \subseteq DOMAIN rabbit /\ 0 \in 0 .. MaxAttempts
    BY <1>1, BoundsArePositive DEF RabbitFields
  <1>4. "rabbitmq" \in config => LinkAt(rabbit, FALSE)
    BY <1>1, <1>3 DEF LinkAt
  <1>5. (rabbit.chan # 0) = FALSE
    BY <1>1
  <1> QED
    BY <1>1, <1>2, <1>4, <1>5 DEF RabbitInv, ConfigInv, Init

(* The channel RabbitmqController publishes to is there: for any number of *)
(* lost connections and closed channels, while dials succeed and fail.     *)
THEOREM NoDeadChannelHolds ==
    ASSUME DialsFirst PROVE Spec => []NoDeadChannel
  <1>1. Init => EmissionInv /\ RabbitInv /\ ConfigInv
    BY EmissionInvInit, RabbitInvInit
  <1>2. EmissionInv /\ RabbitInv /\ ConfigInv /\ [Next]_vars
          => (EmissionInv /\ RabbitInv /\ ConfigInv)'
    BY EmissionInvNext, RabbitInvNext
  <1>3. RabbitInv => NoDeadChannel
    BY DEF RabbitInv, NoDeadChannel, RabbitUp
  <1> QED
    BY <1>1, <1>2, <1>3, PTL DEF Spec
-----------------------------------------------------------------------------
(* A reconnection of Kafka does not overtake the disconnects of cleanup:   *)
(* the timer is longer than they take.                                     *)
CleanupFirst == \A c \in Configs : "lag" \notin c

KafkaFields == Counters \cup {"producer", "cleaning"}
KafkaUp(l) == l.producer = "live" /\ ~l.reconnecting
KafkaInv ==
    /\ DOMAIN kafka = KafkaFields
    /\ kafka.first => ~kafka.cleaning /\ kafka.producer # "live" /\ \A e \in Kinds : emission[e].at = 0
    /\ kafka.dials > 0 => ~kafka.cleaning /\ kafka.producer # "live"
    /\ kafka.cleaning => ~KafkaUp(kafka)
    /\ "kafka" \in config => LinkAt(kafka, KafkaUp(kafka))
    /\ "kafka" \notin config =>
         /\ kafka.producer = "none" /\ ~kafka.cleaning /\ ~kafka.first /\ ~kafka.reconnecting
         /\ kafka.attempts = 0 /\ kafka.timers = 0 /\ kafka.dials = 0

KafkaKept(m) ==
    /\ DOMAIN m = KafkaFields
    /\ m.first => kafka.first /\ ~m.cleaning /\ m.producer # "live"
    /\ m.dials > 0 => ~m.cleaning /\ m.producer # "live"
    /\ m.cleaning => ~KafkaUp(m)
    /\ LinkAt(m, KafkaUp(m)) /\ LinkNext(kafka, KafkaUp(kafka), m, KafkaUp(m))

(* The same with the truth of "up" spelt out *)
LEMMA KafkaKeptBy ==
    ASSUME NEW m, NEW was \in BOOLEAN, NEW now \in BOOLEAN, DOMAIN m = KafkaFields,
           KafkaUp(kafka) <=> was, KafkaUp(m) <=> now,
           m.first => kafka.first /\ ~m.cleaning /\ m.producer # "live",
           m.dials > 0 => ~m.cleaning /\ m.producer # "live",
           m.cleaning => ~now,
           LinkAt(m, now), LinkNext(kafka, was, m, now)
    PROVE  KafkaKept(m)
  <1>1. KafkaUp(kafka) = was /\ KafkaUp(m) = now
    BY DEF KafkaUp
  <1> QED
    BY <1>1, Zenon DEF KafkaKept

LEMMA KafkaFieldFacts ==
    /\ "producer" \in KafkaFields \ Counters /\ "cleaning" \in KafkaFields \ Counters
    /\ Counters \subseteq KafkaFields
  BY DEF KafkaFields, Counters

LEMMA KafkaRests ==
    ASSUME KafkaInv, "kafka" \in config, UNCHANGED kafka
    PROVE  KafkaKept(kafka')
  <1>1. LinkNext(kafka, KafkaUp(kafka), kafka, KafkaUp(kafka))
    BY DEF LinkNext
  <1> QED
    BY <1>1 DEF KafkaKept, KafkaInv

LEMMA KafkaDials ==
    ASSUME KafkaInv, "kafka" \in config, NEW first \in BOOLEAN,
           KafkaDialled(first) \/ KafkaDialFails(first)
    PROVE  KafkaKept(kafka')
  <1>1. DOMAIN kafka = KafkaFields /\ LinkAt(kafka, KafkaUp(kafka)) /\ Dialling(kafka, first)
    BY DEF KafkaInv, KafkaDialled, KafkaDialFails
  <1>2. ~KafkaUp(kafka)
    BY <1>1, DiallingFacts DEF KafkaUp
  <1>3. LinkAt(kafka, FALSE)
    BY <1>1, <1>2 DEF LinkAt
  <1>4. ~kafka.cleaning /\ kafka.producer # "live"
    BY <1>1 DEF Dialling, KafkaInv
  <1>5. CASE KafkaDialled(first)
    <2> DEFINE k == Connected(kafka, first)
               m == [k EXCEPT !.producer = "live"]
    <2>1. kafka' = m
      BY <1>5 DEF KafkaDialled
    <2>2. /\ DOMAIN k = KafkaFields /\ k.cleaning = kafka.cleaning
          /\ LinkAt(k, TRUE) /\ ~k.first /\ ~k.reconnecting
          /\ LinkNext(kafka, FALSE, k, TRUE)
      BY <1>1, <1>3, ConnectedFacts, ConnectedNext, KafkaFieldFacts
    <2> HIDE DEF k
    <2>3. /\ DOMAIN m = KafkaFields /\ m.producer = "live" /\ m.cleaning = kafka.cleaning
          /\ SameCounters(k, m)
      BY <2>2 DEF KafkaFields, Counters, SameCounters
    <2> HIDE DEF m
    <2>4. LinkAt(m, TRUE)
      BY <2>2, <2>3, LinkAtSame
    <2>5. LinkNext(kafka, FALSE, m, TRUE)
      BY <2>2, <2>3 DEF LinkNext, Standing, SameCounters
    <2>6. KafkaUp(m) /\ ~m.first /\ m.dials = 0 /\ ~m.cleaning
      BY <1>4, <2>2, <2>3, <2>4 DEF SameCounters, KafkaUp, LinkAt
    <2>7. ~(m.dials > 0)
      BY <2>6
    <2> QED
      BY <1>2, <2>1, <2>3, <2>4, <2>5, <2>6, <2>7, KafkaKeptBy
  <1>6. CASE KafkaDialFails(first)
    <2> DEFINE m == Failed(kafka, first)
    <2>1. kafka' = m
      BY <1>6 DEF KafkaDialFails
    <2>2. /\ DOMAIN m = KafkaFields /\ m.cleaning = kafka.cleaning
          /\ m.producer = kafka.producer /\ ~m.first
          /\ LinkAt(m, FALSE) /\ LinkNext(kafka, FALSE, m, FALSE)
      BY <1>1, <1>3, FailedFacts, FailedNext, KafkaFieldFacts
    <2> HIDE DEF m
    <2>3. ~KafkaUp(m)
      BY <1>4, <2>2 DEF KafkaUp
    <2> QED
      BY <1>2, <1>4, <2>1, <2>2, <2>3, KafkaKeptBy
  <1> QED
    BY <1>5, <1>6

LEMMA KafkaTimes ==
    ASSUME KafkaInv, CleanupFirst, ConfigInv, "kafka" \in config, KafkaTimer
    PROVE  KafkaKept(kafka')
  <1> DEFINE t == [kafka EXCEPT !.timers = @ - 1, !.dials = @ + 1]
             m == [t EXCEPT !.producer = "idle"]
  <1>1. /\ kafka.timers > 0 /\ ~kafka.cleaning /\ DOMAIN kafka = KafkaFields
        /\ kafka' = [kafka EXCEPT !.timers = @ - 1, !.dials = @ + 1, !.producer = "idle"]
        /\ LinkAt(kafka, KafkaUp(kafka))
    BY DEF KafkaTimer, KafkaInv, CleanupFirst, ConfigInv
  <1>2. kafka.reconnecting /\ ~kafka.first /\ ~KafkaUp(kafka)
    BY <1>1 DEF LinkAt, KafkaUp
  <1>3. LinkAt(kafka, FALSE)
    BY <1>1, <1>2 DEF LinkAt
  <1>4. /\ DOMAIN t = KafkaFields /\ t.cleaning = kafka.cleaning
        /\ LinkAt(t, FALSE) /\ LinkNext(kafka, FALSE, t, FALSE)
    BY <1>1, <1>3, TimerFacts, KafkaFieldFacts
  <1>5. kafka' = m
    BY <1>1
  <1>6. t.first = kafka.first
    BY <1>1 DEF KafkaFields, Counters
  <1> HIDE DEF t
  <1>7. /\ DOMAIN m = KafkaFields /\ m.producer = "idle" /\ m.cleaning = kafka.cleaning
        /\ SameCounters(t, m)
    BY <1>4 DEF KafkaFields, Counters, SameCounters
  <1> HIDE DEF m
  <1>8. LinkAt(m, FALSE)
    BY <1>4, <1>7, LinkAtSame
  <1>9. LinkNext(kafka, FALSE, m, FALSE)
    BY <1>4, <1>7 DEF LinkNext, Standing, SameCounters
  <1>10. ~KafkaUp(m) /\ ~m.first
    BY <1>2, <1>6, <1>7 DEF KafkaUp, SameCounters
  <1> QED
    BY <1>1, <1>2, <1>5, <1>7, <1>8, <1>9, <1>10, KafkaKeptBy

LEMMA KafkaIsCleaned ==
    ASSUME KafkaInv, "kafka" \in config, KafkaCleaned
    PROVE  KafkaKept(kafka')
  <1> DEFINE m == [kafka EXCEPT !.cleaning = FALSE, !.producer = "none"]
  <1>1. /\ kafka.cleaning /\ ~KafkaUp(kafka) /\ DOMAIN kafka = KafkaFields
        /\ LinkAt(kafka, KafkaUp(kafka)) /\ kafka' = m
    BY DEF KafkaCleaned, KafkaInv
  <1>2. LinkAt(kafka, FALSE) /\ ~kafka.first /\ ~(kafka.dials > 0)
    BY <1>1 DEF LinkAt, KafkaInv
  <1>3. /\ DOMAIN m = KafkaFields /\ m.producer = "none" /\ ~m.cleaning
        /\ SameCounters(kafka, m)
    BY <1>1 DEF KafkaFields, Counters, SameCounters
  <1> HIDE DEF m
  <1>4. LinkAt(m, FALSE)
    BY <1>1, <1>2, <1>3, LinkAtSame
  <1>5. LinkNext(kafka, FALSE, m, FALSE)
    BY <1>3 DEF LinkNext, Standing, SameCounters
  <1>6. ~KafkaUp(m) /\ ~m.first /\ ~(m.dials > 0)
    BY <1>2, <1>3 DEF KafkaUp, SameCounters
  <1> QED
    BY <1>1, <1>3, <1>4, <1>5, <1>6, KafkaKeptBy

LEMMA KafkaEmits ==
    ASSUME EmissionInv, KafkaInv, "kafka" \in config, NEW e \in Kinds,
           KafkaEnter(e) \/ \E t \in Targets : KafkaSendFails(e, t)
    PROVE  KafkaKept(kafka')
  <1>1. ~kafka.first /\ DOMAIN kafka = KafkaFields /\ LinkAt(kafka, KafkaUp(kafka))
    BY AtFacts DEF KafkaInv, KafkaEnter, KafkaSendFails
  <1>2. CASE UNCHANGED kafka
    BY <1>2, KafkaRests
  <1>3. CASE kafka' = Schedule(kafka) /\ kafka.producer = "none" /\ ~kafka.reconnecting
    <2>1. ~KafkaUp(kafka)
      BY <1>3 DEF KafkaUp
    <2>2. LinkAt(kafka, FALSE)
      BY <1>1, <2>1 DEF LinkAt
    <2>3. Schedule(kafka) = kafka
      BY <1>1, <1>3, <2>2, LostFacts
    <2> QED
      BY <1>2, <1>3, <2>3
  <1>4. CASE kafka' = Schedule([kafka EXCEPT !.cleaning = TRUE]) /\ ~kafka.reconnecting
    <2> DEFINE l == [kafka EXCEPT !.cleaning = TRUE]
               m == Schedule(l)
    <2>1. /\ DOMAIN l = KafkaFields /\ l.cleaning /\ l.producer = kafka.producer
          /\ SameCounters(kafka, l)
      BY <1>1 DEF KafkaFields, Counters, SameCounters
    <2> HIDE DEF l
    <2>2. ASSUME NEW up \in BOOLEAN, KafkaUp(kafka) <=> up
          PROVE  KafkaKept(m)
      <3>1. LinkAt(kafka, up)
        BY <1>1, <2>2 DEF LinkAt
      <3>2. LinkAt(l, up) /\ ~l.first /\ ~l.reconnecting
        BY <1>1, <1>4, <2>1, <3>1, LinkAtSame DEF SameCounters
      <3>3. /\ DOMAIN m = KafkaFields /\ ~m.first
            /\ LinkAt(m, FALSE) /\ LinkNext(l, up, m, FALSE)
        BY <2>1, <3>2, LostFacts, LostNext
      <3>4. LinkNext(kafka, up, m, FALSE)
        BY <2>1, <3>3 DEF LinkNext, Standing, SameCounters
      <3>5. m.dials = l.dials /\ m.producer = l.producer
        BY <2>1, ScheduleFacts, KafkaFieldFacts DEF Counters
      <3>6. ~(m.dials > 0)
        BY <3>2, <3>5 DEF LinkAt
      <3>7. ~KafkaUp(m)
        <4>1. CASE up
          BY <3>2, <4>1, LostFacts DEF KafkaUp
        <4>2. CASE ~up
          BY <1>4, <2>1, <2>2, <3>5, <4>2 DEF KafkaUp
        <4> QED
          BY <4>1, <4>2
      <3> QED
        BY <2>2, <3>3, <3>4, <3>6, <3>7, KafkaKeptBy
    <2> QED
      BY <1>4, <2>2 DEF l, KafkaUp
  <1>5. KafkaEnter(e) => \/ UNCHANGED kafka
                         \/ kafka' = Schedule(kafka) /\ kafka.producer = "none" /\ ~kafka.reconnecting
    BY DEF KafkaEnter, Ensure
  <1>6. (\E t \in Targets : KafkaSendFails(e, t))
          => \/ UNCHANGED kafka
             \/ kafka' = Schedule([kafka EXCEPT !.cleaning = TRUE]) /\ ~kafka.reconnecting
    BY DEF KafkaSendFails, KafkaLoss
  <1> QED
    BY <1>2, <1>3, <1>4, <1>5, <1>6

(* Without the controller there is no link, and nothing happens to it. *)
LEMMA NoKafka ==
    ASSUME EmissionInv, KafkaInv, "kafka" \notin config, [Next]_vars
    PROVE  UNCHANGED kafka
  <1>1. ~kafka.cleaning /\ ~kafka.first /\ kafka.timers = 0 /\ kafka.dials = 0
    BY DEF KafkaInv
  <1>2. ASSUME NEW e \in Kinds, NEW step, At(e, "kafka", step) PROVE FALSE
    <2>1. emission[e].at = 7
      BY <1>2, AtFacts
    <2>2. On("kafka")
      BY <2>1, OrderFacts DEF EmissionInv, EmissionAt
    <2> QED
      BY <2>2 DEF On
  <1>3. ~\E first \in BOOLEAN : KafkaDialled(first) \/ KafkaDialFails(first)
    <2>1. \A first \in BOOLEAN : ~Dialling(kafka, first)
      BY <1>1 DEF Dialling
    <2> QED
      BY <2>1 DEF KafkaDialled, KafkaDialFails
  <1>4. ~KafkaTimer /\ ~KafkaCleaned
    BY <1>1 DEF KafkaTimer, KafkaCleaned
  <1>5. ~\E e \in Kinds : KafkaEnter(e) \/ \E t \in Targets : KafkaSendFails(e, t)
    BY <1>2 DEF KafkaEnter, KafkaSendFails
  <1> QED
    BY <1>3, <1>4, <1>5 DEF Next, LinkStep, BrokerFault, Dial, Set, Begin, EmissionStep, vars, links,
       RabbitDialled, RabbitDialFails, RabbitChannelFails, RabbitTimer, RabbitLost, RabbitChannelClosed,
       NatsDialled, Websocket, Nats, Sqs, Pusher, ReadFails, WebhookEnter, WebhookGlobal, Post,
       RabbitEnter, RabbitPublish, KafkaRead, KafkaGlobal, KafkaSent

LEMMA KafkaNext ==
    ASSUME CleanupFirst, ConfigInv, EmissionInv, KafkaInv, "kafka" \in config, [Next]_vars
    PROVE  KafkaKept(kafka')
  <1>1. CASE UNCHANGED kafka
    BY <1>1, KafkaRests
  <1>2. CASE \E first \in BOOLEAN : KafkaDialled(first) \/ KafkaDialFails(first)
    BY <1>2, KafkaDials
  <1>3. CASE KafkaTimer
    BY <1>3, KafkaTimes
  <1>4. CASE KafkaCleaned
    BY <1>4, KafkaIsCleaned
  <1>5. CASE \E e \in Kinds : KafkaEnter(e) \/ \E t \in Targets : KafkaSendFails(e, t)
    BY <1>5, KafkaEmits
  <1> QED
    BY <1>1, <1>2, <1>3, <1>4, <1>5 DEF Next, LinkStep, BrokerFault, Dial, Set, Begin, EmissionStep, vars, links,
       RabbitDialled, RabbitDialFails, RabbitChannelFails, RabbitTimer, RabbitLost, RabbitChannelClosed,
       NatsDialled, Websocket, Nats, Sqs, Pusher, ReadFails, WebhookEnter, WebhookGlobal, Post,
       RabbitEnter, RabbitPublish, KafkaRead, KafkaGlobal, KafkaSent

LEMMA KafkaInvNext ==
    ASSUME DialsFirst, CleanupFirst, ConfigInv, EmissionInv, KafkaInv, [Next]_vars
    PROVE  KafkaInv'
  <1>1. UNCHANGED config
    BY NextMoves
  <1>2. CASE "kafka" \in config
    <2>1. KafkaKept(kafka')
      BY <1>2, KafkaNext
    <2>2. kafka'.first => \A e \in Kinds : emission'[e].at = 0
      BY <2>1, NoneBegins DEF KafkaKept, KafkaInv
    <2> QED
      BY <1>1, <1>2, <2>1, <2>2 DEF KafkaKept, KafkaInv
  <1>3. CASE "kafka" \notin config
    BY <1>1, <1>3, NoKafka DEF KafkaInv
  <1> QED
    BY <1>2, <1>3

LEMMA KafkaInvInit == Init => KafkaInv
  <1> SUFFICES ASSUME Init PROVE KafkaInv
    OBVIOUS
  <1>1. /\ DOMAIN kafka = KafkaFields /\ ~kafka.cleaning /\ ~kafka.reconnecting
        /\ (kafka.first <=> "kafka" \in config)
        /\ kafka.producer = IF "kafka" \in config THEN "idle" ELSE "none"
        /\ kafka.attempts = 0 /\ kafka.timers = 0 /\ kafka.dials = 0
    BY DEF Init, KafkaFields, Counters
  <1>2. \A e \in Kinds : emission[e].at = 0
    BY DEF Init
  <1>3. Counters \subseteq DOMAIN kafka /\ 0 \in 0 .. MaxAttempts
    BY <1>1, BoundsArePositive DEF KafkaFields
  <1>4. ~KafkaUp(kafka)
    BY <1>1 DEF KafkaUp
  <1>5. "kafka" \in config => LinkAt(kafka, KafkaUp(kafka))
    BY <1>1, <1>3, <1>4 DEF LinkAt
  <1> QED
    BY <1>1, <1>2, <1>4, <1>5 DEF KafkaInv
-----------------------------------------------------------------------------
RabbitState == State("rabbitmq", rabbit, rabbit.chan # 0)
KafkaState == State("kafka", kafka, kafka.producer = "live" /\ ~kafka.reconnecting)

(* Without a controller its link is waiting; with it, it stands as in      *)
(* LinkNext.                                                               *)
LEMMA RabbitStates ==
    ASSUME RabbitInv
    PROVE  /\ "rabbitmq" \in config => RabbitState = Standing(rabbit, rabbit.chan # 0)
           /\ "rabbitmq" \notin config => RabbitState = "waiting"
  BY DEF RabbitState, State, Standing, RabbitInv

LEMMA KafkaStates ==
    ASSUME KafkaInv
    PROVE  /\ "kafka" \in config => KafkaState = Standing(kafka, KafkaUp(kafka))
           /\ "kafka" \notin config => KafkaState = "waiting"
  BY DEF KafkaState, State, Standing, KafkaInv, KafkaUp

LEMMA RabbitRefines ==
    ASSUME DialsFirst, ConfigInv, EmissionInv, RabbitInv, [Next]_vars
    PROVE  [Rabbit!Next]_<<RabbitState, rabbit.attempts>>
  <1>1. UNCHANGED config /\ RabbitInv'
    BY NextMoves, RabbitInvNext
  <1>2. CASE "rabbitmq" \in config
    <2>1. LinkNext(rabbit, rabbit.chan # 0, rabbit', rabbit'.chan # 0)
      BY <1>2, RabbitNext DEF RabbitKept
    <2>2. RabbitState = Standing(rabbit, rabbit.chan # 0)
      BY <1>2, RabbitStates
    <2>3. RabbitState' = Standing(rabbit', rabbit'.chan # 0)
      BY <1>1, <1>2 DEF RabbitState, State, Standing, RabbitInv
    <2> QED
      BY <2>1, <2>2, <2>3
         DEF LinkNext, Rabbit!Next, Rabbit!Establish, Rabbit!Lose, Rabbit!Fail, Rabbit!GiveUp, RabbitState
  <1>3. CASE "rabbitmq" \notin config
    <2>1. UNCHANGED rabbit
      BY <1>3, NoRabbit
    <2> QED
      BY <1>1, <2>1 DEF RabbitState, State
  <1> QED
    BY <1>2, <1>3

LEMMA KafkaRefines ==
    ASSUME DialsFirst, CleanupFirst, ConfigInv, EmissionInv, KafkaInv, [Next]_vars
    PROVE  [Kafka!Next]_<<KafkaState, kafka.attempts>>
  <1>1. UNCHANGED config /\ KafkaInv'
    BY NextMoves, KafkaInvNext
  <1>2. CASE "kafka" \in config
    <2>1. LinkNext(kafka, KafkaUp(kafka), kafka', KafkaUp(kafka'))
      BY <1>2, KafkaNext DEF KafkaKept
    <2>2. KafkaState = Standing(kafka, KafkaUp(kafka))
      BY <1>2, KafkaStates
    <2>3. KafkaState' = Standing(kafka', KafkaUp(kafka'))
      BY <1>1, <1>2 DEF KafkaState, State, Standing, KafkaInv, KafkaUp
    <2> QED
      BY <2>1, <2>2, <2>3
         DEF LinkNext, Kafka!Next, Kafka!Establish, Kafka!Lose, Kafka!Fail, Kafka!GiveUp, KafkaState
  <1>3. CASE "kafka" \notin config
    <2>1. UNCHANGED kafka
      BY <1>3, NoKafka
    <2> QED
      BY <1>1, <2>1 DEF KafkaState, State
  <1> QED
    BY <1>2, <1>3

(* The links of RabbitmqController and KafkaController implement           *)
(* BrokerLink: at most MaxAttempts reconnections in a row, a success       *)
(* starts the count anew, and a link given up is never dialled again.      *)
THEOREM LinksHold ==
    ASSUME DialsFirst, CleanupFirst PROVE Spec => LinksKeepPromise
  <1>1. Init => EmissionInv /\ RabbitInv /\ ConfigInv /\ KafkaInv
    BY EmissionInvInit, RabbitInvInit, KafkaInvInit
  <1>2. EmissionInv /\ RabbitInv /\ ConfigInv /\ KafkaInv /\ [Next]_vars
          => (EmissionInv /\ RabbitInv /\ ConfigInv /\ KafkaInv)'
    BY EmissionInvNext, RabbitInvNext, KafkaInvNext
  <1>3. Init => Rabbit!Init /\ Kafka!Init
    <2> SUFFICES ASSUME Init PROVE Rabbit!Init /\ Kafka!Init
      OBVIOUS
    <2>1. /\ rabbit.chan = 0 /\ rabbit.attempts = 0 /\ (rabbit.first <=> "rabbitmq" \in config)
          /\ kafka.producer # "live" /\ kafka.attempts = 0 /\ (kafka.first <=> "kafka" \in config)
      BY DEF Init
    <2>2. Rabbit!Init
      BY <2>1 DEF Rabbit!Init, State
    <2>3. Kafka!Init
      BY <2>1 DEF Kafka!Init, State
    <2> QED
      BY <2>2, <2>3
  <1>4. EmissionInv /\ RabbitInv /\ ConfigInv /\ [Next]_vars
          => [Rabbit!Next]_<<RabbitState, rabbit.attempts>>
    BY RabbitRefines
  <1>5. EmissionInv /\ KafkaInv /\ ConfigInv /\ [Next]_vars
          => [Kafka!Next]_<<KafkaState, kafka.attempts>>
    BY KafkaRefines
  <1> QED
    BY <1>1, <1>2, <1>3, <1>4, <1>5, PTL
       DEF Spec, LinksKeepPromise, Rabbit!Spec, Kafka!Spec, RabbitState, KafkaState
=============================================================================
