---------------------------- MODULE BrokerLink ----------------------------
(***************************************************************************)
(* What the controllers of RabbitMQ and of Kafka promise of their link to  *)
(* the broker: a link that is lost is dialled again at most MaxAttempts    *)
(* times in a row, a success starts the count anew, and a controller that  *)
(* has given up never dials again.                                         *)
(***************************************************************************)
EXTENDS Naturals

CONSTANT MaxAttempts  \* maxReconnectAttempts

VARIABLES
    state,  \* "waiting": a dial is due or under way
    tries   \* the reconnections since the link was up

Init == state = "waiting" /\ tries = 0

Establish == state = "waiting" /\ state' = "up" /\ tries' = 0

Lose == state = "up" /\ state' = "waiting" /\ tries' = 1

Fail == state = "waiting" /\ tries < MaxAttempts /\ state' = "waiting" /\ tries' = tries + 1

GiveUp == state = "waiting" /\ tries = MaxAttempts /\ state' = "gaveUp" /\ tries' = tries

Next == Establish \/ Lose \/ Fail \/ GiveUp

Spec == Init /\ [][Next]_<<state, tries>>
===========================================================================
