-------------------------- MODULE EventDelivery ---------------------------
(***************************************************************************)
(* The event controllers of evolution-api. An event of an instance is      *)
(* handed to the controllers one after another by an emission of its own;  *)
(* RabbitMQ and Kafka keep a link to a broker that they dial again when it *)
(* is lost, and the webhook is posted until the endpoint takes it.         *)
(*                                                                         *)
(* An action is what happens between two awaits. A copy <<s, t>> is the    *)
(* event as the controller s hands it to the target t: the queue, topic or *)
(* address of the instance, or the global one.                             *)
(***************************************************************************)
EXTENDS Integers, FiniteSets, Sequences, SequencesExt, TLC

CONSTANTS
    Configs,      \* a behaviour has the options, controllers and events of one of them
    MaxAttempts,  \* maxReconnectAttempts of both brokers, 10
    MaxPosts,     \* WEBHOOK.RETRY.MAX_ATTEMPTS, 10
    MaxSets,      \* bound: requests that change a controller's row
    MaxFaults     \* bound: connections and channels lost, reads and uploads that fail

Order == <<"websocket", "rabbitmq", "nats", "sqs", "webhook", "pusher", "kafka">>
Sinks == Range(Order)
Targets == {"local", "global"}

\* "call" is for the websocket only; "limit" is the QR event without a QR code.
Kinds == {"message", "qrcode", "limit", "call"}

\* "global": the events also go to the global targets; "requests": rows are set; "early": events come before the first
\* dials have ended; "lag": a reconnection may overtake the end of the connection it replaces; "badKey": the headers of
\* the webhook's row have a jwt_key that jwt.sign refuses, an empty one say.
Options == {"global", "requests", "early", "lag", "badKey"}

ASSUME ConfigsAreOptions == Configs \subseteq SUBSET (Options \cup Sinks \cup Kinds)
ASSUME BoundsArePositive == {MaxAttempts, MaxPosts} \subseteq Nat \ {0}
ASSUME BoundsAreNumbers == {MaxSets, MaxFaults} \subseteq Nat

VARIABLES
    config,    \* the options, the enabled controllers and the events of this behaviour
    rows,      \* the controllers whose row of the instance is enabled and lists the events
    client,    \* pusherClients has a client of the instance
    rabbit,    \* the link of the RabbitMQ controller
    kafka,     \* the link of the Kafka controller
    nats,      \* natsClient
    emission,  \* how far the emission of each event is
    got,       \* history: the copies of each event that were handed over
    bare,      \* history: the controllers that handed an event over without its QR code
    answers,   \* history: the answers to the POSTs of each event, by target
    count      \* what the bounds bound

vars == <<config, rows, client, rabbit, kafka, nats, emission, got, bare, answers, count>>
links == <<rabbit, kafka, nats>>

On(s) == s \in config \/ s = "webhook"
Wants(e, s) == e = "call" => s = "websocket"

\* The next controller that does something with the event.
After(e, i) ==
    LET later == {j \in i + 1 .. Len(Order) : On(Order[j]) /\ Wants(e, Order[j])}
    IN  IF later = {} THEN Len(Order) + 1 ELSE CHOOSE j \in later : \A k \in later : j <= k

Ended(e) == emission[e].at = Len(Order) + 1
At(e, s, step) ==
    /\ ~Ended(e) /\ emission[e].at > 0
    /\ Order[emission[e].at] = s /\ emission[e].step = step

Move(e, new) == emission' = [emission EXCEPT ![e] = new]
\* emit of this controller returns, and emit of the next one is called.
Return(e) == Move(e, [emission[e] EXCEPT !.at = After(e, emission[e].at), !.step = "enter", !.tries = 0])
\* emit rejects, and with it the emission: the later controllers are not called. failed: for a
\* read or an upload that failed.
Throw(e, failed) ==
    Move(e, [emission[e] EXCEPT !.at = Len(Order) + 1, !.thrown = TRUE, !.failed = failed])

\* The copies of a controller that uses the row and the global target alike.
Copies(s) ==
    {<<s, t>> : t \in {x \in Targets : IF x = "local" THEN s \in rows ELSE "global" \in config}}

HandOver(e, copies) ==
    /\ got' = [got EXCEPT ![e] = @ \cup copies]
    /\ bare' = [bare EXCEPT ![e] = IF emission[e].bare /\ copies # {}
                                   THEN @ \cup {Order[emission[e].at]} ELSE @]

Fault == count.faults < MaxFaults /\ count' = [count EXCEPT !.faults = @ + 1]

(* The reconnections, the same in both controllers *)

Schedule(l) ==
    IF l.attempts >= MaxAttempts \/ l.reconnecting THEN l
    ELSE [l EXCEPT !.reconnecting = TRUE, !.attempts = @ + 1, !.timers = @ + 1]

\* Mutant: the timer's catch leaves isReconnecting set.
Failed_StaysReconnecting(l, first) ==
    Schedule(IF first THEN [l EXCEPT !.first = FALSE] ELSE [l EXCEPT !.dials = @ - 1])

\* connect's catch, and the catch of the timer that called it.
Failed(l, first) ==
    IF first THEN Schedule([l EXCEPT !.first = FALSE])
    ELSE Schedule([Schedule([l EXCEPT !.dials = @ - 1]) EXCEPT !.reconnecting = FALSE])

\* Mutant: a success does not start the count anew.
Connected_KeepsAttempts(l, first) ==
    [(IF first THEN [l EXCEPT !.first = FALSE] ELSE [l EXCEPT !.dials = @ - 1]) EXCEPT !.reconnecting = FALSE]

Connected(l, first) ==
    LET ended == IF first THEN [l EXCEPT !.first = FALSE] ELSE [l EXCEPT !.dials = @ - 1]
    IN  [ended EXCEPT !.attempts = 0, !.reconnecting = FALSE]

Dialling(l, first) == IF first THEN l.first ELSE l.dials > 0

Ensure(l, up) == IF up \/ l.reconnecting THEN l ELSE Schedule(l)

(* RabbitMQ *)

RabbitUp == rabbit.chan \in rabbit.open

\* cleanup: a channel that is open is closed, and its connection with it; a channel that the
\* broker closed makes close throw, and its connection is forgotten.
Cleanup(l) == [l EXCEPT !.chan = 0, !.closing = IF l.chan \in l.open THEN @ \cup {l.chan} ELSE @]

\* Mutant: the lost channel is kept.
Loss_NoCleanup(l) == IF l.reconnecting THEN l ELSE Schedule(l)

Loss(l) == IF l.reconnecting THEN l ELSE Schedule(Cleanup(l))

\* A free name for a new connection.
NewId(open) == CHOOSE n \in 1 .. Cardinality(open) + 1 : n \notin open

RabbitDialled(first) ==
    /\ Dialling(rabbit, first)
    /\ LET c == NewId(rabbit.open \cup {rabbit.chan})
       IN  rabbit' = [Connected(rabbit, first) EXCEPT !.chan = c, !.open = @ \cup {c}]
    /\ UNCHANGED <<config, rows, client, kafka, nats, emission, got, bare, answers, count>>

RabbitDialFails(first) ==
    /\ Dialling(rabbit, first)
    /\ rabbit' = Failed(rabbit, first)
    /\ UNCHANGED <<config, rows, client, kafka, nats, emission, got, bare, answers, count>>

\* createChannel fails: the connection stays open and keeps its handlers.
RabbitChannelFails(first) ==
    /\ Dialling(rabbit, first)
    /\ Fault
    /\ LET c == NewId(rabbit.open \cup {rabbit.chan})
       IN  rabbit' = Failed([rabbit EXCEPT !.open = @ \cup {c}], first)
    /\ UNCHANGED <<config, rows, client, kafka, nats, emission, got, bare, answers>>

\* A connection ends: its own handlers and those of its channel run.
RabbitLost(c) ==
    /\ c \in rabbit.open
    /\ IF c \in rabbit.closing THEN UNCHANGED count ELSE Fault
    /\ rabbit' = Loss([rabbit EXCEPT !.open = @ \ {c}, !.closing = @ \ {c}])
    /\ UNCHANGED <<config, rows, client, kafka, nats, emission, got, bare, answers>>

\* The broker closes the channel, for a queue declared otherwise: its connection stays open.
RabbitChannelClosed ==
    /\ RabbitUp
    /\ Fault
    /\ rabbit' = Loss([rabbit EXCEPT !.chan = 0])
    /\ UNCHANGED <<config, rows, client, kafka, nats, emission, got, bare, answers>>

RabbitTimer ==
    /\ rabbit.timers > 0
    /\ "lag" \in config \/ rabbit.closing = {}
    /\ rabbit' = [rabbit EXCEPT !.timers = @ - 1, !.dials = @ + 1]
    /\ UNCHANGED <<config, rows, client, kafka, nats, emission, got, bare, answers, count>>

RabbitEnter(e) ==
    /\ At(e, "rabbitmq", "enter")
    /\ rabbit' = Ensure(rabbit, rabbit.chan # 0)
    /\ IF rabbit.chan = 0 THEN Return(e) ELSE Move(e, [emission[e] EXCEPT !.step = "read"])
    /\ UNCHANGED <<config, rows, client, kafka, nats, got, bare, answers, count>>

\* Both targets, each in three attempts that nothing can come between: a channel that is dead
\* refuses them all.
RabbitPublish(e) ==
    /\ At(e, "rabbitmq", "read")
    /\ LET copies == IF rabbit.chan # 0 THEN Copies("rabbitmq") ELSE {}
       IN  /\ HandOver(e, IF RabbitUp THEN copies ELSE {})
           /\ rabbit' = IF RabbitUp \/ copies = {} THEN rabbit ELSE Loss(rabbit)
    /\ Return(e)
    /\ UNCHANGED <<config, rows, client, kafka, nats, answers, count>>

(* Kafka *)

\* producer: "idle" was created and is not connected, "none" was taken down.
KafkaLoss(l) == IF l.reconnecting THEN l ELSE Schedule([l EXCEPT !.cleaning = TRUE])

KafkaTimer ==
    /\ kafka.timers > 0
    /\ "lag" \in config \/ ~kafka.cleaning
    /\ kafka' = [kafka EXCEPT !.timers = @ - 1, !.dials = @ + 1, !.producer = "idle"]
    /\ UNCHANGED <<config, rows, client, rabbit, nats, emission, got, bare, answers, count>>

KafkaDialled(first) ==
    /\ Dialling(kafka, first)
    /\ kafka' = [Connected(kafka, first) EXCEPT !.producer = "live"]
    /\ UNCHANGED <<config, rows, client, rabbit, nats, emission, got, bare, answers, count>>

KafkaDialFails(first) ==
    /\ Dialling(kafka, first)
    /\ kafka' = Failed(kafka, first)
    /\ UNCHANGED <<config, rows, client, rabbit, nats, emission, got, bare, answers, count>>

\* The disconnects of cleanup have ended.
KafkaCleaned ==
    /\ kafka.cleaning
    /\ kafka' = [kafka EXCEPT !.cleaning = FALSE, !.producer = "none"]
    /\ UNCHANGED <<config, rows, client, rabbit, nats, emission, got, bare, answers, count>>

KafkaEnter(e) ==
    /\ At(e, "kafka", "enter")
    /\ kafka' = Ensure(kafka, kafka.producer # "none")
    /\ IF kafka.producer = "none" THEN Return(e) ELSE Move(e, [emission[e] EXCEPT !.step = "read"])
    /\ UNCHANGED <<config, rows, client, rabbit, nats, got, bare, answers, count>>

\* The first copy of the event is sent if the row asks for it.
KafkaRead(e) ==
    /\ At(e, "kafka", "read")
    /\ Move(e, [emission[e] EXCEPT !.step = IF "kafka" \in rows /\ kafka.producer # "none"
                                            THEN "local" ELSE "localDone"])
    /\ UNCHANGED <<config, rows, client, links, got, bare, answers, count>>

KafkaGlobal(e) ==
    /\ At(e, "kafka", "localDone")
    /\ IF "global" \in config /\ kafka.producer # "none"
       THEN Move(e, [emission[e] EXCEPT !.step = "global", !.tries = 0])
       ELSE Return(e)
    /\ UNCHANGED <<config, rows, client, links, got, bare, answers, count>>

KafkaSent(e, t) ==
    /\ At(e, "kafka", t)
    /\ kafka.producer = "live"
    /\ HandOver(e, {<<"kafka", t>>})
    /\ IF t = "local" THEN Move(e, [emission[e] EXCEPT !.step = "localDone"]) ELSE Return(e)
    /\ UNCHANGED <<config, rows, client, links, answers, count>>

KafkaSendFails(e, t) ==
    /\ At(e, "kafka", t)
    /\ IF emission[e].tries < 2
       THEN Move(e, [emission[e] EXCEPT !.tries = @ + 1]) /\ UNCHANGED kafka
       ELSE /\ kafka' = KafkaLoss(kafka)
            /\ IF t = "local" THEN Move(e, [emission[e] EXCEPT !.step = "localDone"]) ELSE Return(e)
    /\ UNCHANGED <<config, rows, client, rabbit, nats, got, bare, answers, count>>

(* The controllers that hand an event over in the step that has read the row *)

NatsDialled(ok) ==
    /\ nats = "dialing"
    /\ nats' = IF ok THEN "up" ELSE "none"
    /\ UNCHANGED <<config, rows, client, rabbit, kafka, emission, got, bare, answers, count>>

\* A read that fails is caught here, after the global event; a call is sent to this controller only.
Websocket(e) ==
    /\ At(e, "websocket", "enter")
    /\ \/ HandOver(e, Copies("websocket")) /\ UNCHANGED count
       \/ HandOver(e, Copies("websocket") \ {<<"websocket", "local">>}) /\ Fault
    /\ Return(e)
    /\ UNCHANGED <<config, rows, client, links, answers>>

Nats(e) ==
    /\ At(e, "nats", "enter")
    /\ HandOver(e, IF nats = "up" THEN Copies("nats") ELSE {})
    /\ Return(e)
    /\ UNCHANGED <<config, rows, client, links, answers, count>>

\* One copy, of the global or of the instance's queue; none of a payload that is too large.
Sqs(e) ==
    /\ At(e, "sqs", "enter")
    /\ \E large \in BOOLEAN :
          HandOver(e, IF large THEN {}
                      ELSE IF "global" \in config THEN {<<"sqs", "global">>} ELSE Copies("sqs"))
    /\ Return(e)
    /\ UNCHANGED <<config, rows, client, links, answers, count>>

\* The QR code is deleted from the data, which the other controllers share; without one, that
\* throws.
Pusher(e) ==
    /\ At(e, "pusher", "enter")
    /\ IF e = "limit"
       THEN Throw(e, FALSE) /\ UNCHANGED <<got, bare>>
       ELSE LET now == [emission[e] EXCEPT !.bare = e = "qrcode"]
                copies == IF client THEN Copies("pusher") ELSE Copies("pusher") \ {<<"pusher", "local">>}
            IN  /\ Move(e, [now EXCEPT !.at = After(e, @)])
                /\ \E small \in BOOLEAN :
                      /\ got' = [got EXCEPT ![e] = IF small THEN @ \cup copies ELSE @]
                      /\ bare' = [bare EXCEPT ![e] = IF small /\ now.bare /\ copies # {}
                                                     THEN @ \cup {"pusher"} ELSE @]
    /\ UNCHANGED <<config, rows, client, links, answers, count>>

\* get rejects, or the upload of a payload to S3 does.
ReadFails(e) ==
    /\ \E s \in Sinks \ {"websocket"} : At(e, s, IF s \in {"rabbitmq", "kafka"} THEN "read" ELSE "enter")
    /\ Order[emission[e].at] = "nats" => nats = "up"
    /\ Fault
    /\ Throw(e, TRUE)
    /\ UNCHANGED <<config, rows, client, links, got, bare, answers>>

(* The webhook *)

Refusal == "refused"  \* a status of NON_RETRYABLE_STATUS_CODES

\* The token is signed for the headers of any row, of a disabled one too, and outside every try.
WebhookEnter(e) ==
    /\ At(e, "webhook", "enter")
    /\ IF "badKey" \in config
       THEN Throw(e, FALSE)
       ELSE Move(e, [emission[e] EXCEPT !.step = IF "webhook" \in rows THEN "local" ELSE "localDone"])
    /\ UNCHANGED <<config, rows, client, links, got, bare, answers, count>>

\* The answer to a POST, "none" when the endpoint took the event and its answer was lost.
Answered(e, t, answer) ==
    /\ answers' = [answers EXCEPT ![e][t] = Append(@, answer)]
    /\ IF answer \in {"ok", "none"} THEN HandOver(e, {<<"webhook", t>>}) ELSE UNCHANGED <<got, bare>>

\* retryWebhookRequest returned, or its error was caught and logged.
Posted(e, t) == IF t = "local" THEN Move(e, [emission[e] EXCEPT !.step = "localDone", !.tries = 0])
                ELSE Return(e)

\* Mutant: a refusal is retried.
Post_RetriesRefusal(e, t) ==
    /\ At(e, "webhook", t)
    /\ \E answer \in {"ok", Refusal, "error", "none"} :
          /\ Answered(e, t, answer)
          /\ IF answer = "ok" \/ emission[e].tries + 1 = MaxPosts
             THEN Posted(e, t)
             ELSE Move(e, [emission[e] EXCEPT !.tries = @ + 1])
    /\ UNCHANGED <<config, rows, client, links, count>>

\* Mutant: the error of the last attempt is not caught.
Post_NotCaught(e, t) ==
    /\ At(e, "webhook", t)
    /\ \E answer \in {"ok", Refusal, "error", "none"} :
          /\ Answered(e, t, answer)
          /\ IF answer = "ok" THEN Posted(e, t)
             ELSE IF answer = Refusal \/ emission[e].tries + 1 = MaxPosts THEN Throw(e, FALSE)
             ELSE Move(e, [emission[e] EXCEPT !.tries = @ + 1])
    /\ UNCHANGED <<config, rows, client, links, count>>

Post(e, t) ==
    /\ At(e, "webhook", t)
    /\ \E answer \in {"ok", Refusal, "error", "none"} :
          /\ Answered(e, t, answer)
          /\ LET tries == emission[e].tries + 1
             IN  IF answer \in {"ok", Refusal} \/ tries = MaxPosts
                 THEN Posted(e, t)
                 ELSE Move(e, [emission[e] EXCEPT !.tries = tries])
    /\ UNCHANGED <<config, rows, client, links, count>>

WebhookGlobal(e) ==
    /\ At(e, "webhook", "localDone")
    /\ IF "global" \in config THEN Move(e, [emission[e] EXCEPT !.step = "global"]) ELSE Return(e)
    /\ UNCHANGED <<config, rows, client, links, got, bare, answers, count>>

(* Requests *)

\* Set of a controller: the webhook and pusher take it enabled or not, SQS refuses it when it
\* is global, the others when they are not enabled.
Set(s, on) ==
    /\ "requests" \in config /\ count.sets < MaxSets
    /\ s \in config \cup {"webhook", "pusher"}
    /\ s = "sqs" => "global" \notin config
    /\ rows' = IF on THEN rows \cup {s} ELSE rows \ {s}
    /\ client' = IF s = "pusher" THEN on ELSE client
    /\ count' = [count EXCEPT !.sets = @ + 1]
    /\ UNCHANGED <<config, links, emission, got, bare, answers>>

\* sendDataWebhook: its callers do not wait for it.
Begin(e) ==
    /\ e \in config
    /\ emission[e].at = 0
    /\ "early" \in config \/ ~(rabbit.first \/ kafka.first \/ nats = "dialing")
    /\ Move(e, [emission[e] EXCEPT !.at = After(e, 0)])
    /\ UNCHANGED <<config, rows, client, links, got, bare, answers, count>>

Init ==
    /\ config \in Configs
    /\ rows \in {config \cap Sinks, {}}
    /\ client = ("pusher" \in rows)
    /\ rabbit = [chan |-> 0, open |-> {}, closing |-> {}, first |-> "rabbitmq" \in config,
                  reconnecting |-> FALSE, attempts |-> 0, timers |-> 0, dials |-> 0]
    /\ kafka = [producer |-> IF "kafka" \in config THEN "idle" ELSE "none", cleaning |-> FALSE,
                 first |-> "kafka" \in config, reconnecting |-> FALSE, attempts |-> 0, timers |-> 0, dials |-> 0]
    /\ nats = IF "nats" \in config THEN "dialing" ELSE "none"
    /\ emission = [e \in Kinds |->
                     [at |-> 0, step |-> "enter", tries |-> 0, bare |-> FALSE,
                      thrown |-> FALSE, failed |-> FALSE]]
    /\ got = [e \in Kinds |-> {}]
    /\ bare = [e \in Kinds |-> {}]
    /\ answers = [e \in Kinds |-> [t \in Targets |-> <<>>]]
    /\ count = [sets |-> 0, faults |-> 0]

Dial(first) ==
    \/ RabbitDialled(first) \/ RabbitDialFails(first) \/ RabbitChannelFails(first)
    \/ KafkaDialled(first) \/ KafkaDialFails(first)

LinkStep ==
    \/ \E first \in BOOLEAN : Dial(first)
    \/ RabbitTimer \/ KafkaTimer \/ KafkaCleaned
    \/ \E ok \in BOOLEAN : NatsDialled(ok)

BrokerFault == (\E c \in rabbit.open : RabbitLost(c)) \/ RabbitChannelClosed

EmissionStep(e) ==
    \/ Websocket(e) \/ Nats(e) \/ Sqs(e) \/ Pusher(e) \/ ReadFails(e)
    \/ RabbitEnter(e) \/ RabbitPublish(e)
    \/ WebhookEnter(e) \/ WebhookGlobal(e)
    \/ KafkaEnter(e) \/ KafkaRead(e) \/ KafkaGlobal(e)
    \/ \E t \in Targets : Post(e, t) \/ KafkaSent(e, t) \/ KafkaSendFails(e, t)

Next ==
    \/ LinkStep
    \/ BrokerFault
    \/ \E e \in Kinds : Begin(e) \/ EmissionStep(e)
    \/ \E s \in Sinks, on \in BOOLEAN : Set(s, on)

Spec == Init /\ [][Next]_vars

\* Timers fire, dials, disconnects and closing handshakes end, promises settle.
FairSpec ==
    /\ Spec
    /\ \A first \in BOOLEAN : WF_vars(Dial(first))
    /\ WF_vars(RabbitTimer) /\ WF_vars(KafkaTimer) /\ WF_vars(KafkaCleaned)
    /\ WF_vars(\E c \in rabbit.closing : RabbitLost(c))
    /\ \A e \in Kinds : WF_vars(EmissionStep(e))

(* Properties *)

\* The RabbitMQ controller does not keep a channel that is gone: what it publishes to is there.
NoDeadChannel == rabbit.chan # 0 => RabbitUp

\* The POSTs of an event end with the first answer that settles it and with the last attempt,
\* and no other way: an endpoint that is reached gets the event, and a second copy only when
\* an answer was lost.
RetriesAreSound ==
    \A e \in Kinds, t \in Targets :
        LET posts == answers[e][t]
            final(n) == posts[n] \in {"ok", Refusal} \/ n = MaxPosts
        IN  /\ \A n \in 1 .. Len(posts) - 1 : ~final(n)
            /\ posts # <<>> /\ ~At(e, "webhook", t) => final(Len(posts))

\* What an endpoint answers, a broker that is down and the links' faults do not keep an event
\* from the later controllers: an emission stops before the last one only at a read or an upload
\* of its own that failed, at the QR event without a QR code (Pusher), or at a jwt_key that cannot
\* sign (the webhook), and in the last two cases what comes before is handed over: NATS, which
\* cannot fail itself, has its copies. What a controller does to the shared data reaches those
\* after it only: the QR code, which Pusher deletes, is in all the copies before.
Contained ==
    \A e \in Kinds :
        /\ emission[e].thrown =>
             \/ emission[e].failed
             \/ e = "limit" /\ On("pusher")
             \/ "badKey" \in config /\ Wants(e, "webhook")
        /\ /\ Ended(e) /\ ~emission[e].failed /\ Wants(e, "nats")
           /\ nats = "up" /\ ~On("early") /\ ~On("requests")
           => Copies("nats") \subseteq got[e]
        /\ bare[e] \subseteq {"pusher", "kafka"}

State(s, l, up) ==
    IF up THEN "up" ELSE IF l.reconnecting \/ l.first \/ s \notin config THEN "waiting" ELSE "gaveUp"
Rabbit == INSTANCE BrokerLink WITH
    state <- State("rabbitmq", rabbit, rabbit.chan # 0), tries <- rabbit.attempts
Kafka == INSTANCE BrokerLink WITH
    state <- State("kafka", kafka, kafka.producer = "live" /\ ~kafka.reconnecting), tries <- kafka.attempts

\* Both controllers' links do what a link to a broker promises: at most MaxAttempts dials in a
\* row, a success starts the count anew, and what is given up stays so.
LinksKeepPromise == Rabbit!Spec /\ Kafka!Spec

\* A link that is lost is up again or given up in the end.
LinksSettle ==
    /\ rabbit.reconnecting ~> ~rabbit.reconnecting
    /\ kafka.reconnecting ~> ~kafka.reconnecting
===========================================================================
