---------------------------- MODULE MessageStore ----------------------------
(***************************************************************************)
(* What the channels of evolution-api write when messages come and go: the *)
(* Message, Chat and Contact rows, what the event controllers and the      *)
(* chatbots are told, and the answers of the requests. The channels are    *)
(* BaileysMessages and CloudMessages; Channels is one instance with one of *)
(* them.                                                                   *)
(*                                                                         *)
(* A task is a callback that waits for its database call or its HTTP call; *)
(* an action is what happens between two awaits.                           *)
(***************************************************************************)
EXTENDS Integers, FiniteSets, Sequences, Bags

CONSTANTS
    Configs,      \* a behaviour has the options of one of them
    MaxMessages,  \* bound: messages on the wire
    MaxUpdates,   \* bound: updates of messages, receipts and events of chats
    MaxAsks,      \* bound: requests
    MaxFaults     \* bound: calls that fail

\* "wa", "meta" and "evolution" are the channels. Settings: "ignore" (groups), "s3",
\* "noVideo" (S3 without videos), "logical" (deletion), "mysql", "bots" (of Chatwoot).
\* What happens: "group", "second" (contact), "stubs", "edits", "own" (messages of the owner),
\* "same" (two in a second), "media", "video", "updates", "again" (of what was updated before),
\* "entries" (two in a webhook), "receipts", "history", "resync", "chats", "gone" (messages),
\* "asks", "labels" (asked for), "faults", "shared" (another instance has the chat).
\* "prompt": a recount that nobody waits for is over before anything else happens;
\* "serial": a webhook comes when the one before it has been dealt with.
Options == {"wa", "meta", "evolution", "ignore", "s3", "noVideo", "logical", "mysql", "bots",
            "group", "second", "stubs", "edits", "own", "same", "media", "video", "updates", "again",
            "entries", "receipts", "history", "resync", "chats", "labels", "gone", "asks", "faults", "shared",
            "prompt", "serial"}

ASSUME ConfigsAreOptions == Configs \subseteq SUBSET Options
ASSUME BoundsAreNumbers == {MaxMessages, MaxUpdates, MaxAsks, MaxFaults} \subseteq Nat

VARIABLES
    wire,      \* the messages there are on WhatsApp, or that the provider has
    rows,      \* the Message rows
    chats,     \* the Chat rows, unread = -1 when there is none
    contacts,  \* the Contact rows
    hooks,     \* the bag of events given to the event controllers: <<event, message>>
    heard,     \* the messages given to the chatbots, in order
    tasks,     \* the bag of callbacks that wait to be resumed
    answers,   \* what each request was answered
    count,     \* what the bounds bound
    config     \* the options of this behaviour

storeVars == <<wire, rows, chats, contacts, hooks, heard, tasks, answers, count, config>>

On(option) == option \in config

Jids == {"contact", "second", "group", "status"}
Insts == {"this", "other"}
NoChat == [unread |-> -1, labels |-> 0]
NewChat == [unread |-> 0, labels |-> 0]

\* What a callback keeps across its awaits. "queued": the next batch waits for it.
NoTask == [do |-> "none", kind |-> "none", batch |-> <<>>, jid |-> "none", n |-> 0, id |-> 0,
           touched |-> {}, queued |-> FALSE, ask |-> 0]
Work == BagToSet(tasks)
Replace(t, new) == tasks' = (tasks (-) SetToBag({t})) (+) SetToBag(new)
Finish(t) == Replace(t, {})
Continue(t, do) == Replace(t, {[t EXCEPT !.do = do]})

StoreInit ==
    /\ config \in Configs
    /\ wire = <<>> /\ rows = <<>> /\ contacts = {} /\ hooks = EmptyBag /\ heard = <<>>
    /\ \E known \in SUBSET {"contact"} :
          chats = [p \in Insts \X Jids |->
                     IF p[2] \in known /\ (p[1] = "this" \/ On("shared")) THEN NewChat ELSE NoChat]
    /\ tasks = EmptyBag /\ answers = [a \in 1 .. MaxAsks |-> "none"]
    /\ count = [updates |-> 0, asks |-> 0, faults |-> 0]

Fault == /\ On("faults") /\ count.faults < MaxFaults
         /\ count' = [count EXCEPT !.faults = @ + 1]
Updated == /\ count.updates < MaxUpdates
           /\ count' = [count EXCEPT !.updates = @ + 1]
Asked == /\ On("asks") /\ count.asks < MaxAsks
         /\ count' = [count EXCEPT !.asks = @ + 1]

\* A message; "updated" says that WhatsApp has had news of it.
Message(jid, mine, ts, kind, of) ==
    [jid |-> jid, mine |-> mine, ts |-> ts, kind |-> kind, of |-> of, updated |-> FALSE]

LastTs == IF wire = <<>> THEN 0 ELSE wire[Len(wire)].ts

\* A request that sends a message.
Ask(do, kind, jids) ==
    /\ Asked
    /\ \E jid \in jids : tasks' = tasks (+) SetToBag({[NoTask EXCEPT !.do = do, !.kind = kind,
                                                        !.jid = jid, !.ask = count'.asks]})
    /\ UNCHANGED <<wire, rows, chats, contacts, hooks, heard, answers, config>>

Tell(events) == hooks' = hooks (+) SetToBag(events)
Answer(t, how) == answers' = [answers EXCEPT ![t.ask] = how]

-----------------------------------------------------------------------------
(* The Message rows *)

Row(id, m, status) == [id |-> id, jid |-> m.jid, mine |-> m.mine, ts |-> m.ts, status |-> status]

Found(id) == {i \in DOMAIN rows : rows[i].id = id}

SetStatus(i, status) == rows' = [rows EXCEPT ![i].status = status]

DropRow(i) == rows' = [j \in 1 .. Len(rows) - 1 |-> IF j < i THEN rows[j] ELSE rows[j + 1]]

UnreadRows(jid) == {i \in DOMAIN rows : /\ rows[i].jid = jid /\ ~ rows[i].mine
                                        /\ rows[i].status = "DELIVERY_ACK"}

\* The rows that an UPDATE ... WHERE messageTimestamp <= ts reaches.
ReadBy(jid, ts) == {i \in DOMAIN rows : /\ rows[i].jid = jid /\ ~ rows[i].mine /\ rows[i].ts <= ts
                                        /\ rows[i].status \in {"none", "DELIVERY_ACK"}}
=============================================================================
