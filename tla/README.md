# Verification of the WhatsApp and bot services

TLA+ modules, TLC runs and TLAPS proofs about the programs under `src/`. Three
of the services of the platform have their source there; the others are git
submodules without content.

- **evo-bot-runtime** (Go): takes the messages that the CRM posts for a bot,
  debounces them per contact and conversation, asks an AI backend and posts the
  answer back in parts.
- **evolution-api** (TypeScript): WhatsApp instances on top of Baileys and the
  Meta API, a REST API, chatbot and Chatwoot integrations, the distribution of
  events to queues, webhooks and websockets, and a manager front end.
- **evolution-go** (Go): the first half of that on top of whatsmeow.

| module | what it is | composed with |
| --- | --- | --- |
| `BotPipeline` | the message pipeline of evo-bot-runtime, all replicas, one pair | |
| `MCBotPipeline` | sets of events and replicas for TLC | `BotPipeline` |
| `BotPipelineProofs` | its theorems | `BotPipeline` |
| `DispatchEngine` | segmentation and posting of one answer | |
| `DispatchEngineProofs` | its theorems | `DispatchEngine`, `DataFacts` |
| `InstanceLifecycle` | one instance name: registry, table, sockets, requests, restarts | |
| `InstanceLifecycleProofs` | its theorems | `InstanceLifecycle`, `DataFacts` |
| `ChatbotSession` | the chatbot integrations and one contact | |
| `ChatbotSessionProofs` | its theorems | `ChatbotSession`, `DataFacts` |
| `EventDelivery` | an event and its seven controllers, links to brokers | implements `BrokerLink` |
| `EventDeliveryProofs` | its theorems | `EventDelivery`, `DataFacts` |
| `BrokerLink` | abstract: a link that is dialled again a bounded number of times | |
| `MessageStore` | the rows of messages, chats and contacts, and who is told | |
| `BaileysMessages`, `CloudMessages` | the channels that write them | `MessageStore` |
| `Channels` | an instance with one of the channels; its properties | both |
| `ChannelsProofs` | its theorems | `Channels`, `DataFacts` |
| `ChatwootBridge` | messages mirrored between WhatsApp and Chatwoot | |
| `ChatwootBridgeProofs` | its theorems | `ChatwootBridge`, `DataFacts` |
| `DataFacts` | lemmas about bags of tasks, sequences and sets of numbers | |
| `QueryCache` | the cache of server data in the manager | |
| `ManagerForms` | what the manager's pages differ in | `QueryCache` |
| `ManagerPages` | a tab of the manager, its requests, the server | `ManagerForms` |

## 1. Inventory

### evo-bot-runtime

| part | state | operations |
| --- | --- | --- |
| HTTP handler (`pkg/pipeline/handler`) | none | `handleEvent`: validate, write `StageIncoming`, start `Process`, answer 202 |
| pipeline service (`pkg/pipeline/service`) | `entries` (`sync.Map`: context, cancel func and configuration per pair), one poller | `Process`, `Start`, `pollTimers`, `advanceToAI`, `runAIStage`, `runDispatchStage`, `Cancel`, `Shutdown` |
| debounce engine (`pkg/debounce`) | the buffer and the timer in Redis | `Start`, `Reset`, `Expired`, `GetBuffer` |
| repository (`pkg/pipeline/repository`) | Redis: `state`, `buffer`, `timer` (TTL) and `lock` (TTL) of each pair | get, set, clear, scan, append, `AcquireLock` (one attempt) |
| AI adapter (`pkg/ai`) | none | one POST with a timeout; an answer or one of four errors |
| dispatch engine (`pkg/dispatch`) | none | cut the answer, sign it, POST the parts with delays |
| main (`cmd/server`) | the process | recover, serve, on SIGTERM stop |

The handler, the goroutine of each `Process`, the poller, and the goroutine of
each AI and dispatch stage run concurrently, in every replica; replicas share
Redis only. The lock covers `Process` and `advanceToAI`. It covers neither the
handler's write of `StageIncoming` nor anything that the AI and dispatch stages
write. That is where the hard behaviours are: a message that arrives while the
previous one is being answered, several replicas that see the same expired
timer, a replica that stops between two writes, a Redis call that fails.

Correct means: the sections under the lock exclude each other; a debounce period
is handed to the AI once, with all its messages, after the quiet period; no
accepted message disappears; none is answered twice; the pair ends clean and is
never stuck; a cancelled answer stops within one part; an answer arrives whole
and in order.

### evolution-api

Node runs one callback at a time, so nothing is interrupted between two awaits,
and anything may happen at each of them. State is in service objects, in
Postgres or MySQL, and in a cache; there are hardly any transactions or locks.

| part | state | operations and what is hard |
| --- | --- | --- |
| instance monitor (`monitor.service.ts`, `instance.controller.ts`) | `waInstances` (service objects by name), deletion timeouts, the `Instance` and `Session` tables, a socket per object | create, connect, restart, log out, delete, load at start-up, time out. Requests, timers and the socket's events interleave; a deletion goes over many tables without a transaction |
| channels (Baileys, Meta, Evolution) | `Message`, `Chat` and `Contact` rows, unread counts, a queue of events, caches of what was seen | receive, update, edit, delete, read, import the history, send. Recounts that nobody awaits; fields of a service that two webhooks share |
| event controllers (webhook, RabbitMQ, SQS, Kafka, NATS, Pusher, websocket) | links to brokers, clients, rows of settings | emit, retry, reconnect. Handlers of an old connection meet the new one; one controller's error ends the emission |
| chatbot integrations (base controller and its bots) | bots, settings and sessions in the database, debounce entries in memory | find a session, debounce, answer, pause, expire; what was read is old when it is used |
| Chatwoot integration | conversations, a cache and a lock in it, Chatwoot's database | mirror messages and deletions both ways, import the history, find what was lost |
| caches (`onWhatsappCache`, Redis, local) | jids and options | read, merge, write without isolation |
| knowledge base | files and rows | upload, link, delete |
| manager front end (`evolution-manager-v2`) | React Query's cache, forms | show, edit and save bots, sessions and settings; answers that come late, forms that keep what they were filled with |

Correct means: registry, table and sockets agree about which instances there
are; a deleted instance stays deleted and a lost connection comes back; a message
has one row, is told once to each listener and once to the bots, and unread
counts count; an event reaches the controllers after one that fails; a bot
neither loses a message nor speaks while the owner does; a message is once in
Chatwoot, and what one side deletes is deleted on the other, once;
a form saves the bot it shows.

### evolution-go

| part | state | operations and what is hard |
| --- | --- | --- |
| instances (`pkg/instance`, `pkg/whatsmeow`) | rows in Postgres; per process maps of clients, kill channels, and handlers | connect, QR loop, disconnect, reconnect, log out, delete. Kill signals are sent with and without waiting, on channels that are deleted and replaced meanwhile |
| producers (`pkg/events`) | a connection, a channel, websocket clients by instance | publish with retries, reconnect, broadcast |
| polls (`pkg/poll`) | votes in Postgres | the last vote to arrive wins |
| sending, chats, groups, users, labels, newsletters, communities, calls | none of their own | one library call per request |
| core, routes, configuration, telemetry | licence state, settings | start-up |

### The rest

`scripts/`, `setup.sh`, compose files, CI, documentation and the directories of
the submodules: not modelled.

PROJECT.json lists these parts with their status, and the hazards of the code
line by line.

## 2. Plan

1. `BotPipeline` and `DispatchEngine`, their runs and proofs. *Done.*
2. evolution-api: `InstanceLifecycle`, `EventDelivery` with the abstract
   `BrokerLink`, `ChatbotSession`, the channels, `ChatwootBridge`, the manager.
   *Done.* One instance, one contact or one page is the unit each time, because
   the code shares nothing else; where it does share (a debounce entry, a phone
   number, a chat row), the model has two of them.
3. Proofs: all safety properties of `EventDelivery` and its refinement of
   `BrokerLink`, all properties of the dispatch loop, the advance of the bot
   pipeline, and what holds of an instance, of the chatbots, of the Chatwoot bridge
   and of the channels however their callbacks interleave; and the same of requests
   or messages one at a time, as conditional results. *Done.*
4. Proofs: `Delivered` and `UnreadMatches` of the channels, the invariants of
   `ManagerPages`.
5. evolution-go's client loop and its kill channels.

## 3. BotPipeline

One pair of contact and conversation; keys and entries of other pairs are
disjoint. An action is one call on Redis, on `entries`, on the AI backend or on
the postback URL, with the local code around it; anything may happen between two
of them.

| variable | code |
| --- | --- |
| `state`, `buffer`, `timer`, `lock` | the four keys `bot_runtime:*` of the pair; `state.cfg` is the event whose configuration is persisted with `StageDebounce` |
| `entries`, `cancelled` | `s.entries` of each replica; the contexts whose `cancel` ran |
| `up`, `boots` | the life of each process |
| `pc`, `at`, `job` | where each event's `Process` and each replica's poller or recovery is; which replica the event was posted to; the arguments of `launchAIStage` |
| `run` | the goroutines of AI and dispatch stage, with their context, their question (`buf`), and the event that the period began with (`by`) |
| `cancelling`, `cancels`, `faults` | `Cancel` in progress; bounds |

| actions | code |
| --- | --- |
| `Accept`, `Refuse` | `handleEvent`. It writes `StageIncoming` over any stage |
| `AcquireLock`, `LockFailed`, `Unlock`, `LockExpires` | redsync with one attempt and its TTL |
| `GetState` .. `SetDebounce`, `ProcessFails` | `Process`, `startDebounce`, `resetDebounce`, `skipDebounce` |
| `SeeDebounce`, `SeeExpired` | `pollTimers`: two reads without the lock |
| `RecheckState`, `RecheckTimer`, `GetBuffer`, `SetAI`, `Launch`, `AdvanceFails` | `advanceToAI`, `launchAIStage` |
| `LoadEntry` .. `SetDispatch` | `runAIStage` and the adapter's outcomes |
| `CheckContext` .. `DeleteEntry`, `ClearFailed` | `runDispatchStage` and the dispatch loop as it is seen from there |
| `Cancel`, `CancelClear` | `Cancel` |
| `Shutdown`, `Crash`, `Restart`, `Serve` | `Shutdown`, the end of the process, `Start`, the HTTP server |

Data is abstract: a message is its event, a configuration is whether
`DebounceTime` is 0 (`Skip`), a context is who made it and in which life of the
replica. A failing Redis call has had no effect. Left out: the recovery from
panics, the client's own retries and lost replies, requests still served after
the shutdown budget, more than 10,000 pairs in a scan, state that does not parse.

`Prompt` says that a holder releases the lock before the TTL of 8 s has passed.
The code does nothing to keep it so; with `Prompt = FALSE` the lock may lapse at
any time. `Serial` restricts `Accept`: a message is posted
only while nothing of the previous one is in flight, the debounce excepted. Both
are constants, so each run and theorem names the assumption it makes.

What a reader of the code may not expect: since the handler writes
`StageIncoming` first, `Process` nearly always takes the branch of a new
pipeline, also during a debounce and during an answer. A message that arrives in
a debounce joins the buffer but replaces the entry and the configuration; one
that arrives during an answer cancels it and, because that branch clears
nothing, asks the AI for the old and the new messages together. The branches
for `StageDebounce`, `StageAI` and `StageDispatch` are taken only if another
goroutine writes the stage in between.

### Runs

Bounds: two replicas are the fewest that race each other; two messages let one
interrupt the other, three let a third meet what the second left behind. `MaxRuns = 4` never
binds where `AdvancedOnce` holds, since each launch then is for another message. One stop gives
a crash, a shutdown and a restart at any point. One failing call gives each
error path once. In `overlap` nothing tells the two messages apart, so they are
a symmetry set.

| run | instance | shows |
| --- | --- | --- |
| `overlap` | 2 messages, 2 replicas, one of them stops once, 1 failing call | type; `MutualExclusion`; `AdvancedOnce`: a period is launched once, also when an advance failed half-way and is retried; `SnapshotComplete`: with all its messages; `QuietPeriodKept`: not before the timer is gone |
| `serial` | 3 messages one at a time, one of them without debounce, 2 replicas, answers of two parts, fairness | `AnsweredOnce`; `MessageAnswered`: every message ends in an answer or in a failure of the AI or of the postback |
| `serial_restart` | 2 messages one at a time, 2 replicas, one stops once, 1 `Cancel`, fairness | `DebounceEnds`: no pair stays in debounce, also when the replica that stopped held the lock, unless something was cancelled |

### What the properties leave out

`AnsweredOnce` and `MessageAnswered` hold for messages one at a time. These
schedules of the code, all of them behaviours of the model, are why, and where
comments and tests of the repository say otherwise:

- *The loser of the lock.* `Process` returns `ErrLockFailed`
  (`pipeline_service.go:116`), the handler's goroutine logs it, and nothing
  retries: of two messages at once, one is in no buffer. `e2e_test.go:485` says
  that it "is not lost".
- *Incoming is not recovered.* A replica that stops after the 202 and before
  `Process` leaves `StageIncoming`, which `Start` (line 85) skips and no poller
  looks at. `handler.go:60` says "Guarantees event durability".
- *A cancelled run clears its successor's state.* `sendPart` wraps the error of a
  request whose context was cancelled and never returns
  `ErrDispatchInterrupted`, so the default branch (line 461) clears the state,
  which line 453 warns against.
- *A launch without an entry.* A run that completes deletes the entry (line 485)
  that `Process` has stored for the next pipeline; `launchAIStage` then returns
  (line 315, "Should not happen") and the pair stays in `ai`.
- *A slow holder.* The lock has redsync's TTL of 8 s and is never extended. With
  `Prompt = FALSE` a second replica advances the same period; line 265 says
  "exactly-once guarantee holds".

`Cancel` takes no lock. Between `Process`'s `Store` and its `SetState` it leaves
a debounce that has no entry, which no poller advances. `Cancel` has no caller
but a unit test.

Deadlock is checked in these runs: `Rest` is the only step of a pair that has
nothing left to do.

### Fairness

`FairSpec` gives weak fairness to each goroutine's next step: Go runs runnable
goroutines, and every call of theirs has a time limit (the AI client's timeout,
30 s for a postback, contexts for Redis). The poller ticks for ever. Redis
removes expired keys, so timer and lock lapse. A process that was asked to stop
exits, and the orchestrator restarts one that is gone (`restart:` in the compose
files, the Kubernetes deployment). Nothing makes messages, faults, crashes or
`Cancel` happen. No strong fairness is used.

## 4. DispatchEngine

One call of `Dispatch`. A word is its number of runes, a part is a sequence of
positions in the answer, so that the order and the completeness of what the
contact receives can be stated. `Pack`, `MergeShort` and `SegmentContent` are
`segmentContent`; `Segment`, `Check`, `Sent`, `SendFails` and `Waited` are the
loop; `CancelContext` is whoever cancels the pipeline.

| run | instance | shows |
| --- | --- | --- |
| `dispatch` | all answers of up to 4 words of up to 3 runes, limits and minimum sizes up to 5, signed or not, delayed or not | `PostedIsPrefix`: what arrived is the beginning of the answer, and all of it on success; `AtMostOnePartLate`; `FewestParts` against every way to cut the answer |

With limits up to 5 against words of up to 3 runes there are words that fit
exactly, that fit with one rune to spare, and that are too long, alone and as
neighbours; with four words a part has a predecessor and a successor.

Two statements of the repository are not properties, because the code does
otherwise: a single word longer than the limit is posted whole (line 150 says
"at most TextSegmentationLimit characters"), and the signature is on the first
part (`e2e_test.go:576` says "only to the last one").

## 5. InstanceLifecycle

One instance name of evolution-api with Baileys. All modules of evolution-api
share a style: a *task* is a callback that waits for its database, HTTP or timer
call, `tasks` is the bag of them, an action is what a callback does until its
next await, and which task goes on is open. So every interleaving that Node can
produce is a behaviour.

| variable | code |
| --- | --- |
| `row`, `creds` | the `Instance` row of the name; the `Session` row, and whether WhatsApp has revoked the device |
| `reg`, `obj` | `waInstances[name]`; the service objects with `stateConnection`, `instance.qrcode.count`, `wuid`, `endSession`, `isDeleting`, `client`, and the queue of their `process` |
| `sock` | the sockets that `createClient` made |
| `delTimer`, `up` | `delInstanceTimeouts[name]`; the process |

| actions | code |
| --- | --- |
| `AskCreate`, `Connect`, `Restart`, `Logout`, `Delete` and their tasks | `instance.controller.ts`, `instanceExistsGuard`, `saveInstance`, `defineAuthState`, `connectToWhatsapp` |
| `Qr`, `Pair`, `Open`, `Close`, `LogOutByPhone`, `Reject`, `HandleX` | the events of a socket and `connectionUpdate` |
| `Reconnect` | the callback of the timer of 3 s |
| `Remove`, `CleanUpX`, `CleanStoreX`, `LoggedOut`, `Refuse` | the listeners `remove.instance`, `logout.instance`, `no.connection` |
| `Expire`, `Crash`, `Load` | the deletion timeout, the end of the process, `loadInstance` |

Numbers of objects and sockets that nothing refers to are used again, so the
bounds need not count them.

| run | instance | shows |
| --- | --- | --- |
| `instances` | 1 creation, 3 other requests, 1 close from outside, 1 crash, 1 attempt that throws, 1 QR code; `Serial`, `Prompt` | `RegistryMatchesTable`, `NoZombie`, `OneSocket`, `OpenIsRecorded`; `ConnectionRestored` under fairness |
| `instances_at_once` | 2 creations, 1 other request, 1 crash; requests overlap freely | `NoOrphanRow` |
| `deleted_reconnects` | 1 creation, 2 requests, 1 close; requests overlap freely | *violated*: `ReconnectsRegistered` |

In `instances` one close, one crash and three requests give each pair of them in
each order, as far as `Serial` allows: a request comes when nothing is in flight,
and a timer that is set is in flight, and so is a timeout's logout. `Prompt` says that
a database call takes less than 3 s. The code has neither, so the run says nothing of
these schedules, in which its properties fail:

- two `connect` requests at once, or a restart while the timer is set, make two
  sockets (`OneSocket`), as the code has nothing against it;
- an instance that is logged out and deleted between a close and its reconnect is
  connected again (`NoZombie`): the finding below;
- an instance that is created while the one before it is cleaned up may lose its row
  or its registration (`RegistryMatchesTable`);
- a write of `close` that takes longer than the reconnection passes that of `open`
  (`OpenIsRecorded`).

Runs in which the deletion timeout has fired are left out of `NoZombie` and
`OneSocket` as well: it awaits a logout in which the socket may close and be
reconnected.

`NoOrphanRow` is what remains of the third of these when nothing is kept apart: an
object may be left without a row, but never a row without an object, which a
creation refuses and no connect finds. With two creations one overlaps the
deletion of the other at each await, and a crash loads what is in the table at any
point of it; the theorem `NoOrphanRowHolds` needs none of these bounds. A failing database
call in the clean-up, which is not in the model, would leave such a row.

*The finding.* The callback of the reconnect timer looks at neither `isDeleting`
nor the registry, so an instance deleted within 3 s of a close connects again,
although the comments at `whatsapp.baileys.service.ts:252` and `:275` say that
the flag prevents it.

Fairness: callbacks are resumed, events are handled, WhatsApp answers a socket
that connects, and the process is started again (`restart:` in the compose
files). Closes, crashes and requests need not happen.

## 6. ChatbotSession

The chatbot controllers and one contact. `Message` gives a message to every
controller that is configured, as `chatbot.controller.ts` does; `EmitSettings` ..
`EmitFallback` are `emit` of `BaseChatbotController`, `ProcessDebounce` and
`DebounceTimeout` its debounce, `Process` and what follows it the services
(`BaseChatbotService`, with the ways in which OpenAI and Typebot differ), and
`CreateBot` .. `StartBot` the requests, each with the reads and the writes it
makes. `settings`, `bots` and `sessions` are rows; `buffer` is
`userMessageDebounce`, which has one entry per contact although the controller
serves all instances; `done` and `spoke` are history.

A behaviour has one of the sets of *options* in `Configs`: which integrations
and instances there are, which settings are on, what may happen. This keeps
instances small and lets each combination be there that makes a difference:
two integrations that compete for the newest session, one with a debounce and
listening to the owner, OpenAI and n8n with sessions that are kept, Typebot with
expiry, two instances with one debounce entry.

| run | instance | shows |
| --- | --- | --- |
| `chatbot` | 2 messages, 1 request, up to 3 bots, 6 configurations | `NoMessageLost`: a message is with one callback, in the debounce, or done with, never twice; `SilentWhilePaused`; `GoesOn`: with one integration, no session is opened over one that is not closed; `SessionsHaveBots` |

Two messages are enough for one to be merged with the other, to meet the
session that it opened, or to be paused by it; a third would be a second merge.
Three of these are shown with `serial` only: a session is read before the
debounce and the service's calls and used after them, and the row is written
without looking. So a session that is paused while an answer is under way is
opened again by the answer (`base-chatbot.service.ts:159`), and two messages at
once open two sessions. `GoesOn` is about one integration: with two, a job in the
debounce still holds its session when a newer one of the other integration is closed
or deleted, and the newest of the contact has changed meanwhile. A session of
Typebot that has expired is replaced also when it is paused.

## 7. EventDelivery and BrokerLink

An event (`emission`) goes through the controllers in the order of
`EventManager.emit`, each of which hands copies to a local and a global target;
`rabbit` and `kafka` are the links, with the flags and counters of their
controllers, connections that close late and timers that are set. `Post` is one
attempt of `retryWebhookRequest`. `got`, `bare` and `answers` are history.

`BrokerLink` says what a link promises: once lost it is dialled again, at most
`MaxAttempts` times in a row, a success starts the count anew, and what is given
up is never dialled again by the controller itself. Both controllers implement
it; the mapping takes a link for `up` when its channel or producer is there, for
`waiting` while `isReconnecting` or the first dial is under way, and for given up
otherwise.

| run | instance | shows |
| --- | --- | --- |
| `events` | 6 configurations of controllers and events, 2 attempts, 2 posts, 1 request, 2 faults | `NoDeadChannel`, `RetriesAreSound`, `Contained`; `LinksKeepPromise`: the refinement; `LinksSettle` under fairness |

Two attempts have a first and a last one, with a fault to spend on each; two
events at once meet each other at each controller. Two things are options that
no run has: an emission while the first dial is under way dials a second time
and leaks a connection (`rabbitmq.controller.ts:191`), and a timer that overtakes
the close of the connection it replaces has its new connection torn down.

`Contained` says what does end an emission before the last controller: a read of the row or
an upload that fails (`failed`), a QR event without a QR code, which Pusher cannot
read, and a `jwt_key` in the webhook's headers that cannot sign (`badKey`). The token is
signed outside of any `try` and before it is asked whether the row is enabled
(`webhook.controller.ts:80`, `:298`), so with such a key Pusher and Kafka get no
event of the instance, even when its webhook is switched off.

Fairness: timers fire, dials and disconnects end, promises settle. Brokers need
not be lost, or come back.

## 8. Channels and ChatwootBridge

### Channels

`MessageStore` has the rows and what the event controllers and the bots are
told; `BaileysMessages` and `CloudMessages` have the handlers.

| part | code |
| --- | --- |
| `queue`, `NextBatch`, `HandlerFails` | `eventProcessingQueue`: batches one after the other, each handler with its `catch` |
| `TakeMessage` .. `Announce` | `messages.upsert` |
| `TakeUpdate` .. `UpdatesDone` | `messages.update`; `ReadReceipt` is `message-receipt.update` |
| `HistoryChats`, `Snapshot`, `ImportMessages` | `messaging-history.set` |
| `ChatsUpsert`, `ChatsUpdate`, `ChatsDelete`, `LabelsAssociation` | the chats and the labels |
| `Recount`, `WriteCount`, `Counted` | `updateChatUnreadMessages`: count, read, write |
| `TextMessage` .. `UpdateMessage` | the requests |
| `SecondPasses`, `FiveMinutesPass` | the TTLs of `baileysCache` |
| `MetaX`, `EvolutionX` | the two cloud channels: webhooks that nobody waits for, and requests |

| run | instance | shows |
| --- | --- | --- |
| `channels` | 2 messages, 2 updates, 1 request, 1 fault, 23 configurations | `Delivered`: a message is stored and told once, to the listeners and to the bots, and takes no other with it; `UnreadMatches`; `OneRow`; `RowsNameTheirContact` |

Two messages share a batch or follow each other, in one chat or two; two updates
meet on one message; a request is in between anywhere. Each property says what
it excuses, and these are facts about the code: a medium without content ends its
batch under S3 (line 1542, whose comment says that it is skipped); an update of
one of the owner's messages sets the unread count to 0; two messages of a
chat in one second count once; a second history is compared with the snapshot of the first; a
webhook of Meta with two entries has its first one handled twice, and two webhooks
at once share `phoneNumber`.

### ChatwootBridge

The bridge has no state but a cache, a lock in the cache, and the rows that say
which post shows which message. `EventStep` is `eventWhatsapp` with
`createConversation` (cache, lock, double check, contact, conversation),
`WebhookStep` is `receiveWebhook`, `ImportStep` is `chatwootImport` and
`syncLostMessages`. `posts`, `convs`, `contact` are Chatwoot itself, as far as the
bridge uses it.

A post is a text, a medium, or an album, which has up to `MaxAttachments` of them: the
bridge sends each as a message (`SendPost`), saves and links its row (`LinkRow`,
`UpdateSourceID`), and goes on with the next (`AfterLink`). The private note of a text
that was not sent is a request that nobody awaits (`Note`). `WebhookFails` is what the
outer `catch` of `receiveWebhook` only logs; where no note can follow, failing calls
are counted apart (`Blind`). `Age` lets a message become older than
the six hours that `syncLostMessages` looks back (`Lost`).

| run | instance | shows |
| --- | --- | --- |
| `chatwoot` | 2 messages, 1 post of up to 2 attachments, 2 deletions, edits or commands, 1 fault, 13 configurations | `ShownOnce`, `NoDeleteLoop`, `OneConversation`, `AgentIsTold`, `DeletedForBoth`; `LostMessagesFound` under fairness |

Two messages are two that want a conversation; one post is one that comes back
as a message of the instance and must not be shown again; two attachments are one
that overwrites the other; two requests give a deletion on each side. The properties
name what the code does not keep:

- *Attachments.* The rows of all messages of a post say the same
  `chatwootMessageId`, and its `source_id` is that of the last (line 1519). The next
  synchronisation shows the others again; an agent who deletes the post
  has one of them revoked, whichever `findFirst` (line 1404) returns; and when the owner
  deletes one on WhatsApp, the bridge deletes the post and then another of them.
  `ShownOnce`, `DeletedForBoth` and `NoDeleteLoop` say that they do not speak
  of such posts.
- *Templates.* What a template sends is shown next to the template: two posts.
- *Notes.* An agent is told of a text that was not sent. Nobody is told when the note's own
  request fails (line 1346), nor when something fails before the sending (the
  provider at 1363, the instance at 1401, the quoted message at 1559), nor of an
  attachment.
- *Six hours.* `LostMessagesFound` is about what is found before it is older.
- *Interleavings.* The lock of `createConversation` is read and then set (line 744), so
  two messages at once make two conversations; a post that is deleted before
  its row is written is not deleted on the other side. `OneConversation` and
  `DeletedForBoth` hold with `serial` only. `ShownOnce` holds of every interleaving
  without the import and the history. With them it holds with `serial` and no failed call: a
  synchronisation that reads while a message is being shown shows it twice, and so
  does one after an `updateChatwootMessageId` that failed.

Fairness: callbacks are resumed, Chatwoot answers or the call fails, and cron
runs the synchronisation again.

## 9. QueryCache, ManagerForms, ManagerPages

A tab of the manager at the pages of one bot integration or one of the settings.
`QueryCache` has the rules of React Query that the pages rely on (external: it
is a library): an entry has data, a mark that it is stale, and at most one
request; a first load is joined, a later one is replaced by the next;
invalidation goes by the name. `ManagerForms` has, for each of the 14 pages, the
key of its queries, what its mutations invalidate, and what a form makes of a
row and a body of a form. `ManagerPages` has the user (`UserStep`), the
answers (`AnswerStep`), what fails (`FaultStep`), others who write, and time.
`Render` is what React does after each: observe the queries of what is shown,
fill forms that appear, run the effects.

| run | instance | shows |
| --- | --- | --- |
| `manager` | 2 bots, 2 mutations, 1 edit, 1 lapse, 1 fault, 23 configurations | `SavesOwnValues`, `RoundTrip`, `CacheIsCurrent`, `SettingsKeepEdits` |

Two bots are the fewest that can be confused; two mutations the fewest of which
one hears of the other. The properties name what the code does not keep:

- Flowise, EvolutionBot, Typebot and OpenAI leave the bot's id out of the key, so
  the form of one bot is filled with the row of the one that was shown before,
  and saving it overwrites the second with the first.
- The same four hand a text that is null to a schema that refuses it (`RoundTrip`
  holds of Dify, N8n and EvoAI); all forms save a delay of 0 as 1000.
- A form takes its values when it appears. One who comes back while the row is
  fetched again edits the old row; one whose row could not be loaded gets a blank
  form. Going from one bot straight to another keeps the first one's values.
- An invalidation during a first load joins it and takes the answer of before
  the write; the callbacks of a mutation are dropped when its page is left.

## 10. Not modelled

- *evolution-go.* Its instances ask the same questions as those of evolution-api,
  which has more logic and was taken first; its kill channel, where the receiver
  sends to itself on a QR timeout (`whatsmeow.go:681`), is the first thing to
  model there. Its other services make one library call per request.
- *Caches.* `onWhatsappCache` reads, merges and writes the jid options, so one of
  two updates at once is lost; group metadata are returned before they are
  refreshed. No property of the modelled parts depends on them.
- *Knowledge base*: create, read, update and delete of rows with a file each.
- *The manager's chat and dashboard*: lists that are shown as they are read. The
  listeners of the chat's socket are removed by `off(event)`, which takes away
  those of every component.
- *Inside the modelled parts*: other stores of credentials than Prisma; groups,
  profile, catalogues and calls; what is sent and its formats; S3 itself; contact
  pictures, LID numbers and labels in Chatwoot, the TTL of its lock; OpenAI's
  credentials, models and chat history; the parameters of queues and topics.
  `baileysMessage.processor.ts` is not used by the code. PROJECT.json says it
  component by component.
- *evo-bot-runtime*: recovery from panics (none is reachable), configuration,
  the comparison of the API key.

## 11. Theorems

Each theorem is about `Spec` and leaves every constant open, within the named
assumptions of its module: sets of actors are disjoint, bounds are numbers. A
run shows the same property on a small instance (sections 3 to 8), and each
inductive invariant was first checked by TLC on the instances of that run.

| theorem | states | if |
| --- | --- | --- |
| `TypeCorrect` | `TypeOK` of the pipeline | |
| `QuietPeriodHolds`, `SnapshotHolds`, `AdvancedOnceHolds` | `QuietPeriodKept`, `SnapshotComplete`, `AdvancedOnce` of the pipeline | `Prompt` |
| `AtMostOnePartLateHolds`, `PostedIsPrefixHolds`, `FewestPartsHolds` | `AtMostOnePartLate`, `PostedIsPrefix`, `FewestParts` of the dispatch loop | |
| `ContainedHolds`, `RetriesHold` | `Contained`, `RetriesAreSound` of the events | |
| `NoDeadChannelHolds` | `NoDeadChannel` of the RabbitMQ link | `DialsFirst` |
| `LinksHold` | both links implement `BrokerLink` | `DialsFirst`, `CleanupFirst` |
| `NoMessageLostHolds` | `NoMessageLost` of the chatbots | |
| `AgentIsToldHolds`, `NoDeleteLoopHolds` | `AgentIsTold`, `NoDeleteLoop` of the bridge | |
| `ShownOnceHolds` | `ShownOnce` of the bridge, of any interleaving and any failing calls | no `import`, no `history` |
| `NoOrphanRowHolds` | `NoOrphanRow` of an instance, of any interleaving of requests | |
| `OneRowHolds` | `OneRow` of the channels | |

### Conditional results

The modules prove more, of schedules that the code does not enforce. These are stated as
propositions: they say that nothing *else* goes wrong, for every value of the
constants, and no more.

| proposition | states | where | which leaves out |
| --- | --- | --- | --- |
| `MutualExclusionHolds` | `MutualExclusion` of the pipeline | `Prompt` | the holder that outlives its lock, the one way in which the lock can fail |
| `AnsweredOnceHolds` | `AnsweredOnce` | `Serial`, `Prompt`, no failed call | two messages at once, and the schedules of section 3 |
| `SessionsHaveBotsHolds` | `SessionsHaveBots` of the chatbots | `serial` | a message between the two deletes of `deleteBot` |
| `SilentWhilePausedHolds` | `SilentWhilePaused` | `serial`, `StopsOrListens` | a session that is paused while an answer is under way |
| `RegistryMatchesTableHolds`, `NoZombieHolds`, `OneSocketHolds` | `RegistryMatchesTable`, `NoZombie`, `OneSocket` of an instance | `Serial` | the schedules of section 5, requests while a reconnect timer is set among them |
| `OpenIsRecordedHolds` | `OpenIsRecorded` | `Serial`, `Prompt` | writes of a row that are slower than a reconnection |
| `RowsNameTheirContactHolds` | `RowsNameTheirContact` of the channels | `serial` | two webhooks of Meta at once |

### BotPipelineProofs

All but `TypeCorrect` rest on `Prompt`, that a holder releases the lock before its
TTL, which is not a fact about the code: section 3 says what happens without it. The argument has three layers, each inductive relative to
the one before.

1. *Typing*. `TypeInv` is `TypeOK` together with what keeps it: a debounce stage
   and a job about to be launched name an event, and an unfinished run has parts
   left to send.
2. *The holder*. Whoever is between `AcquireLock` and `Unlock` is the value of
   `lock`; with `Prompt` the lock does not lapse under it. Mutual exclusion
   follows. Buffer and timer are only extended by a holder, so the facts a
   poller has established about them (timer gone, buffer read) last until it
   releases the lock. Clearing a state takes only messages and timers away.
3. *Once*. A period's event is launched by the `Process` that skips debounce,
   or by the poller that finds it in `state.cfg`. `OnceInv` says that an event
   has no run while its `Process` has not come to its end, while it is the
   event of a debounce stage, and while a poller that holds the lock is about
   to launch it; and that a launch is made when the stage is no longer
   debounce. `AdvancedOnce` alone is not inductive: it says nothing of the
   event that is about to be launched.

`AnsweredOnce` relates two runs that are long over, so the invariant follows a
message from its 202 to the run that answers it. `AloneInv`: with `Serial` an
event that has not left `Process` is alone, and so is a run; and a run is under
way only when the stage is past debounce, so no poller can advance. `QuestionInv`
says where a message is: in no question, buffer or job before it is appended;
and from the moment a run that holds it has cleared the buffer, in no buffer, no
job and no other run that may yet be answered.

`AnsweredOnceHolds` needs that no Redis call has failed (`faults = 0`). When the clearing
after the last part fails, the message stays in the buffer, and the next one is
asked together with it, a second time. TLC finds this schedule with
`MaxFaults = 1` in `serial`, so the hypothesis is not one of convenience.

### DispatchEngineProofs

For answers and configurations of any size.

- `AtMostOnePartLate`: the invariant (`LateInv`) adds that a loop which is not
  about to send meets the cancellation before it sends again.
- *Folds*. `Pack`, `MergeShort` and `Runes` are folds over a sequence, which the
  library defines as recursive functions, so with CHOOSE. `FoldExists` shows by
  induction over the length (`SetInduction` of `DataFacts`) that such a function
  exists; from then on a fold goes word by word (`PackByWord`, `MergeByPart`,
  `RunesByWord`).
- `PostedIsPrefix`. `Tiles(ps, e, m)`: the parts `ps` are the first `m` words, and
  the i-th ends with word `e[i]`. Packing a word keeps it, and so does merging a short
  last part; `TilesFlatten` and `TilesPrefix` turn it into what the property says
  of the words. `OrderInv` adds that what was posted is the parts up to
  where the loop is, and that the loop is over only after the last.
- `FewestParts`. Packing is greedy, and the argument is the usual one: compared with any
  other way of cutting that respects the limit, `Pack` stays `Ahead`. After each
  word it has no more parts, and when it has as many its last part begins no
  earlier, so the next word fits it too whenever it fits the other's
  (`OtherFits`; `Sums` gives the runes of a part as a difference). Merging never adds a part.

### EventDeliveryProofs

`NextMoves` says of every action what it does to each emission: nothing, begin,
go on within a controller, return to `emit`, throw. The properties then need one
case per kind of move, not one per action.

- `Contained` needs that copies only gather (`HandInv`), that `emit` throws only
  where it is `Excused`, that is, at a read or upload of the emission's own that failed, at a
  `jwt_key` that cannot sign, or at Pusher without a QR code (`ThrownInv`), and
  that NATS has been dialled before the first event (`NatsInv`). A fault
  elsewhere, of a link or of another emission, excuses nothing.
- `RetriesAreSound` needs `PostsInv`, which ties the answers there are to where
  the emission is: while a target is posted to, none of its answers has settled
  it and there are as many as there were tries; after it, its series is closed.
- `NoDeadChannel` and the refinement rest on `LinkAt`: with the link down and
  not given up, exactly one thing is under way, the first dial, a timer or a dial,
  and the counter of attempts is the number `BrokerLink` counts. `LinkNext` is a
  step of `BrokerLink` or a stutter, shown for each action of a link; the
  theorem combines the two links.

`DialsFirst` and `CleanupFirst` say that no configuration has the options `early`
and `lag`, and no run has them. TLC finds the properties violated with either
of them (section 7 says by which schedule), so neither can be dropped.

### ChatbotSessionProofs

`Handled` reduces every action of a callback to one of three: it goes on with
its messages, it is done with them, or they wait for the debounce with those
that wait. What a request begins has no message. The invariant `LostInv` says
that a message is in exactly one of three places (`PlaceInv`), and what keeps
that so: there is one copy of a callback with a message in the bag of tasks, and
what waits for a controller's debounce is for that controller. It does not
depend on the settings, so the theorem holds of every configuration.

The other two properties speak of `serial` only, and their proofs share a
second reduction. `Emitted`, `Served`, `Wrote`, `Posted` and `Requested` say
what an action of each kind does to the rows, to the session and the bot of the
job, and whether what follows will speak. `IdInv` holds without `serial`: rows
differ in their ids, and the id of a new one is above every id that a row, a
callback or a job that waits for the debounce knows, so no old job can mistake
a new session for its own.

- `SessionsHaveBots` needs `BotInv`: what a callback of a service or of the
  debounce is about to create a session for is a bot that is there, and the
  callback between the two deletes of `deleteBot` is alone, with no session of
  its bot.
- `SilentWhilePaused` needs `SilentInv`: either every callback and every job in
  the debounce is `Fine`, that is, its session is not paused unless it knows
  (`Safe`), and one about to speak has seen that it is not; or the callbacks are
  those of a message by which the owner stops the bots, and nothing waits.

`StopsOrListens` says that no configuration has both `stop` and `listen`. It
cannot be dropped: with both, an integration that finds no session to stop
opens one and answers the owner, while another pauses it in the meantime. TLC
finds this with `{"a", "dify", "n8n", "serial", "stop", "listen"}`.

### ChatwootBridgeProofs

The three theorems hold without `serial`, with faults, and in every configuration
that they do not name.

`AgentIsTold` is a matter of every path of the webhook of a text: it goes on, or
the message is sent, or a note is about to be written. `Told` says so of a step, and
that what leads nowhere else is counted as `blind` or took the conversation
with it.

`NoDeleteLoop` is about order: the bridge deletes the row first and the post then, and
the webhook of the post's deletion looks for the row. That no row comes back in
between is what the invariant is for. `Holder` is a callback that will write a row
for a post, or the webhook that leads to one. `DeleteInv` says that a post has one holder at
most, and none once a row has it or somebody deletes it (`Sound`, `SoundRow`);
that an agent's post is sent once (`SoundWire`); that a post the bridge has
deleted has no row, no holder and nobody about to undo it (`SoundPost`). A post that
may have several attachments (`Album`) has several holders and rows, and is sent more
than once: the invariant is silent about it, as the property is.

`ShownOnce` without the import and the history. `ShowsInv` says that a callback before
`Shown` is the only one of its message, of which there is one copy, and that no
post shows this message yet (`OnlyShower`); that a post of the bridge is the only one of its
message (`OnlyPost`); and that what was sent for a post is an agent's or a
template's (`SentForPost`), which keeps the two ways apart in which a message has a post. A
message waits for its conversation in many callbacks, one after the other, and the
retries of `createConversation` go back; but each step has one heir, and the
step that shows has none. With the import a post may also get its `source_id` from a
list or from `updateChatwootMessageId`, and nothing of this holds.

### InstanceLifecycleProofs

`NoOrphanRow` needs no assumption, and an invariant of its own. `OrphanInv` says that a row
without an object has a callback that `Keeps` it: one that is going to delete it,
or to register what it has loaded. A step may then drop such a callback only if it
leaves no row, registers an object, or has another such callback as its heir
(`Forgets`), which is shown for each action; two instances of one name, created one
in the deletion of the other, need no case of their own. Where an attempt to connect throws, the
loaded object is not registered and its row stays: hence `count.faults = 0`.

The other four are conditional. `Serial` keeps requests apart, and nothing else: events of sockets, timers,
saves and clean-ups still interleave with one request and with each other, for
any number of creations, closes, crashes and failed attempts. An action of a
callback is a `Drop`, which at most ends sockets and moves from one callback to
the next (`Outcome`), or it opens a socket, or it builds an object; an event is
handled (`Handling`); the rest comes from outside. `IInv` has eight parts, and
each kind of step keeps each of them:

- `TypeInv`, `IdInv`: what is stored, and that objects and rows of different
  creations have different ids.
- `ManageInv`: at most one callback manages the registration, and it says which
  of registry and row is there. `RegistryMatchesTable` is its last two lines
  when nothing waits.
- `ClientInv`, `QueueInv`, `TokenInv`: an object refers to the only one of its
  sockets that can be live; what ends a socket is the last event of it; and a
  callback that is going to open one (`Opening`) is the only one of its object,
  which has nothing to handle and no live socket.
- `LiveInv`: a live socket of the registered object is visible in its state or
  its queue, so that a request that reads `close` finds no socket.
- `LeftInv`: what is not registered has no live socket and handles nothing, and
  what is about to be removed already neither. `NoZombie` and `OneSocket` follow
  with `ClientInv`. It is silent once the deletion timeout has run, as they are.

`OpenIsRecorded` rests on `RecordInv`: a status that is not the opening's is not
written after it. `ScanOf` says that an object whose code was shown, and whose
row will therefore be `connecting`, is not open and opens nothing before that is
written; it is the one place that needs `Prompt`, since a reconnection that
overtook the write could open first. `CloseOf` says that whoever closes the row
finds the registered object closed for good.

### ChannelsProofs

`ShapeInv` is the type of what a callback or a waiting batch carries: its fields,
what a batch of each kind may be doing, that the messages of a batch differ and
are on the wire. The rest follows one idea: `Makes(t)` is the set of
messages that a callback or a waiting batch is still going to store a row of.

`OneInv` is the invariant of `OneRow`, under the premise that `OneRow` names:

- `RowInv`, `WorkInv`: no message has two rows; what a callback is going to
  store has no row, there is one copy of that callback, and no other is going to
  store it.
- `QueueInv`: the same of the batches that wait for the one before them.
- `HistoryInv`: there is one history; while it is handled no other batch is, and
  once its snapshot is taken every row is in the snapshot (`known`); what
  arrives after it is not in it. That is why the import, which compares with the
  snapshot and not with the table, makes no second row.

Every action is one of a few kinds, and the invariant is shown once for each:
a callback goes on, with at most one heir of its messages (`Steps`); a
callback begins with new messages (`Begins`); a batch is queued (`Grows`) or
taken from the queue (`NextBatch`); the history takes its snapshot or is
imported (`NextOfHistory`); nothing of this changes (`Elsewhere`). The
three parts of the premise are used in one place each: a webhook of Meta with two
entries has its first one handled twice, a second history is compared with the
snapshot of the first, and a request that is about to write its row is not in the snapshot.

`RowsNameTheirContact`, with `serial`, needs `NameInv`. A webhook of Meta puts its contact in a
field of the service (`phone`), the callback reads the settings from the database,
and only then takes the field. `Named` says that with `serial` the field is still
that of the callback's message then, and that the callback keeps it until the
row is written; it holds because a webhook begins only when no callback of
another waits. `Names` says what a step does to the rows: a row keeps its
contact, a new one has that of its message.

### DataFacts

What taking a task from a bag and adding others does to the bag, what appending
and concatenating does to a sequence whose elements have no known type, and that
a set of numbers has a least element and, if it is bounded, a greatest. The
first gives induction over numbers without an operator as a parameter: a set that
holds 0 and the successor of each of its elements holds them all (`SetInduction`). They serve all proofs about evolution-api and the dispatch loop.

### Only model-checked

- Liveness: it needs fairness, and ENABLED is out of the provers' reach.
- The properties of the manager, `Delivered` and `UnreadMatches` of `Channels`,
  `GoesOn` of `ChatbotSession`, `OneConversation` and `DeletedForBoth` of
  `ChatwootBridge`: not proved. `OneConversation` is false in one configuration, which no run
  has, even with events one at a time: the edit of a message is shown in
  the conversation of that message, and Chatwoot opens it again when it was resolved,
  although the contact has another by now (`{"serial", "edits", "resolve"}` without
  `reopen`, two messages and two requests).
