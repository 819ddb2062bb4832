-------------------------- MODULE BaileysMessages --------------------------
(***************************************************************************)
(* The messages of one WhatsApp instance (BaileysStartupService): batches  *)
(* of new messages, updates, receipts, history and chats, handled one      *)
(* after the other, and the requests that send, edit and delete messages   *)
(* in between.                                                             *)
(***************************************************************************)
EXTENDS MessageStore

VARIABLES
    queue,   \* eventProcessingQueue: the batches that wait for the one being handled
    cache,   \* baileysCache: the <<jid, ts, mine>> of the last five minutes
    seen,    \* baileysCache: the updates of this second
    origin,  \* baileysCache: <<id of a protocol message, id of the message it edits>>
    known    \* chatwootImport's snapshot of the ids of the rows, or none was taken

baileysVars == <<queue, cache, seen, origin, known>>

None == {0}
BaileysInit == /\ queue = <<>> /\ cache = {} /\ seen = {} /\ origin = {} /\ known = None

Item(id, what) == [id |-> id, what |-> what]
Batch(do, items) == [NoTask EXCEPT !.do = do, !.batch = items, !.queued = TRUE]
Handled == {t \in Work : t.queued}
Loose == {t \in Work : t.do \in {"Recount", "Write"} /\ ~ t.queued}

-----------------------------------------------------------------------------
(* What happens on WhatsApp. *)

Enqueue(do, items) == queue' = Append(queue, Batch(do, items))

\* A message that the socket hands over right after another one is in one batch with it.
Buffered(item) ==
    \/ Enqueue("Upsert", <<item>>)
    \/ /\ queue # <<>> /\ queue[Len(queue)].do = "Upsert"
       /\ queue' = [queue EXCEPT ![Len(queue)].batch = Append(@, item)]

Kinds == {"text"} \cup (IF On("stubs") THEN {"stub"} ELSE {}) \cup (IF On("media") THEN {"media"} ELSE {})
                  \cup (IF On("video") THEN {"video"} ELSE {}) \cup (IF On("edits") THEN {"edit"} ELSE {})

Arrive ==
    /\ Len(wire) < MaxMessages
    /\ \E jid \in {"contact"} \cup (IF On("group") THEN {"group"} ELSE {}),
          mine \in IF On("own") THEN BOOLEAN ELSE {FALSE}, kind \in Kinds,
          ts \in {LastTs + 1} \cup (IF On("same") THEN {LastTs} ELSE {}) :
          \E of \in IF kind # "edit" THEN {0}
                   ELSE {i \in DOMAIN wire : wire[i].jid = jid /\ wire[i].mine = mine} :
             wire' = Append(wire, Message(jid, mine, ts, kind, of))
    /\ Buffered(Item(Len(wire'), "new"))
    /\ UNCHANGED <<rows, chats, contacts, hooks, heard, tasks, answers, count, config,
                   cache, seen, origin, known>>

\* The owner reads a message on the phone, the contact reads one of the owner's, or one is
\* removed; WhatsApp may say so twice. Without "again" this happens to them in their order.
Update ==
    /\ Updated
    /\ \E i \in DOMAIN wire, twice \in BOOLEAN,
          what \in (IF On("updates") THEN {"READ"} ELSE {}) \cup (IF On("gone") THEN {"none"} ELSE {}) :
          /\ On("again") \/ \A j \in i .. Len(wire) : ~ wire[j].updated
          /\ Enqueue("Update", [j \in 1 .. (IF twice THEN 2 ELSE 1) |-> Item(i, what)])
          /\ wire' = [wire EXCEPT ![i].updated = TRUE]
    /\ UNCHANGED <<rows, chats, contacts, hooks, heard, tasks, answers, config,
                   cache, seen, origin, known>>

\* All messages of a chat up to this one have been read.
Receipt ==
    /\ On("receipts") /\ Updated
    /\ \E i \in DOMAIN wire : Enqueue("Receipt", <<Item(i, "READ")>>)
    /\ UNCHANGED <<wire, rows, chats, contacts, hooks, heard, tasks, answers, config,
                   cache, seen, origin, known>>

\* The phone uploads its messages, and once more after another pairing.
History ==
    /\ On("history") /\ Updated
    /\ On("resync") \/ ~ \E b \in {queue[i] : i \in DOMAIN queue} \cup Work : b.kind = "history"
    /\ On("resync") \/ known = None
    /\ queue' = Append(queue, [Batch("History", [i \in DOMAIN wire |-> Item(i, "old")])
                                  EXCEPT !.kind = "history"])
    /\ UNCHANGED <<wire, rows, chats, contacts, hooks, heard, tasks, answers, config,
                   cache, seen, origin, known>>

ChatEvent ==
    /\ On("chats") /\ Updated
    /\ \E do \in {"ChatsUpsert", "ChatsUpdate", "ChatsDelete", "AddLabel", "RemoveLabel"},
          jid \in {"contact"} :
          queue' = Append(queue, [NoTask EXCEPT !.do = do, !.jid = jid])
    /\ UNCHANGED <<wire, rows, chats, contacts, hooks, heard, tasks, answers, config,
                   cache, seen, origin, known>>

SecondPasses == /\ seen # {} /\ seen' = {}
                /\ UNCHANGED <<storeVars, queue, cache, origin, known>>
FiveMinutesPass == /\ cache # {} /\ Handled = {} /\ cache' = {} /\ seen' = {}
                   /\ UNCHANGED <<storeVars, queue, origin, known>>

-----------------------------------------------------------------------------
(* The queue, and what the handlers share. *)

NextBatch ==
    /\ queue # <<>> /\ Handled = {}
    /\ tasks' = tasks (+) SetToBag({Head(queue)}) /\ queue' = Tail(queue)
    /\ UNCHANGED <<wire, rows, chats, contacts, hooks, heard, answers, count, config,
                   cache, seen, origin, known>>

\* A call that a handler waits for fails: its catch logs that, and what is left of the batch
\* is not looked at.
HandlerFails(t) ==
    /\ t.queued /\ Fault /\ Finish(t)
    /\ UNCHANGED <<wire, rows, chats, contacts, hooks, heard, answers, config, baileysVars>>

\* updateChatUnreadMessages: the rows are counted and the chat is read, of any instance.
Recount(t) ==
    /\ t.do = "Recount"
    /\ LET n == Cardinality(UnreadRows(t.jid))
       IN \/ \E i \in {i \in Insts : chats[<<i, t.jid>>] # NoChat} :
                Replace(t, {[t EXCEPT !.do = IF chats[<<i, t.jid>>].unread = n THEN "Counted" ELSE "Write",
                                      !.n = n, !.touched = {i}]})
          \/ /\ \A i \in Insts : chats[<<i, t.jid>>] = NoChat
             /\ Continue(t, "Counted")
    /\ UNCHANGED <<wire, rows, chats, contacts, hooks, heard, answers, count, config, baileysVars>>

\* Prisma throws when the chat has been deleted.
WriteCount(t) ==
    /\ t.do = "Write"
    /\ \E i \in t.touched :
          IF chats[<<i, t.jid>>] = NoChat THEN Finish(t) /\ UNCHANGED chats
          ELSE /\ chats' = [chats EXCEPT ![<<i, t.jid>>].unread = t.n]
               /\ Replace(t, {[t EXCEPT !.do = "Counted"]})
    /\ UNCHANGED <<wire, rows, contacts, hooks, heard, answers, count, config, baileysVars>>

Counted(t) ==
    /\ t.do = "Counted"
    /\ IF t.kind = "upsert" THEN Replace(t, {[t EXCEPT !.do = "Media", !.n = 0, !.touched = {}]})
                                 /\ cache' = cache \cup {<<wire[t.id].jid, wire[t.id].ts, wire[t.id].mine>>}
       ELSE Finish(t) /\ UNCHANGED cache
    /\ UNCHANGED <<wire, rows, chats, contacts, hooks, heard, answers, count, config,
                   queue, seen, origin, known>>

\* updateMessagesReadedByTimestamp: nobody waits for the recount that follows.
ReadUpTo(t, jid, ts, next) ==
    /\ rows' = [i \in DOMAIN rows |-> IF i \in ReadBy(jid, ts) THEN [rows[i] EXCEPT !.status = "READ"]
                                      ELSE rows[i]]
    /\ Replace(t, next \cup (IF ReadBy(jid, ts) = {} THEN {}
                             ELSE {[NoTask EXCEPT !.do = "Recount", !.jid = jid]}))

-----------------------------------------------------------------------------
(* messages.upsert *)

Rest(t) == [t EXCEPT !.do = "Upsert", !.batch = Tail(@), !.id = 0, !.kind = "none", !.jid = "none"]
Ignored(jid) == On("ignore") /\ jid = "group"

UpsertDone(t) ==
    /\ t.do = "Upsert" /\ t.batch = <<>> /\ Finish(t)
    /\ UNCHANGED <<wire, rows, chats, contacts, hooks, heard, answers, count, config, baileysVars>>

\* Mutant: a message that could not be decrypted ends the batch.
Undecrypted_EndsBatch(t) ==
    /\ t.do = "Upsert" /\ t.batch # <<>> /\ wire[Head(t.batch).id].kind = "stub"
    /\ Finish(t)
    /\ UNCHANGED <<wire, rows, chats, contacts, hooks, heard, answers, count, config, baileysVars>>

Undecrypted(t) ==
    /\ t.do = "Upsert" /\ t.batch # <<>> /\ wire[Head(t.batch).id].kind = "stub"
    /\ Replace(t, {Rest(t)})
    /\ UNCHANGED <<wire, rows, chats, contacts, hooks, heard, answers, count, config, baileysVars>>

\* An edit is announced and remembered before the row that it is about is looked for.
Edited(t) ==
    /\ t.do = "Upsert" /\ t.batch # <<>> /\ wire[Head(t.batch).id].kind = "edit"
    /\ LET id == Head(t.batch).id
           of == wire[id].of
       IN /\ Tell({<<"MESSAGES_EDITED", of>>}) /\ origin' = origin \cup {<<id, of>>}
          /\ IF Found(of) = {} THEN Replace(t, {Rest(t)})
             ELSE Replace(t, {[t EXCEPT !.do = "Edit", !.id = of]})
    /\ UNCHANGED <<wire, rows, chats, contacts, heard, answers, count, config,
                   queue, cache, seen, known>>

\* A row that has been deleted since makes the update throw, and the batch is over.
EditRow(t) ==
    /\ t.do = "Edit"
    /\ IF Found(t.id) = {} THEN Finish(t) /\ UNCHANGED rows
       ELSE /\ \E i \in Found(t.id) :
                  rows' = [rows EXCEPT ![i].status = "EDITED", ![i].ts = wire[Head(t.batch).id].ts]
            /\ Replace(t, {Rest(t)})
    /\ UNCHANGED <<wire, chats, contacts, hooks, heard, answers, count, config, baileysVars>>

\* Groups may be ignored, and what is neither new nor has a content.
TakeMessage(t) ==
    /\ t.do = "Upsert" /\ t.batch # <<>>
    /\ LET id == Head(t.batch).id
       IN /\ wire[id].kind \notin {"stub", "edit"}
          /\ Replace(t, {IF Ignored(wire[id].jid) THEN Rest(t)
                         ELSE [t EXCEPT !.do = "Create", !.id = id]})
    /\ UNCHANGED <<wire, rows, chats, contacts, hooks, heard, answers, count, config, baileysVars>>

\* The row is created when the message has been read, shown in Chatwoot and transcribed.
CreateRow(t) ==
    /\ t.do = "Create"
    /\ rows' = Append(rows, Row(t.id, wire[t.id], IF wire[t.id].mine THEN "SERVER_ACK" ELSE "DELIVERY_ACK"))
    /\ Continue(t, "Count")
    /\ UNCHANGED <<wire, chats, contacts, hooks, heard, answers, count, config, baileysVars>>

\* A message of the same chat, second and side counts once. One of the owner's says that all
\* before it have been read.
CountUnread(t) ==
    /\ t.do = "Count"
    /\ LET m == wire[t.id]
           key == <<m.jid, m.ts, m.mine>>
       IN IF key \in cache THEN Continue(t, "Media") /\ UNCHANGED <<rows, cache>>
          ELSE IF m.mine
          THEN ReadUpTo(t, m.jid, m.ts, {[t EXCEPT !.do = "Media"]}) /\ cache' = cache \cup {key}
          ELSE /\ Replace(t, {[t EXCEPT !.do = "Recount", !.kind = "upsert", !.jid = m.jid]})
               /\ UNCHANGED <<rows, cache>>
    /\ UNCHANGED <<wire, chats, contacts, hooks, heard, answers, count, config,
                   queue, seen, origin, known>>

\* A video that S3 is not to have, or a medium without content, ends the whole batch.
UploadMedia(t) ==
    /\ t.do = "Media"
    /\ \/ /\ On("s3") /\ wire[t.id].kind = "video" /\ On("noVideo")
          /\ Finish(t)
       \/ /\ On("s3") /\ wire[t.id].kind = "media" /\ Finish(t)
       \/ /\ ~ (On("s3") /\ wire[t.id].kind = "video" /\ On("noVideo"))
          /\ Continue(t, "Announce")
    /\ UNCHANGED <<wire, rows, chats, contacts, hooks, heard, answers, count, config, baileysVars>>

\* The event controllers and the chatbots are told, then the contact is written.
Announce(t) ==
    /\ t.do = "Announce"
    /\ LET m == wire[t.id]
           event == IF <<"this", m.jid>> \in contacts THEN "CONTACTS_UPDATE" ELSE "CONTACTS_UPSERT"
       IN /\ Tell({<<"MESSAGES_UPSERT", t.id>>, <<event, t.id>>})
          /\ heard' = Append(heard, t.id)
          /\ contacts' = contacts \cup {<<"this", m.jid>>}
    /\ Replace(t, {Rest(t)})
    /\ UNCHANGED <<wire, rows, chats, answers, count, config, baileysVars>>

-----------------------------------------------------------------------------
(* messages.update, message-receipt.update *)

RestOfUpdates(t) == [t EXCEPT !.do = "Update", !.batch = Tail(@), !.id = 0]
Recounts(jids) == {[NoTask EXCEPT !.do = "Recount", !.jid = jid, !.queued = TRUE] : jid \in jids}

\* Mutant: the chats are not counted at the end.
UpdatesDone_NoRecount(t) ==
    /\ t.do = "Update" /\ t.batch = <<>> /\ Finish(t)
    /\ UNCHANGED <<wire, rows, chats, contacts, hooks, heard, answers, count, config, baileysVars>>

\* The chats of the messages of others whose status changed are counted at the end.
UpdatesDone(t) ==
    /\ t.do = "Update" /\ t.batch = <<>> /\ Replace(t, Recounts(t.touched))
    /\ UNCHANGED <<wire, rows, chats, contacts, hooks, heard, answers, count, config, baileysVars>>

\* An update of an edit is one of the message that was edited.
Original(id) == IF \E p \in origin : p[1] = id THEN {p[2] : p \in {p \in origin : p[1] = id}} ELSE {id}

Repeated(item) == item \in seen

\* What is repeated within a second, or is about a message without a row, is skipped.
SkipUpdate(t) ==
    /\ t.do = "Update" /\ t.batch # <<>>
    /\ LET item == Head(t.batch)
       IN \/ (Ignored(wire[item.id].jid) \/ Repeated(item)) /\ UNCHANGED seen
          \/ /\ ~ Ignored(wire[item.id].jid) /\ ~ Repeated(item)
             /\ \A id \in Original(item.id) : Found(id) = {}
             /\ seen' = seen \cup {item}
    /\ Replace(t, {RestOfUpdates(t)})
    /\ UNCHANGED <<wire, rows, chats, contacts, hooks, heard, answers, count, config,
                   queue, cache, origin, known>>

Gone(t, id) ==
    /\ Tell({<<"MESSAGES_DELETE", id>>}) /\ Replace(t, {RestOfUpdates(t)})
    /\ UNCHANGED <<rows, cache>>

\* The status of a message of somebody else changes, unless its chat, second and side are in
\* the cache: then neither it nor those before it become read.
Changed(t, id, i, status) ==
    LET m == rows[i]
        touched == [t EXCEPT !.touched = @ \cup {m.jid}, !.id = id]
    IN IF <<m.jid, m.ts, m.mine>> \in cache
       THEN Replace(t, {[touched EXCEPT !.do = "Updated"]}) /\ UNCHANGED <<rows, cache>>
       ELSE /\ ReadUpTo(t, m.jid, m.ts, {[touched EXCEPT !.do = "SetStatus"]})
            /\ cache' = cache \cup {<<m.jid, m.ts, m.mine>>}

TakeUpdate(t) ==
    /\ t.do = "Update" /\ t.batch # <<>>
    /\ LET item == Head(t.batch)
       IN /\ ~ Ignored(wire[item.id].jid) /\ ~ Repeated(item) /\ seen' = seen \cup {item}
          /\ \E id \in Original(item.id) : \E i \in Found(id) :
                IF item.what = "none" THEN Gone(t, id)
                ELSE /\ UNCHANGED hooks
                     /\ IF rows[i].status # item.what /\ ~ rows[i].mine
                        THEN Changed(t, id, i, item.what)
                        ELSE /\ Replace(t, {[t EXCEPT !.do = "Updated", !.id = id]})
                             /\ UNCHANGED <<rows, cache>>
    /\ UNCHANGED <<wire, chats, contacts, heard, answers, count, config, queue, origin, known>>

\* A row that is gone makes the update throw, and nothing more of the batch is done.
UpdateRow(t) ==
    /\ t.do = "SetStatus"
    /\ IF Found(t.id) = {} THEN Finish(t) /\ UNCHANGED rows
       ELSE /\ \E i \in Found(t.id) : SetStatus(i, Head(t.batch).what)
            /\ Continue(t, "Updated")
    /\ UNCHANGED <<wire, chats, contacts, hooks, heard, answers, count, config, baileysVars>>

\* Whoever's message it is, its chat has nothing unread until the recount.
AnnounceUpdate(t) ==
    /\ t.do = "Updated"
    /\ LET chat == <<"this", wire[Head(t.batch).id].jid>>
       IN IF chats[chat] = NoChat
          THEN Tell({<<"MESSAGES_UPDATE", t.id>>}) /\ UNCHANGED chats
          ELSE /\ Tell({<<"MESSAGES_UPDATE", t.id>>, <<"CHATS_UPSERT", t.id>>})
               /\ chats' = [chats EXCEPT ![chat].unread = 0]
    /\ Replace(t, {RestOfUpdates(t)})
    /\ UNCHANGED <<wire, rows, contacts, heard, answers, count, config, baileysVars>>

ReadReceipt(t) ==
    /\ t.do = "Receipt"
    /\ LET m == wire[Head(t.batch).id] IN ReadUpTo(t, m.jid, m.ts, {})
    /\ UNCHANGED <<wire, chats, contacts, hooks, heard, answers, count, config, baileysVars>>

-----------------------------------------------------------------------------
(* messaging-history.set, chats, labels *)

HistoryChats(t) ==
    /\ t.do = "History"
    /\ LET of == {<<"this", wire[item.id].jid>> : item \in {t.batch[i] : i \in DOMAIN t.batch}}
       IN chats' = [p \in DOMAIN chats |-> IF p \in of /\ chats[p] = NoChat THEN NewChat ELSE chats[p]]
    /\ Tell({<<"CHATS_SET", 0>>}) /\ Continue(t, "Snapshot")
    /\ UNCHANGED <<wire, rows, contacts, heard, answers, count, config, baileysVars>>

Ids == {rows[i].id : i \in DOMAIN rows}

\* Mutant: the ids of the rows are not asked for.
Snapshot_Empty(t) ==
    /\ t.do = "Snapshot" /\ known' = {} /\ Continue(t, "Import")
    /\ UNCHANGED <<wire, rows, chats, contacts, hooks, heard, answers, count, config,
                   queue, cache, seen, origin>>

\* The first one stays: only Chatwoot's import and a new QR code of Chatwoot take it away.
Snapshot(t) ==
    /\ t.do = "Snapshot" /\ known' = (IF known = None THEN Ids ELSE known) /\ Continue(t, "Import")
    /\ UNCHANGED <<wire, rows, chats, contacts, hooks, heard, answers, count, config,
                   queue, cache, seen, origin>>

\* The rows of the messages that are not in the snapshot, in their order, then the contacts.
ImportMessages(t) ==
    /\ t.do = "Import"
    /\ LET new == {i \in DOMAIN t.batch : /\ t.batch[i].id \notin known
                                          /\ wire[t.batch[i].id].kind \notin {"stub", "edit"}}
       IN /\ \E place \in [1 .. Cardinality(new) -> new], status \in {"DELIVERY_ACK", "READ"} :
                /\ \A j, k \in DOMAIN place : j < k => place[j] < place[k]
                /\ rows' = rows \o [j \in DOMAIN place |->
                             LET id == t.batch[place[j]].id
                             IN Row(id, wire[id], IF wire[id].mine THEN "SERVER_ACK" ELSE status)]
          /\ Tell({<<"MESSAGES_SET", t.batch[i].id>> : i \in new})
          /\ contacts' = contacts \cup {<<"this", wire[t.batch[i].id].jid>> : i \in DOMAIN t.batch}
    /\ Finish(t)
    /\ UNCHANGED <<wire, chats, heard, answers, count, config, baileysVars>>

\* A chat that is not there when the chats are read is inserted, unless it is there by then.
ChatsUpsert(t) ==
    /\ \/ /\ t.do = "ChatsUpsert" /\ Tell({<<"CHATS_UPSERT", 0>>}) /\ UNCHANGED chats
          /\ IF chats[<<"this", t.jid>>] = NoChat THEN Continue(t, "InsertChat") ELSE Finish(t)
       \/ /\ t.do = "InsertChat" /\ UNCHANGED hooks /\ Finish(t)
          /\ IF chats[<<"this", t.jid>>] # NoChat THEN UNCHANGED chats
             ELSE \E n \in 0 .. 1 : chats' = [chats EXCEPT ![<<"this", t.jid>>] =
                                                 [NewChat EXCEPT !.unread = n]]
    /\ UNCHANGED <<wire, rows, contacts, heard, answers, count, config, baileysVars>>

\* The row is given the remoteJid that it has.
ChatsUpdate(t) ==
    /\ t.do = "ChatsUpdate" /\ Tell({<<"CHATS_UPDATE", 0>>}) /\ Finish(t)
    /\ UNCHANGED <<wire, rows, chats, contacts, heard, answers, count, config, baileysVars>>

ChatsDelete(t) ==
    /\ t.do = "ChatsDelete" /\ Tell({<<"CHATS_DELETE", 0>>}) /\ Finish(t)
    /\ chats' = [chats EXCEPT ![<<"this", t.jid>>] = NoChat]
    /\ UNCHANGED <<wire, rows, contacts, heard, answers, count, config, baileysVars>>

\* A label makes the chat, too. MySQL appends it once more.
LabelOf(jid) == IF chats[<<"this", jid>>] = NoChat THEN NewChat ELSE chats[<<"this", jid>>]
AddLabel(jid) ==
    chats' = [chats EXCEPT ![<<"this", jid>>] =
                [LabelOf(jid) EXCEPT !.labels = IF On("mysql") THEN @ + 1 ELSE 1]]

RemoveLabel(jid) ==
    chats' = [chats EXCEPT ![<<"this", jid>>] =
                [LabelOf(jid) EXCEPT !.labels = IF On("mysql") /\ @ > 0 THEN @ - 1 ELSE 0]]

LabelsAssociation(t) ==
    /\ t.do \in {"AddLabel", "RemoveLabel"} /\ Tell({<<"LABELS_ASSOCIATION", 0>>}) /\ Finish(t)
    /\ IF t.do = "AddLabel" THEN AddLabel(t.jid) ELSE RemoveLabel(t.jid)
    /\ UNCHANGED <<wire, rows, contacts, heard, answers, count, config, baileysVars>>

-----------------------------------------------------------------------------
(* Requests. *)

Refuse(t) ==
    /\ Answer(t, "error") /\ Finish(t)
    /\ UNCHANGED <<wire, rows, chats, contacts, hooks, heard, config, baileysVars>>

\* Text, polls, locations, lists, contacts and reactions are sent as they are.
TextMessage == /\ Ask("Number", "text", {"contact"} \cup (IF On("group") THEN {"group"} ELSE {}))
               /\ UNCHANGED baileysVars
MediaMessage == On("media") /\ Ask("PrepareMedia", "media", {"contact"}) /\ UNCHANGED baileysVars
MediaSticker == On("media") /\ Ask("ConvertToWebP", "media", {"contact"}) /\ UNCHANGED baileysVars
StatusMessage == Ask("FormatStatus", "status", {"status"}) /\ UNCHANGED baileysVars

\* A recording is converted unless the request says not to.
AudioWhatsapp ==
    /\ On("media") /\ \E do \in {"ProcessAudio", "Number"} : Ask(do, "media", {"contact"})
    /\ UNCHANGED baileysVars

\* Buttons of kinds that do not go together are refused at once; a picture is prepared first.
ButtonMessage ==
    /\ On("media")
    /\ \/ \E do \in {"PrepareMedia", "Number"} : Ask(do, "text", {"contact"})
       \/ /\ Asked /\ answers' = [answers EXCEPT ![count'.asks] = "error"]
          /\ UNCHANGED <<wire, rows, chats, contacts, hooks, heard, tasks, config>>
    /\ UNCHANGED baileysVars

\* A file is fetched, converted and uploaded, or the request is refused.
Prepared(t) ==
    \/ Fault /\ Refuse(t)
    \/ /\ Continue(t, "Number")
       /\ UNCHANGED <<wire, rows, chats, contacts, hooks, heard, answers, count, config, baileysVars>>
PrepareMediaMessage(t) == t.do = "PrepareMedia" /\ Prepared(t)
ConvertToWebP(t) == t.do = "ConvertToWebP" /\ Prepared(t)
ProcessAudio(t) == t.do = "ProcessAudio" /\ Prepared(t)

\* A status is for all contacts there are.
FormatStatusMessage(t) ==
    /\ t.do = "FormatStatus"
    /\ IF contacts = {} THEN Refuse(t) /\ UNCHANGED count ELSE Prepared(t)

\* A number that is not on WhatsApp is refused, a group that is not found, too.
WhatsappNumber(t) ==
    /\ t.do = "Number"
    /\ \/ t.jid # "status" /\ Refuse(t)
       \/ Continue(t, "Send")
          /\ UNCHANGED <<wire, rows, chats, contacts, hooks, heard, answers, config, baileysVars>>
    /\ UNCHANGED count

\* The message gets its id when it is on WhatsApp.
SendMessage(t) ==
    /\ t.do = "Send"
    /\ \/ /\ wire' = Append(wire, Message(t.jid, TRUE, LastTs + 1, t.kind, 0))
          /\ Replace(t, {[t EXCEPT !.do = "Store", !.id = Len(wire')]})
          /\ UNCHANGED <<rows, chats, contacts, hooks, heard, answers, count, config, baileysVars>>
       \/ Fault /\ Refuse(t)

\* The rest of a status is sent to ten contacts at a time; whatever fails is passed over.
StoreSent(t) ==
    /\ t.do = "Store"
    /\ \/ /\ rows' = Append(rows, Row(t.id, wire[t.id], "PENDING"))
          /\ Continue(t, "Stored") /\ UNCHANGED <<answers, count>>
       \/ Fault /\ Answer(t, "error") /\ Finish(t) /\ UNCHANGED rows
    /\ UNCHANGED <<wire, chats, contacts, hooks, heard, config, baileysVars>>

\* A medium without content ends the call before anybody is told of the message.
Sent(t) ==
    /\ t.do = "Stored" /\ Answer(t, "ok") /\ Finish(t)
    /\ \/ t.kind = "media" /\ On("s3") /\ UNCHANGED <<hooks, heard>>
       \/ /\ Tell({<<"SEND_MESSAGE", t.id>>})
          /\ \/ UNCHANGED heard
             \/ On("bots") /\ heard' = Append(heard, t.id)
    /\ UNCHANGED <<wire, rows, chats, contacts, count, config, baileysVars>>

\* A request that is about a message, or a chat.
AskAbout(do, ids) ==
    /\ Asked
    /\ \E i \in ids : tasks' = tasks (+) SetToBag({[NoTask EXCEPT !.do = do, !.id = i, !.jid = wire[i].jid,
                                                    !.ask = count'.asks]})
    /\ UNCHANGED <<wire, rows, chats, contacts, hooks, heard, answers, config, baileysVars>>
GetBase64FromMediaMessage == On("media") /\ AskAbout("GetMessage", DOMAIN wire)
ArchiveChat == On("labels") /\ AskAbout("LastMessage", DOMAIN wire)
HandleLabel == On("labels") /\ Ask("Labelled", "text", {"contact"}) /\ UNCHANGED baileysVars

Succeed(t) ==
    /\ Answer(t, "ok") /\ Finish(t)
    /\ UNCHANGED <<wire, rows, chats, contacts, hooks, heard, config, baileysVars>>

\* The row is looked for.
GetMessage(t) ==
    /\ t.do = "GetMessage" /\ UNCHANGED count
    /\ IF Found(t.id) = {} THEN Refuse(t)
       ELSE /\ Continue(t, "Download")
            /\ UNCHANGED <<wire, rows, chats, contacts, hooks, heard, answers, config, baileysVars>>

\* A download that fails is tried in another way after five seconds.
Download(t) ==
    \/ t.do = "Download" /\ wire[t.id].kind = "text" /\ Refuse(t) /\ UNCHANGED count
    \/ t.do = "Download" /\ wire[t.id].kind # "text" /\ Succeed(t) /\ UNCHANGED count
    \/ /\ t.do = "Download" /\ wire[t.id].kind # "text" /\ Fault /\ Continue(t, "DownloadContent")
       /\ UNCHANGED <<wire, rows, chats, contacts, hooks, heard, answers, config, baileysVars>>
    \/ t.do = "DownloadContent" /\ (Succeed(t) \/ Refuse(t)) /\ UNCHANGED count

\* The last message of the chat goes with the change; without one there is none.
GetLastMessage(t) ==
    /\ t.do = "LastMessage" /\ UNCHANGED count
    /\ IF \A i \in DOMAIN rows : rows[i].jid # t.jid THEN Refuse(t)
       ELSE /\ Continue(t, "ChatModify")
            /\ UNCHANGED <<wire, rows, chats, contacts, hooks, heard, answers, config, baileysVars>>
ChatModify(t) ==
    /\ t.do = "ChatModify"
    /\ \/ Fault /\ Refuse(t)
       \/ Succeed(t) /\ UNCHANGED count

\* The number is looked up, the label is changed on WhatsApp and then in the row.
LabelNumber(t) ==
    /\ t.do = "Labelled"
    /\ \/ Refuse(t) /\ UNCHANGED count
       \/ Fault /\ Refuse(t)
       \/ /\ Answer(t, "ok") /\ Finish(t) /\ (AddLabel(t.jid) \/ RemoveLabel(t.jid))
          /\ UNCHANGED <<wire, rows, contacts, hooks, heard, count, config, baileysVars>>

\* A message is deleted for everyone: then its row, of whatever instance, is looked for.
AskDelete == AskAbout("Revoke", DOMAIN wire)

DeleteMessage(t) ==
    /\ t.do = "Revoke"
    /\ \/ Fault /\ Refuse(t)
       \/ /\ Continue(t, "DeleteRow")
          /\ UNCHANGED <<wire, rows, chats, contacts, hooks, heard, answers, count, config, baileysVars>>

DeleteRow(t) ==
    /\ t.do = "DeleteRow"
    /\ \/ Found(t.id) = {} /\ UNCHANGED <<rows, hooks>>
       \/ \E i \in Found(t.id) :
             /\ IF On("logical") THEN SetStatus(i, "DELETED") ELSE DropRow(i)
             /\ Tell({<<"MESSAGES_DELETE", t.id>>})
    /\ Answer(t, "ok") /\ Finish(t)
    /\ UNCHANGED <<wire, chats, contacts, heard, count, config, baileysVars>>

\* A message is edited: its row is looked for before and after; what is said about those of
\* others and of deleted ones is never thrown.
AskEdit == On("edits") /\ AskAbout("Rewrite", DOMAIN wire)

UpdateMessage(t) ==
    /\ t.do = "Rewrite"
    /\ IF Found(t.id) = {} THEN Refuse(t) /\ UNCHANGED count
       ELSE \/ Fault /\ Refuse(t)
            \/ /\ Tell({<<"SEND_MESSAGE_UPDATE", t.id>>}) /\ Continue(t, "EditSent")
               /\ UNCHANGED <<wire, rows, chats, contacts, heard, answers, count, config, baileysVars>>

EditSent(t) ==
    /\ t.do = "EditSent" /\ Finish(t)
    /\ IF Found(t.id) = {} THEN Answer(t, "error") /\ UNCHANGED rows
       ELSE /\ \E i \in Found(t.id) : rows' = [rows EXCEPT ![i].status = "EDITED", ![i].ts = LastTs + 1]
            /\ Answer(t, "ok")
    /\ UNCHANGED <<wire, chats, contacts, hooks, heard, count, config, baileysVars>>

-----------------------------------------------------------------------------
World == Arrive \/ Update \/ Receipt \/ History \/ ChatEvent
TimePasses == SecondPasses \/ FiveMinutesPass
Request == \/ TextMessage \/ MediaMessage \/ MediaSticker \/ AudioWhatsapp \/ ButtonMessage
           \/ StatusMessage \/ GetBase64FromMediaMessage \/ ArchiveChat \/ HandleLabel
           \/ AskDelete \/ AskEdit

\* Under "prompt" a recount that nobody waits for goes first.
May(t) == On("prompt") /\ Loose # {} => t \in Loose

HandlerStep ==
    \/ NextBatch
    \/ \E t \in Work :
        /\ May(t)
        /\ \/ Recount(t) \/ WriteCount(t) \/ Counted(t)
           \/ UpsertDone(t) \/ Undecrypted(t) \/ Edited(t) \/ EditRow(t) \/ TakeMessage(t)
           \/ CreateRow(t) \/ CountUnread(t) \/ UploadMedia(t) \/ Announce(t)
           \/ UpdatesDone(t) \/ SkipUpdate(t) \/ TakeUpdate(t) \/ UpdateRow(t)
           \/ AnnounceUpdate(t) \/ ReadReceipt(t)
           \/ HistoryChats(t) \/ Snapshot(t) \/ ImportMessages(t)
           \/ ChatsUpsert(t) \/ ChatsUpdate(t) \/ ChatsDelete(t) \/ LabelsAssociation(t)
RequestStep ==
    \E t \in Work : \/ PrepareMediaMessage(t) \/ ConvertToWebP(t) \/ ProcessAudio(t)
                    \/ FormatStatusMessage(t) \/ GetMessage(t) \/ Download(t) \/ GetLastMessage(t)
                    \/ ChatModify(t) \/ LabelNumber(t) \/ WhatsappNumber(t) \/ SendMessage(t) \/ StoreSent(t) \/ Sent(t)
                    \/ DeleteMessage(t) \/ DeleteRow(t) \/ UpdateMessage(t) \/ EditSent(t)
Failure == \E t \in Work : HandlerFails(t)

BaileysNext == World \/ TimePasses \/ Request \/ HandlerStep \/ RequestStep \/ Failure
=============================================================================
