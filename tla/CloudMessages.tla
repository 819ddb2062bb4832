--------------------------- MODULE CloudMessages ---------------------------
(***************************************************************************)
(* The messages of an instance whose channel is Meta's API                 *)
(* (BusinessStartupService) or Evolution's own (EvolutionStartupService):  *)
(* webhooks that nobody waits for, and the requests that send messages.    *)
(***************************************************************************)
EXTENDS MessageStore

VARIABLE phone   \* this.phoneNumber: the contact of the last webhook of Meta

CloudInit == phone = "none"

Hooked(do, id) == [NoTask EXCEPT !.do = do, !.id = id, !.queued = TRUE]
Quiet == On("serial") => \A t \in Work : ~ t.queued

CloudKinds == {"text"} \cup (IF On("stubs") THEN {"stub"} ELSE {}) \cup (IF On("media") THEN {"media"} ELSE {})
                       \cup (IF On("video") THEN {"video"} ELSE {})
Contacts == {"contact"} \cup (IF On("second") THEN {"second"} ELSE {})

-----------------------------------------------------------------------------
(* Meta *)

\* Mutant: the contact of the last webhook stays.
PhoneOf_Stays(jid) == phone

PhoneOf(jid) == jid

\* Every entry of a webhook makes its first one be handled.
MetaWebhook ==
    /\ On("meta") /\ Quiet /\ Len(wire) < MaxMessages
    /\ \E jid \in Contacts, kind \in CloudKinds, entries \in {1} \cup (IF On("entries") THEN {2} ELSE {}) :
          /\ wire' = Append(wire, Message(jid, FALSE, LastTs + 1, kind, 0))
          /\ phone' = PhoneOf(jid)
          /\ tasks' = tasks (+) [t \in {Hooked("Settings", Len(wire'))} |-> entries]
    /\ UNCHANGED <<rows, chats, contacts, hooks, heard, answers, count, config>>

\* What became of messages that were sent; the contact is the one they were sent to.
MetaStatuses ==
    /\ On("meta") /\ On("updates") /\ Quiet /\ Updated
    /\ \E i \in DOMAIN wire :
          /\ wire[i].mine /\ phone' = PhoneOf(wire[i].jid)
          /\ \E rest \in {<<>>} \cup {<<j>> : j \in {j \in DOMAIN wire : wire[j].mine}} :
                tasks' = tasks (+) SetToBag({[Hooked("Statuses", 0) EXCEPT !.batch = <<i>> \o rest]})
    /\ UNCHANGED <<wire, rows, chats, contacts, hooks, heard, answers, config>>

Medium(id) == wire[id].kind \in {"media", "video"}

\* The settings have been read; the contact is that of the last webhook there was. A type that
\* is not known is ignored. With S3 a medium is stored here, or not at all: a video that S3
\* is not to have ends the call, an upload that fails does not.
MetaMessage(t) ==
    /\ t.do = "Settings"
    /\ \/ wire[t.id].kind = "stub" /\ Finish(t) /\ UNCHANGED <<rows, count>>
       \/ /\ wire[t.id].kind = "video" /\ On("s3") /\ On("noVideo")
          /\ Finish(t) /\ UNCHANGED <<rows, count>>
       \/ /\ Medium(t.id) /\ On("s3") /\ ~ (wire[t.id].kind = "video" /\ On("noVideo"))
          /\ rows' = Append(rows, [Row(t.id, wire[t.id], "none") EXCEPT !.jid = phone])
          /\ Replace(t, {[t EXCEPT !.do = "Tell", !.jid = phone]}) /\ UNCHANGED count
       \/ /\ Medium(t.id) /\ On("s3") /\ Fault /\ UNCHANGED rows
          /\ Replace(t, {[t EXCEPT !.do = "Tell", !.jid = phone]})
       \/ /\ wire[t.id].kind = "text" \/ (Medium(t.id) /\ ~ On("s3"))
          /\ Replace(t, {[t EXCEPT !.do = "Tell", !.jid = phone]}) /\ UNCHANGED <<rows, count>>
    /\ UNCHANGED <<wire, chats, contacts, hooks, heard, answers, config, phone>>

MetaTell(t) ==
    /\ t.do = "Tell"
    /\ Tell({<<"MESSAGES_UPSERT", t.id>>}) /\ heard' = Append(heard, t.id) /\ Continue(t, "Row")
    /\ UNCHANGED <<wire, rows, chats, contacts, answers, count, config, phone>>

\* Media and stickers get no row here. The contact is told of and never written: its insert is
\* not awaited and has no remoteJid.
MetaRow(t) ==
    /\ t.do = "Row"
    /\ IF Medium(t.id) THEN UNCHANGED rows
       ELSE rows' = Append(rows, [Row(t.id, wire[t.id], "none") EXCEPT !.jid = t.jid])
    /\ Tell({<<IF <<"this", t.jid>> \in contacts THEN "CONTACTS_UPDATE" ELSE "CONTACTS_UPSERT", t.id>>})
    /\ Finish(t)
    /\ UNCHANGED <<wire, chats, contacts, heard, answers, count, config, phone>>

\* A message without a row ends the call, and so does a post to its webhook that fails.
MetaStatus(t) ==
    /\ t.do = "Statuses"
    /\ IF t.batch = <<>> \/ (t.batch # <<>> /\ Found(Head(t.batch)) = {})
       THEN Finish(t) /\ UNCHANGED <<hooks, count>>
       ELSE /\ Tell({<<"MESSAGES_UPDATE", Head(t.batch)>>})
            /\ \/ Replace(t, {[t EXCEPT !.batch = Tail(@)]}) /\ UNCHANGED count
               \/ Fault /\ Finish(t)
    /\ UNCHANGED <<wire, rows, chats, contacts, heard, answers, config, phone>>

-----------------------------------------------------------------------------
(* Evolution *)

EvolutionWebhook ==
    /\ On("evolution") /\ Quiet /\ Len(wire) < MaxMessages
    /\ \E jid \in Contacts, kind \in CloudKinds \ {"stub"} :
          wire' = Append(wire, Message(jid, FALSE, LastTs + 1, kind, 0))
    /\ Tell({<<"MESSAGES_UPSERT", Len(wire')>>}) /\ heard' = Append(heard, Len(wire'))
    /\ tasks' = tasks (+) SetToBag({[Hooked("Create", Len(wire')) EXCEPT !.jid = wire'[Len(wire')].jid]})
    /\ UNCHANGED <<rows, chats, contacts, answers, count, config, phone>>

EvolutionRow(t) ==
    /\ t.do = "Create"
    /\ \/ rows' = Append(rows, Row(t.id, wire[t.id], "none")) /\ Continue(t, "Contact") /\ UNCHANGED count
       \/ Fault /\ Finish(t) /\ UNCHANGED rows
    /\ UNCHANGED <<wire, chats, contacts, hooks, heard, answers, config, phone>>

\* updateContact looks the contact up, then updates or inserts it; an insert throws when
\* another callback has inserted it meanwhile.
FindContact(t) ==
    /\ t.do = "Contact"
    /\ Continue(t, IF <<"this", t.jid>> \in contacts THEN "UpdateContact" ELSE "InsertContact")
    /\ UNCHANGED <<wire, rows, chats, contacts, hooks, heard, answers, count, config, phone>>

WriteContact(t) ==
    /\ t.do \in {"UpdateContact", "InsertContact"}
    /\ IF t.do = "InsertContact" /\ <<"this", t.jid>> \in contacts
       THEN Finish(t) /\ UNCHANGED <<contacts, hooks>>
       ELSE /\ contacts' = contacts \cup {<<"this", t.jid>>}
            /\ Tell({<<"CONTACTS_UPSERT", t.id>>}) /\ Continue(t, "Chat")
    /\ UNCHANGED <<wire, rows, chats, heard, answers, count, config, phone>>

\* The update takes the chats of the contact of every instance: that, or the insert that
\* always follows, throws when there is a chat.
FindChat(t) ==
    /\ t.do = "Chat"
    /\ IF chats[<<"this", t.jid>>] = NoChat
       THEN Tell({<<"CHATS_UPSERT", t.id>>}) /\ Continue(t, "InsertChat")
       ELSE IF chats[<<"other", t.jid>>] # NoChat
       THEN Tell({<<"CHATS_UPDATE", t.id>>}) /\ Finish(t)
       ELSE Tell({<<"CHATS_UPDATE", t.id>>, <<"CHATS_UPSERT", t.id>>}) /\ Continue(t, "InsertChat")
    /\ UNCHANGED <<wire, rows, chats, contacts, heard, answers, count, config, phone>>

InsertChat(t) ==
    /\ t.do = "InsertChat" /\ Finish(t)
    /\ chats' = [chats EXCEPT ![<<"this", t.jid>>] = IF @ = NoChat THEN NewChat ELSE @]
    /\ UNCHANGED <<wire, rows, contacts, hooks, heard, answers, count, config, phone>>

-----------------------------------------------------------------------------
(* Requests *)

CloudText == Ask("Post", "text", Contacts) /\ UNCHANGED phone

\* A file is uploaded to Meta first; a link is sent as it is, and so is everything to Evolution.
MetaMedia == /\ On("meta") /\ On("media") /\ \E do \in {"Upload", "Post"} : Ask(do, "media", {"contact"})
             /\ UNCHANGED phone
EvolutionMedia == /\ On("evolution") /\ On("media") /\ Ask("Post", "media", {"contact"})
                  /\ UNCHANGED phone

RefuseAtOnce ==
    /\ Asked /\ answers' = [answers EXCEPT ![count'.asks] = "error"]
    /\ UNCHANGED <<wire, rows, chats, contacts, hooks, heard, tasks, config, phone>>

\* A recording is converted when there is a converter; Evolution wants a file.
MetaAudio == /\ On("meta") /\ On("media")
             /\ \E do \in {"Convert", "Upload", "Post"} : Ask(do, "media", {"contact"})
             /\ UNCHANGED phone
EvolutionAudio == /\ On("evolution") /\ On("media")
                  /\ \/ RefuseAtOnce
                     \/ /\ \E do \in {"Convert", "Post"} : Ask(do, "media", {"contact"})
                        /\ UNCHANGED phone

\* Stickers, polls, statuses, deletions, archives and more are for Baileys only.
MetaUnavailable == On("meta") /\ RefuseAtOnce
EvolutionUnavailable == On("evolution") /\ RefuseAtOnce

\* The request is refused, or the file has been converted or uploaded.
Fetched(t, next) ==
    /\ \/ Continue(t, next) /\ UNCHANGED <<answers, count>>
       \/ Fault /\ Answer(t, "error") /\ Finish(t)
    /\ UNCHANGED <<wire, rows, chats, contacts, hooks, heard, config, phone>>
MetaProcessAudio(t) == On("meta") /\ t.do = "Convert" /\ Fetched(t, "Upload")
EvolutionProcessAudio(t) == On("evolution") /\ t.do = "Convert" /\ Fetched(t, "Post")
GetIdMedia(t) == t.do = "Upload" /\ Fetched(t, "Post")

\* What is sent is told to the event controllers and to the chatbots, then stored.
Told(t) ==
    /\ wire' = Append(wire, Message(t.jid, TRUE, LastTs + 1, t.kind, 0))
    /\ Tell({<<"SEND_MESSAGE", Len(wire')>>})
    /\ \/ UNCHANGED heard
       \/ On("bots") /\ heard' = Append(heard, Len(wire'))
    /\ Replace(t, {[t EXCEPT !.do = "Store", !.id = Len(wire')]})
    /\ UNCHANGED answers

\* An error of Meta's is the result of the call: the request is answered with it.
MetaPost(t) ==
    /\ On("meta") /\ t.do = "Post"
    /\ \/ Told(t) /\ UNCHANGED count
       \/ /\ Answer(t, "refused") /\ Finish(t)
          /\ UNCHANGED <<wire, hooks, heard, count>>
       \/ /\ Fault /\ Answer(t, "error") /\ Finish(t)
          /\ UNCHANGED <<wire, hooks, heard>>
    /\ UNCHANGED <<rows, chats, contacts, config, phone>>

\* For Evolution to send is to tell: whoever is told brings the message to the contact. With S3
\* a medium is uploaded before; it is told without it when that fails.
EvolutionSend(t) ==
    /\ On("evolution") /\ t.do = "Post"
    /\ IF t.kind = "media" /\ On("s3")
       THEN Continue(t, "S3") /\ UNCHANGED <<wire, hooks, heard, answers>>
       ELSE Told(t)
    /\ UNCHANGED <<rows, chats, contacts, count, config, phone>>
UploadToS3(t) ==
    /\ t.do = "S3" /\ Told(t)
    /\ UNCHANGED <<rows, chats, contacts, count, config, phone>>

\* Meta's row is PENDING, Evolution's has no status.
StorePosted(t) ==
    /\ t.do = "Store" /\ Finish(t)
    /\ \/ /\ rows' = Append(rows, Row(t.id, wire[t.id], IF On("meta") THEN "PENDING" ELSE "none"))
          /\ Answer(t, "ok") /\ UNCHANGED count
       \/ Fault /\ Answer(t, "error") /\ UNCHANGED rows
    /\ UNCHANGED <<wire, chats, contacts, hooks, heard, config, phone>>

-----------------------------------------------------------------------------
Webhook == MetaWebhook \/ MetaStatuses \/ EvolutionWebhook
CloudRequest == \/ CloudText \/ MetaMedia \/ EvolutionMedia \/ MetaAudio \/ EvolutionAudio
                \/ MetaUnavailable \/ EvolutionUnavailable
MetaStep == \E t \in Work : MetaMessage(t) \/ MetaTell(t) \/ MetaRow(t) \/ MetaStatus(t)
EvolutionStep == \E t \in Work : \/ EvolutionRow(t) \/ FindContact(t) \/ WriteContact(t)
                                 \/ FindChat(t) \/ InsertChat(t)
CloudSend == \E t \in Work : \/ MetaProcessAudio(t) \/ EvolutionProcessAudio(t) \/ GetIdMedia(t)
                             \/ MetaPost(t) \/ EvolutionSend(t) \/ UploadToS3(t) \/ StorePosted(t)

CloudNext == Webhook \/ CloudRequest \/ (On("meta") /\ MetaStep) \/ (On("evolution") /\ EvolutionStep)
             \/ CloudSend
=============================================================================
