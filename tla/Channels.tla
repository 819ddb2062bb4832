------------------------------ MODULE Channels ------------------------------
(***************************************************************************)
(* One instance of evolution-api and its messages, on one of its channels. *)
(***************************************************************************)
EXTENDS BaileysMessages, CloudMessages

vars == <<storeVars, baileysVars, phone>>

Init == StoreInit /\ BaileysInit /\ CloudInit
Next == \/ On("wa") /\ BaileysNext /\ UNCHANGED phone
        \/ ~ On("wa") /\ CloudNext /\ UNCHANGED baileysVars

Spec == Init /\ [][Next]_vars

-----------------------------------------------------------------------------
Settled == queue = <<>> /\ tasks = EmptyBag

\* What a message is worth to the channel.
Accepted(id) == /\ ~ wire[id].mine \/ On("own")
                /\ wire[id].kind \notin {"stub", "edit"}
                /\ ~ (On("wa") /\ Ignored(wire[id].jid))
Announced(id) == LET event == <<"MESSAGES_UPSERT", id>>
                 IN IF event \in BagToSet(hooks) THEN hooks[event] ELSE 0
Stored(id) == Cardinality(Found(id))
NoExcuse == \A option \in {"faults", "noVideo", "entries", "asks", "history", "chats"} : ~ On(option)
Skipped(id) == On("s3") /\ On("wa") /\ \E i \in DOMAIN wire : wire[i].kind = "media"

\* When nothing is in flight, every message that the channel accepts has been stored, and told
\* to the event controllers and to the chatbots, once, and no other has: neither a message
\* that cannot be decrypted nor an edit takes another one along. (A failure does, and so does a
\* video or a medium without content under S3, and the deletion of the chat that is counted;
\* Meta handles a webhook's first entry only.)
Delivered ==
    NoExcuse /\ Settled =>
        \A id \in DOMAIN wire :
            LET n == IF Accepted(id) THEN 1 ELSE 0
            IN Skipped(id) \/ /\ Announced(id) = n /\ Cardinality({i \in DOMAIN heard : heard[i] = id}) = n
                              /\ Stored(id) = (IF On("meta") /\ Medium(id) /\ ~ On("s3") THEN 0 ELSE n)

\* When nothing is in flight, the number of unread messages of a chat is that of its unread
\* rows. Not when the message that is updated is the owner's or was read before: that clears
\* the number without counting; nor with two messages in a second; nor when chats come and go.
Uncounted == \/ config \cap {"faults", "same", "edits", "chats", "history", "shared", "asks", "again"} # {}
             \/ On("updates") /\ (On("own") \/ On("receipts"))
Unread(jid) == chats[<<"this", jid>>].unread
UnreadMatches ==
    On("wa") /\ On("prompt") /\ ~ Uncounted /\ Settled =>
        \A jid \in Jids : Unread(jid) \in {-1, Cardinality(UnreadRows(jid))}

\* A message has one row, however it reached the instance: live, sent or in the history. Only
\* for the first history: its snapshot of the rows is used for all later ones. (A history that
\* has a message whose request is about to write the row makes a second one.)
OneRow == ~ On("resync") /\ ~ On("entries") /\ ~ (On("history") /\ On("asks")) => \A id \in DOMAIN wire : Stored(id) <= 1

\* A message is stored under the contact that it is from (Meta: one webhook at a time, because
\* the contact is that of the last webhook when the settings have been read).
RowsNameTheirContact ==
    On("meta") /\ On("serial") => \A i \in DOMAIN rows : rows[i].jid = wire[rows[i].id].jid
=============================================================================
