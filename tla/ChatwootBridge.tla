-------------------------- MODULE ChatwootBridge --------------------------
(***************************************************************************)
(* The Chatwoot integration of an instance of evolution-api and one        *)
(* contact: what is said on WhatsApp is shown in a conversation of         *)
(* Chatwoot, what an agent writes there is sent to WhatsApp, what one side *)
(* deletes the other deletes, and the import that writes into Chatwoot's   *)
(* database shows what was lost.                                           *)
(*                                                                         *)
(* A task is a callback that waits for its database call or its HTTP call; *)
(* an action is what happens between two awaits.                           *)
(***************************************************************************)
EXTENDS Integers, FiniteSets, Sequences, Bags, SequencesExt

CONSTANTS
    MaxMessages,  \* bound: messages of the contact and of the owner
    MaxPosts,     \* bound: what agents write
    MaxAttachments, \* bound: attachments of a post
    MaxAsks,      \* bound: deletions, edits, commands and what agents do with conversations
    MaxFaults,    \* bound: calls that fail, and as many that nobody is told of
    Configs       \* a behaviour has the options of one of them

\* Settings: "reopen" and "pending" (conversations), "deletes" (MESSAGE_DELETE), "read"
\* (MESSAGE_READ), "import" (Chatwoot's database), "placeholder" (for imported
\* media). What happens: "phone", "api", "agent" and "template" (messages), "media", "empty"
\* (without a text), "album" (posts with several attachments), "history", "age" (messages become
\* older than six hours), "edits", "undo" (deletions), "resolve", "drop" (conversations),
\* "commands", "faults". "serial": what comes from outside comes when no callback waits; "one":
\* there is one message of the contact or the owner.
Options == {"reopen", "pending", "deletes", "read", "import", "placeholder", "phone", "api", "agent",
            "template", "media", "empty", "album", "history", "age", "edits", "undo", "resolve", "drop",
            "commands", "faults", "serial", "one"}

ASSUME ConfigsAreOptions == Configs \subseteq SUBSET Options
ASSUME BoundsAreNumbers == {MaxMessages, MaxPosts, MaxAttachments, MaxAsks, MaxFaults} \subseteq Nat

VARIABLES
    wire,      \* the messages on WhatsApp; "from" is the post that made the bridge send one
    revoked,   \* those that were deleted on WhatsApp
    old,       \* those of more than six hours ago
    rows,      \* the Message rows: the chatwootMessageId of each, 0 for none
    read,      \* the rows that are chatwootIsRead
    open,      \* the instance is connected to WhatsApp
    posts,     \* the messages in Chatwoot; "of" is the message in source_id, "gone" who deleted it
    convs,     \* the status of each conversation
    contact,   \* Chatwoot has the contact
    cache,     \* createConversation-<phone>: a conversation, 0 for none
    lock,      \* lock:createConversation-<phone>
    history,   \* chatwootImport.historyMessages
    notes,     \* the posts of agents that a private note says were not sent
    undone,    \* history: the posts whose deletion made the bridge delete a message
    tasks,     \* the bag of callbacks that wait to be resumed
    count,     \* what the bounds bound
    config     \* the options of this behaviour

whatsapp == <<wire, revoked, old, open>>
database == <<rows, read>>
chatwoot == <<posts, convs, contact, notes>>
memory == <<cache, lock, history>>
vars == <<whatsapp, database, chatwoot, memory, undone, tasks, count, config>>

On(option) == option \in config

\* What a callback keeps across its awaits; "then" is what comes after the conversation or the
\* import.
NoTask == [do |-> "", id |-> 0, conv |-> 0, post |-> 0, ids |-> {},
           list |-> <<>>, then |-> ""]
Work == BagToSet(tasks)
Replace(t, new) == tasks' = (tasks (-) SetToBag({t})) (+) SetToBag(new)
Begin(new) == tasks' = tasks (+) SetToBag(new)
Finish(t) == Replace(t, {})
Continue(t, do) == Replace(t, {[t EXCEPT !.do = do]})
Rest(t) == IF t.then = "" THEN {} ELSE {[t EXCEPT !.do = t.then]}

Init ==
    /\ config \in Configs
    /\ wire = <<>> /\ revoked = {} /\ old = {} /\ rows = << >> /\ read = {} /\ open = TRUE
    /\ posts = <<>> /\ convs = <<>> /\ contact = FALSE /\ notes = {}
    /\ cache = 0 /\ lock = FALSE /\ history = <<>>
    /\ undone = {} /\ tasks = EmptyBag
    /\ count = [messages |-> 0, posts |-> 0, asks |-> 0, faults |-> 0, blind |-> 0]

Quiet == On("serial") => tasks = EmptyBag
Bound == IF On("one") THEN 1 ELSE MaxMessages
Within(what, bound) == /\ Quiet /\ count[what] < bound
                       /\ count' = [count EXCEPT ![what] = @ + 1]
Fault == /\ On("faults") /\ count.faults < MaxFaults
         /\ count' = [count EXCEPT !.faults = @ + 1]
\* One that the code only logs, where a post of an agent is to be sent or a note is to be written.
Blind == /\ On("faults") /\ count.blind < MaxFaults
         /\ count' = [count EXCEPT !.blind = @ + 1]

Said(by, kind, from) == [by |-> by, kind |-> kind, from |-> from]
Mine(id) == wire[id].by # "contact"
Kinds == {"text"} \cup ({"media", "empty"} \cap config)

Written(by, kind, conv, of) == [by |-> by, kind |-> kind, conv |-> conv, of |-> of, gone |-> "no"]
Webhook(post) == [NoTask EXCEPT !.do = "Webhook", !.post = post]

\* Chatwoot: a message of the contact opens a conversation that was resolved.
WriteIn(conv, post) ==
    /\ posts' = Append(posts, post)
    /\ convs' = [convs EXCEPT ![conv] =
                   IF @ = "resolved" /\ (post.of # 0 => ~ Mine(post.of)) THEN "open" ELSE @]

-----------------------------------------------------------------------------
(* What comes from WhatsApp *)

\* The contact or the owner writes. The row waits for Chatwoot's answer.
Message ==
    /\ open /\ Within("messages", Bound)
    /\ \E by \in {"contact"} \cup ({"phone"} \cap config), kind \in Kinds :
          wire' = Append(wire, Said(by, kind, 0))
    /\ Begin({[NoTask EXCEPT !.do = "Event", !.id = Len(wire'), !.then = "Row"]})
    /\ UNCHANGED <<revoked, old, open, database, chatwoot, memory, undone, config>>

\* A request or a bot sends. Its row does not wait for Chatwoot and does not learn the post.
SendMessage(by, kind, from) == wire' = Append(wire, Said(by, kind, from))
EventOfSent == {[NoTask EXCEPT !.do = "Event", !.id = Len(wire')],
                [NoTask EXCEPT !.do = "Row", !.id = Len(wire')]}

ApiMessage ==
    /\ On("api") /\ open /\ Within("messages", Bound)
    /\ \E kind \in {"text"} \cup ({"media"} \cap config) : SendMessage("api", kind, 0)
    /\ Begin(EventOfSent)
    /\ UNCHANGED <<revoked, old, open, database, chatwoot, memory, undone, config>>

\* A message of the history: its row, the list for the import, and the import's timer.
History ==
    /\ On("history") /\ open /\ Within("messages", Bound)
    /\ wire' = Append(wire, Said("contact", "text", 0))
    /\ rows' = [id \in DOMAIN rows \cup {Len(wire')} |-> IF id = Len(wire') THEN 0 ELSE rows[id]]
    /\ history' = Append(history, Len(wire'))
    /\ Begin({[NoTask EXCEPT !.do = "Import"]})
    /\ UNCHANGED <<revoked, old, open, read, chatwoot, cache, lock, undone, config>>

\* Only the deletion of a message with a row is an event.
Revoke(id) ==
    /\ On("undo") /\ open /\ Within("asks", MaxAsks)
    /\ id \in DOMAIN wire \ revoked /\ revoked' = revoked \cup {id}
    /\ IF On("deletes") /\ id \in DOMAIN rows
       THEN Begin({[NoTask EXCEPT !.do = "FindRow", !.id = id]}) ELSE UNCHANGED tasks
    /\ UNCHANGED <<wire, old, open, database, chatwoot, memory, undone, config>>

\* Time passes. A message of the history may be old when it comes.
Age(id) ==
    /\ On("age") /\ id \in DOMAIN wire \ old /\ old' = old \cup {id}
    /\ UNCHANGED <<wire, revoked, open, database, chatwoot, memory, undone, tasks, count, config>>

Edit(id) ==
    /\ On("edits") /\ open /\ Within("asks", MaxAsks)
    /\ id \in DOMAIN wire \ revoked
    /\ Begin({[NoTask EXCEPT !.do = "FindEdited", !.id = id]})
    /\ UNCHANGED <<whatsapp, database, chatwoot, memory, undone, config>>

-----------------------------------------------------------------------------
(* eventWhatsapp: what was said is shown *)

\* What has no text and no medium is not shown.
HandleEvent(t) ==
    /\ t.do = "Event"
    /\ IF wire[t.id].kind = "empty" THEN Replace(t, Rest(t)) ELSE Continue(t, "Conversation")
    /\ UNCHANGED <<whatsapp, database, chatwoot, memory, undone, count, config>>

CreateConversation(t) ==
    /\ t.do = "Conversation"
    /\ Replace(t, {IF cache # 0 THEN [t EXCEPT !.do = "Verify", !.conv = cache]
                   ELSE [t EXCEPT !.do = IF lock THEN "Wait" ELSE "Lock"]})
    /\ UNCHANGED <<whatsapp, database, chatwoot, memory, undone, count, config>>

\* A conversation of the cache that Chatwoot does not return: all begins anew.
Verify(t) ==
    /\ t.do = "Verify"
    /\ \/ /\ convs[t.conv] # "gone" /\ Continue(t, "Post") /\ UNCHANGED <<cache, count>>
       \/ /\ \/ convs[t.conv] = "gone" /\ UNCHANGED count
             \/ convs[t.conv] # "gone" /\ Fault
          /\ cache' = 0 /\ Replace(t, {[t EXCEPT !.do = "Conversation", !.conv = 0]})
    /\ UNCHANGED <<whatsapp, database, chatwoot, lock, history, undone, config>>

\* Between two looks at the lock the cache is looked at. The waiting ends when the lock is
\* free, or after five seconds.
WaitForLock(t) ==
    /\ t.do = "Wait"
    /\ \/ cache # 0 /\ Replace(t, {[t EXCEPT !.do = "Post", !.conv = cache]})
       \/ Continue(t, "Lock")
    /\ UNCHANGED <<whatsapp, database, chatwoot, memory, undone, count, config>>

TakeLock(t) ==
    /\ t.do = "Lock" /\ lock' = TRUE /\ Continue(t, "Check")
    /\ UNCHANGED <<whatsapp, database, chatwoot, cache, history, undone, count, config>>

\* Whoever returns releases the lock, whosever it is.
DoubleCheck(t) ==
    /\ t.do = "Check"
    /\ IF cache # 0
       THEN lock' = FALSE /\ Replace(t, {[t EXCEPT !.do = "Post", !.conv = cache]})
       ELSE Continue(t, "Contact") /\ UNCHANGED lock
    /\ UNCHANGED <<whatsapp, database, chatwoot, cache, history, undone, count, config>>

FindContact(t) ==
    /\ t.do = "Contact" /\ Continue(t, IF contact THEN "List" ELSE "CreateContact")
    /\ UNCHANGED <<whatsapp, database, chatwoot, memory, undone, count, config>>

\* One that somebody else has created meanwhile is refused, and found by its identifier.
CreateContact(t) ==
    /\ t.do = "CreateContact" /\ contact' = TRUE /\ Continue(t, "List")
    /\ UNCHANGED <<whatsapp, database, posts, convs, notes, memory, undone, count, config>>

\* Without reopenConversation one that is resolved is left alone.
Listed == {c \in DOMAIN convs : convs[c] # "gone"}

\* Mutant: only a conversation that is open is taken.
Existing_OpenOnly(conversations) == {c \in conversations : convs[c] = "open"}

Existing(conversations) ==
    IF On("reopen") THEN conversations ELSE {c \in conversations : convs[c] # "resolved"}

ListConversations(t) ==
    /\ t.do = "List"
    /\ IF Existing(Listed) = {} THEN Continue(t, "Create") /\ UNCHANGED <<convs, cache, lock>>
       ELSE \E c \in Existing(Listed) :
              /\ convs' = [convs EXCEPT ![c] = IF On("reopen") /\ On("pending") /\ @ # "open"
                                               THEN "pending" ELSE @]
              /\ cache' = c /\ lock' = FALSE
              /\ Replace(t, {[t EXCEPT !.do = "Post", !.conv = c]})
    /\ UNCHANGED <<whatsapp, database, posts, contact, notes, history, undone, count, config>>

NewConversation(t) ==
    /\ t.do = "Create"
    /\ convs' = Append(convs, IF On("pending") THEN "pending" ELSE "open")
    /\ cache' = Len(convs') /\ lock' = FALSE
    /\ Replace(t, {[t EXCEPT !.do = "Post", !.conv = cache']})
    /\ UNCHANGED <<whatsapp, database, posts, contact, notes, history, undone, count, config>>

\* A call that fails: no conversation, and nothing is shown.
GiveUp(t) ==
    /\ t.do \in {"Contact", "CreateContact", "List", "Create"} /\ Fault
    /\ lock' = FALSE /\ Replace(t, Rest(t))
    /\ UNCHANGED <<whatsapp, database, chatwoot, cache, history, undone, config>>

\* The source_id says which message it is.
Shown(t) ==
    /\ WriteIn(t.conv, Written("bridge", wire[t.id].kind, t.conv, t.id))
    /\ Replace(t, Rest([t EXCEPT !.post = Len(posts')])
                  \cup (IF Mine(t.id) THEN {Webhook(Len(posts'))} ELSE {}))

CreateMessage(t) ==
    /\ t.do = "Post" /\ wire[t.id].kind = "text" /\ convs[t.conv] # "gone" /\ Shown(t)
    /\ UNCHANGED <<whatsapp, database, contact, notes, memory, undone, count, config>>

DownloadMedia(t) ==
    /\ t.do = "Post" /\ wire[t.id].kind = "media" /\ Continue(t, "Upload")
    /\ UNCHANGED <<whatsapp, database, chatwoot, memory, undone, count, config>>

\* A medium that the conversation has already (looked up only with the import) is not shown.
Has(conv, id) == \E p \in DOMAIN posts : posts[p].conv = conv /\ posts[p].of = id

SendData(t) ==
    /\ t.do = "Upload"
    /\ IF On("import") /\ Has(t.conv, t.id) THEN Replace(t, Rest(t)) /\ UNCHANGED <<posts, convs>>
       ELSE convs[t.conv] # "gone" /\ Shown(t)
    /\ UNCHANGED <<whatsapp, database, contact, notes, memory, undone, count, config>>

NotShown(t) ==
    /\ t.do \in {"Post", "Upload"}
    /\ \/ convs[t.conv] = "gone" /\ UNCHANGED count
       \/ convs[t.conv] # "gone" /\ Fault
    /\ Replace(t, Rest(t))
    /\ UNCHANGED <<whatsapp, database, chatwoot, memory, undone, config>>

\* Mutant: the row does not say which post shows it.
SaveRow_NoPost(t) ==
    /\ t.do = "Row" /\ Finish(t)
    /\ rows' = [id \in DOMAIN rows \cup {t.id} |-> IF id = t.id THEN 0 ELSE rows[id]]
    /\ UNCHANGED <<whatsapp, read, chatwoot, memory, undone, count, config>>

SaveRow(t) ==
    /\ t.do = "Row" /\ Finish(t)
    /\ rows' = [id \in DOMAIN rows \cup {t.id} |-> IF id = t.id THEN t.post ELSE rows[id]]
    /\ UNCHANGED <<whatsapp, read, chatwoot, memory, undone, count, config>>

-----------------------------------------------------------------------------
(* eventWhatsapp: what was edited or deleted *)

WithoutRow(id) == [i \in DOMAIN rows \ {id} |-> rows[i]]

FindRow(t) ==
    /\ t.do = "FindRow"
    /\ IF t.id \in DOMAIN rows /\ rows[t.id] # 0
       THEN Replace(t, {[t EXCEPT !.do = "DropRow", !.post = rows[t.id]]}) ELSE Finish(t)
    /\ UNCHANGED <<whatsapp, database, chatwoot, memory, undone, count, config>>

\* Mutant: the post is deleted before the row.
DropRow_Last(t) ==
    /\ t.do = "DropRow" /\ posts[t.post].gone = "no"
    /\ posts' = [posts EXCEPT ![t.post].gone = "bridge"]
    /\ Replace(t, {[t EXCEPT !.do = "DeletePost"],
                   [NoTask EXCEPT !.do = "Deleted", !.post = t.post]})
    /\ UNCHANGED <<whatsapp, database, convs, contact, notes, memory, undone, count, config>>

\* The row goes first: the webhook of the post's deletion is not to find it.
DropRow(t) ==
    /\ t.do = "DropRow" /\ rows' = WithoutRow(t.id) /\ Continue(t, "DeletePost")
    /\ UNCHANGED <<whatsapp, read, chatwoot, memory, undone, count, config>>

DeletePost(t) ==
    /\ t.do = "DeletePost"
    /\ IF posts[t.post].gone # "no" THEN Finish(t) /\ UNCHANGED posts
       ELSE /\ posts' = [posts EXCEPT ![t.post].gone = "bridge"]
            /\ Replace(t, {[NoTask EXCEPT !.do = "Deleted", !.post = t.post]})
    /\ UNCHANGED <<whatsapp, database, convs, contact, notes, memory, undone, count, config>>

\* An edit is one more post, with the source_id of the message.
FindEdited(t) ==
    /\ t.do = "FindEdited"
    /\ IF t.id \in DOMAIN rows /\ rows[t.id] # 0
       THEN Replace(t, {[t EXCEPT !.do = "ShowEdit", !.conv = posts[rows[t.id]].conv]})
       ELSE Finish(t)
    /\ UNCHANGED <<whatsapp, database, chatwoot, memory, undone, count, config>>

ShowEdit(t) ==
    /\ t.do = "ShowEdit"
    /\ IF convs[t.conv] = "gone" THEN Finish(t) /\ UNCHANGED <<posts, convs>>
       ELSE /\ WriteIn(t.conv, Written("edit", "text", t.conv, t.id))
            /\ Replace(t, IF Mine(t.id) THEN {Webhook(Len(posts'))} ELSE {})
    /\ UNCHANGED <<whatsapp, database, contact, notes, memory, undone, count, config>>

-----------------------------------------------------------------------------
(* What happens in Chatwoot *)

\* An agent, or a template, writes in a conversation.
Agent ==
    /\ Within("posts", MaxPosts)
    /\ \E c \in Listed, by \in {"agent", "template"} \cap config,
          kind \in {"text"} \cup ({"media", "album"} \cap config) :
          /\ by = "template" => kind = "text"
          /\ posts' = Append(posts, Written(by, kind, c, 0))
    /\ Begin({Webhook(Len(posts'))})
    /\ UNCHANGED <<whatsapp, database, convs, contact, notes, memory, undone, config>>

AgentDeletes(p) ==
    /\ On("undo") /\ Within("asks", MaxAsks)
    /\ p \in DOMAIN posts /\ posts[p].gone = "no"
    /\ posts' = [posts EXCEPT ![p].gone = "agent"]
    /\ Begin({[NoTask EXCEPT !.do = "Deleted", !.post = p]})
    /\ UNCHANGED <<whatsapp, database, convs, contact, notes, memory, undone, config>>

Resolve(c) ==
    /\ On("resolve") /\ Within("asks", MaxAsks)
    /\ c \in Listed /\ convs[c] # "resolved" /\ convs' = [convs EXCEPT ![c] = "resolved"]
    /\ Begin({[NoTask EXCEPT !.do = "Resolved"]})
    /\ UNCHANGED <<whatsapp, database, posts, contact, notes, memory, undone, config>>

\* A conversation is deleted with what is in it.
Drop(c) ==
    /\ On("drop") /\ Within("asks", MaxAsks) /\ c \in Listed
    /\ convs' = [convs EXCEPT ![c] = "gone"]
    /\ posts' = [p \in DOMAIN posts |-> IF posts[p].conv = c THEN [posts[p] EXCEPT !.gone = "conv"]
                                        ELSE posts[p]]
    /\ UNCHANGED <<whatsapp, database, contact, notes, memory, undone, tasks, config>>

\* init, disconnect and clearcache, said to the bot; status only answers.
Command ==
    /\ On("commands") /\ Within("asks", MaxAsks)
    /\ \E command \in {"Init", "Disconnect", "ClearCache"} :
          Begin({[NoTask EXCEPT !.do = command]})
    /\ UNCHANGED <<whatsapp, database, chatwoot, memory, undone, config>>

-----------------------------------------------------------------------------
(* receiveWebhook *)

ClearConversation(t) ==
    /\ t.do = "Resolved" /\ Finish(t) /\ cache' = (IF On("reopen") THEN cache ELSE 0)
    /\ UNCHANGED <<whatsapp, database, chatwoot, lock, history, undone, count, config>>

\* A socket opens, or not. One that opens with a QR code clears the import's lists.
Connect(t) ==
    /\ t.do = "Init" /\ Finish(t)
    /\ \/ UNCHANGED <<open, history>>
       \/ ~ open /\ open' = TRUE /\ history' \in {history, <<>>}
    /\ UNCHANGED <<wire, revoked, old, database, chatwoot, cache, lock, undone, count, config>>

Disconnect(t) ==
    /\ t.do = "Disconnect" /\ Finish(t) /\ open' = FALSE
    /\ UNCHANGED <<wire, revoked, old, database, chatwoot, memory, undone, count, config>>

\* The cache of the instance holds its locks, too.
ClearCache(t) ==
    /\ t.do = "ClearCache" /\ Finish(t) /\ cache' = 0 /\ lock' = FALSE
    /\ UNCHANGED <<whatsapp, database, chatwoot, history, undone, count, config>>

\* What the bridge has written has a source_id, and is not sent back.
IgnorePost(t) ==
    /\ t.do = "Webhook" /\ posts[t.post].of # 0 /\ posts[t.post].by # "agent" /\ Finish(t)
    /\ UNCHANGED <<whatsapp, database, chatwoot, memory, undone, count, config>>

\* A text, or one attachment after the other: what is sent next.
Sending(t) == \/ t.do = "Webhook" /\ posts[t.post].of = 0 /\ posts[t.post].by # "template"
              \/ t.do = "Next"

SendPost(t) ==
    /\ Sending(t) /\ open
    /\ wire' = Append(wire, Said("agent", IF posts[t.post].kind = "text" THEN "text" ELSE "media", t.post))
    /\ Replace(t, {[t EXCEPT !.do = "Sent", !.id = Len(wire')]})
    /\ UNCHANGED <<revoked, old, open, database, chatwoot, memory, undone, count, config>>

\* A template is sent as a request is, and shown.
SendTemplate(t) ==
    /\ t.do = "Webhook" /\ posts[t.post].by = "template"
    /\ IF open THEN SendMessage("template", "text", t.post) /\ Replace(t, EventOfSent)
       ELSE Finish(t) /\ UNCHANGED wire
    /\ UNCHANGED <<revoked, old, open, database, chatwoot, memory, undone, count, config>>

\* Mutant: nobody is told.
Tell_Nobody(t) == Finish(t)

\* Only of a text that was not sent: an attachment that fails throws past the note, and those
\* after it are not sent. The note is not waited for.
Tell(t) == Replace(t, IF posts[t.post].kind = "text"
                      THEN {[NoTask EXCEPT !.do = "Note", !.post = t.post]} ELSE {})

\* A conversation that is gone takes no note.
Note(t) ==
    /\ t.do = "Note" /\ Finish(t)
    /\ \/ posts[t.post].gone # "conv" /\ notes' = notes \cup {t.post} /\ UNCHANGED count
       \/ posts[t.post].gone = "conv" /\ UNCHANGED <<notes, count>>
       \/ Blind /\ UNCHANGED notes
    /\ UNCHANGED <<whatsapp, database, posts, convs, contact, memory, undone, config>>

SendFails(t) ==
    /\ Sending(t) /\ Tell(t)
    /\ \/ ~ open /\ UNCHANGED count
       \/ open /\ Fault
    /\ UNCHANGED <<whatsapp, database, chatwoot, memory, undone, config>>

\* What throws elsewhere in receiveWebhook is logged: the provider or the instance is not there,
\* the quoted message is not read, a call to WhatsApp or to the database fails.
WebhookFails(t) ==
    /\ \/ t.do = "Webhook" /\ Blind
       \/ t.do \in {"Next", "Link", "Read", "Deleted", "Undo", "DropRows"} /\ Fault
    /\ Finish(t)
    /\ UNCHANGED <<whatsapp, database, chatwoot, memory, undone, config>>

\* The row of what was sent. One that cannot be created makes the whole sending fail.
SentRow(t) ==
    /\ t.do = "Sent"
    /\ \/ /\ rows' = [id \in DOMAIN rows \cup {t.id} |-> IF id = t.id THEN 0 ELSE rows[id]]
          /\ Continue(t, "Link") /\ UNCHANGED count
       \/ Fault /\ Tell(t) /\ UNCHANGED rows
    /\ UNCHANGED <<whatsapp, read, chatwoot, memory, undone, config>>

\* How many attachments a post has is chosen while they are sent.
AfterLink(p) ==
    IF posts[p].kind = "album" /\ Cardinality({id \in DOMAIN wire : wire[id].from = p}) < MaxAttachments
    THEN {"Next", "Read"} ELSE {"Read"}

\* updateChatwootMessageId: the row, then the source_id in Chatwoot's database.
LinkRow(t) ==
    /\ t.do = "Link"
    /\ rows' = [id \in DOMAIN rows |-> IF id = t.id THEN t.post ELSE rows[id]]
    /\ \E do \in IF On("import") THEN {"Source"} ELSE AfterLink(t.post) : Continue(t, do)
    /\ UNCHANGED <<whatsapp, read, chatwoot, memory, undone, count, config>>

\* Mutant: Chatwoot's database is not told.
UpdateSourceID_Not(t) ==
    /\ t.do = "Source" /\ \E do \in AfterLink(t.post) : Continue(t, do)
    /\ UNCHANGED <<whatsapp, database, chatwoot, memory, undone, count, config>>

\* Each attachment overwrites the source_id of the one before.
UpdateSourceID(t) ==
    /\ t.do = "Source" /\ \E do \in AfterLink(t.post) : Continue(t, do)
    /\ \/ posts' = [posts EXCEPT ![t.post].of = t.id] /\ UNCHANGED count
       \/ Fault /\ UNCHANGED posts
    /\ UNCHANGED <<whatsapp, database, convs, contact, notes, memory, undone, config>>

\* Some message of somebody else, whichever the database returns, becomes read.
MarkRead(t) ==
    /\ t.do = "Read" /\ Finish(t)
    /\ LET others == {id \in DOMAIN rows : ~ Mine(id)}
       IN IF On("read") /\ others # {} THEN \E id \in others : read' = read \cup {id}
          ELSE UNCHANGED read
    /\ UNCHANGED <<whatsapp, rows, chatwoot, memory, undone, count, config>>

FindDeleted(t) ==
    /\ t.do = "Deleted"
    /\ LET found == {id \in DOMAIN rows : rows[id] = t.post}
       IN IF found = {} THEN Finish(t)
          ELSE \E id \in found : Replace(t, {[t EXCEPT !.do = "Undo", !.id = id]})
    /\ UNCHANGED <<whatsapp, database, chatwoot, memory, undone, count, config>>

Undo(t) ==
    /\ t.do = "Undo"
    /\ IF open THEN /\ revoked' = revoked \cup {t.id} /\ undone' = undone \cup {t.post}
                    /\ Continue(t, "DropRows")
       ELSE Finish(t) /\ UNCHANGED <<revoked, undone>>
    /\ UNCHANGED <<wire, old, open, database, chatwoot, memory, count, config>>

DropRows(t) ==
    /\ t.do = "DropRows" /\ Finish(t)
    /\ rows' = [id \in {id \in DOMAIN rows : rows[id] # t.post} |-> rows[id]]
    /\ UNCHANGED <<whatsapp, read, chatwoot, memory, undone, count, config>>

-----------------------------------------------------------------------------
(* The import *)

\* Mutant: only what Chatwoot has shown before is looked for.
Lost_Known(ids) == {id \in DOMAIN rows \ (old \cup ids) : rows[id] # 0}

\* Both sides are asked for the last six hours only. The posts of a message that is not old are
\* in that time, too: they are created after it, an import dates them as the message, and the
\* update of a source_id dates the post anew.
Lost(ids) == DOMAIN rows \ (old \cup ids)

\* Every half hour: what Chatwoot has is read, then the rows that it has not.
StartSync ==
    /\ On("import") /\ Quiet /\ \A t \in Work : t.then # "ClearCache"
    /\ Begin({[NoTask EXCEPT !.do = "Sync", !.then = "ClearCache", !.ids =
                 {posts[p].of : p \in {p \in DOMAIN posts : posts[p].gone # "conv"}} \ {0}]})
    /\ UNCHANGED <<whatsapp, database, chatwoot, memory, undone, count, config>>

SyncRows(t) ==
    /\ t.do = "Sync" /\ Continue(t, "Import")
    /\ history' = history \o SetToSeq(Lost(t.ids))
    /\ UNCHANGED <<whatsapp, database, chatwoot, cache, lock, undone, count, config>>

\* syncLostMessages returns, and the cache is not cleared.
SyncFails(t) ==
    /\ t.do = "Sync" /\ Fault /\ Finish(t)
    /\ UNCHANGED <<whatsapp, database, chatwoot, memory, undone, config>>

\* What the import has to do it takes from the list; none of it is found to exist: what is
\* there is looked up with the prefix of a source_id, and compared without.
ImportHistoryMessages(t) ==
    /\ t.do = "Import"
    /\ Replace(t, IF history = <<>> THEN Rest(t)
                  ELSE {[t EXCEPT !.do = "Fks", !.list = history, !.ids = {}]})
    /\ UNCHANGED <<whatsapp, database, chatwoot, memory, undone, count, config>>

\* Any conversation of the contact, or a new one.
SelectOrCreateFks(t) ==
    /\ t.do = "Fks" /\ contact' = TRUE
    /\ convs' = IF Listed = {} THEN Append(convs, "open") ELSE convs
    /\ \E c \in IF Listed = {} THEN {Len(convs')} ELSE Listed :
          Replace(t, {[t EXCEPT !.do = "Insert", !.conv = c]})
    /\ UNCHANGED <<whatsapp, database, posts, notes, memory, undone, count, config>>

\* A medium has a text to insert only if a placeholder is wanted. The code inserts them by
\* timestamp; no property looks at the order, and any one will do here.
Importable(list) ==
    LET HasText(id) == \/ wire[id].kind = "text"
                       \/ wire[id].kind = "media" /\ On("placeholder")
        kept == SetToSeq({i \in DOMAIN list : HasText(list[i])})
    IN [j \in DOMAIN kept |-> list[kept[j]]]

\* Written past Chatwoot: no webhook. What was put on the list meanwhile is lost with it.
InsertMessages(t) ==
    /\ t.do = "Insert" /\ convs[t.conv] # "gone"
    /\ posts' = posts \o [i \in DOMAIN Importable(t.list) |->
                            Written("import", "text", t.conv, Importable(t.list)[i])]
    /\ history' = <<>> /\ Replace(t, Rest(t))
    /\ UNCHANGED <<whatsapp, database, convs, contact, notes, cache, lock, undone, count, config>>

ImportFails(t) ==
    /\ \/ t.do \in {"Fks", "Insert"} /\ Fault
       \/ t.do = "Insert" /\ convs[t.conv] = "gone" /\ UNCHANGED count
    /\ history' = <<>> /\ Replace(t, Rest(t))
    /\ UNCHANGED <<whatsapp, database, chatwoot, cache, lock, undone, config>>

-----------------------------------------------------------------------------
EventStep == \E t \in Work : \/ HandleEvent(t) \/ CreateConversation(t) \/ Verify(t)
                             \/ WaitForLock(t) \/ TakeLock(t) \/ DoubleCheck(t) \/ FindContact(t)
                             \/ CreateContact(t) \/ ListConversations(t) \/ NewConversation(t)
                             \/ GiveUp(t) \/ CreateMessage(t) \/ DownloadMedia(t) \/ SendData(t)
                             \/ NotShown(t) \/ SaveRow(t) \/ FindRow(t)
                             \/ DropRow(t) \/ DeletePost(t) \/ FindEdited(t) \/ ShowEdit(t)
WebhookStep == \E t \in Work : \/ ClearConversation(t) \/ Connect(t) \/ Disconnect(t)
                               \/ (t.then = "" /\ ClearCache(t))
                               \/ IgnorePost(t) \/ SendPost(t) \/ SendTemplate(t) \/ SendFails(t)
                               \/ SentRow(t) \/ LinkRow(t) \/ UpdateSourceID(t) \/ MarkRead(t)
                               \/ FindDeleted(t) \/ Undo(t) \/ DropRows(t) \/ Note(t) \/ WebhookFails(t)
ImportStep(then) == \E t \in Work : /\ t.then = then
                                    /\ \/ SyncRows(t) \/ SyncFails(t) \/ ImportHistoryMessages(t)
                                       \/ SelectOrCreateFks(t) \/ InsertMessages(t)
                                       \/ ImportFails(t) \/ (then # "" /\ ClearCache(t))

FromWhatsapp == \/ Message \/ ApiMessage \/ History
                \/ \E id \in DOMAIN wire : Revoke(id) \/ Edit(id) \/ Age(id)
FromChatwoot == \/ Agent \/ Command
                \/ \E p \in DOMAIN posts : AgentDeletes(p)
                \/ \E c \in DOMAIN convs : Resolve(c) \/ Drop(c)

Next == \/ FromWhatsapp \/ FromChatwoot \/ EventStep \/ WebhookStep
        \/ StartSync \/ (\E then \in {"", "ClearCache"} : ImportStep(then))

Spec == Init /\ [][Next]_vars

\* Node resumes its callbacks, Chatwoot answers or the call fails, and cron runs its task.
FairSpec == Spec /\ WF_vars(EventStep) /\ WF_vars(WebhookStep) /\ WF_vars(StartSync)
                 /\ WF_vars(ImportStep("")) /\ WF_vars(ImportStep("ClearCache"))

-----------------------------------------------------------------------------
(* Properties *)

\* The posts that a message has in Chatwoot: those that show it, and the one that it was sent for.
PostsOf(id) == {p \in DOMAIN posts : /\ posts[p].gone # "conv"
                                     /\ \/ posts[p].of = id /\ posts[p].by # "edit"
                                        \/ wire[id].from = p}

\* The message is one attachment of a post that may have several: all their rows say that this
\* post shows them, and its source_id is that of the last one. A sync shows the others once more,
\* and a deletion reaches one of them.
OfAlbum(id) == wire[id].from # 0 /\ posts[wire[id].from].kind = "album"

\* No message is twice in Chatwoot, however the callbacks interleave and whichever calls fail, but
\* for what a template has sent, which is shown next to the template, and the messages of posts
\* with several attachments. With the import that is so when things come one at a time and no call
\* fails: a sync that reads while a message is on its way, two imports at once, or a source_id
\* that was not written import it once more.
ShownOnce == (On("serial") /\ count.faults = 0) \/ (~ On("import") /\ ~ On("history")) =>
    \A id \in DOMAIN wire : OfAlbum(id) \/
        Cardinality(PostsOf(id)) <= IF wire[id].by = "template" THEN 2 ELSE 1

\* What the bridge deletes on WhatsApp an agent has deleted in Chatwoot: a deletion does not
\* come back. (It does for a post with several attachments: the deletion of one of its messages
\* deletes the post, and that the next message.)
NoDeleteLoop == \A p \in undone : posts[p].gone = "bridge" => posts[p].kind = "album"

\* The contact has one conversation that is not resolved (events one at a time: two that are
\* both told that there is no lock both create one).
OneConversation == On("serial") =>
    Cardinality({c \in DOMAIN convs : convs[c] \notin {"gone", "resolved"}}) <= 1

\* A text that an agent has written is on WhatsApp or a private note says that it is not,
\* whatever failed in the sending, if nothing that the code only logs has failed: what it does
\* before (the provider, the instance, the quoted message) and the note's own request. (An
\* attachment that fails is only logged, too.)
AgentIsTold ==
    \A p \in DOMAIN posts :
        /\ posts[p].by = "agent" /\ posts[p].kind = "text" /\ posts[p].gone # "conv"
        /\ count.blind = 0 /\ \A t \in Work : t.post = p => t.do \notin {"Webhook", "Note"}
        => p \in notes \/ \E id \in DOMAIN wire : wire[id].from = p

\* What one side deletes is deleted on the other, when no callback waits: if one thing comes
\* at a time, no call fails, WhatsApp is connected, and a row says which post shows which
\* message: those of requests, templates and imports do not, and those of a post with several
\* attachments say the same one.
DeletedForBoth ==
    On("serial") /\ ~ On("commands") /\ count.faults + count.blind = 0 /\ tasks = EmptyBag =>
        \A id \in DOMAIN wire : wire[id].by \in {"contact", "phone", "agent"} /\ ~ OfAlbum(id) =>
            \A p \in PostsOf(id) : posts[p].by # "import" =>
                /\ posts[p].gone = "agent" => id \in revoked
                /\ id \in revoked /\ On("deletes") => posts[p].gone # "no"

\* What has a row and a text is in Chatwoot in the end, however often a call has failed, unless
\* six hours are over before.
LostMessagesFound ==
    \A id \in 1 .. MaxMessages + MaxPosts :
        (On("import") /\ id \in DOMAIN rows /\ wire[id].kind = "text")
            ~> (id \notin DOMAIN rows \/ PostsOf(id) # {} \/ id \in old)
=============================================================================
