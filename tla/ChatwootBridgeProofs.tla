------------------------ MODULE ChatwootBridgeProofs ------------------------
(***************************************************************************)
(* ChatwootBridge, whatever the settings, however the callbacks interleave *)
(* and whatever fails: agents are told, no deletion comes back, and, when  *)
(* nothing is imported, no message is shown twice.                         *)
(***************************************************************************)
EXTENDS ChatwootBridge, DataFacts, FiniteSetTheorems, SequenceTheorems

-----------------------------------------------------------------------------
(* The shape of the state *)

TaskFields == {"do", "id", "conv", "post", "ids", "list", "then"}
PostFields == {"by", "kind", "conv", "of", "gone"}

IsTask(t) == /\ DOMAIN t = TaskFields /\ t.id \in Nat /\ t.list \in Seq(Nat)
             /\ t.then \in {"", "Row", "ClearCache"}

ShapeInv ==
    /\ IsABag(tasks) /\ \A t \in Work : IsTask(t)
    /\ history \in Seq(Nat)
    /\ DOMAIN rows \subseteq Nat /\ IsFiniteSet(DOMAIN rows)
    /\ IsList(wire) /\ IsList(posts) /\ \A p \in DOMAIN posts : DOMAIN posts[p] = PostFields

\* The callbacks that are about a post, and those that are about no message.
PostDos == {"Webhook", "Sent", "Link", "Source", "Next", "Read", "Note", "DropRow", "DeletePost",
            "Deleted", "Undo", "DropRows"}
NoIdDos == {"Webhook", "Note", "Deleted", "Undo", "DropRows", "Import", "Sync", "Fks",
            "Insert", "Resolved", "Init", "Disconnect", "ClearCache"}

\* A post that may have several attachments.
Album(p) == posts[p].kind = "album"

About(t) ==
    /\ t.do \in PostDos => t.post \in DOMAIN posts
    /\ t.do = "Row" => t.post \in {0} \cup DOMAIN posts
    /\ t.do \notin PostDos \cup {"Row"} => t.post = 0
    /\ t.do \in NoIdDos \/ t.id # 0
    /\ t.do \in NoIdDos => t.then # "Row"
    /\ t.do \in NoIdDos \ PostDos \/ t.then # "ClearCache"
    /\ t.do = "Webhook" => posts[t.post].by # "import"
    /\ t.do \in {"Sent", "Link", "Source", "Next"} => posts[t.post].by = "agent"
    /\ t.do = "Next" => Album(t.post)

Writers == {"agent", "template", "bridge", "edit", "import"}

BaseInv ==
    /\ ShapeInv
    /\ \A t \in Work : About(t)
    /\ \A p \in DOMAIN posts :
          /\ posts[p].by \in Writers
          /\ posts[p].by \in {"bridge", "edit"} => posts[p].of # 0

-----------------------------------------------------------------------------
(* The tasks that are about no post *)

Calm(t) == /\ IsTask(t) /\ t.post = 0 /\ t.do \notin PostDos
           /\ t.do \in NoIdDos \/ t.id # 0
           /\ t.do \in NoIdDos => t.then # "Row"
           /\ t.do \in NoIdDos \ PostDos \/ t.then # "ClearCache"

CalmTask(t) == Calm(t) /\ t.do # "Row"

LEMMA TasksAreCalm ==
    ASSUME BaseInv, NEW t \in Work
    PROVE  /\ IsTask(t)
           /\ t.do \notin PostDos \cup {"Row"} => CalmTask(t)
  BY DEF BaseInv, ShapeInv, About, Calm, CalmTask

\* What a callback that is about no post goes on with.
LEMMA GoesOnCalmly ==
    ASSUME NEW t, CalmTask(t), NEW d, d \notin PostDos, d \in NoIdDos <=> t.do \in NoIdDos, NEW c
    PROVE  Calm([t EXCEPT !.do = d]) /\ Calm([t EXCEPT !.do = d, !.conv = c])
  BY DEF CalmTask, Calm, IsTask, TaskFields

LEMMA RestIsCalm ==
    ASSUME NEW t, CalmTask(t)
    PROVE  \A u \in Rest(t) : Calm(u)
  <1>1. CASE t.then = "Row"
    BY <1>1 DEF CalmTask, Calm, IsTask, TaskFields, Rest, PostDos, NoIdDos
  <1>2. CASE t.then = "ClearCache"
    BY <1>2 DEF CalmTask, Calm, IsTask, TaskFields, Rest, PostDos, NoIdDos
  <1>3. CASE t.then = ""
    BY <1>3 DEF Rest
  <1>. QED BY <1>1, <1>2, <1>3 DEF CalmTask, Calm, IsTask

-----------------------------------------------------------------------------
(* The steps that say, write and delete nothing *)

Same == UNCHANGED <<wire, rows, posts, notes, undone>> /\ history' \in Seq(Nat)

CalmStep(t) == /\ \E new : Replace(t, new) /\ \A u \in new : Calm(u)
               /\ t.do \in {"Webhook", "Note"} => posts[t.post].by # "agent"
               /\ Same

\* The lists of the import.
LEMMA SeqOfSet ==
    ASSUME NEW S, IsFiniteSet(S)
    PROVE  /\ Cardinality(S) \in Nat
           /\ SetToSeq(S) \in [1 .. Cardinality(S) -> S]
           /\ SetToSeq(S) \in Seq(S)
  <1>1. Cardinality(S) \in Nat /\ ExistsBijection(1 .. Cardinality(S), S)
    BY FS_CardinalityType
  <1>2. PICK f : f \in [1 .. Cardinality(S) -> S] /\ IsInjective(f)
    BY <1>1 DEF ExistsBijection, Bijection, Injection, IsInjective
  <1>3. SetToSeq(S) \in [1 .. Cardinality(S) -> S]
    BY <1>2 DEF SetToSeq
  <1>. QED BY <1>1, <1>3

EventDos == {"Event", "Conversation", "Verify", "Wait", "Lock", "Check", "Contact",
             "CreateContact", "List", "Create", "Post", "Upload"}

EventAction(t) ==
    \/ HandleEvent(t) \/ CreateConversation(t) \/ Verify(t) \/ WaitForLock(t) \/ TakeLock(t)
    \/ DoubleCheck(t) \/ FindContact(t) \/ CreateContact(t) \/ ListConversations(t)
    \/ NewConversation(t) \/ GiveUp(t) \/ DownloadMedia(t) \/ NotShown(t)

\* A message that is on its way stays so, or is done with.
LEMMA EventsGoOn ==
    ASSUME BaseInv, NEW t \in Work, EventAction(t)
    PROVE  /\ t.do \in EventDos /\ CalmTask(t) /\ Same
           /\ \/ Replace(t, Rest(t))
              \/ \E d \in EventDos : \/ Replace(t, {[t EXCEPT !.do = d]})
                                     \/ \E c : Replace(t, {[t EXCEPT !.do = d, !.conv = c]})
  <1>1. t.do \in EventDos
    BY DEF EventAction, HandleEvent, CreateConversation, Verify, WaitForLock, TakeLock,
           DoubleCheck, FindContact, CreateContact, ListConversations, NewConversation, GiveUp,
           DownloadMedia, NotShown, EventDos
  <1>2. CalmTask(t)
    BY <1>1, TasksAreCalm DEF EventDos, PostDos
  <1>3. Same
    BY DEF EventAction, HandleEvent, CreateConversation, Verify, WaitForLock, TakeLock,
           DoubleCheck, FindContact, CreateContact, ListConversations, NewConversation, GiveUp,
           DownloadMedia, NotShown, Same, BaseInv, ShapeInv, whatsapp, database, chatwoot, memory
  <1>4. \/ Replace(t, Rest(t))
        \/ \E d \in EventDos : \/ Replace(t, {[t EXCEPT !.do = d]})
                               \/ \E c : Replace(t, {[t EXCEPT !.do = d, !.conv = c]})
    <2>1. CASE HandleEvent(t)
      BY <2>1 DEF HandleEvent, Continue, EventDos
    <2>2. CASE CreateConversation(t)
      <3>1. CASE cache # 0
        BY <2>2, <3>1 DEF CreateConversation, EventDos
      <3>2. CASE cache = 0 /\ lock
        BY <2>2, <3>2 DEF CreateConversation, EventDos
      <3>3. CASE cache = 0 /\ ~ lock
        BY <2>2, <3>3 DEF CreateConversation, EventDos
      <3>. QED BY <3>1, <3>2, <3>3
    <2>3. CASE Verify(t)
      BY <2>3 DEF Verify, Continue, EventDos
    <2>4. CASE WaitForLock(t) \/ TakeLock(t) \/ DoubleCheck(t)
      BY <2>4 DEF WaitForLock, TakeLock, DoubleCheck, Continue, EventDos
    <2>5. CASE FindContact(t) \/ CreateContact(t) \/ DownloadMedia(t)
      BY <2>5 DEF FindContact, CreateContact, DownloadMedia, Continue, EventDos
    <2>6. CASE ListConversations(t)
      BY <2>6 DEF ListConversations, Continue, EventDos
    <2>7. CASE NewConversation(t)
      BY <2>7 DEF NewConversation, EventDos
    <2>8. CASE GiveUp(t) \/ NotShown(t)
      BY <2>8 DEF GiveUp, NotShown
    <2>. QED BY <2>1, <2>2, <2>3, <2>4, <2>5, <2>6, <2>7, <2>8 DEF EventAction
  <1>. QED BY <1>1, <1>2, <1>3, <1>4

LEMMA EventsAreCalm ==
    ASSUME BaseInv, NEW t \in Work, EventAction(t)
    PROVE  CalmStep(t)
  <1>1. t.do \in EventDos /\ CalmTask(t) /\ Same
    BY EventsGoOn
  <1>2. t.do \notin NoIdDos /\ t.do \notin {"Webhook", "Note"}
    BY <1>1 DEF EventDos, NoIdDos
  <1>3. CASE Replace(t, Rest(t))
    BY <1>1, <1>2, <1>3, RestIsCalm DEF CalmStep
  <1>4. ASSUME NEW d \in EventDos, NEW c, Replace(t, {[t EXCEPT !.do = d]})
        PROVE  CalmStep(t)
    <2>1. Calm([t EXCEPT !.do = d])
      BY <1>1, <1>2, GoesOnCalmly DEF EventDos, PostDos, NoIdDos
    <2>. QED BY <1>1, <1>2, <1>4, <2>1 DEF CalmStep
  <1>5. ASSUME NEW d \in EventDos, NEW c, Replace(t, {[t EXCEPT !.do = d, !.conv = c]})
        PROVE  CalmStep(t)
    <2>1. Calm([t EXCEPT !.do = d, !.conv = c])
      BY <1>1, <1>2, GoesOnCalmly DEF EventDos, PostDos, NoIdDos
    <2>. QED BY <1>1, <1>2, <1>5, <2>1 DEF CalmStep
  <1>. QED BY <1>3, <1>4, <1>5, EventsGoOn

\* The other callbacks, when they end or go on and nothing else.
OtherCalm(t) ==
    \/ SendData(t) /\ Replace(t, Rest(t)) /\ UNCHANGED posts
    \/ FindRow(t) /\ Finish(t)
    \/ FindEdited(t)
    \/ ShowEdit(t) /\ Finish(t) /\ UNCHANGED posts
    \/ DeletePost(t) /\ Finish(t) /\ UNCHANGED posts
    \/ ClearConversation(t) \/ Connect(t) \/ Disconnect(t) \/ ClearCache(t)
    \/ IgnorePost(t)
    \/ SendTemplate(t) /\ Finish(t) /\ UNCHANGED wire
    \/ MarkRead(t)
    \/ FindDeleted(t) /\ Finish(t)
    \/ Undo(t) /\ Finish(t) /\ UNCHANGED undone

LEMMA OthersAreCalm ==
    ASSUME BaseInv, NEW t \in Work, OtherCalm(t)
    PROVE  CalmStep(t)
  <1>1. Same
    <2>1. UNCHANGED <<wire, rows, posts, notes, undone>>
      BY DEF OtherCalm, SendData, FindRow, FindEdited, ShowEdit, DeletePost, ClearConversation,
             Connect, Disconnect, ClearCache, IgnorePost, SendTemplate, MarkRead, FindDeleted,
             Undo, whatsapp, database, chatwoot, memory
    <2>2. history' = history \/ history' = << >>
      BY DEF OtherCalm, SendData, FindRow, FindEdited, ShowEdit, DeletePost, ClearConversation,
             Connect, Disconnect, ClearCache, IgnorePost, SendTemplate, MarkRead, FindDeleted,
             Undo, whatsapp, database, chatwoot, memory
    <2>. QED BY <2>1, <2>2, EmptySeq DEF Same, BaseInv, ShapeInv
  <1>2. t.do \in {"Webhook", "Note"} => posts[t.post].by # "agent"
    BY DEF OtherCalm, SendData, FindRow, FindEdited, ShowEdit, DeletePost, ClearConversation,
           Connect, Disconnect, ClearCache, IgnorePost, SendTemplate, MarkRead, FindDeleted, Undo
  <1>3. CASE Finish(t)
    BY <1>1, <1>2, <1>3 DEF CalmStep, Finish
  <1>4. CASE SendData(t) /\ Replace(t, Rest(t))
    <2>1. CalmTask(t)
      BY <1>4, TasksAreCalm DEF SendData, PostDos
    <2>. QED BY <1>1, <1>2, <1>4, <2>1, RestIsCalm DEF CalmStep
  <1>5. CASE FindEdited(t)
    <2>1. CalmTask(t) /\ t.do \notin NoIdDos
      BY <1>5, TasksAreCalm DEF FindEdited, PostDos, NoIdDos
    <2>2. PICK c : Finish(t) \/ Replace(t, {[t EXCEPT !.do = "ShowEdit", !.conv = c]})
      BY <1>5 DEF FindEdited
    <2>3. Calm([t EXCEPT !.do = "ShowEdit", !.conv = c])
      BY <2>1, GoesOnCalmly DEF PostDos, NoIdDos
    <2>4. CASE Replace(t, {[t EXCEPT !.do = "ShowEdit", !.conv = c]})
      BY <1>1, <1>2, <2>3, <2>4 DEF CalmStep
    <2>. QED BY <1>3, <2>2, <2>4
  <1>6. CASE ClearConversation(t) \/ Connect(t) \/ Disconnect(t) \/ ClearCache(t) \/ IgnorePost(t)
             \/ MarkRead(t)
    BY <1>3, <1>6 DEF ClearConversation, Connect, Disconnect, ClearCache, IgnorePost, MarkRead
  <1>. QED BY <1>3, <1>4, <1>5, <1>6 DEF OtherCalm

ImportDos == {"Sync", "Import", "Fks", "Insert"}

ImportAction(t) == \/ SyncRows(t) \/ SyncFails(t) \/ ImportHistoryMessages(t)
                   \/ SelectOrCreateFks(t) \/ ImportFails(t)

LEMMA ImportsAreCalm ==
    ASSUME BaseInv, NEW t \in Work, ImportAction(t)
    PROVE  CalmStep(t)
  <1>1. t.do \in ImportDos
    BY DEF ImportAction, SyncRows, SyncFails, ImportHistoryMessages, SelectOrCreateFks,
           ImportFails, ImportDos
  <1>2. CalmTask(t) /\ t.do \in NoIdDos /\ t.do \notin {"Webhook", "Note"}
    BY <1>1, TasksAreCalm DEF ImportDos, PostDos, NoIdDos
  <1>3. /\ history \in Seq(Nat) /\ IsFiniteSet(DOMAIN rows) /\ DOMAIN rows \subseteq Nat
        /\ << >> \in Seq(Nat)
    BY EmptySeq DEF BaseInv, ShapeInv
  <1>4. UNCHANGED <<wire, rows, posts, notes, undone>>
    BY DEF ImportAction, SyncRows, SyncFails, ImportHistoryMessages, SelectOrCreateFks,
           ImportFails, whatsapp, database, chatwoot, memory
  <1>5. ASSUME history' \in Seq(Nat), Replace(t, Rest(t))
        PROVE  CalmStep(t)
    BY <1>2, <1>4, <1>5, RestIsCalm DEF CalmStep, Same
  <1>6. ASSUME history' \in Seq(Nat), NEW d \in ImportDos, NEW c,
               Replace(t, {[t EXCEPT !.do = d]}) \/ Replace(t, {[t EXCEPT !.do = d, !.conv = c]})
        PROVE  CalmStep(t)
    <2>1. Calm([t EXCEPT !.do = d]) /\ Calm([t EXCEPT !.do = d, !.conv = c])
      BY <1>2, GoesOnCalmly DEF ImportDos, PostDos, NoIdDos
    <2>2. \E new : Replace(t, new) /\ \A u \in new : Calm(u)
      BY <1>6, <2>1
    <2>. QED BY <1>2, <1>4, <1>6, <2>2 DEF CalmStep, Same
  <1>7. CASE SyncRows(t)
    <2>1. IsFiniteSet(Lost(t.ids)) /\ Lost(t.ids) \subseteq Nat
      BY <1>3, FS_Subset DEF Lost
    <2>2. SetToSeq(Lost(t.ids)) \in Seq(Nat)
      BY <2>1, SeqOfSet
    <2>3. history' \in Seq(Nat)
      BY <1>3, <1>7, <2>2 DEF SyncRows
    <2>. QED BY <1>6, <1>7, <2>3 DEF SyncRows, Continue, ImportDos
  <1>8. CASE ImportHistoryMessages(t)
    <2>1. history' = history
      BY <1>8 DEF ImportHistoryMessages, memory
    <2> DEFINE u == [t EXCEPT !.do = "Fks", !.list = history, !.ids = {}]
    <2>2. Calm(u)
      BY <1>2, <1>3 DEF CalmTask, Calm, IsTask, TaskFields, PostDos, NoIdDos
    <2>3. Replace(t, Rest(t)) \/ Replace(t, {u})
      BY <1>8 DEF ImportHistoryMessages
    <2> HIDE DEF u
    <2>4. CASE Replace(t, {u})
      BY <1>2, <1>3, <1>4, <2>1, <2>2, <2>4 DEF CalmStep, Same
    <2>. QED BY <1>3, <1>5, <2>1, <2>3, <2>4
  <1>9. CASE SelectOrCreateFks(t)
    <2>1. history' = history
      BY <1>9 DEF SelectOrCreateFks, memory
    <2>2. PICK c : Replace(t, {[t EXCEPT !.do = "Insert", !.conv = c]})
      BY <1>9 DEF SelectOrCreateFks
    <2>. QED BY <1>3, <1>6, <2>1, <2>2 DEF ImportDos
  <1>10. CASE ImportFails(t)
    BY <1>3, <1>5, <1>10 DEF ImportFails
  <1>11. CASE SyncFails(t)
    BY <1>2, <1>3, <1>4, <1>11 DEF SyncFails, Finish, memory, CalmStep, Same
  <1>. QED BY <1>7, <1>8, <1>9, <1>10, <1>11 DEF ImportAction

-----------------------------------------------------------------------------
(* Steps of the tasks, of the messages and of the posts *)

TaskStep(new) ==
    /\ IsABag(tasks') /\ Work' \subseteq Work \cup new /\ new \subseteq Work'
    /\ \A u \in Work' \ new : tasks'[u] \leq tasks[u]
    /\ \A u \in new \ Work : tasks'[u] = 1

LEMMA ReplaceSteps ==
    ASSUME BaseInv, NEW t \in Work, NEW new, Replace(t, new)
    PROVE  /\ TaskStep(new) /\ Work \ {t} \subseteq Work'
           /\ tasks[t] = 1 => Work' = (Work \ {t}) \cup new
           /\ tasks[t] = 1 /\ t \in new => tasks'[t] = 1
  <1> DEFINE B == tasks
             C == tasks'
  <1>1. IsABag(B) /\ t \in BagToSet(B) /\ C = With(Without(B, t), new)
    BY DEF BaseInv, ShapeInv, Work, Replace, With, Without
  <1> HIDE DEF B, C
  <1>2. Replaced(B, t, new, C)
    BY <1>1, ReplaceOne, Zenon
  <1>. QED BY <1>2 DEF Replaced, TaskStep, B, C, Work

LEMMA BeginSteps ==
    ASSUME BaseInv, NEW new, Begin(new)
    PROVE  TaskStep(new) /\ Work' = Work \cup new
  <1> DEFINE B == tasks
             C == tasks'
  <1>1. IsABag(B) /\ C = With(B, new)
    BY DEF BaseInv, ShapeInv, Begin, With
  <1>2. \A u \in Work : tasks[u] \leq tasks[u]
    BY DEF BaseInv, ShapeInv, IsABag, Work, BagToSet
  <1> HIDE DEF B, C
  <1>3. Added(B, new, C)
    BY <1>1, AddTasks, Zenon
  <1>. QED BY <1>2, <1>3 DEF Added, TaskStep, B, C, Work

LEMMA NoTaskSteps ==
    ASSUME BaseInv, UNCHANGED tasks
    PROVE  TaskStep({}) /\ Work' = Work
  <1>1. IsABag(tasks')
    BY Zenon DEF BaseInv, ShapeInv
  <1>2. \A u \in Work : tasks[u] \leq tasks[u]
    BY DEF BaseInv, ShapeInv, IsABag, Work, BagToSet
  <1>. QED BY <1>1, <1>2 DEF TaskStep, Work

\* Nothing that was said is unsaid.
WireGrows ==
    /\ IsList(wire') /\ DOMAIN wire \subseteq DOMAIN wire'
    /\ \A id \in DOMAIN wire : wire'[id] = wire[id]

\* A post stays its writer's, and says for which message it is; what is deleted stays deleted.
PostsGrow ==
    /\ IsList(posts') /\ DOMAIN posts \subseteq DOMAIN posts'
    /\ \A p \in DOMAIN posts' : /\ DOMAIN posts'[p] = PostFields
                                /\ posts'[p].by \in Writers
                                /\ posts'[p].by \in {"bridge", "edit"} => posts'[p].of # 0
    /\ \A p \in DOMAIN posts :
          /\ posts'[p].by = posts[p].by /\ posts'[p].kind = posts[p].kind
          /\ posts'[p].by # "agent" => posts'[p].of = posts[p].of
          /\ posts[p].gone # "no" => posts'[p].gone \in {posts[p].gone, "conv"}

RowsShape == DOMAIN rows' \subseteq Nat /\ IsFiniteSet(DOMAIN rows') /\ history' \in Seq(Nat)

Grows == BaseInv' /\ PostsGrow /\ WireGrows

LEMMA BaseKept ==
    ASSUME BaseInv, NEW new, TaskStep(new), WireGrows, PostsGrow, RowsShape,
           \A u \in new : IsTask(u) /\ About(u)'
    PROVE  Grows
  <1>1. ASSUME NEW u \in Work'
        PROVE  IsTask(u) /\ About(u)'
    <2>1. CASE u \in new
      BY <2>1
    <2>2. CASE u \in Work
      <3>1. IsTask(u) /\ About(u)
        BY <2>2 DEF BaseInv, ShapeInv
      <3>2. DOMAIN posts \subseteq DOMAIN posts'
        BY DEF PostsGrow
      <3>3. \A p \in DOMAIN posts : posts'[p].by = posts[p].by /\ (Album(p)' <=> Album(p))
        BY DEF PostsGrow, Album
      <3>4. {"Webhook", "Sent", "Link", "Source", "Next"} \subseteq PostDos
        BY DEF PostDos
      <3>. QED BY <3>1, <3>2, <3>3, <3>4 DEF About
    <2>. QED BY <2>1, <2>2 DEF TaskStep
  <1>2. IsABag(tasks')
    BY DEF TaskStep
  <1>3. ShapeInv'
    <2>1. \A u \in Work' : IsTask(u)
      BY <1>1
    <2>2. IsList(wire)' /\ IsList(posts)' /\ \A p \in DOMAIN posts' : DOMAIN posts'[p] = PostFields
      BY DEF WireGrows, PostsGrow
    <2>3. (history \in Seq(Nat))' /\ (DOMAIN rows \subseteq Nat)' /\ IsFiniteSet(DOMAIN rows)'
      BY DEF RowsShape
    <2>. QED BY <1>2, <2>1, <2>2, <2>3 DEF ShapeInv
  <1>4. \A p \in DOMAIN posts' :
           /\ posts'[p].by \in Writers
           /\ posts'[p].by \in {"bridge", "edit"} => posts'[p].of # 0
    BY DEF PostsGrow
  <1>. QED BY <1>1, <1>3, <1>4 DEF Grows, BaseInv

LEMMA SameGrow ==
    ASSUME BaseInv
    PROVE  /\ UNCHANGED wire => WireGrows
           /\ UNCHANGED posts => PostsGrow
           /\ UNCHANGED rows /\ history' \in Seq(Nat) => RowsShape
           /\ UNCHANGED rows /\ UNCHANGED history => RowsShape
  BY DEF BaseInv, ShapeInv, WireGrows, PostsGrow, RowsShape

LEMMA Appended ==
    ASSUME BaseInv, NEW by, NEW kind, NEW from, wire' = Append(wire, Said(by, kind, from))
    PROVE  /\ WireGrows /\ Len(wire') \in Nat \ {0} /\ Len(wire') \notin DOMAIN wire
           /\ DOMAIN wire' = DOMAIN wire \cup {Len(wire')}
           /\ wire'[Len(wire')].by = by /\ wire'[Len(wire')].from = from
  <1>1. IsList(wire)
    BY DEF BaseInv, ShapeInv
  <1>2. Extends(wire, Said(by, kind, from), wire')
    BY <1>1, AppendList
  <1>3. Said(by, kind, from).by = by /\ Said(by, kind, from).from = from
    BY DEF Said
  <1>. QED BY <1>1, <1>2, <1>3 DEF Extends, IsList, WireGrows

LEMMA Posted ==
    ASSUME BaseInv, NEW by \in Writers, NEW kind, NEW conv, NEW of,
           by \in {"bridge", "edit"} => of # 0,
           posts' = Append(posts, Written(by, kind, conv, of))
    PROVE  /\ PostsGrow /\ Len(posts') \in Nat \ {0} /\ Len(posts') \notin DOMAIN posts
           /\ DOMAIN posts' = DOMAIN posts \cup {Len(posts')}
           /\ \A p \in DOMAIN posts : posts'[p] = posts[p]
           /\ posts'[Len(posts')].by = by /\ posts'[Len(posts')].of = of
           /\ posts'[Len(posts')].gone = "no" /\ posts'[Len(posts')].kind = kind
  <1> DEFINE w == Written(by, kind, conv, of)
  <1>1. IsList(posts)
    BY DEF BaseInv, ShapeInv
  <1>2. Extends(posts, w, posts')
    BY <1>1, AppendList
  <1>3. DOMAIN w = PostFields /\ w.by = by /\ w.of = of /\ w.gone = "no" /\ w.kind = kind
    BY DEF Written, PostFields
  <1> HIDE DEF w
  <1>4. /\ IsList(posts') /\ Len(posts') \in Nat \ {0} /\ Len(posts') \notin DOMAIN posts
        /\ DOMAIN posts' = DOMAIN posts \cup {Len(posts')}
        /\ \A p \in DOMAIN posts : posts'[p] = posts[p]
        /\ posts'[Len(posts')] = w
    BY <1>1, <1>2 DEF Extends, IsList
  <1>5. PostsGrow
    BY <1>3, <1>4 DEF PostsGrow, BaseInv, ShapeInv
  <1>. QED BY <1>3, <1>4, <1>5

\* A post is changed in place.
LEMMA Changed ==
    ASSUME BaseInv, DOMAIN posts' = DOMAIN posts, posts' = [p \in DOMAIN posts' |-> posts'[p]],
           \A p \in DOMAIN posts :
              /\ DOMAIN posts'[p] = PostFields
              /\ posts'[p].by = posts[p].by /\ posts'[p].kind = posts[p].kind
              /\ posts'[p].of = posts[p].of \/ posts[p].by = "agent"
              /\ posts[p].gone # "no" => posts'[p].gone \in {posts[p].gone, "conv"}
    PROVE  PostsGrow
  <1>1. DOMAIN posts' = 1 .. Len(posts) /\ Len(posts) \in Nat
    BY DEF BaseInv, ShapeInv, IsList
  <1>2. IsList(posts')
    BY <1>1, FunctionIsList
  <1>. QED BY <1>2 DEF PostsGrow, BaseInv

LEMMA GoneChanged ==
    ASSUME BaseInv, NEW q \in DOMAIN posts, posts[q].gone = "no", NEW g,
           posts' = [posts EXCEPT ![q].gone = g]
    PROVE  /\ PostsGrow /\ DOMAIN posts' = DOMAIN posts
           /\ \A p \in DOMAIN posts : posts'[p].of = posts[p].of
           /\ \A p \in DOMAIN posts : posts'[p].gone = IF p = q THEN g ELSE posts[p].gone
  <1>1. \A p \in DOMAIN posts : DOMAIN posts[p] = PostFields
    BY DEF BaseInv, ShapeInv
  <1>2. /\ DOMAIN posts' = DOMAIN posts /\ posts' = [p \in DOMAIN posts' |-> posts'[p]]
    OBVIOUS
  <1>3. \A p \in DOMAIN posts : posts'[p] = IF p = q THEN [posts[p] EXCEPT !.gone = g] ELSE posts[p]
    OBVIOUS
  <1>4. ASSUME NEW p \in DOMAIN posts
        PROVE  /\ DOMAIN posts'[p] = PostFields
               /\ posts'[p].by = posts[p].by /\ posts'[p].kind = posts[p].kind
               /\ posts'[p].of = posts[p].of
               /\ posts'[p].gone = IF p = q THEN g ELSE posts[p].gone
    BY <1>1, <1>3 DEF PostFields
  <1>. QED BY <1>2, <1>4, Changed

-----------------------------------------------------------------------------
(* Who may write which message a post shows *)

\* The callbacks that will write into a row that it is shown by a post, and the webhook that
\* leads to such a callback. Several rows say that they are shown by an album.
Writer(t) == t.do \in {"Row", "Sent", "Link"} /\ t.post # 0 /\ ~ Album(t.post)
Sender(t) == t.do = "Webhook" /\ posts[t.post].by = "agent" /\ ~ Album(t.post)
Holder(t) == Writer(t) \/ Sender(t)
Free(p) == \A t \in Work : Holder(t) => t.post # p
Rowless(p) == Album(p) \/ \A id \in DOMAIN rows : rows[id] # p
Whole(p) == Album(p) \/ posts[p].gone # "bridge"

\* The message that a post shows, or was sent for.
SentFor(id, p) == wire[id].by = "agent" /\ wire[id].from = p
Owns(id, p) == \/ Album(p)
               \/ posts[p].by = "bridge" /\ posts[p].of = id
               \/ posts[p].by = "agent" /\ id \in DOMAIN wire /\ SentFor(id, p)

Deleters == {"DropRow", "DeletePost"}

\* Who holds a post holds it alone, before any row has it and before anybody deletes it; its
\* row is gone when the bridge deletes it; and what is undone was not deleted by the bridge.
Sound(t) ==
    /\ Holder(t) => /\ tasks[t] = 1
                    /\ \A u \in Work : Holder(u) /\ u.post = t.post => u = t
                    /\ \A u \in Work : u.do \in Deleters => u.post # t.post
                    /\ Rowless(t.post)
                    /\ posts[t.post].gone # "bridge"
    /\ Writer(t) \/ t.do = "DropRow" => Owns(t.id, t.post)
    /\ Sender(t) => \A i \in DOMAIN wire : ~ SentFor(i, t.post)
    /\ t.do \in Deleters => Free(t.post)
    /\ t.do = "DeletePost" => Rowless(t.post)
    /\ t.do \in {"Deleted", "Undo", "DropRows"} => posts[t.post].gone # "no"
    /\ t.do = "Undo" => Whole(t.post)

SoundRow(id) ==
    rows[id] # 0 => /\ rows[id] \in DOMAIN posts /\ Owns(id, rows[id]) /\ Free(rows[id])
                    /\ Whole(rows[id])
                    /\ \A t \in Work : t.do = "DeletePost" => t.post # rows[id] \/ Album(t.post)

\* A post is sent once.
SoundWire(i) ==
    wire[i].by = "agent" =>
        /\ wire[i].from \in DOMAIN posts
        /\ Album(wire[i].from) \/ \A j \in DOMAIN wire : SentFor(j, wire[i].from) => j = i
        /\ \A t \in Work : Sender(t) => t.post # wire[i].from

SoundPost(p) ==
    posts[p].gone = "bridge" /\ ~ Album(p) =>
        /\ Free(p) /\ Rowless(p) /\ p \notin undone
        /\ \A t \in Work : t.do = "Undo" => t.post # p

SoundUndone(p) == p \in DOMAIN posts /\ posts[p].gone # "no" /\ Whole(p)

DeleteInv ==
    /\ BaseInv
    /\ \A t \in Work : Sound(t)
    /\ \A id \in DOMAIN rows : SoundRow(id)
    /\ \A i \in DOMAIN wire : SoundWire(i)
    /\ \A p \in DOMAIN posts : SoundPost(p)
    /\ \A p \in undone : SoundUndone(p)

-----------------------------------------------------------------------------
(* A step of a callback, and what it must see to *)

\* The rows, messages and posts that are new or changed are sound.
SoundChanges ==
    /\ \A id \in DOMAIN rows' :
          rows'[id] # 0 => (id \in DOMAIN rows /\ rows'[id] = rows[id]) \/ SoundRow(id)'
    /\ \A i \in DOMAIN wire' \ DOMAIN wire : SoundWire(i)'
    /\ \A p \in DOMAIN posts' :
          posts'[p].gone = "bridge" =>
              (p \in DOMAIN posts /\ posts[p].gone = "bridge") \/ SoundPost(p)'
    /\ \A p \in undone' : p \in undone \/ SoundUndone(p)'

\* The callbacks that a step begins or goes on with are.
SoundTasks(new) == \A u \in new : IsTask(u) /\ About(u)' /\ Sound(u)'

\* What an agent has written is sent, or will be, or the agent is told, or what happens is only
\* logged.
Telling == {"Webhook", "Note"}
Pending(p) == \E t \in Work : t.post = p /\ t.do \in Telling
AgentText(p) == posts[p].by = "agent" /\ posts[p].kind = "text"
OnWire(p) == \E id \in DOMAIN wire : wire[id].from = p

Told ==
    /\ notes \subseteq notes'
    /\ \A p \in DOMAIN posts :
          AgentText(p) /\ Pending(p) =>
              Pending(p)' \/ p \in notes' \/ OnWire(p)' \/ Blind \/ posts'[p].gone = "conv"
    /\ \A p \in DOMAIN posts' \ DOMAIN posts : posts'[p].by = "agent" => Pending(p)'

Goes(new) == /\ TaskStep(new) /\ SoundTasks(new)
             /\ WireGrows /\ PostsGrow /\ RowsShape /\ SoundChanges

\* Whatever is logged only is counted.
Logged == count'.blind = 0 => count.blind = 0 /\ ~ Blind

Kept == DeleteInv' /\ (AgentIsTold /\ Logged => AgentIsTold') /\ WireGrows /\ PostsGrow

LEMMA AlbumsStay ==
    ASSUME PostsGrow, NEW p \in DOMAIN posts
    PROVE  Album(p)' <=> Album(p)
  BY DEF PostsGrow, Album

LEMMA AlbumsAreFree ==
    ASSUME NEW p, Album(p)
    PROVE  Free(p)
  BY DEF Free, Holder, Writer, Sender

LEMMA HoldersStay ==
    ASSUME BaseInv, WireGrows, PostsGrow, NEW t \in Work
    PROVE  /\ Sender(t)' <=> Sender(t)
           /\ Writer(t)' <=> Writer(t)
           /\ Holder(t)' <=> Holder(t)
           /\ Holder(t) => t.post \in DOMAIN posts /\ t.post # 0
           /\ t.do \in PostDos => t.post \in DOMAIN posts /\ t.post # 0
  <1>1. About(t) /\ \A p \in DOMAIN posts : p # 0
    BY DEF BaseInv, ShapeInv, IsList
  <1>2. {"Webhook", "Sent", "Link"} \subseteq PostDos
    BY DEF PostDos
  <1>3. t.do \in PostDos => t.post \in DOMAIN posts /\ t.post # 0
    BY <1>1 DEF About
  <1>4. \A p \in DOMAIN posts : posts'[p].by = posts[p].by /\ (Album(p)' <=> Album(p))
    BY AlbumsStay DEF PostsGrow
  <1>5. Sender(t)' <=> Sender(t)
    BY <1>2, <1>3, <1>4 DEF Sender
  <1>6. t.do = "Row" => t.post \in {0} \cup DOMAIN posts
    BY <1>1 DEF About
  <1>. QED BY <1>1, <1>2, <1>3, <1>4, <1>5, <1>6 DEF Holder, Writer, Sender

LEMMA OwnersStay ==
    ASSUME WireGrows, PostsGrow, NEW p \in DOMAIN posts, NEW id, Owns(id, p)
    PROVE  Owns(id, p)'
  BY AlbumsStay DEF WireGrows, PostsGrow, Owns, SentFor

\* What was sound stays so.
LEMMA SoundStays ==
    ASSUME DeleteInv, NEW new, Goes(new), NEW t \in Work', t \notin new
    PROVE  Sound(t)'
  <1>1. BaseInv /\ WireGrows /\ PostsGrow /\ t \in Work /\ Sound(t)
    BY DEF DeleteInv, Goes, TaskStep
  <1>2. \A u \in Work' : u \in new \/ (u \in Work /\ (Holder(u)' => Holder(u)))
    BY <1>1, HoldersStay DEF Goes, TaskStep
  <1>3. \A u \in new : Sound(u)'
    BY DEF Goes, SoundTasks
  <1>4. /\ Sender(t)' <=> Sender(t)
        /\ Writer(t)' <=> Writer(t)
        /\ Holder(t)' <=> Holder(t)
        /\ Holder(t) => t.post \in DOMAIN posts /\ t.post # 0
        /\ t.do \in PostDos => t.post \in DOMAIN posts /\ t.post # 0
    BY <1>1, HoldersStay
  <1>5. \A id \in DOMAIN rows' :
            rows'[id] # 0 => (id \in DOMAIN rows /\ rows'[id] = rows[id]) \/ SoundRow(id)'
    BY DEF Goes, SoundChanges
  <1>6. \A p \in DOMAIN posts :
            posts'[p].gone = "bridge" => posts[p].gone = "bridge" \/ SoundPost(p)'
    BY DEF Goes, SoundChanges, PostsGrow
  <1>7. {"DropRow", "DeletePost", "Deleted", "Undo", "DropRows"} \subseteq PostDos
    BY DEF PostDos
  <1>8. \A p \in DOMAIN posts : Album(p)' <=> Album(p)
    BY <1>1, AlbumsStay
  <1>9. Holder(t) => ~ Album(t.post)
    BY DEF Holder, Writer, Sender
  <1>10. ASSUME Holder(t)'
        PROVE  /\ tasks'[t] = 1
               /\ \A u \in Work' : Holder(u)' /\ u.post = t.post => u = t
               /\ \A u \in Work' : u.do \in Deleters => u.post # t.post
               /\ Rowless(t.post)'
               /\ posts'[t.post].gone # "bridge"
    <2>1. /\ Holder(t) /\ t.post \in DOMAIN posts /\ t.post # 0
          /\ tasks[t] = 1 /\ ~ Album(t.post) /\ ~ Album(t.post)'
      BY <1>1, <1>4, <1>8, <1>9, <1>10 DEF Sound
    <2>2. tasks'[t] = 1
      <3>1. tasks'[t] \leq tasks[t]
        BY DEF Goes, TaskStep
      <3>2. tasks'[t] \in Nat \ {0}
        BY DEF Goes, TaskStep, IsABag, Work, BagToSet
      <3>. QED BY <2>1, <3>1, <3>2
    <2>3. ASSUME NEW u \in Work', Holder(u)', u.post = t.post
          PROVE  u = t
      BY <1>1, <1>2, <1>3, <1>10, <2>1, <2>3 DEF Sound
    <2>4. ASSUME NEW u \in Work', u.do \in Deleters
          PROVE  u.post # t.post
      <3>1. CASE u \in new
        <4>1. Free(u.post)'
          BY <1>3, <2>4, <3>1 DEF Sound
        <4>. QED BY <1>10, <4>1 DEF Free
      <3>2. CASE u \in Work
        BY <1>1, <2>1, <2>4, <3>2 DEF Sound
      <3>. QED BY <1>2, <3>1, <3>2
    <2>5. ASSUME NEW id \in DOMAIN rows'
          PROVE  rows'[id] # t.post
      <3>1. CASE SoundRow(id)'
        BY <1>10, <2>1, <3>1 DEF SoundRow, Free
      <3>2. CASE rows'[id] = 0 \/ (id \in DOMAIN rows /\ rows'[id] = rows[id])
        BY <1>1, <2>1, <3>2 DEF Sound, Rowless
      <3>. QED BY <1>5, <3>1, <3>2
    <2>6. posts'[t.post].gone # "bridge"
      <3>1. posts[t.post].gone # "bridge"
        BY <1>1, <2>1 DEF Sound
      <3>2. ~ (posts'[t.post].gone = "bridge" /\ SoundPost(t.post)')
        BY <1>10, <2>1 DEF SoundPost, Free
      <3>. QED BY <1>6, <2>1, <3>1, <3>2
    <2>. QED BY <2>2, <2>3, <2>4, <2>5, <2>6 DEF Rowless
  <1>11. Writer(t)' \/ t.do = "DropRow" => Owns(t.id, t.post)'
    <2>1. ASSUME Writer(t) \/ t.do = "DropRow"
          PROVE  t.post \in DOMAIN posts /\ Owns(t.id, t.post)
      BY <1>1, <1>4, <1>7, <2>1 DEF Sound, Holder
    <2>. QED BY <1>1, <1>4, <2>1, OwnersStay
  <1>12. ASSUME Sender(t)', NEW i \in DOMAIN wire'
         PROVE  ~ SentFor(i, t.post)'
    <2>1. CASE i \in DOMAIN wire
      BY <1>1, <1>4, <1>12, <2>1 DEF Sound, SentFor, WireGrows
    <2>2. CASE i \notin DOMAIN wire
      BY <1>12, <2>2 DEF Goes, SoundChanges, SoundWire, SentFor
    <2>. QED BY <2>1, <2>2
  <1>13. ASSUME t.do \in Deleters
         PROVE  Free(t.post)'
    <2>1. SUFFICES ASSUME NEW u \in Work', Holder(u)'
                   PROVE  u.post # t.post
      BY DEF Free
    <2>2. CASE u \in new
      BY <1>3, <1>13, <2>1, <2>2 DEF Sound
    <2>3. CASE u \in Work /\ Holder(u)
      BY <1>1, <1>13, <2>3 DEF Sound, Free
    <2>. QED BY <1>2, <2>1, <2>2, <2>3
  <1>14. ASSUME t.do = "DeletePost"
         PROVE  Rowless(t.post)'
    <2>1. SUFFICES ASSUME ~ Album(t.post)', NEW id \in DOMAIN rows'
                   PROVE  rows'[id] # t.post
      BY DEF Rowless
    <2>2. t.post # 0 /\ ~ Album(t.post) /\ Rowless(t.post)
      BY <1>1, <1>4, <1>7, <1>8, <1>14, <2>1 DEF Sound
    <2>3. CASE SoundRow(id)'
      BY <1>14, <2>1, <2>2, <2>3 DEF SoundRow
    <2>4. CASE rows'[id] = 0 \/ (id \in DOMAIN rows /\ rows'[id] = rows[id])
      BY <2>2, <2>4 DEF Rowless
    <2>. QED BY <1>5, <2>1, <2>3, <2>4
  <1>15. ASSUME t.do \in {"Deleted", "Undo", "DropRows"}
         PROVE  posts'[t.post].gone # "no"
    <2>1. t.post \in DOMAIN posts /\ posts[t.post].gone # "no"
      BY <1>1, <1>4, <1>7, <1>15 DEF Sound
    <2>. QED BY <1>1, <2>1 DEF PostsGrow
  <1>16. ASSUME t.do = "Undo"
         PROVE  Whole(t.post)'
    <2>1. t.post \in DOMAIN posts /\ Whole(t.post)
      BY <1>1, <1>4, <1>7, <1>16 DEF Sound
    <2>2. ~ (posts'[t.post].gone = "bridge" /\ SoundPost(t.post)') \/ Album(t.post)'
      BY <1>16 DEF SoundPost
    <2>. QED BY <1>6, <1>8, <2>1, <2>2 DEF Whole
  <1>. QED BY <1>10, <1>11, <1>12, <1>13, <1>14, <1>15, <1>16 DEF Sound

LEMMA StepKeeps ==
    ASSUME DeleteInv, NEW new, Goes(new), Told
    PROVE  Kept
  <1>1. BaseInv /\ WireGrows /\ PostsGrow /\ RowsShape
    BY DEF DeleteInv, Goes
  <1>2. BaseInv'
    BY <1>1, BaseKept DEF Goes, SoundTasks, Grows
  <1>3. \A u \in Work' : Sound(u)'
    BY SoundStays DEF Goes, SoundTasks
  <1>4. \A u \in Work' : u \in new \/ (u \in Work /\ (Holder(u)' => Holder(u)))
    BY <1>1, HoldersStay DEF Goes, TaskStep
  <1>5. \A u \in Work' : u \in new \/ (u \in Work /\ (Sender(u)' => Sender(u)))
    BY <1>1, HoldersStay DEF Goes, TaskStep
  <1>6. \A u \in new : Sound(u)'
    BY DEF Goes, SoundTasks
  <1>7. \A id \in DOMAIN rows' :
            rows'[id] # 0 => (id \in DOMAIN rows /\ rows'[id] = rows[id]) \/ SoundRow(id)'
    BY DEF Goes, SoundChanges
  <1>8. \A p \in DOMAIN posts' :
            posts'[p].gone = "bridge" =>
                (p \in DOMAIN posts /\ posts[p].gone = "bridge") \/ SoundPost(p)'
    BY DEF Goes, SoundChanges
  <1>9. \A i \in DOMAIN wire' \ DOMAIN wire : SoundWire(i)'
    BY DEF Goes, SoundChanges
  <1>10. \A p \in undone' : p \in undone \/ SoundUndone(p)'
    BY DEF Goes, SoundChanges
  <1>11. /\ DOMAIN posts \subseteq DOMAIN posts'
         /\ \A p \in DOMAIN posts :
               posts[p].gone # "no" => posts'[p].gone \in {posts[p].gone, "conv"}
    BY <1>1 DEF PostsGrow
  <1>12. /\ DOMAIN wire \subseteq DOMAIN wire'
         /\ \A i \in DOMAIN wire : wire'[i] = wire[i]
    BY <1>1 DEF WireGrows
  <1>13. ASSUME NEW id \in DOMAIN rows'
         PROVE  SoundRow(id)'
    <2>0. PICK p : p = rows[id]
      OBVIOUS
    <2>1. SUFFICES ASSUME id \in DOMAIN rows, rows'[id] = p, p # 0
                   PROVE  SoundRow(id)'
      BY <1>7, <2>0 DEF SoundRow
    <2>2. /\ p \in DOMAIN posts /\ Owns(id, p) /\ Free(p) /\ Whole(p)
          /\ \A t \in Work : t.do = "DeletePost" => t.post # p \/ Album(p)
      BY <2>0, <2>1 DEF DeleteInv, SoundRow
    <2>3. Owns(id, p)' /\ p \in DOMAIN posts' /\ (Album(p)' <=> Album(p))
      BY <1>1, <1>11, <2>2, OwnersStay, AlbumsStay
    <2>4. Free(p)'
      <3>1. SUFFICES ASSUME NEW u \in Work', Holder(u)'
                     PROVE  u.post # p
        BY DEF Free
      <3>2. CASE u \in new
        <4>1. Rowless(u.post)' /\ ~ Album(u.post)'
          BY <1>6, <3>1, <3>2 DEF Sound, Holder, Writer, Sender
        <4>. QED BY <2>1, <4>1 DEF Rowless
      <3>3. CASE u \in Work /\ Holder(u)
        BY <2>2, <3>3 DEF Free
      <3>. QED BY <1>4, <3>1, <3>2, <3>3
    <2>5. Whole(p)'
      <3>1. ~ (posts'[p].gone = "bridge" /\ SoundPost(p)') \/ Album(p)'
        BY <2>1 DEF SoundPost, Rowless
      <3>. QED BY <1>8, <2>2, <2>3, <3>1 DEF Whole
    <2>6. ASSUME NEW u \in Work', u.do = "DeletePost"
          PROVE  u.post # p \/ Album(p)'
      <3>1. CASE u \in new
        <4>1. Rowless(u.post)'
          BY <1>6, <2>6, <3>1 DEF Sound
        <4>. QED BY <2>1, <4>1 DEF Rowless
      <3>2. CASE u \in Work
        BY <2>2, <2>3, <2>6, <3>2
      <3>. QED BY <1>4, <3>1, <3>2
    <2>. QED BY <2>1, <2>3, <2>4, <2>5, <2>6 DEF SoundRow
  <1>14. ASSUME NEW i \in DOMAIN wire'
         PROVE  SoundWire(i)'
    <2>1. SUFFICES ASSUME i \in DOMAIN wire, wire'[i].by = "agent"
                   PROVE  SoundWire(i)'
      BY <1>9 DEF SoundWire
    <2>2. PICK p : p = wire[i].from
      OBVIOUS
    <2>3. /\ wire'[i] = wire[i] /\ p \in DOMAIN posts
          /\ Album(p) \/ \A j \in DOMAIN wire : SentFor(j, p) => j = i
          /\ \A t \in Work : Sender(t) => t.post # p
      BY <1>12, <2>1, <2>2 DEF DeleteInv, SoundWire
    <2>4. ASSUME ~ Album(p)', NEW j \in DOMAIN wire', SentFor(j, p)'
          PROVE  j = i
      <3>0. ~ Album(p)
        BY <1>1, <2>3, <2>4, AlbumsStay
      <3>1. CASE j \in DOMAIN wire
        BY <1>12, <2>3, <2>4, <3>0, <3>1 DEF SentFor
      <3>2. CASE j \notin DOMAIN wire
        <4>1. SoundWire(j)' /\ wire'[j].by = "agent" /\ wire'[j].from = p
          BY <1>9, <2>4, <3>2 DEF SentFor
        <4>. QED BY <2>1, <2>2, <2>3, <2>4, <4>1 DEF SoundWire, SentFor
      <3>. QED BY <3>1, <3>2
    <2>5. ASSUME NEW u \in Work', Sender(u)'
          PROVE  u.post # p
      <3>1. CASE u \in new
        <4>1. \A k \in DOMAIN wire' : ~ (wire'[k].by = "agent" /\ wire'[k].from = u.post)
          BY <1>6, <2>5, <3>1 DEF Sound, SentFor
        <4>. QED BY <2>1, <2>2, <2>3, <4>1
      <3>2. CASE u \in Work /\ Sender(u)
        BY <2>3, <3>2
      <3>. QED BY <1>5, <2>5, <3>1, <3>2
    <2>6. p \in DOMAIN posts' /\ wire'[i].from = p
      BY <1>11, <2>2, <2>3
    <2>. QED BY <2>4, <2>5, <2>6 DEF SoundWire, SentFor
  <1>15. ASSUME NEW p \in DOMAIN posts'
         PROVE  SoundPost(p)'
    <2>1. SUFFICES ASSUME p \in DOMAIN posts, posts[p].gone = "bridge",
                          posts'[p].gone = "bridge", ~ Album(p)'
                   PROVE  SoundPost(p)'
      BY <1>8 DEF SoundPost
    <2>2. /\ Free(p) /\ Rowless(p) /\ p \notin undone /\ ~ Album(p)
          /\ \A t \in Work : t.do = "Undo" => t.post # p
      BY <1>1, <2>1, AlbumsStay DEF DeleteInv, SoundPost
    <2>3. Free(p)'
      <3>1. SUFFICES ASSUME NEW u \in Work', Holder(u)'
                     PROVE  u.post # p
        BY DEF Free
      <3>2. CASE u \in new
        BY <1>6, <2>1, <3>1, <3>2 DEF Sound
      <3>3. CASE u \in Work /\ Holder(u)
        BY <2>2, <3>3 DEF Free
      <3>. QED BY <1>4, <3>1, <3>2, <3>3
    <2>4. ASSUME NEW id \in DOMAIN rows'
          PROVE  rows'[id] # p
      <3>1. p # 0
        BY <2>1 DEF DeleteInv, BaseInv, ShapeInv, IsList
      <3>2. CASE rows'[id] # 0 /\ SoundRow(id)'
        BY <2>1, <3>2 DEF SoundRow, Whole
      <3>3. CASE rows'[id] = 0 \/ (id \in DOMAIN rows /\ rows'[id] = rows[id])
        BY <2>2, <3>1, <3>3 DEF Rowless
      <3>. QED BY <1>7, <3>2, <3>3
    <2>5. p \notin undone'
      BY <1>10, <2>1, <2>2 DEF SoundUndone, Whole
    <2>6. ASSUME NEW u \in Work', u.do = "Undo"
          PROVE  u.post # p
      BY <1>3, <2>1, <2>6 DEF Sound, Whole
    <2>. QED BY <2>3, <2>4, <2>5, <2>6 DEF SoundPost, Rowless
  <1>16. ASSUME NEW p \in undone'
         PROVE  SoundUndone(p)'
    <2>1. CASE p \in undone
      <3>1. p \in DOMAIN posts /\ posts[p].gone # "no" /\ Whole(p)
        BY <2>1 DEF DeleteInv, SoundUndone
      <3>2. Album(p)' <=> Album(p)
        BY <1>1, <3>1, AlbumsStay
      <3>. QED BY <1>11, <3>1, <3>2 DEF SoundUndone, Whole
    <2>. QED BY <1>10, <2>1
  <1>17. DeleteInv'
    BY <1>2, <1>3, <1>13, <1>14, <1>15, <1>16 DEF DeleteInv
  <1>18. ASSUME AgentIsTold, Logged
         PROVE  AgentIsTold'
    <2>1. SUFFICES ASSUME NEW p \in DOMAIN posts', AgentText(p)', posts'[p].gone # "conv",
                          count'.blind = 0, ~ Pending(p)'
                   PROVE  p \in notes' \/ OnWire(p)'
      BY DEF AgentIsTold, AgentText, Pending, OnWire, Telling
    <2>2. p \in DOMAIN posts
      BY <2>1 DEF Told, AgentText
    <2>3. AgentText(p) /\ posts[p].gone # "conv"
      BY <1>1, <2>1, <2>2 DEF PostsGrow, AgentText
    <2>4. count.blind = 0 /\ ~ Blind
      BY <1>18, <2>1 DEF Logged
    <2>5. CASE Pending(p)
      BY <2>1, <2>2, <2>3, <2>4, <2>5 DEF Told
    <2>6. CASE ~ Pending(p)
      <3>1. p \in notes \/ OnWire(p)
        BY <1>18, <2>2, <2>3, <2>4, <2>6 DEF AgentIsTold, AgentText, Pending, OnWire, Telling
      <3>. QED BY <1>12, <3>1 DEF Told, OnWire
    <2>. QED BY <2>5, <2>6
  <1>. QED BY <1>1, <1>17, <1>18 DEF Kept

-----------------------------------------------------------------------------
(* Steps that change little *)

\* Neither the webhook of what an agent has written nor a note is lost.
NoneLost == \A p \in DOMAIN posts : AgentText(p) /\ Pending(p) => Pending(p)'
NoNewLink == \A id \in DOMAIN rows' : rows'[id] # 0 => id \in DOMAIN rows /\ rows'[id] = rows[id]
NoNewSending == \A i \in DOMAIN wire' \ DOMAIN wire : wire'[i].by # "agent"
NoAgentPost == \A p \in DOMAIN posts' \ DOMAIN posts : posts'[p].by # "agent"
NoneDeleted == \A p \in DOMAIN posts' :
                   posts'[p].gone = "bridge" => p \in DOMAIN posts /\ posts[p].gone = "bridge"

LEMMA CalmIsSound ==
    ASSUME NEW new, \A u \in new : Calm(u)
    PROVE  SoundTasks(new)
  <1>1. SUFFICES ASSUME NEW u \in new
                 PROVE  IsTask(u) /\ About(u)' /\ Sound(u)'
    BY DEF SoundTasks
  <1>2. /\ Calm(u) /\ {"Webhook", "Sent", "Link", "Source", "Next"} \subseteq PostDos
        /\ {"DropRow", "DeletePost", "Deleted", "Undo", "DropRows"} \subseteq PostDos
    BY DEF PostDos
  <1>3. About(u)'
    BY <1>2 DEF Calm, About
  <1>4. Sound(u)'
    BY <1>2 DEF Calm, Sound, Holder, Writer, Sender, Deleters
  <1>. QED BY <1>2, <1>3, <1>4 DEF Calm

LEMMA NoneLostTold ==
    ASSUME NoneLost, notes \subseteq notes', NoAgentPost
    PROVE  Told
  BY DEF NoneLost, NoAgentPost, Told

LEMMA CallbackLosesNone ==
    ASSUME NEW t, Work \ {t} \subseteq Work', t.do \in Telling => posts[t.post].by # "agent"
    PROVE  NoneLost
  BY DEF NoneLost, AgentText, Pending

LEMMA RowsKeep ==
    ASSUME DeleteInv, NEW new, TaskStep(new), SoundTasks(new), Told, UNCHANGED <<posts, undone>>,
           WireGrows, NoNewSending, NoNewLink, RowsShape
    PROVE  Kept
  <1>1. PostsGrow
    BY SameGrow DEF DeleteInv
  <1>2. SoundChanges
    BY DEF SoundChanges, NoNewLink, NoNewSending, SoundWire
  <1>3. Goes(new)
    BY <1>1, <1>2 DEF Goes
  <1>. QED BY <1>3, StepKeeps

LEMMA PostsKeep ==
    ASSUME DeleteInv, NEW new, TaskStep(new), SoundTasks(new), Told,
           UNCHANGED <<wire, rows, undone>>, history' \in Seq(Nat), PostsGrow, NoneDeleted
    PROVE  Kept
  <1>1. WireGrows /\ RowsShape
    BY SameGrow DEF DeleteInv
  <1>2. SoundChanges
    BY DEF SoundChanges, NoneDeleted
  <1>3. Goes(new)
    BY <1>1, <1>2 DEF Goes
  <1>. QED BY <1>3, StepKeeps

LEMMA CalmKeeps ==
    ASSUME DeleteInv, NEW t \in Work, CalmStep(t)
    PROVE  Kept
  <1>1. BaseInv
    BY DEF DeleteInv
  <1>2. PICK new : Replace(t, new) /\ \A u \in new : Calm(u)
    BY DEF CalmStep
  <1>3. TaskStep(new) /\ Work \ {t} \subseteq Work'
    BY <1>1, <1>2, ReplaceSteps
  <1>4. SoundTasks(new)
    BY <1>2, CalmIsSound
  <1>5. NoneLost
    BY <1>3, CallbackLosesNone DEF CalmStep, Telling
  <1>6. UNCHANGED <<wire, rows, posts, notes, undone>> /\ history' \in Seq(Nat)
    BY DEF CalmStep, Same
  <1>7. Told
    BY <1>5, <1>6, NoneLostTold DEF NoAgentPost
  <1>8. WireGrows /\ RowsShape /\ NoNewSending /\ NoNewLink
    BY <1>1, <1>6, SameGrow DEF NoNewSending, NoNewLink
  <1>. QED BY <1>3, <1>4, <1>6, <1>7, <1>8, RowsKeep

\* What comes from WhatsApp, a conversation that is resolved, a command, and the start of an
\* import.
BeginCalmly ==
    /\ \E new : Begin(new) /\ \A u \in new : Calm(u)
    /\ UNCHANGED <<posts, notes, undone>>
    /\ WireGrows /\ NoNewSending /\ NoNewLink /\ RowsShape

LEMMA BeginsKeep ==
    ASSUME DeleteInv, BeginCalmly
    PROVE  Kept
  <1>1. BaseInv
    BY DEF DeleteInv
  <1>2. PICK new : Begin(new) /\ \A u \in new : Calm(u)
    BY DEF BeginCalmly
  <1>3. TaskStep(new) /\ Work' = Work \cup new
    BY <1>1, <1>2, BeginSteps
  <1>4. SoundTasks(new)
    BY <1>2, CalmIsSound
  <1>5. Told
    BY <1>3, NoneLostTold DEF BeginCalmly, NoneLost, NoAgentPost, Pending
  <1>. QED BY <1>3, <1>4, <1>5, RowsKeep DEF BeginCalmly

\* And what changes no callback and no message, row or post.
LEMMA StaysKept ==
    ASSUME DeleteInv, UNCHANGED <<tasks, wire, rows, posts, notes, undone, history>>
    PROVE  Kept
  <1>1. BaseInv
    BY DEF DeleteInv
  <1>2. TaskStep({}) /\ Work' = Work
    BY <1>1, NoTaskSteps
  <1>3. SoundTasks({})
    BY DEF SoundTasks
  <1>4. Told
    BY <1>2, NoneLostTold DEF NoneLost, NoAgentPost, Pending
  <1>5. WireGrows /\ RowsShape /\ NoNewSending /\ NoNewLink
    BY <1>1, SameGrow DEF NoNewSending, NoNewLink
  <1>. QED BY <1>2, <1>3, <1>4, <1>5, RowsKeep

-----------------------------------------------------------------------------
(* What comes from outside *)

LEMMA CalmBeginnings ==
    ASSUME NEW i \in Nat \ {0}, NEW ids, NEW d \in {"Resolved", "Init", "Disconnect", "ClearCache"}
    PROVE  /\ Calm([NoTask EXCEPT !.do = "Event", !.id = i, !.then = "Row"])
           /\ Calm([NoTask EXCEPT !.do = "Event", !.id = i])
           /\ Calm([NoTask EXCEPT !.do = "Row", !.id = i])
           /\ Calm([NoTask EXCEPT !.do = "Import"])
           /\ Calm([NoTask EXCEPT !.do = "FindRow", !.id = i])
           /\ Calm([NoTask EXCEPT !.do = "FindEdited", !.id = i])
           /\ Calm([NoTask EXCEPT !.do = d])
           /\ Calm([NoTask EXCEPT !.do = "Sync", !.then = "ClearCache", !.ids = ids])
  <1>1. /\ DOMAIN NoTask = TaskFields /\ NoTask.id = 0 /\ NoTask.post = 0 /\ NoTask.then = ""
        /\ NoTask.list = << >>
    BY DEF NoTask, TaskFields
  <1>2. << >> \in Seq(Nat) /\ 0 \in Nat
    BY EmptySeq
  <1>3. Calm([NoTask EXCEPT !.do = "Event", !.id = i, !.then = "Row"])
    BY <1>1, <1>2 DEF Calm, IsTask, TaskFields, PostDos, NoIdDos
  <1>4. Calm([NoTask EXCEPT !.do = "Event", !.id = i])
    BY <1>1, <1>2 DEF Calm, IsTask, TaskFields, PostDos, NoIdDos
  <1>5. Calm([NoTask EXCEPT !.do = "Row", !.id = i])
    BY <1>1, <1>2 DEF Calm, IsTask, TaskFields, PostDos, NoIdDos
  <1>6. Calm([NoTask EXCEPT !.do = "Import"])
    BY <1>1, <1>2 DEF Calm, IsTask, TaskFields, PostDos, NoIdDos
  <1>7. Calm([NoTask EXCEPT !.do = "FindRow", !.id = i])
    BY <1>1, <1>2 DEF Calm, IsTask, TaskFields, PostDos, NoIdDos
  <1>8. Calm([NoTask EXCEPT !.do = "FindEdited", !.id = i])
    BY <1>1, <1>2 DEF Calm, IsTask, TaskFields, PostDos, NoIdDos
  <1>9. Calm([NoTask EXCEPT !.do = d])
    BY <1>1, <1>2 DEF Calm, IsTask, TaskFields, PostDos, NoIdDos
  <1>10. Calm([NoTask EXCEPT !.do = "Sync", !.then = "ClearCache", !.ids = ids])
    BY <1>1, <1>2 DEF Calm, IsTask, TaskFields, PostDos, NoIdDos
  <1>. QED BY <1>3, <1>4, <1>5, <1>6, <1>7, <1>8, <1>9, <1>10

LEMMA MessageKeeps ==
    ASSUME DeleteInv, Message \/ ApiMessage
    PROVE  Kept
  <1> DEFINE i == Len(wire')
             first == [NoTask EXCEPT !.do = "Event", !.id = i, !.then = "Row"]
  <1>1. BaseInv
    BY DEF DeleteInv
  <1>2. UNCHANGED <<rows, posts, notes, undone, history>>
    BY DEF Message, ApiMessage, database, chatwoot, memory
  <1>3. PICK by, kind : by # "agent" /\ wire' = Append(wire, Said(by, kind, 0))
    <2>1. CASE Message
      <3>1. PICK by \in {"contact"} \cup ({"phone"} \cap config), kind \in Kinds :
                    wire' = Append(wire, Said(by, kind, 0))
        BY <2>1 DEF Message
      <3>. QED BY <3>1
    <2>2. CASE ApiMessage
      BY <2>2 DEF ApiMessage, SendMessage
    <2>. QED BY <2>1, <2>2
  <1>4. /\ WireGrows /\ i \in Nat \ {0} /\ DOMAIN wire' = DOMAIN wire \cup {i}
        /\ wire'[i].by = by
    BY <1>1, <1>3, Appended
  <1>5. Begin({first}) \/ Begin(EventOfSent)
    BY DEF Message, ApiMessage
  <1>6. Calm(first) /\ \A u \in EventOfSent : Calm(u)
    BY <1>4, CalmBeginnings DEF EventOfSent
  <1>7. \E new : Begin(new) /\ \A u \in new : Calm(u)
    <2> HIDE DEF first
    <2>. QED BY <1>5, <1>6
  <1>8. RowsShape /\ NoNewLink /\ NoNewSending
    BY <1>1, <1>2, <1>3, <1>4, SameGrow DEF NoNewLink, NoNewSending
  <1>. QED BY <1>2, <1>4, <1>7, <1>8, BeginsKeep DEF BeginCalmly

\* A row is written, and links no post.
LEMMA RowWritten ==
    ASSUME BaseInv, NEW i \in Nat, NEW p,
           rows' = [id \in DOMAIN rows \cup {i} |-> IF id = i THEN p ELSE rows[id]]
    PROVE  /\ DOMAIN rows' \subseteq Nat /\ IsFiniteSet(DOMAIN rows')
           /\ \A id \in DOMAIN rows' :
                 (rows'[id] = p /\ id = i) \/ (id \in DOMAIN rows /\ rows'[id] = rows[id])
  <1>1. DOMAIN rows \subseteq Nat /\ IsFiniteSet(DOMAIN rows)
    BY DEF BaseInv, ShapeInv
  <1>2. IsFiniteSet(DOMAIN rows \cup {i})
    BY <1>1, FS_AddElement
  <1>3. DOMAIN rows' = DOMAIN rows \cup {i}
    OBVIOUS
  <1>4. IsFiniteSet(DOMAIN rows') /\ DOMAIN rows' \subseteq Nat
    BY <1>1, <1>2, <1>3
  <1>. QED BY <1>3, <1>4

LEMMA HistoryKeeps ==
    ASSUME DeleteInv, History
    PROVE  Kept
  <1> DEFINE i == Len(wire')
             task == [NoTask EXCEPT !.do = "Import"]
  <1>1. BaseInv
    BY DEF DeleteInv
  <1>2. UNCHANGED <<posts, notes, undone>>
    BY DEF History, chatwoot
  <1>3. /\ WireGrows /\ i \in Nat \ {0} /\ DOMAIN wire' = DOMAIN wire \cup {i}
        /\ wire'[i].by = "contact"
    BY <1>1, Appended DEF History
  <1>4. Begin({task}) /\ Calm(task)
    BY <1>3, CalmBeginnings DEF History
  <1>5. \E new : Begin(new) /\ \A u \in new : Calm(u)
    <2> HIDE DEF task
    <2>. QED BY <1>4
  <1>6. NoNewSending
    BY <1>3 DEF NoNewSending
  <1>7. rows' = [id \in DOMAIN rows \cup {i} |-> IF id = i THEN 0 ELSE rows[id]]
    BY DEF History
  <1>8. history' \in Seq(Nat)
    <2>1. history \in Seq(Nat) /\ history' = Append(history, i)
      BY <1>1 DEF History, BaseInv, ShapeInv
    <2> HIDE DEF i
    <2>. QED BY <1>3, <2>1
  <1> HIDE DEF i
  <1>9. RowsShape /\ NoNewLink
    BY <1>1, <1>3, <1>7, <1>8, RowWritten DEF RowsShape, NoNewLink
  <1>. QED BY <1>2, <1>3, <1>5, <1>6, <1>9, BeginsKeep DEF BeginCalmly

\* What begins a task and changes nothing else that matters here.
LEMMA BeginOneKeeps ==
    ASSUME DeleteInv, NEW u, Calm(u), Begin({u}),
           UNCHANGED <<wire, rows, posts, notes, undone, history>>
    PROVE  Kept
  <1>1. \E new : Begin(new) /\ \A v \in new : Calm(v)
    OBVIOUS
  <1>2. WireGrows /\ RowsShape /\ NoNewSending /\ NoNewLink
    BY SameGrow DEF DeleteInv, NoNewSending, NoNewLink
  <1>. QED BY <1>1, <1>2, BeginsKeep DEF BeginCalmly

LEMMA AsksKeep ==
    ASSUME DeleteInv,
           \/ \E id \in DOMAIN wire : Revoke(id) \/ Edit(id) \/ Age(id)
           \/ \E c \in DOMAIN convs : Resolve(c)
           \/ Command \/ StartSync
    PROVE  Kept
  <1>1. /\ 1 \in Nat \ {0}
        /\ \A id \in DOMAIN wire : id \in Nat \ {0}
    BY DEF DeleteInv, BaseInv, ShapeInv, IsList
  <1>2. UNCHANGED <<wire, rows, posts, notes, undone, history>>
    BY DEF Revoke, Edit, Age, Resolve, Command, StartSync, whatsapp, database, chatwoot, memory
  <1>3. ASSUME NEW id \in DOMAIN wire, Revoke(id)
        PROVE  Kept
    <2>1. CASE UNCHANGED tasks
      BY <1>2, <2>1, StaysKept
    <2>2. CASE Begin({[NoTask EXCEPT !.do = "FindRow", !.id = id]})
      BY <1>1, <1>2, <2>2, CalmBeginnings, BeginOneKeeps
    <2>. QED BY <1>3, <2>1, <2>2 DEF Revoke
  <1>4. ASSUME NEW id \in DOMAIN wire, Edit(id)
        PROVE  Kept
    BY <1>1, <1>2, <1>4, CalmBeginnings, BeginOneKeeps DEF Edit
  <1>5. ASSUME NEW c \in DOMAIN convs, Resolve(c)
        PROVE  Kept
    BY <1>1, <1>2, <1>5, CalmBeginnings, BeginOneKeeps DEF Resolve
  <1>6. CASE Command
    <2>1. PICK d \in {"Init", "Disconnect", "ClearCache"} : Begin({[NoTask EXCEPT !.do = d]})
      BY <1>6 DEF Command
    <2>. QED BY <1>1, <1>2, <2>1, CalmBeginnings, BeginOneKeeps
  <1>7. CASE StartSync
    BY <1>1, <1>2, <1>7, CalmBeginnings, BeginOneKeeps DEF StartSync
  <1>8. ASSUME NEW id \in DOMAIN wire, Age(id)
        PROVE  Kept
    BY <1>2, <1>8, StaysKept DEF Age
  <1>. QED BY <1>3, <1>4, <1>5, <1>6, <1>7, <1>8

-----------------------------------------------------------------------------
(* Posts that are written, and posts that are deleted *)

LEMMA NothingOfFresh ==
    ASSUME DeleteInv, NEW q, q \notin DOMAIN posts, q # 0
    PROVE  /\ \A t \in Work : t.post # q
           /\ \A id \in DOMAIN rows : rows[id] # q
           /\ \A i \in DOMAIN wire : ~ SentFor(i, q)
  <1>1. \A t \in Work : t.post \in {0} \cup DOMAIN posts
    BY DEF DeleteInv, BaseInv, About
  <1>2. \A id \in DOMAIN rows : rows[id] = 0 \/ rows[id] \in DOMAIN posts
    BY DEF DeleteInv, SoundRow
  <1>3. \A i \in DOMAIN wire : wire[i].by = "agent" => wire[i].from \in DOMAIN posts
    BY DEF DeleteInv, SoundWire
  <1>. QED BY <1>1, <1>2, <1>3 DEF SentFor

\* The callback that holds a new post.
LEMMA FreshHolder ==
    ASSUME DeleteInv, NEW new, TaskStep(new), UNCHANGED <<wire, rows>>,
           NEW q, q \notin DOMAIN posts, q # 0, posts'[q].gone = "no",
           NEW u \in new, u.post = q, u.do \in {"Row", "Webhook"},
           \A v \in new : v.do \notin Deleters /\ (Holder(v)' => v = u),
           u.do = "Row" => Owns(u.id, q)'
    PROVE  Sound(u)'
  <1>1. /\ \A t \in Work : t.post # q
        /\ \A id \in DOMAIN rows : rows[id] # q
        /\ \A i \in DOMAIN wire : ~ SentFor(i, q)
    BY NothingOfFresh
  <1>2. u \in Work' /\ Work' \subseteq Work \cup new /\ tasks'[u] = 1
    BY <1>1 DEF TaskStep
  <1>3. \A v \in Work' : (Holder(v)' /\ v.post = q => v = u) /\ (v.do \in Deleters => v.post # q)
    BY <1>1, <1>2
  <1>4. Rowless(q)' /\ \A i \in DOMAIN wire' : ~ SentFor(i, q)'
    BY <1>1 DEF Rowless, SentFor
  <1>. QED BY <1>2, <1>3, <1>4 DEF Sound, Writer, Deleters

LEMMA Webhooks ==
    ASSUME NEW q \in DOMAIN posts', posts'[q].by # "import"
    PROVE  IsTask(Webhook(q)) /\ About(Webhook(q))'
  <1> DEFINE u == Webhook(q)
  <1>1. /\ DOMAIN NoTask = TaskFields /\ NoTask.id = 0 /\ NoTask.then = "" /\ NoTask.list = << >>
        /\ << >> \in Seq(Nat) /\ 0 \in Nat
    BY EmptySeq DEF NoTask, TaskFields
  <1>2. IsTask(u) /\ u.do = "Webhook" /\ u.post = q /\ u.then = ""
    BY <1>1 DEF IsTask, TaskFields, Webhook
  <1> HIDE DEF u
  <1>3. About(u)'
    BY <1>2 DEF About, PostDos, NoIdDos
  <1>. QED BY <1>2, <1>3 DEF u

LEMMA AgentKeeps ==
    ASSUME DeleteInv, Agent
    PROVE  Kept
  <1> PICK q : q = Len(posts')
    OBVIOUS
  <1> DEFINE u == Webhook(q)
  <1>1. BaseInv /\ UNCHANGED <<wire, rows, notes, undone, history>> /\ Begin({u})
    BY DEF DeleteInv, Agent, whatsapp, database, memory
  <1>2. PICK c, by, kind : /\ by \in {"agent", "template"}
                           /\ posts' = Append(posts, Written(by, kind, c, 0))
    BY DEF Agent
  <1>3. by \in Writers /\ by \notin {"bridge", "edit"}
    BY <1>2 DEF Writers
  <1>4. /\ PostsGrow /\ q \in Nat \ {0} /\ q \notin DOMAIN posts
        /\ DOMAIN posts' = DOMAIN posts \cup {q}
        /\ \A p \in DOMAIN posts : posts'[p] = posts[p]
        /\ posts'[q].by = by /\ posts'[q].gone = "no"
    BY <1>1, <1>2, <1>3, Posted
  <1>5. TaskStep({u}) /\ Work' = Work \cup {u}
    BY <1>1, BeginSteps
  <1>6. u.do = "Webhook" /\ u.post = q
    BY DEF Webhook, NoTask
  <1>7. IsTask(u) /\ About(u)'
    BY <1>2, <1>4, Webhooks
  <1> HIDE DEF u
  <1>8. Sound(u)'
    BY <1>1, <1>4, <1>5, <1>6, FreshHolder DEF Deleters
  <1>9. SoundTasks({u})
    BY <1>7, <1>8 DEF SoundTasks
  <1>10. Told
    BY <1>1, <1>4, <1>5, <1>6 DEF Told, Pending, Telling
  <1>11. NoneDeleted
    BY <1>4 DEF NoneDeleted
  <1>12. history' \in Seq(Nat)
    BY <1>1 DEF BaseInv, ShapeInv
  <1>. QED BY <1>1, <1>4, <1>5, <1>9, <1>10, <1>11, <1>12, PostsKeep

\* The webhook of a deletion.
LEMMA DeletedIsSound ==
    ASSUME NEW q \in DOMAIN posts', posts'[q].gone # "no"
    PROVE  SoundTasks({[NoTask EXCEPT !.do = "Deleted", !.post = q]})
  <1> DEFINE u == [NoTask EXCEPT !.do = "Deleted", !.post = q]
  <1>1. /\ DOMAIN NoTask = TaskFields /\ NoTask.id = 0 /\ NoTask.then = "" /\ NoTask.list = << >>
        /\ << >> \in Seq(Nat) /\ 0 \in Nat
    BY EmptySeq DEF NoTask, TaskFields
  <1>2. IsTask(u) /\ u.do = "Deleted" /\ u.post = q /\ u.then = ""
    BY <1>1 DEF IsTask, TaskFields
  <1> HIDE DEF u
  <1>3. About(u)'
    BY <1>2 DEF About, PostDos, NoIdDos
  <1>4. Sound(u)'
    BY <1>2 DEF Sound, Holder, Writer, Sender, Deleters
  <1>5. SoundTasks({u})
    BY <1>2, <1>3, <1>4 DEF SoundTasks
  <1>. QED BY <1>5 DEF u

LEMMA AgentDeletesKeeps ==
    ASSUME DeleteInv, NEW q \in DOMAIN posts, AgentDeletes(q)
    PROVE  Kept
  <1> DEFINE u == [NoTask EXCEPT !.do = "Deleted", !.post = q]
  <1>1. BaseInv /\ UNCHANGED <<wire, rows, notes, undone, history>> /\ Begin({u})
    BY DEF DeleteInv, AgentDeletes, whatsapp, database, memory
  <1>2. /\ PostsGrow /\ DOMAIN posts' = DOMAIN posts
        /\ \A p \in DOMAIN posts : posts'[p].of = posts[p].of
        /\ \A p \in DOMAIN posts : posts'[p].gone = IF p = q THEN "agent" ELSE posts[p].gone
    BY <1>1, GoneChanged DEF AgentDeletes
  <1>3. TaskStep({u}) /\ Work' = Work \cup {u}
    BY <1>1, BeginSteps
  <1>4. SoundTasks({u})
    BY <1>2, DeletedIsSound
  <1> HIDE DEF u
  <1>5. Told
    BY <1>1, <1>2, <1>3, NoneLostTold DEF NoneLost, NoAgentPost, Pending
  <1>6. NoneDeleted
    BY <1>2 DEF NoneDeleted
  <1>7. history' \in Seq(Nat)
    BY <1>1 DEF BaseInv, ShapeInv
  <1>. QED BY <1>1, <1>2, <1>3, <1>4, <1>5, <1>6, <1>7, PostsKeep

LEMMA DropKeeps ==
    ASSUME DeleteInv, NEW c, Drop(c)
    PROVE  Kept
  <1>1. BaseInv /\ UNCHANGED <<tasks, wire, rows, notes, undone, history>>
    BY DEF DeleteInv, Drop, whatsapp, database, memory
  <1>2. posts' = [p \in DOMAIN posts |-> IF posts[p].conv = c THEN [posts[p] EXCEPT !.gone = "conv"]
                                         ELSE posts[p]]
    BY DEF Drop
  <1>3. DOMAIN posts' = DOMAIN posts /\ posts' = [p \in DOMAIN posts' |-> posts'[p]]
    BY <1>2
  <1>4. ASSUME NEW p \in DOMAIN posts
        PROVE  /\ DOMAIN posts'[p] = PostFields
               /\ posts'[p].by = posts[p].by /\ posts'[p].kind = posts[p].kind
               /\ posts'[p].of = posts[p].of /\ posts'[p].gone \in {posts[p].gone, "conv"}
    <2>1. DOMAIN posts[p] = PostFields
      BY <1>1 DEF BaseInv, ShapeInv
    <2>2. CASE posts[p].conv = c
      <3>1. posts'[p] = [posts[p] EXCEPT !.gone = "conv"]
        BY <1>2, <2>2
      <3>. QED BY <2>1, <3>1 DEF PostFields
    <2>3. CASE posts[p].conv # c
      <3>1. posts'[p] = posts[p]
        BY <1>2, <2>3
      <3>. QED BY <2>1, <3>1
    <2>. QED BY <2>2, <2>3
  <1>5. PostsGrow
    BY <1>1, <1>3, <1>4, Changed
  <1>6. TaskStep({}) /\ Work' = Work
    BY <1>1, NoTaskSteps
  <1>7. SoundTasks({})
    BY DEF SoundTasks
  <1>8. Told
    BY <1>1, <1>3, <1>6, NoneLostTold DEF NoneLost, NoAgentPost, Pending
  <1>9. NoneDeleted
    BY <1>3, <1>4 DEF NoneDeleted
  <1>10. history' \in Seq(Nat)
    BY <1>1 DEF BaseInv, ShapeInv
  <1>. QED BY <1>1, <1>5, <1>6, <1>7, <1>8, <1>9, <1>10, PostsKeep

-----------------------------------------------------------------------------
(* The callbacks that write posts *)

\* What a callback goes on with.
After(u, t, do, id, post) ==
    /\ IsTask(u) /\ u.do = do /\ u.id = id /\ u.post = post
    /\ u.list = t.list /\ u.then = t.then

LEMMA GoesOn ==
    ASSUME NEW t, IsTask(t), NEW d, NEW i \in Nat, NEW p
    PROVE  /\ After([t EXCEPT !.do = d], t, d, t.id, t.post)
           /\ After([t EXCEPT !.do = d, !.id = i], t, d, i, t.post)
           /\ After([t EXCEPT !.do = d, !.post = p], t, d, t.id, p)
           /\ After([[t EXCEPT !.post = p] EXCEPT !.do = d], t, d, t.id, p)
  <1>1. After([t EXCEPT !.do = d], t, d, t.id, t.post)
    BY DEF After, IsTask, TaskFields
  <1>2. After([t EXCEPT !.do = d, !.id = i], t, d, i, t.post)
    BY DEF After, IsTask, TaskFields
  <1>3. After([t EXCEPT !.do = d, !.post = p], t, d, t.id, p)
    BY DEF After, IsTask, TaskFields
  <1>4. After([[t EXCEPT !.post = p] EXCEPT !.do = d], t, d, t.id, p)
    BY DEF After, IsTask, TaskFields
  <1>. QED BY <1>1, <1>2, <1>3, <1>4

\* The bridge shows a message, or an edit.
LEMMA BridgeKeeps ==
    ASSUME DeleteInv, NEW t \in Work, t.do \notin NoIdDos,
           NEW by \in {"bridge", "edit"}, NEW kind, NEW conv, NEW of, of # 0,
           posts' = Append(posts, Written(by, kind, conv, of)),
           UNCHANGED <<wire, rows, notes, undone, history>>,
           NEW q, q = Len(posts'), NEW new, Replace(t, new),
           \A u \in new : \/ u = Webhook(q)
                          \/ by = "bridge" /\ After(u, t, "Row", of, q),
           \A u, v \in new : u.do = "Row" /\ v.do = "Row" => u = v
    PROVE  Kept
  <1>1. BaseInv /\ About(t)
    BY DEF DeleteInv, BaseInv
  <1>2. /\ PostsGrow /\ q \in Nat \ {0} /\ q \notin DOMAIN posts
        /\ DOMAIN posts' = DOMAIN posts \cup {q}
        /\ \A p \in DOMAIN posts : posts'[p] = posts[p]
        /\ posts'[q].by = by /\ posts'[q].of = of /\ posts'[q].gone = "no"
    BY <1>1, Posted DEF Writers
  <1>3. TaskStep(new) /\ Work \ {t} \subseteq Work'
    BY <1>1, ReplaceSteps
  <1>4. ASSUME NEW u \in new, u.do = "Row", by = "bridge", After(u, t, "Row", of, q)
        PROVE  IsTask(u) /\ About(u)' /\ Sound(u)'
    <2>1. IsTask(u) /\ u.id = of /\ u.post = q /\ u.then = t.then
      BY <1>4 DEF After
    <2>2. About(u)'
      BY <1>1, <1>2, <1>4, <2>1 DEF About, PostDos, NoIdDos
    <2>3. \A v \in new : v.do \notin Deleters /\ (Holder(v)' => v = u)
      <3>1. SUFFICES ASSUME NEW v \in new
                     PROVE  v.do \notin Deleters /\ (Holder(v)' => v = u)
        OBVIOUS
      <3>2. CASE v = Webhook(q)
        <4>1. v.do = "Webhook" /\ v.post = q
          BY <3>2 DEF Webhook, NoTask
        <4>. QED BY <1>2, <4>1 DEF Deleters, Holder, Writer, Sender
      <3>3. CASE After(v, t, "Row", of, q)
        BY <1>4, <3>3 DEF After, Deleters
      <3>. QED BY <3>2, <3>3
    <2>4. Owns(u.id, q)'
      BY <1>2, <1>4, <2>1 DEF Owns
    <2>5. Sound(u)'
      BY <1>2, <1>3, <1>4, <2>1, <2>3, <2>4, FreshHolder
    <2>. QED BY <2>1, <2>2, <2>5
  <1>5. ASSUME NEW u \in new, u = Webhook(q)
        PROVE  IsTask(u) /\ About(u)' /\ Sound(u)'
    <2>1. IsTask(u) /\ About(u)'
      BY <1>2, <1>5, Webhooks
    <2>2. u.do = "Webhook" /\ u.post = q
      BY <1>5 DEF Webhook, NoTask
    <2>3. Sound(u)'
      BY <1>2, <2>2 DEF Sound, Holder, Writer, Sender, Deleters
    <2>. QED BY <2>1, <2>3
  <1>6. SoundTasks(new)
    BY <1>4, <1>5 DEF SoundTasks, After
  <1>7. NoAgentPost
    BY <1>2 DEF NoAgentPost
  <1>8. Told
    BY <1>3, <1>7, CallbackLosesNone, NoneLostTold DEF NoIdDos, Telling
  <1>9. NoneDeleted
    BY <1>2 DEF NoneDeleted
  <1>10. history' \in Seq(Nat)
    BY <1>1 DEF BaseInv, ShapeInv
  <1>. QED BY <1>2, <1>3, <1>6, <1>8, <1>9, <1>10, PostsKeep

LEMMA ShownKeeps ==
    ASSUME DeleteInv, NEW t \in Work, t.do \in {"Post", "Upload"}, Shown(t),
           UNCHANGED <<wire, rows, notes, undone, history>>
    PROVE  Kept
  <1>1. BaseInv /\ IsTask(t) /\ About(t)
    BY DEF DeleteInv, BaseInv, ShapeInv
  <1>2. t.id # 0 /\ t.then \in {"", "Row"} /\ t.do \notin NoIdDos
    BY <1>1 DEF About, IsTask, NoIdDos
  <1>3. PICK q : q = Len(posts')
    OBVIOUS
  <1>4. PICK kind, conv : posts' = Append(posts, Written("bridge", kind, conv, t.id))
    BY DEF Shown, WriteIn
  <1> DEFINE r == [[t EXCEPT !.post = q] EXCEPT !.do = "Row"]
             w == Webhook(q)
  <1>5. After(r, t, "Row", t.id, q) /\ w.do = "Webhook"
    BY <1>1, GoesOn DEF IsTask, Webhook, NoTask
  <1>6. Rest([t EXCEPT !.post = q]) \subseteq {r}
    <2>1. [t EXCEPT !.post = q].then = t.then
      BY <1>1 DEF IsTask, TaskFields
    <2>. QED BY <1>2, <2>1 DEF Rest
  <1>7. PICK new : Replace(t, new) /\ new \subseteq {r, w}
    <2>1. Replace(t, Rest([t EXCEPT !.post = q]) \cup (IF Mine(t.id) THEN {w} ELSE {}))
      BY <1>3 DEF Shown
    <2> HIDE DEF r, w
    <2>. QED BY <1>6, <2>1
  <1>8. \A u \in new : u = Webhook(q) \/ After(u, t, "Row", t.id, q)
    <2> HIDE DEF r
    <2>. QED BY <1>5, <1>7
  <1>9. \A u, v \in new : u.do = "Row" /\ v.do = "Row" => u = v
    <2> HIDE DEF r, w
    <2>. QED BY <1>5, <1>7
  <1> HIDE DEF r, w
  <1>10. Replace(t, new)
    BY <1>7
  <1>. QED BY <1>2, <1>3, <1>4, <1>8, <1>9, <1>10, BridgeKeeps

LEMMA ShowEditKeeps ==
    ASSUME DeleteInv, NEW t \in Work, ShowEdit(t)
    PROVE  Kept
  <1>1. UNCHANGED <<wire, rows, notes, undone, history>> /\ t.do = "ShowEdit"
    BY DEF ShowEdit, whatsapp, database, memory
  <1>2. CASE Finish(t) /\ UNCHANGED posts
    <2>1. CalmStep(t)
      BY <1>2, OthersAreCalm DEF OtherCalm, DeleteInv
    <2>. QED BY <2>1, CalmKeeps
  <1>3. CASE /\ WriteIn(t.conv, Written("edit", "text", t.conv, t.id))
             /\ Replace(t, IF Mine(t.id) THEN {Webhook(Len(posts'))} ELSE {})
    <2>1. t.id # 0 /\ t.do \notin NoIdDos
      BY <1>1 DEF DeleteInv, BaseInv, About, NoIdDos
    <2>2. PICK q : q = Len(posts')
      OBVIOUS
    <2>3. PICK new : Replace(t, new) /\ new \subseteq {Webhook(q)}
      BY <1>3, <2>2
    <2>4. posts' = Append(posts, Written("edit", "text", t.conv, t.id))
      BY <1>3 DEF WriteIn
    <2>5. /\ \A u \in new : u = Webhook(q)
          /\ \A u, v \in new : u.do = "Row" /\ v.do = "Row" => u = v
      BY <2>3
    <2>. QED BY <1>1, <2>1, <2>2, <2>3, <2>4, <2>5, BridgeKeeps
  <1>. QED BY <1>2, <1>3 DEF ShowEdit

\* A callback that goes on to mark a row as read, or with the next attachment, holds nothing.
LEMMA ReadIsSound ==
    ASSUME NEW t, NEW d \in {"Read", "Next", "Source"}, NEW u, After(u, t, d, t.id, t.post), t.id # 0,
           t.then # "ClearCache", t.post \in DOMAIN posts',
           posts'[t.post].by = "agent", d = "Next" => Album(t.post)'
    PROVE  IsTask(u) /\ About(u)' /\ Sound(u)' /\ ~ Holder(u)' /\ u.do # "DeletePost"
  <1>1. /\ IsTask(u) /\ u.do = d /\ u.id # 0 /\ u.post = t.post
        /\ u.then # "ClearCache"
    BY DEF After
  <1>2. About(u)'
    BY <1>1 DEF About, PostDos, NoIdDos
  <1>3. Sound(u)' /\ ~ Holder(u)' /\ u.do # "DeletePost"
    BY <1>1 DEF Sound, Holder, Writer, Sender, Deleters
  <1>. QED BY <1>1, <1>2, <1>3

\* What agents have written, by a callback that sends it.
LEMMA SendersPost ==
    ASSUME DeleteInv, NEW t \in Work, t.do \in {"Sent", "Link", "Source"}
    PROVE  /\ BaseInv /\ IsTask(t)
           /\ t.id \in Nat \ {0} /\ t.then # "ClearCache"
           /\ t.post \in DOMAIN posts /\ t.post # 0 /\ posts[t.post].by = "agent"
  <1>1. BaseInv /\ IsTask(t) /\ About(t) /\ 0 \notin DOMAIN posts
    BY DEF DeleteInv, BaseInv, ShapeInv, IsList
  <1>. QED BY <1>1 DEF About, IsTask, PostDos, NoIdDos

LEMMA SourceKeeps ==
    ASSUME DeleteInv, NEW t \in Work, UpdateSourceID(t)
    PROVE  Kept
  <1>0. PICK d \in {"Read", "Next"} : /\ Replace(t, {[t EXCEPT !.do = d]})
                                      /\ d = "Next" => Album(t.post)
    BY DEF UpdateSourceID, AfterLink, Continue, Album
  <1> DEFINE u == [t EXCEPT !.do = d]
  <1>1. /\ UNCHANGED <<wire, rows, notes, undone, history>> /\ t.do = "Source" /\ Replace(t, {u})
    BY <1>0 DEF UpdateSourceID, whatsapp, database, memory
  <1>2. /\ BaseInv /\ IsTask(t) /\ t.id \in Nat \ {0} /\ t.then # "ClearCache"
        /\ t.post \in DOMAIN posts /\ posts[t.post].by = "agent"
    BY <1>1, SendersPost
  <1>3. After(u, t, d, t.id, t.post)
    BY <1>2, GoesOn
  <1> HIDE DEF u
  <1>4. TaskStep({u}) /\ Work \ {t} \subseteq Work'
    BY <1>1, <1>2, ReplaceSteps
  <1>5. PostsGrow /\ DOMAIN posts' = DOMAIN posts /\ NoneDeleted
    <2>1. CASE UNCHANGED posts
      BY <1>2, <2>1, SameGrow DEF NoneDeleted
    <2>2. CASE posts' = [posts EXCEPT ![t.post].of = t.id]
      <3>1. \A p \in DOMAIN posts : DOMAIN posts[p] = PostFields
        BY <1>2 DEF BaseInv, ShapeInv
      <3>2. DOMAIN posts' = DOMAIN posts /\ posts' = [p \in DOMAIN posts' |-> posts'[p]]
        BY <2>2
      <3>3. \A p \in DOMAIN posts : posts'[p] = IF p = t.post THEN [posts[p] EXCEPT !.of = t.id]
                                                ELSE posts[p]
        BY <2>2
      <3>4. ASSUME NEW p \in DOMAIN posts
            PROVE  /\ DOMAIN posts'[p] = PostFields
                   /\ posts'[p].by = posts[p].by /\ posts'[p].kind = posts[p].kind
                   /\ posts'[p].of = posts[p].of \/ posts[p].by = "agent"
                   /\ posts'[p].gone = posts[p].gone
        <4>1. CASE p = t.post
          BY <1>2, <3>1, <3>3, <4>1 DEF PostFields
        <4>2. CASE p # t.post
          BY <3>1, <3>3, <4>2
        <4>. QED BY <4>1, <4>2
      <3>5. PostsGrow
        BY <1>2, <3>2, <3>4, Changed
      <3>. QED BY <3>2, <3>4, <3>5 DEF NoneDeleted
    <2>. QED BY <2>1, <2>2 DEF UpdateSourceID
  <1>6. SoundTasks({u})
    <2>1. t.post \in DOMAIN posts' /\ posts'[t.post].by = "agent" /\ (Album(t.post)' <=> Album(t.post))
      BY <1>2, <1>5, AlbumsStay DEF PostsGrow
    <2>2. IsTask(u) /\ About(u)' /\ Sound(u)'
      BY <1>0, <1>2, <1>3, <2>1, ReadIsSound
    <2>. QED BY <2>2 DEF SoundTasks
  <1>7. Told
    BY <1>1, <1>4, <1>5, CallbackLosesNone, NoneLostTold DEF NoAgentPost, Telling
  <1>8. history' \in Seq(Nat)
    BY <1>1, <1>2 DEF BaseInv, ShapeInv
  <1>. QED BY <1>1, <1>4, <1>5, <1>6, <1>7, <1>8, PostsKeep

LEMMA ImportableIsList ==
    ASSUME NEW list \in Seq(Nat)
    PROVE  IsList(Importable(list))
  <1> DEFINE HasText(id) == \/ wire[id].kind = "text"
                            \/ wire[id].kind = "media" /\ On("placeholder")
             S == {i \in DOMAIN list : HasText(list[i])}
             kept == SetToSeq(S)
  <1>1. IsFiniteSet(1 .. Len(list)) /\ S \subseteq 1 .. Len(list)
    BY FS_Interval, 1 \in Int, Len(list) \in Int
  <1>2. IsFiniteSet(S)
    BY <1>1, FS_Subset
  <1>3. Importable(list) = [j \in DOMAIN kept |-> list[kept[j]]]
    BY DEF Importable
  <1> HIDE DEF S
  <1>4. Cardinality(S) \in Nat /\ DOMAIN kept = 1 .. Cardinality(S)
    BY <1>2, SeqOfSet
  <1> HIDE DEF kept
  <1>. QED BY <1>3, <1>4, FunctionIsList

LEMMA InsertKeeps ==
    ASSUME DeleteInv, NEW t \in Work, InsertMessages(t)
    PROVE  Kept
  <1> DEFINE L == Importable(t.list)
             W == [i \in DOMAIN L |-> Written("import", "text", t.conv, L[i])]
  <1>1. /\ UNCHANGED <<wire, rows, notes, undone>> /\ t.do = "Insert" /\ history' = << >>
        /\ Replace(t, Rest(t)) /\ posts' = posts \o W
    BY DEF InsertMessages, whatsapp, database
  <1>2. BaseInv /\ IsTask(t) /\ IsList(posts)
    BY DEF DeleteInv, BaseInv, ShapeInv
  <1>3. IsList(L)
    BY <1>2, ImportableIsList DEF IsTask
  <1> HIDE DEF L
  <1>4. DOMAIN W = 1 .. Len(L) /\ Len(L) \in Nat /\ W = [i \in DOMAIN W |-> W[i]]
    BY <1>3 DEF IsList
  <1>5. \A i \in DOMAIN W : /\ DOMAIN W[i] = PostFields
                            /\ W[i].by = "import" /\ W[i].gone = "no"
    BY DEF Written, PostFields
  <1> HIDE DEF W
  <1>6. IsList(W)
    BY <1>4, FunctionIsList
  <1>7. /\ IsList(posts') /\ DOMAIN posts \subseteq DOMAIN posts'
        /\ \A i \in DOMAIN posts : posts'[i] = posts[i]
        /\ \A i \in DOMAIN posts' \ DOMAIN posts : \E j \in DOMAIN W : posts'[i] = W[j]
    <2>1. Joins(posts, W, posts \o W)
      BY <1>2, <1>6, ConcatList, Zenon
    <2>2. posts' = posts \o W
      BY <1>1
    <2>3. Joins(posts, W, posts')
      BY <2>1, <2>2, Zenon
    <2>. QED BY <2>3 DEF Joins
  <1>8. \A i \in DOMAIN posts' \ DOMAIN posts :
            DOMAIN posts'[i] = PostFields /\ posts'[i].by = "import" /\ posts'[i].gone = "no"
    BY <1>5, <1>7
  <1>9. PostsGrow
    <2>1. \A p \in DOMAIN posts : /\ DOMAIN posts[p] = PostFields /\ posts[p].by \in Writers
                                  /\ posts[p].by \in {"bridge", "edit"} => posts[p].of # 0
      BY <1>2 DEF BaseInv, ShapeInv
    <2>2. "import" \in Writers
      BY DEF Writers
    <2>. QED BY <1>7, <1>8, <2>1, <2>2 DEF PostsGrow
  <1>10. NoneDeleted /\ NoAgentPost
    BY <1>7, <1>8 DEF NoneDeleted, NoAgentPost
  <1>11. TaskStep(Rest(t)) /\ Work \ {t} \subseteq Work'
    BY <1>1, <1>2, ReplaceSteps
  <1>12. CalmTask(t)
    BY <1>1, <1>2, TasksAreCalm DEF PostDos
  <1>13. SoundTasks(Rest(t))
    BY <1>12, RestIsCalm, CalmIsSound
  <1>14. Told
    BY <1>1, <1>10, <1>11, CallbackLosesNone, NoneLostTold DEF Telling
  <1>15. history' \in Seq(Nat)
    BY <1>1, EmptySeq
  <1>. QED BY <1>1, <1>9, <1>10, <1>11, <1>13, <1>14, <1>15, PostsKeep

-----------------------------------------------------------------------------
(* The callbacks that write rows *)

\* A row learns which post it is shown by, from the one callback that holds the post.
LEMMA LinkKeeps ==
    ASSUME DeleteInv, NEW t \in Work, t.do \in {"Row", "Link"}, t.post # 0,
           NEW new, Replace(t, new), SoundTasks(new), t \notin new,
           \A u \in new : ~ Holder(u)' /\ u.do # "DeletePost",
           UNCHANGED <<wire, posts, notes, undone, history>>,
           DOMAIN rows' \subseteq Nat, IsFiniteSet(DOMAIN rows'),
           \A id \in DOMAIN rows' : \/ rows'[id] = t.post /\ id = t.id
                                    \/ id \in DOMAIN rows /\ rows'[id] = rows[id]
    PROVE  Kept
  <1>1. BaseInv /\ Sound(t) /\ history \in Seq(Nat)
    BY DEF DeleteInv, BaseInv, ShapeInv
  <1>2. WireGrows /\ PostsGrow /\ RowsShape
    BY <1>1, SameGrow DEF RowsShape
  <1>3. t.post \in DOMAIN posts /\ (Album(t.post)' <=> Album(t.post))
    <2>1. t.post \in DOMAIN posts
      BY <1>1 DEF BaseInv, About, PostDos
    <2>. QED BY <1>2, <2>1, AlbumsStay
  <1>4. TaskStep(new) /\ Work \ {t} \subseteq Work'
    BY <1>1, ReplaceSteps
  <1>5. ASSUME ~ Album(t.post), NEW id \in DOMAIN rows', rows'[id] = t.post, id = t.id
        PROVE  SoundRow(id)'
    <2>0. Holder(t) /\ Writer(t) /\ tasks[t] = 1 /\ Work' = (Work \ {t}) \cup new
      <3>1. Holder(t) /\ Writer(t) /\ tasks[t] = 1
        BY <1>1, <1>5 DEF Holder, Writer, Sound
      <3>. QED BY <1>1, <3>1, ReplaceSteps
    <2>1. Owns(t.id, t.post) /\ posts[t.post].gone # "bridge"
      BY <1>1, <2>0 DEF Sound
    <2>2. Owns(id, t.post)'
      BY <1>2, <1>3, <1>5, <2>1, OwnersStay
    <2>3. Free(t.post)'
      <3>1. SUFFICES ASSUME NEW u \in Work', Holder(u)'
                     PROVE  u.post # t.post
        BY DEF Free
      <3>2. u \in Work /\ u # t /\ Holder(u)
        BY <1>1, <1>2, <2>0, <3>1, HoldersStay
      <3>. QED BY <1>1, <2>0, <3>2 DEF Sound
    <2>4. \A u \in Work' : u.do = "DeletePost" => u.post # t.post
      BY <1>1, <2>0 DEF Sound, Deleters
    <2>. QED BY <1>3, <1>5, <2>1, <2>2, <2>3, <2>4 DEF SoundRow, Whole
  <1>6. SoundChanges
    <2>1. ASSUME Album(t.post), NEW id \in DOMAIN rows', rows'[id] = t.post
          PROVE  SoundRow(id)'
      <3>1. Free(t.post)'
        BY <1>3, <2>1 DEF Free, Holder, Writer, Sender
      <3>. QED BY <1>3, <2>1, <3>1 DEF SoundRow, Owns, Whole
    <2>. QED BY <1>5, <2>1 DEF SoundChanges
  <1>7. Told
    <2>1. Work \ {t} \subseteq Work'
      BY <1>4
    <2>2. t.do \notin Telling
      BY DEF Telling
    <2>. QED BY <2>1, <2>2, CallbackLosesNone, NoneLostTold DEF NoAgentPost, Telling
  <1>8. Goes(new)
    BY <1>2, <1>4, <1>6 DEF Goes
  <1>. QED BY <1>7, <1>8, StepKeeps

LEMMA SaveRowKeeps ==
    ASSUME DeleteInv, NEW t \in Work, SaveRow(t)
    PROVE  Kept
  <1>1. BaseInv /\ IsTask(t)
    BY DEF DeleteInv, BaseInv, ShapeInv
  <1>2. /\ UNCHANGED <<wire, posts, notes, undone, history>> /\ t.do = "Row" /\ Replace(t, {})
        /\ rows' = [id \in DOMAIN rows \cup {t.id} |-> IF id = t.id THEN t.post ELSE rows[id]]
    BY DEF SaveRow, Finish, whatsapp, chatwoot, memory
  <1>3. /\ DOMAIN rows' \subseteq Nat /\ IsFiniteSet(DOMAIN rows')
        /\ \A id \in DOMAIN rows' : \/ rows'[id] = t.post /\ id = t.id
                                    \/ id \in DOMAIN rows /\ rows'[id] = rows[id]
    BY <1>1, <1>2, RowWritten DEF IsTask
  <1>4. SoundTasks({})
    BY DEF SoundTasks
  <1>5. CASE t.post # 0
    <2>1. t.do \in {"Row", "Link"} /\ t \notin {}
      BY <1>2
    <2>. QED BY <1>2, <1>3, <1>4, <1>5, <2>1, LinkKeeps
  <1>6. CASE t.post = 0
    <2>1. TaskStep({}) /\ Work \ {t} \subseteq Work'
      BY <1>1, <1>2, ReplaceSteps
    <2>2. NoNewLink
      BY <1>3, <1>6 DEF NoNewLink
    <2>3. Told
      BY <1>2, <2>1, CallbackLosesNone, NoneLostTold DEF NoAgentPost, Telling
    <2>4. WireGrows /\ NoNewSending
      BY <1>1, <1>2, SameGrow DEF NoNewSending
    <2>5. RowsShape
      BY <1>1, <1>2, <1>3 DEF RowsShape, BaseInv, ShapeInv
    <2>. QED BY <1>2, <1>4, <2>1, <2>2, <2>3, <2>4, <2>5, RowsKeep
  <1>. QED BY <1>5, <1>6

LEMMA LinkRowKeeps ==
    ASSUME DeleteInv, NEW t \in Work, LinkRow(t)
    PROVE  Kept
  <1>1. t.do = "Link" /\ UNCHANGED <<wire, posts, notes, undone, history>>
    BY DEF LinkRow, whatsapp, chatwoot, memory
  <1>2. /\ BaseInv /\ IsTask(t) /\ t.id \in Nat \ {0} /\ t.then # "ClearCache"
        /\ t.post \in DOMAIN posts /\ t.post # 0 /\ posts[t.post].by = "agent"
    BY <1>1, SendersPost
  <1>4. rows' = [id \in DOMAIN rows |-> IF id = t.id THEN t.post ELSE rows[id]]
    BY DEF LinkRow
  <1>5. DOMAIN rows' = DOMAIN rows /\ DOMAIN rows \subseteq Nat /\ IsFiniteSet(DOMAIN rows)
    BY <1>2, <1>4 DEF BaseInv, ShapeInv
  <1>6. \A id \in DOMAIN rows' : \/ rows'[id] = t.post /\ id = t.id
                                 \/ id \in DOMAIN rows /\ rows'[id] = rows[id]
    BY <1>4
  <1>7. IsFiniteSet(DOMAIN rows') /\ DOMAIN rows' \subseteq Nat
    BY <1>5
  <1>8. PICK d \in {"Source", "Read", "Next"} : /\ Replace(t, {[t EXCEPT !.do = d]})
                                                /\ d = "Next" => Album(t.post)
    <2>1. CASE On("import")
      BY <2>1 DEF LinkRow, Continue
    <2>2. CASE ~ On("import")
      BY <2>2 DEF LinkRow, AfterLink, Continue, Album
    <2>. QED BY <2>1, <2>2
  <1>9. PICK u : u = [t EXCEPT !.do = d]
    OBVIOUS
  <1>10. After(u, t, d, t.id, t.post)
    BY <1>2, <1>9, GoesOn
  <1>11. /\ t.post \in DOMAIN posts' /\ posts'[t.post].by = "agent"
         /\ Album(t.post)' <=> Album(t.post)
    BY <1>1, <1>2 DEF Album
  <1>12. IsTask(u) /\ About(u)' /\ Sound(u)' /\ ~ Holder(u)' /\ u.do # "DeletePost"
    BY <1>2, <1>8, <1>10, <1>11, ReadIsSound
  <1>13. SoundTasks({u}) /\ Replace(t, {u}) /\ u # t
    BY <1>1, <1>8, <1>9, <1>10, <1>12 DEF SoundTasks, After
  <1>14. \A v \in {u} : ~ Holder(v)' /\ v.do # "DeletePost"
    BY <1>12
  <1>15. t \notin {u} /\ t.do \in {"Row", "Link"}
    BY <1>1, <1>13
  <1>. QED BY <1>1, <1>2, <1>6, <1>7, <1>13, <1>14, <1>15, LinkKeeps

\* Rows are deleted.
LEMMA FewerRows ==
    ASSUME BaseInv, NEW S, S \subseteq DOMAIN rows, rows' = [id \in S |-> rows[id]],
           UNCHANGED history
    PROVE  RowsShape /\ NoNewLink
  <1>1. DOMAIN rows \subseteq Nat /\ IsFiniteSet(DOMAIN rows) /\ history \in Seq(Nat)
    BY DEF BaseInv, ShapeInv
  <1>2. DOMAIN rows' = S /\ IsFiniteSet(S)
    BY <1>1, FS_Subset
  <1>3. IsFiniteSet(DOMAIN rows')
    BY <1>2
  <1>. QED BY <1>1, <1>2, <1>3 DEF RowsShape, NoNewLink

LEMMA DropRowsKeeps ==
    ASSUME DeleteInv, NEW t \in Work, DropRows(t)
    PROVE  Kept
  <1>1. /\ UNCHANGED <<wire, posts, notes, undone, history>> /\ t.do = "DropRows" /\ Replace(t, {})
        /\ rows' = [id \in {id \in DOMAIN rows : rows[id] # t.post} |-> rows[id]]
    BY DEF DropRows, Finish, whatsapp, chatwoot, memory
  <1>2. BaseInv
    BY DEF DeleteInv
  <1>3. TaskStep({}) /\ Work \ {t} \subseteq Work'
    BY <1>1, <1>2, ReplaceSteps
  <1>4. {id \in DOMAIN rows : rows[id] # t.post} \subseteq DOMAIN rows
    OBVIOUS
  <1>5. RowsShape /\ NoNewLink
    BY <1>1, <1>2, <1>4, FewerRows
  <1>6. SoundTasks({})
    BY DEF SoundTasks
  <1>7. Told
    BY <1>1, <1>3, CallbackLosesNone, NoneLostTold DEF NoAgentPost, Telling
  <1>8. WireGrows /\ NoNewSending
    BY <1>1, <1>2, SameGrow DEF NoNewSending
  <1>. QED BY <1>1, <1>3, <1>5, <1>6, <1>7, <1>8, RowsKeep

-----------------------------------------------------------------------------
(* The callbacks that delete *)

LEMMA OwnersAreOne ==
    ASSUME DeleteInv, NEW p \in DOMAIN posts, ~ Album(p), NEW i, NEW j, Owns(i, p), Owns(j, p)
    PROVE  i = j
  <1>1. CASE posts[p].by = "bridge"
    BY <1>1 DEF Owns
  <1>2. CASE posts[p].by = "agent"
    <2>1. /\ i \in DOMAIN wire /\ SentFor(i, p)
          /\ j \in DOMAIN wire /\ SentFor(j, p)
      BY <1>2 DEF Owns
    <2>2. \A k \in DOMAIN wire : SentFor(k, p) => k = i
      BY <2>1 DEF DeleteInv, SoundWire, SentFor
    <2>. QED BY <2>1, <2>2 DEF SentFor
  <1>. QED BY <1>1, <1>2 DEF Owns

LEMMA FindRowKeeps ==
    ASSUME DeleteInv, NEW t \in Work, FindRow(t)
    PROVE  Kept
  <1>1. t.do = "FindRow" /\ UNCHANGED <<wire, rows, posts, notes, undone, history>>
    BY DEF FindRow, whatsapp, database, chatwoot, memory
  <1>2. CASE Finish(t)
    <2>1. CalmStep(t)
      BY <1>2, OthersAreCalm DEF OtherCalm, DeleteInv
    <2>. QED BY <2>1, CalmKeeps
  <1>3. CASE /\ t.id \in DOMAIN rows /\ rows[t.id] # 0
             /\ Replace(t, {[t EXCEPT !.do = "DropRow", !.post = rows[t.id]]})
    <2>1. PICK p : p = rows[t.id]
      OBVIOUS
    <2>2. PICK u : u = [t EXCEPT !.do = "DropRow", !.post = p]
      OBVIOUS
    <2>3. Replace(t, {u})
      BY <1>3, <2>1, <2>2
    <2>4. /\ BaseInv /\ IsTask(t) /\ t.id # 0 /\ t.then # "ClearCache"
          /\ p \in DOMAIN posts /\ Owns(t.id, p) /\ Free(p)
      BY <1>1, <1>3, <2>1 DEF DeleteInv, BaseInv, ShapeInv, About, NoIdDos, SoundRow
    <2>5. IsTask(u) /\ u.do = "DropRow" /\ u.id = t.id /\ u.post = p /\ u.then # "ClearCache"
      BY <2>2, <2>4 DEF IsTask, TaskFields
    <2>6. TaskStep({u}) /\ Work \ {t} \subseteq Work'
      BY <2>3, <2>4, ReplaceSteps
    <2>7. About(u)'
      BY <1>1, <2>4, <2>5 DEF About, PostDos, NoIdDos
    <2>8. ~ Holder(u)'
      BY <2>5 DEF Holder, Writer, Sender
    <2>9. WireGrows /\ PostsGrow /\ RowsShape /\ NoNewLink /\ NoNewSending
      BY <1>1, <2>4, SameGrow DEF NoNewLink, NoNewSending
    <2>10. Free(p)'
      <3>1. SUFFICES ASSUME NEW v \in Work', Holder(v)'
                     PROVE  v.post # p
        BY DEF Free
      <3>2. v \in Work /\ Holder(v)
        BY <2>4, <2>6, <2>8, <2>9, <3>1, HoldersStay DEF TaskStep
      <3>. QED BY <2>4, <3>2 DEF Free
    <2>11. Owns(u.id, p)'
      BY <2>4, <2>5, <2>9, OwnersStay
    <2>12. Sound(u)'
      BY <2>5, <2>8, <2>10, <2>11 DEF Sound, Writer, Sender
    <2>13. SoundTasks({u})
      BY <2>5, <2>7, <2>12 DEF SoundTasks
    <2>14. Told
      BY <1>1, <2>6, CallbackLosesNone, NoneLostTold DEF NoAgentPost, Telling
    <2>. QED BY <1>1, <2>6, <2>9, <2>13, <2>14, RowsKeep
  <1>. QED BY <1>2, <1>3 DEF FindRow

LEMMA DropRowKeeps ==
    ASSUME DeleteInv, NEW t \in Work, DropRow(t)
    PROVE  Kept
  <1>1. /\ t.do = "DropRow" /\ UNCHANGED <<wire, posts, notes, undone, history>>
        /\ rows' = [i \in DOMAIN rows \ {t.id} |-> rows[i]]
    BY DEF DropRow, WithoutRow, whatsapp, chatwoot, memory
  <1>2. PICK u : u = [t EXCEPT !.do = "DeletePost"]
    OBVIOUS
  <1>3. Replace(t, {u})
    BY <1>2 DEF DropRow, Continue
  <1>4. /\ BaseInv /\ IsTask(t) /\ t.id # 0 /\ t.then # "ClearCache"
        /\ t.post \in DOMAIN posts /\ t.post # 0
        /\ Owns(t.id, t.post) /\ Free(t.post)
    <2>1. BaseInv /\ IsTask(t) /\ About(t) /\ Sound(t) /\ 0 \notin DOMAIN posts
      BY DEF DeleteInv, BaseInv, ShapeInv, IsList
    <2>. QED BY <1>1, <2>1 DEF About, Sound, PostDos, NoIdDos, Deleters
  <1>5. IsTask(u) /\ u.do = "DeletePost" /\ u.id = t.id /\ u.post = t.post /\ u.then # "ClearCache"
    BY <1>2, <1>4 DEF IsTask, TaskFields
  <1>6. TaskStep({u}) /\ Work \ {t} \subseteq Work'
    BY <1>3, <1>4, ReplaceSteps
  <1>7. About(u)'
    BY <1>1, <1>4, <1>5 DEF About, PostDos, NoIdDos
  <1>8. ~ Holder(u)'
    BY <1>5 DEF Holder, Writer, Sender
  <1>9. WireGrows /\ PostsGrow /\ NoNewSending
    BY <1>1, <1>4, SameGrow DEF NoNewSending
  <1>10. RowsShape /\ NoNewLink
    <2>1. DOMAIN rows \ {t.id} \subseteq DOMAIN rows
      OBVIOUS
    <2>. QED BY <1>1, <1>4, <2>1, FewerRows
  <1>11. Free(t.post)'
    <2>1. SUFFICES ASSUME NEW v \in Work', Holder(v)'
                   PROVE  v.post # t.post
      BY DEF Free
    <2>2. v \in Work /\ Holder(v)
      BY <1>4, <1>6, <1>8, <1>9, <2>1, HoldersStay DEF TaskStep
    <2>. QED BY <1>4, <2>2 DEF Free
  <1>12. Rowless(t.post)'
    <2>0. Album(t.post)' <=> Album(t.post)
      BY <1>4, <1>9, AlbumsStay
    <2>1. SUFFICES ASSUME ~ Album(t.post), NEW id \in DOMAIN rows, id # t.id, rows[id] = t.post
                   PROVE  FALSE
      BY <1>1, <2>0 DEF Rowless
    <2>2. Owns(id, t.post)
      BY <1>4, <2>1 DEF DeleteInv, SoundRow
    <2>. QED BY <1>4, <2>1, <2>2, OwnersAreOne
  <1>13. Sound(u)'
    BY <1>5, <1>8, <1>11, <1>12 DEF Sound, Writer, Sender
  <1>14. SoundTasks({u})
    BY <1>5, <1>7, <1>13 DEF SoundTasks
  <1>15. Told
    BY <1>1, <1>6, CallbackLosesNone, NoneLostTold DEF NoAgentPost, Telling
  <1>. QED BY <1>1, <1>6, <1>9, <1>10, <1>14, <1>15, RowsKeep

LEMMA DeletePostKeeps ==
    ASSUME DeleteInv, NEW t \in Work, DeletePost(t)
    PROVE  Kept
  <1>1. t.do = "DeletePost" /\ UNCHANGED <<wire, rows, notes, undone, history>>
    BY DEF DeletePost, whatsapp, database, memory
  <1>2. CASE Finish(t) /\ UNCHANGED posts
    <2>1. CalmStep(t)
      BY <1>2, OthersAreCalm DEF OtherCalm, DeleteInv
    <2>. QED BY <2>1, CalmKeeps
  <1>3. CASE /\ posts[t.post].gone = "no" /\ posts' = [posts EXCEPT ![t.post].gone = "bridge"]
             /\ Replace(t, {[NoTask EXCEPT !.do = "Deleted", !.post = t.post]})
    <2>1. PICK u : u = [NoTask EXCEPT !.do = "Deleted", !.post = t.post]
      OBVIOUS
    <2>2. Replace(t, {u})
      BY <1>3, <2>1
    <2>3. BaseInv /\ t.post \in DOMAIN posts /\ Free(t.post) /\ Rowless(t.post)
      BY <1>1 DEF DeleteInv, BaseInv, About, Sound, PostDos, Deleters
    <2>4. /\ PostsGrow /\ DOMAIN posts' = DOMAIN posts
          /\ \A p \in DOMAIN posts : posts'[p].gone = IF p = t.post THEN "bridge" ELSE posts[p].gone
      BY <1>3, <2>3, GoneChanged
    <2>5. TaskStep({u}) /\ Work \ {t} \subseteq Work'
      BY <2>2, <2>3, ReplaceSteps
    <2>6. SoundTasks({u})
      BY <2>1, <2>3, <2>4, DeletedIsSound
    <2>7. u.do = "Deleted" /\ ~ Holder(u)'
      BY <2>1 DEF NoTask, Holder, Writer, Sender
    <2>8. WireGrows /\ RowsShape
      BY <1>1, <2>3, SameGrow
    <2>9. SoundPost(t.post)'
      <3>1. ASSUME NEW v \in Work', Holder(v)'
            PROVE  v.post # t.post
        <4>1. v \in Work /\ Holder(v)
          BY <2>3, <2>4, <2>5, <2>7, <2>8, <3>1, HoldersStay DEF TaskStep
        <4>. QED BY <2>3, <4>1 DEF Free
      <3>2. Rowless(t.post)'
        BY <1>1, <2>3, <2>4, AlbumsStay DEF Rowless
      <3>3. t.post \notin undone'
        BY <1>1, <1>3 DEF DeleteInv, SoundUndone
      <3>4. ASSUME NEW v \in Work', v.do = "Undo"
            PROVE  v.post # t.post
        <4>1. v \in Work
          BY <2>5, <2>7, <3>4 DEF TaskStep
        <4>. QED BY <1>3, <3>4, <4>1 DEF DeleteInv, Sound
      <3>. QED BY <3>1, <3>2, <3>3, <3>4 DEF SoundPost, Free
    <2>10. SoundChanges
      BY <1>1, <2>4, <2>9 DEF SoundChanges
    <2>11. Told
      BY <1>1, <2>4, <2>5, CallbackLosesNone, NoneLostTold DEF NoAgentPost, Telling
    <2>12. Goes({u})
      BY <2>4, <2>5, <2>6, <2>8, <2>10 DEF Goes
    <2>. QED BY <2>11, <2>12, StepKeeps
  <1>. QED BY <1>2, <1>3 DEF DeletePost

LEMMA FindDeletedKeeps ==
    ASSUME DeleteInv, NEW t \in Work, FindDeleted(t)
    PROVE  Kept
  <1>1. t.do = "Deleted" /\ UNCHANGED <<wire, rows, posts, notes, undone, history>>
    BY DEF FindDeleted, whatsapp, database, chatwoot, memory
  <1>2. CASE Finish(t)
    <2>1. CalmStep(t)
      BY <1>2, OthersAreCalm DEF OtherCalm, DeleteInv
    <2>. QED BY <2>1, CalmKeeps
  <1>3. ASSUME NEW id \in DOMAIN rows, rows[id] = t.post,
               Replace(t, {[t EXCEPT !.do = "Undo", !.id = id]})
        PROVE  Kept
    <2>1. PICK u : u = [t EXCEPT !.do = "Undo", !.id = id]
      OBVIOUS
    <2>2. Replace(t, {u})
      BY <1>3, <2>1
    <2>3. /\ BaseInv /\ IsTask(t) /\ t.then \notin {"Row", "ClearCache"} /\ id \in Nat
          /\ t.post \in DOMAIN posts /\ t.post # 0 /\ posts[t.post].gone # "no"
      <3>1. BaseInv /\ IsTask(t) /\ About(t) /\ Sound(t) /\ 0 \notin DOMAIN posts /\ id \in Nat
        BY DEF DeleteInv, BaseInv, ShapeInv, IsList
      <3>. QED BY <1>1, <3>1 DEF About, Sound, PostDos, NoIdDos, IsTask
    <2>4. Whole(t.post)
      BY <1>3, <2>3 DEF DeleteInv, SoundRow
    <2>5. Whole(t.post)'
      BY <1>1, <2>4 DEF Whole, Album
    <2>6. /\ IsTask(u) /\ u.do = "Undo" /\ u.id = id /\ u.post = t.post
          /\ u.then \notin {"Row", "ClearCache"}
      BY <2>1, <2>3 DEF IsTask, TaskFields
    <2>7. About(u)' /\ Sound(u)'
      BY <1>1, <2>3, <2>5, <2>6
         DEF About, PostDos, NoIdDos, Sound, Holder, Writer, Sender, Deleters
    <2>8. TaskStep({u}) /\ Work \ {t} \subseteq Work'
      BY <2>2, <2>3, ReplaceSteps
    <2>9. SoundTasks({u})
      BY <2>6, <2>7 DEF SoundTasks
    <2>10. WireGrows /\ RowsShape /\ NoNewLink /\ NoNewSending
      BY <1>1, <2>3, SameGrow DEF NoNewLink, NoNewSending
    <2>11. Told
      BY <1>1, <2>8, CallbackLosesNone, NoneLostTold DEF NoAgentPost, Telling
    <2>. QED BY <1>1, <2>8, <2>9, <2>10, <2>11, RowsKeep
  <1>. QED BY <1>2, <1>3 DEF FindDeleted

LEMMA UndoKeeps ==
    ASSUME DeleteInv, NEW t \in Work, Undo(t)
    PROVE  Kept
  <1>1. t.do = "Undo" /\ UNCHANGED <<wire, rows, posts, notes, history>>
    BY DEF Undo, database, chatwoot, memory
  <1>2. CASE Finish(t) /\ UNCHANGED undone
    <2>1. CalmStep(t)
      BY <1>2, OthersAreCalm DEF OtherCalm, DeleteInv
    <2>. QED BY <2>1, CalmKeeps
  <1>3. CASE undone' = undone \cup {t.post} /\ Continue(t, "DropRows")
    <2>1. PICK u : u = [t EXCEPT !.do = "DropRows"]
      OBVIOUS
    <2>2. Replace(t, {u})
      BY <1>3, <2>1 DEF Continue
    <2>3. /\ BaseInv /\ IsTask(t) /\ t.then \notin {"Row", "ClearCache"}
          /\ t.post \in DOMAIN posts /\ posts[t.post].gone # "no" /\ Whole(t.post)
      <3>1. BaseInv /\ IsTask(t) /\ About(t) /\ Sound(t)
        BY DEF DeleteInv, BaseInv, ShapeInv
      <3>. QED BY <1>1, <3>1 DEF About, Sound, PostDos, NoIdDos
    <2>4. /\ IsTask(u) /\ u.do = "DropRows" /\ u.id = t.id /\ u.post = t.post
          /\ u.then \notin {"Row", "ClearCache"}
      BY <2>1, <2>3 DEF IsTask, TaskFields
    <2>5. About(u)' /\ Sound(u)'
      BY <1>1, <2>3, <2>4 DEF About, PostDos, NoIdDos, Sound, Holder, Writer, Sender, Deleters
    <2>6. TaskStep({u}) /\ Work \ {t} \subseteq Work'
      BY <2>2, <2>3, ReplaceSteps
    <2>7. SoundTasks({u})
      BY <2>4, <2>5 DEF SoundTasks
    <2>8. WireGrows /\ PostsGrow /\ RowsShape
      BY <1>1, <2>3, SameGrow
    <2>9. SoundUndone(t.post)'
      BY <1>1, <2>3 DEF SoundUndone, Whole, Album
    <2>10. SoundChanges
      BY <1>1, <1>3, <2>9 DEF SoundChanges
    <2>11. Told
      BY <1>1, <2>6, CallbackLosesNone, NoneLostTold DEF NoAgentPost, Telling
    <2>12. Goes({u})
      BY <2>6, <2>7, <2>8, <2>10 DEF Goes
    <2>. QED BY <2>11, <2>12, StepKeeps
  <1>. QED BY <1>2, <1>3 DEF Undo

-----------------------------------------------------------------------------
(* The callbacks that send *)

\* Who holds a post hands it over.
LEMMA HandOver ==
    ASSUME DeleteInv, NEW t \in Work, Holder(t), NEW u, u # t, Writer(u), u.post = t.post,
           u.do # "DropRow", Replace(t, {u}), WireGrows, UNCHANGED posts, NoNewLink,
           Owns(u.id, u.post)'
    PROVE  Sound(u)' /\ Work' = (Work \ {t}) \cup {u}
  <1>1. BaseInv /\ Sound(t) /\ PostsGrow
    BY SameGrow DEF DeleteInv
  <1>2. tasks[t] = 1 /\ t.post \in DOMAIN posts /\ t.post # 0
    BY <1>1, HoldersStay DEF Sound
  <1>3. TaskStep({u}) /\ Work' = (Work \ {t}) \cup {u}
    BY <1>1, <1>2, ReplaceSteps
  <1>4. u \notin Work
    BY <1>1 DEF Sound, Holder
  <1>5. tasks'[u] = 1
    BY <1>3, <1>4 DEF TaskStep
  <1>6. ASSUME NEW v \in Work', Holder(v)', v.post = u.post
        PROVE  v = u
    <2>1. SUFFICES ASSUME v \in Work, v # t
                   PROVE  FALSE
      BY <1>3, <1>6
    <2>2. Holder(v)
      BY <1>1, <1>6, <2>1, HoldersStay
    <2>. QED BY <1>1, <1>6, <2>1, <2>2 DEF Sound
  <1>7. \A v \in Work' : v.do \in Deleters => v.post # u.post
    BY <1>1, <1>3 DEF Sound, Writer, Deleters
  <1>8. Rowless(u.post)'
    <2>1. Rowless(t.post) /\ ~ Album(t.post)
      BY <1>1 DEF Sound, Holder, Writer, Sender
    <2>. QED BY <1>2, <2>1 DEF Rowless, NoNewLink
  <1>9. posts'[u.post].gone # "bridge"
    BY <1>1 DEF Sound
  <1>10. ~ Sender(u)' /\ u.do \notin Deleters
         /\ u.do \notin {"DeletePost", "Deleted", "Undo", "DropRows"}
    BY DEF Writer, Sender, Deleters
  <1>11. Sound(u)'
    BY <1>5, <1>6, <1>7, <1>8, <1>9, <1>10 DEF Sound
  <1>. QED BY <1>3, <1>11

LEMMA SendPostKeeps ==
    ASSUME DeleteInv, NEW t \in Work, SendPost(t)
    PROVE  Kept
  <1>1. /\ Sending(t) /\ t.do \in {"Webhook", "Next"}
        /\ UNCHANGED <<rows, posts, notes, undone, history>>
    BY DEF SendPost, Sending, database, chatwoot, memory
  <1>2. /\ BaseInv /\ IsTask(t) /\ About(t) /\ Sound(t)
        /\ t.post \in DOMAIN posts /\ t.post # 0 /\ t.then # "ClearCache"
    <2>1. BaseInv /\ IsTask(t) /\ About(t) /\ Sound(t) /\ 0 \notin DOMAIN posts
      BY DEF DeleteInv, BaseInv, ShapeInv, IsList
    <2>. QED BY <1>1, <2>1 DEF About, PostDos
  <1>3. posts[t.post].by = "agent"
    BY <1>1, <1>2 DEF BaseInv, About, Writers, Sending
  <1>4. ~ Album(t.post) => t.do = "Webhook" /\ Sender(t) /\ Holder(t)
    BY <1>1, <1>2, <1>3 DEF About, Sender, Holder
  <1>5. PICK i, kind : i = Len(wire') /\ wire' = Append(wire, Said("agent", kind, t.post))
    BY DEF SendPost
  <1>6. /\ WireGrows /\ i \in Nat \ {0} /\ i \notin DOMAIN wire
        /\ DOMAIN wire' = DOMAIN wire \cup {i}
        /\ wire'[i].by = "agent" /\ wire'[i].from = t.post
    BY <1>2, <1>5, Appended
  <1>7. PICK u : u = [t EXCEPT !.do = "Sent", !.id = i]
    OBVIOUS
  <1>8. IsTask(u) /\ u.do = "Sent" /\ u.id = i /\ u.post = t.post /\ u.then # "ClearCache"
    BY <1>2, <1>6, <1>7 DEF IsTask, TaskFields
  <1>9. Replace(t, {u})
    BY <1>5, <1>7 DEF SendPost
  <1>10. TaskStep({u}) /\ Work \ {t} \subseteq Work'
    BY <1>2, <1>9, ReplaceSteps
  <1>11. About(u)'
    BY <1>1, <1>2, <1>3, <1>6, <1>8 DEF About, PostDos, NoIdDos
  <1>12. NoNewLink /\ PostsGrow /\ RowsShape /\ (Album(t.post)' <=> Album(t.post))
    BY <1>1, <1>2, SameGrow DEF NoNewLink, Album
  <1>13. ASSUME ~ Album(t.post)
         PROVE  Sound(u)' /\ Work' = (Work \ {t}) \cup {u}
    <2>1. Owns(u.id, u.post)'
      BY <1>1, <1>3, <1>6, <1>8 DEF Owns, SentFor
    <2>2. Writer(u) /\ u # t /\ u.do # "DropRow"
      BY <1>1, <1>2, <1>8, <1>13 DEF Writer
    <2>. QED BY <1>1, <1>4, <1>6, <1>8, <1>9, <1>12, <1>13, <2>1, <2>2, HandOver
  <1>14. Sound(u)'
    <2>1. CASE Album(t.post)
      BY <1>8, <1>12, <2>1 DEF Sound, Holder, Writer, Sender, Deleters
    <2>. QED BY <1>13, <2>1
  <1>15. SoundTasks({u})
    BY <1>8, <1>11, <1>14 DEF SoundTasks
  <1>16. ASSUME ~ Album(t.post)
         PROVE  SoundWire(i)'
    <2>1. ASSUME NEW j \in DOMAIN wire', SentFor(j, t.post)'
          PROVE  j = i
      <3>1. CASE j \in DOMAIN wire
        BY <1>2, <1>4, <1>6, <1>16, <2>1, <3>1 DEF Sound, SentFor, WireGrows
      <3>. QED BY <1>6, <3>1
    <2>2. ASSUME NEW v \in Work', Sender(v)'
          PROVE  v.post # t.post
      <3>1. v # u
        BY <1>8, <2>2 DEF Sender
      <3>2. v \in Work /\ v # t
        BY <1>13, <1>16, <3>1
      <3>3. Holder(v)
        BY <1>2, <1>6, <1>12, <2>2, <3>2, HoldersStay DEF Holder
      <3>. QED BY <1>2, <1>4, <1>16, <3>2, <3>3 DEF Sound
    <2>. QED BY <1>1, <1>2, <1>6, <2>1, <2>2 DEF SoundWire, SentFor
  <1>17. ASSUME Album(t.post)
         PROVE  SoundWire(i)'
    BY <1>1, <1>2, <1>6, <1>12, <1>17 DEF SoundWire, Sender
  <1>18. SoundChanges
    BY <1>1, <1>6, <1>16, <1>17 DEF SoundChanges
  <1>19. Told
    <2>1. \A p : Pending(p) => Pending(p)' \/ p = t.post
      BY <1>10 DEF Pending
    <2>2. OnWire(t.post)'
      BY <1>6 DEF OnWire
    <2>. QED BY <1>1, <2>1, <2>2 DEF Told
  <1>20. Goes({u})
    BY <1>6, <1>10, <1>12, <1>15, <1>18 DEF Goes
  <1>. QED BY <1>19, <1>20, StepKeeps

LEMMA SendTemplateKeeps ==
    ASSUME DeleteInv, NEW t \in Work, SendTemplate(t)
    PROVE  Kept
  <1>1. /\ t.do = "Webhook" /\ posts[t.post].by = "template"
        /\ UNCHANGED <<rows, posts, notes, undone, history>>
    BY DEF SendTemplate, database, chatwoot, memory
  <1>2. CASE Finish(t) /\ UNCHANGED wire
    <2>1. CalmStep(t)
      BY <1>2, OthersAreCalm DEF OtherCalm, DeleteInv
    <2>. QED BY <2>1, CalmKeeps
  <1>3. CASE SendMessage("template", "text", t.post) /\ Replace(t, EventOfSent)
    <2>1. BaseInv
      BY DEF DeleteInv
    <2>2. wire' = Append(wire, Said("template", "text", t.post))
      BY <1>3 DEF SendMessage
    <2>3. /\ WireGrows /\ Len(wire') \in Nat \ {0}
          /\ DOMAIN wire' = DOMAIN wire \cup {Len(wire')} /\ wire'[Len(wire')].by = "template"
      BY <2>1, <2>2, Appended
    <2>4. \A u \in EventOfSent : Calm(u)
      BY <2>3, CalmBeginnings DEF EventOfSent
    <2>5. PICK new : new = EventOfSent
      OBVIOUS
    <2>6. SoundTasks(new)
      BY <2>4, <2>5, CalmIsSound
    <2>7. TaskStep(new) /\ Work \ {t} \subseteq Work'
      BY <1>3, <2>1, <2>5, ReplaceSteps
    <2>8. RowsShape /\ NoNewLink /\ NoNewSending
      BY <1>1, <2>1, <2>3, SameGrow DEF NoNewLink, NoNewSending
    <2>9. Told
      BY <1>1, <2>7, CallbackLosesNone, NoneLostTold DEF NoAgentPost, Telling
    <2>. QED BY <1>1, <2>3, <2>6, <2>7, <2>8, <2>9, RowsKeep
  <1>. QED BY <1>2, <1>3 DEF SendTemplate

\* The note that tells an agent.
LEMMA TellsSoundly ==
    ASSUME DeleteInv, NEW t \in Work, t.post \in DOMAIN posts, UNCHANGED posts, Tell(t)
    PROVE  \E new : /\ Replace(t, new) /\ SoundTasks(new)
                    /\ AgentText(t.post) => \E u \in new : u.post = t.post /\ u.do \in Telling
  <1>1. PICK u : u = [NoTask EXCEPT !.do = "Note", !.post = t.post]
    OBVIOUS
  <1>2. /\ DOMAIN NoTask = TaskFields /\ NoTask.id = 0 /\ NoTask.then = "" /\ NoTask.list = << >>
        /\ << >> \in Seq(Nat) /\ 0 \in Nat
    BY EmptySeq DEF NoTask, TaskFields
  <1>3. IsTask(u) /\ u.do = "Note" /\ u.post = t.post /\ u.then = ""
    BY <1>1, <1>2 DEF IsTask, TaskFields
  <1>4. About(u)' /\ Sound(u)'
    BY <1>3 DEF About, PostDos, NoIdDos, Sound, Holder, Writer, Sender, Deleters
  <1>5. CASE posts[t.post].kind = "text"
    <2>1. Replace(t, {u}) /\ SoundTasks({u})
      BY <1>1, <1>3, <1>4, <1>5 DEF Tell, SoundTasks
    <2>. QED BY <1>3, <2>1 DEF Telling
  <1>6. CASE posts[t.post].kind # "text"
    <2>1. Replace(t, {}) /\ SoundTasks({})
      BY <1>6 DEF Tell, SoundTasks
    <2>. QED BY <1>6, <2>1 DEF AgentText
  <1>. QED BY <1>5, <1>6

\* A callback ends, or a note is all that it leads to.
LEMMA EndsKeep ==
    ASSUME DeleteInv, NEW t \in Work, NEW new, Replace(t, new), SoundTasks(new),
           UNCHANGED <<wire, rows, posts, undone, history>>, notes \subseteq notes',
           \/ t.do \notin Telling
           \/ Blind \/ t.post \in notes' \/ posts[t.post].gone = "conv"
           \/ AgentText(t.post) => \E u \in new : u.post = t.post /\ u.do \in Telling
    PROVE  Kept
  <1>1. BaseInv
    BY DEF DeleteInv
  <1>2. TaskStep(new) /\ Work \ {t} \subseteq Work' /\ new \subseteq Work'
    BY <1>1, ReplaceSteps DEF TaskStep
  <1>3. WireGrows /\ RowsShape /\ NoNewLink /\ NoNewSending
    BY <1>1, SameGrow DEF NoNewLink, NoNewSending
  <1>4. \A p : Pending(p) => Pending(p)' \/ (p = t.post /\ t.do \in Telling)
    BY <1>2 DEF Pending
  <1>5. (\E u \in new : u.post = t.post /\ u.do \in Telling) => Pending(t.post)'
    BY <1>2 DEF Pending
  <1>6. Told
    BY <1>4, <1>5 DEF Told
  <1>. QED BY <1>1, <1>2, <1>3, <1>6, RowsKeep

LEMMA SendFailsKeeps ==
    ASSUME DeleteInv, NEW t \in Work, SendFails(t)
    PROVE  Kept
  <1>1. /\ Tell(t) /\ t.do \in {"Webhook", "Next"}
        /\ UNCHANGED <<wire, rows, posts, notes, undone, history>>
    BY DEF SendFails, Sending, whatsapp, database, chatwoot, memory
  <1>2. t.post \in DOMAIN posts
    BY <1>1 DEF DeleteInv, BaseInv, About, PostDos
  <1>. QED BY <1>1, <1>2, TellsSoundly, EndsKeep

LEMMA NoteKeeps ==
    ASSUME DeleteInv, NEW t \in Work, Note(t) \/ WebhookFails(t)
    PROVE  Kept
  <1>1. /\ Replace(t, {}) /\ UNCHANGED <<wire, rows, posts, undone, history>>
        /\ notes \subseteq notes'
    BY DEF Note, WebhookFails, Finish, whatsapp, database, chatwoot, memory
  <1>2. SoundTasks({})
    BY DEF SoundTasks
  <1>3. \/ t.do \notin Telling
        \/ Blind \/ t.post \in notes' \/ posts[t.post].gone = "conv"
    BY DEF Note, WebhookFails, Telling
  <1>. QED BY <1>1, <1>2, <1>3, EndsKeep

LEMMA SentRowKeeps ==
    ASSUME DeleteInv, NEW t \in Work, SentRow(t)
    PROVE  Kept
  <1>1. t.do = "Sent" /\ UNCHANGED <<wire, posts, notes, undone, history>>
    BY DEF SentRow, whatsapp, chatwoot, memory
  <1>2. /\ BaseInv /\ IsTask(t) /\ t.id \in Nat \ {0} /\ t.then # "ClearCache"
        /\ t.post \in DOMAIN posts /\ t.post # 0 /\ posts[t.post].by = "agent"
    BY <1>1, SendersPost
  <1>3. WireGrows /\ PostsGrow /\ NoNewSending
    BY <1>1, <1>2, SameGrow DEF NoNewSending
  <1>4. CASE Tell(t) /\ UNCHANGED rows
    BY <1>1, <1>2, <1>4, TellsSoundly, EndsKeep DEF Telling
  <1>5. CASE /\ rows' = [id \in DOMAIN rows \cup {t.id} |-> IF id = t.id THEN 0 ELSE rows[id]]
             /\ Continue(t, "Link")
    <2>1. PICK u : u = [t EXCEPT !.do = "Link"]
      OBVIOUS
    <2>2. Replace(t, {u})
      BY <1>5, <2>1 DEF Continue
    <2>3. IsTask(u) /\ u.do = "Link" /\ u.id = t.id /\ u.post = t.post /\ u.then # "ClearCache"
      BY <1>2, <2>1 DEF IsTask, TaskFields
    <2>4. RowsShape /\ NoNewLink
      <3>1. /\ DOMAIN rows' \subseteq Nat /\ IsFiniteSet(DOMAIN rows')
            /\ \A id \in DOMAIN rows' : \/ rows'[id] = 0 /\ id = t.id
                                        \/ id \in DOMAIN rows /\ rows'[id] = rows[id]
        BY <1>2, <1>5, RowWritten DEF IsTask
      <3>2. history' \in Seq(Nat)
        BY <1>1, <1>2 DEF BaseInv, ShapeInv
      <3>. QED BY <3>1, <3>2 DEF RowsShape, NoNewLink
    <2>5. ASSUME ~ Album(t.post)
          PROVE  Sound(u)'
      <3>1. Writer(t) /\ Holder(t) /\ Writer(u) /\ u # t /\ u.do # "DropRow"
        BY <1>1, <1>2, <2>3, <2>5 DEF Writer, Holder
      <3>2. Owns(t.id, t.post)
        BY <3>1 DEF DeleteInv, Sound
      <3>3. Owns(u.id, u.post)'
        BY <1>2, <1>3, <2>3, <3>2, OwnersStay
      <3>. QED BY <1>1, <1>3, <2>2, <2>3, <2>4, <3>1, <3>3, HandOver
    <2>6. ASSUME Album(t.post)
          PROVE  Sound(u)'
      <3>1. Album(u.post)'
        BY <1>1, <2>3, <2>6 DEF Album
      <3>. QED BY <2>3, <3>1 DEF Sound, Holder, Writer, Sender, Deleters
    <2>7. Sound(u)'
      BY <2>5, <2>6
    <2>8. About(u)'
      BY <1>1, <1>2, <2>3 DEF About, PostDos, NoIdDos
    <2>9. SoundTasks({u})
      BY <2>3, <2>7, <2>8 DEF SoundTasks
    <2>10. TaskStep({u}) /\ Work \ {t} \subseteq Work'
      BY <1>2, <2>2, ReplaceSteps
    <2>11. Told
      BY <1>1, <1>5, <2>10, CallbackLosesNone, NoneLostTold DEF NoAgentPost, Telling
    <2>. QED BY <1>1, <1>3, <2>4, <2>9, <2>10, <2>11, RowsKeep
  <1>. QED BY <1>4, <1>5 DEF SentRow

-----------------------------------------------------------------------------
(* All steps *)

LEMMA EventKeeps ==
    ASSUME DeleteInv, NEW t \in Work,
           \/ EventAction(t) \/ CreateMessage(t) \/ SendData(t) \/ SaveRow(t) \/ FindRow(t)
           \/ DropRow(t) \/ DeletePost(t) \/ FindEdited(t) \/ ShowEdit(t)
    PROVE  Kept
  <1>1. BaseInv
    BY DEF DeleteInv
  <1>2. CASE EventAction(t)
    BY <1>1, <1>2, EventsAreCalm, CalmKeeps
  <1>3. CASE CreateMessage(t)
    BY <1>3, ShownKeeps DEF CreateMessage, whatsapp, database, memory
  <1>4. CASE SendData(t)
    <2>1. CASE Replace(t, Rest(t)) /\ UNCHANGED posts
      BY <1>1, <1>4, <2>1, OthersAreCalm, CalmKeeps DEF OtherCalm
    <2>2. CASE Shown(t)
      BY <1>4, <2>2, ShownKeeps DEF SendData, whatsapp, database, memory
    <2>. QED BY <1>4, <2>1, <2>2 DEF SendData
  <1>5. CASE FindEdited(t)
    BY <1>1, <1>5, OthersAreCalm, CalmKeeps DEF OtherCalm
  <1>. QED BY <1>2, <1>3, <1>4, <1>5, SaveRowKeeps, FindRowKeeps, DropRowKeeps, DeletePostKeeps,
              ShowEditKeeps

LEMMA WebhookKeeps ==
    ASSUME DeleteInv, NEW t \in Work,
           \/ ClearConversation(t) \/ Connect(t) \/ Disconnect(t) \/ ClearCache(t) \/ IgnorePost(t)
           \/ SendPost(t) \/ SendTemplate(t) \/ SendFails(t) \/ SentRow(t) \/ LinkRow(t)
           \/ UpdateSourceID(t) \/ MarkRead(t) \/ FindDeleted(t) \/ Undo(t) \/ DropRows(t)
           \/ Note(t) \/ WebhookFails(t)
    PROVE  Kept
  <1>1. BaseInv
    BY DEF DeleteInv
  <1>2. CASE \/ ClearConversation(t) \/ Connect(t) \/ Disconnect(t) \/ ClearCache(t)
             \/ IgnorePost(t) \/ MarkRead(t)
    BY <1>1, <1>2, OthersAreCalm, CalmKeeps DEF OtherCalm
  <1>. QED BY <1>2, SendPostKeeps, SendTemplateKeeps, SendFailsKeeps, SentRowKeeps, LinkRowKeeps,
              SourceKeeps, FindDeletedKeeps, UndoKeeps, DropRowsKeeps, NoteKeeps

LEMMA ImportKeeps ==
    ASSUME DeleteInv, NEW t \in Work,
           ImportAction(t) \/ InsertMessages(t) \/ ClearCache(t)
    PROVE  Kept
  <1>1. BaseInv
    BY DEF DeleteInv
  <1>2. CASE ImportAction(t)
    BY <1>1, <1>2, ImportsAreCalm, CalmKeeps
  <1>. QED BY <1>2, InsertKeeps, WebhookKeeps

LEMMA NextKeeps ==
    ASSUME DeleteInv, [Next]_vars
    PROVE  Kept
  <1>1. CASE FromWhatsapp
    BY <1>1, MessageKeeps, HistoryKeeps, AsksKeep DEF FromWhatsapp
  <1>2. CASE FromChatwoot
    BY <1>2, AgentKeeps, AgentDeletesKeeps, DropKeeps, AsksKeep DEF FromChatwoot
  <1>3. CASE EventStep
    BY <1>3, EventKeeps DEF EventStep, EventAction
  <1>4. CASE WebhookStep
    BY <1>4, WebhookKeeps DEF WebhookStep
  <1>5. CASE StartSync
    BY <1>5, AsksKeep
  <1>6. ASSUME NEW then, ImportStep(then)
        PROVE  Kept
    BY <1>6, ImportKeeps DEF ImportStep, ImportAction
  <1>7. CASE UNCHANGED vars
    BY <1>7, StaysKept DEF vars, whatsapp, database, chatwoot, memory
  <1>. QED BY <1>1, <1>2, <1>3, <1>4, <1>5, <1>6, <1>7 DEF Next

LEMMA InitKept ==
    ASSUME Init
    PROVE  DeleteInv /\ AgentIsTold
  <1>1. /\ Work = {} /\ IsABag(tasks)
    BY NoTasks, Zenon DEF Init, Work
  <1>2. << >> \in Seq(Nat) /\ IsList(<< >>) /\ DOMAIN << >> = {}
    BY EmptySeq, SeqIsList DEF IsList
  <1>3. /\ wire = << >> /\ rows = << >> /\ posts = << >> /\ history = << >> /\ undone = {}
    BY DEF Init
  <1>4. ShapeInv
    BY <1>1, <1>2, <1>3, FS_EmptySet DEF ShapeInv
  <1>. QED BY <1>1, <1>2, <1>3, <1>4 DEF DeleteInv, BaseInv, AgentIsTold

-----------------------------------------------------------------------------
(* What is only logged is counted *)

BlindInv == "blind" \in DOMAIN count /\ count.blind \in Nat

CountStep == \/ UNCHANGED count \/ Fault \/ Blind
             \/ \E what \in {"messages", "posts", "asks"} : \E bound : Within(what, bound)

LEMMA StepsCount ==
    ASSUME Next
    PROVE  CountStep /\ UNCHANGED config
  <1>1. CASE FromWhatsapp \/ FromChatwoot \/ StartSync
    <2>1. ASSUME NEW id, Revoke(id) \/ Edit(id) \/ Age(id) \/ AgentDeletes(id) \/ Resolve(id) \/ Drop(id)
          PROVE  CountStep /\ UNCHANGED config
      BY <2>1 DEF Revoke, Edit, Age, AgentDeletes, Resolve, Drop, CountStep
    <2>2. CASE Message \/ ApiMessage \/ History \/ Agent \/ Command \/ StartSync
      BY <2>2 DEF Message, ApiMessage, History, Agent, Command, StartSync, CountStep
    <2>. QED BY <1>1, <2>1, <2>2 DEF FromWhatsapp, FromChatwoot
  <1>2. CASE EventStep
    <2>1. ASSUME NEW t, \/ HandleEvent(t) \/ CreateConversation(t) \/ Verify(t) \/ WaitForLock(t)
                        \/ TakeLock(t) \/ DoubleCheck(t) \/ FindContact(t) \/ CreateContact(t)
                        \/ ListConversations(t) \/ NewConversation(t) \/ GiveUp(t)
          PROVE  CountStep /\ UNCHANGED config
      BY <2>1 DEF HandleEvent, CreateConversation, Verify, WaitForLock, TakeLock, DoubleCheck,
                  FindContact, CreateContact, ListConversations, NewConversation, GiveUp, CountStep
    <2>2. ASSUME NEW t, \/ CreateMessage(t) \/ DownloadMedia(t) \/ SendData(t) \/ NotShown(t)
                        \/ SaveRow(t) \/ FindRow(t) \/ DropRow(t) \/ DeletePost(t) \/ FindEdited(t)
                        \/ ShowEdit(t)
          PROVE  CountStep /\ UNCHANGED config
      BY <2>2 DEF CreateMessage, DownloadMedia, SendData, NotShown, SaveRow, FindRow, DropRow,
                  DeletePost, FindEdited, ShowEdit, CountStep
    <2>. QED BY <1>2, <2>1, <2>2 DEF EventStep
  <1>3. ASSUME NEW t, ClearCache(t)
        PROVE  CountStep /\ UNCHANGED config
    BY <1>3 DEF ClearCache, CountStep
  <1>4. CASE WebhookStep
    <2>1. ASSUME NEW t, \/ ClearConversation(t) \/ Connect(t) \/ Disconnect(t) \/ IgnorePost(t)
                        \/ SendPost(t) \/ SendTemplate(t) \/ SendFails(t) \/ SentRow(t) \/ LinkRow(t)
          PROVE  CountStep /\ UNCHANGED config
      BY <2>1 DEF ClearConversation, Connect, Disconnect, IgnorePost, SendPost, SendTemplate,
                  SendFails, SentRow, LinkRow, CountStep
    <2>2. ASSUME NEW t, \/ UpdateSourceID(t) \/ MarkRead(t) \/ FindDeleted(t) \/ Undo(t)
                        \/ DropRows(t) \/ Note(t) \/ WebhookFails(t)
          PROVE  CountStep /\ UNCHANGED config
      BY <2>2 DEF UpdateSourceID, MarkRead, FindDeleted, Undo, DropRows, Note, WebhookFails, CountStep
    <2>. QED BY <1>3, <1>4, <2>1, <2>2 DEF WebhookStep
  <1>5. ASSUME NEW then, ImportStep(then)
        PROVE  CountStep /\ UNCHANGED config
    <2>1. ASSUME NEW t, \/ SyncRows(t) \/ SyncFails(t) \/ ImportHistoryMessages(t)
                        \/ SelectOrCreateFks(t) \/ InsertMessages(t) \/ ImportFails(t)
          PROVE  CountStep /\ UNCHANGED config
      BY <2>1 DEF SyncRows, SyncFails, ImportHistoryMessages, SelectOrCreateFks, InsertMessages,
                  ImportFails, CountStep
    <2>. QED BY <1>3, <1>5, <2>1 DEF ImportStep
  <1>. QED BY <1>1, <1>2, <1>4, <1>5 DEF Next

LEMMA BlindIsLogged ==
    ASSUME BlindInv, [Next]_vars
    PROVE  BlindInv' /\ Logged
  <1>1. CountStep
    BY StepsCount DEF CountStep, vars
  <1>2. Blind => count'.blind = count.blind + 1
    BY DEF Blind, BlindInv
  <1>3. \/ UNCHANGED count
        \/ "blind" \in DOMAIN count' /\ count'.blind = count.blind
        \/ Blind
    <2>1. CASE Fault
      BY <2>1 DEF Fault, BlindInv
    <2>2. ASSUME NEW what \in {"messages", "posts", "asks"}, NEW bound, Within(what, bound)
          PROVE  "blind" \in DOMAIN count' /\ count'.blind = count.blind
      <3>1. count' = [count EXCEPT ![what] = @ + 1] /\ what # "blind"
        BY <2>2 DEF Within
      <3>. QED BY <3>1 DEF BlindInv
    <2>. QED BY <1>1, <2>1, <2>2 DEF CountStep
  <1>4. "blind" \in DOMAIN count'
    BY <1>3 DEF Blind, BlindInv
  <1>. QED BY <1>2, <1>3, <1>4 DEF BlindInv, Logged

-----------------------------------------------------------------------------
(* Theorems *)

\* A text that an agent has written is on its way, on WhatsApp, or a private note says that it
\* is not, whichever calls of its sending fail and however the callbacks interleave, unless
\* something has failed that the code only logs, the note's own request among it
\* (receiveWebhook, sendAttachment and onSendMessageError).
THEOREM AgentIsToldHolds == Spec => []AgentIsTold
  <1>1. Init => DeleteInv /\ AgentIsTold /\ BlindInv
    <2>1. Init => BlindInv
      BY DEF Init, BlindInv
    <2>. QED BY <2>1, InitKept
  <1>2. DeleteInv /\ AgentIsTold /\ BlindInv /\ [Next]_vars => (DeleteInv /\ AgentIsTold /\ BlindInv)'
    BY NextKeeps, BlindIsLogged DEF Kept
  <1>. QED BY <1>1, <1>2, PTL DEF Spec

\* What the bridge deletes on WhatsApp was not deleted in Chatwoot by the bridge, if the post has
\* no several attachments: the deletion of a message does not come back as another one
\* (eventWhatsapp deletes the row before the post, and the webhook of the post's deletion finds
\* none).
THEOREM NoDeleteLoopHolds == Spec => []NoDeleteLoop
  <1>1. Init => DeleteInv
    BY InitKept
  <1>2. DeleteInv /\ [Next]_vars => DeleteInv'
    BY NextKeeps DEF Kept
  <1>3. DeleteInv => NoDeleteLoop
    BY DEF DeleteInv, SoundUndone, Whole, Album, NoDeleteLoop
  <1>. QED BY <1>1, <1>2, <1>3, PTL DEF Spec

-----------------------------------------------------------------------------
(* No message is shown twice when nothing is imported *)

Plain == ~ On("import") /\ ~ On("history")

\* What a callback is not before a message is shown, and is not when nothing is imported.
Showing(t) == t.do \in EventDos
Importing(t) == t.do \in ImportDos \cup {"Source"}

\* Who is about to show a message is the only one, and no post shows it yet.
OnlyShower(t) ==
    /\ tasks[t] = 1 /\ t.id \in DOMAIN wire /\ wire[t.id].by # "agent"
    /\ \A u \in Work : Showing(u) /\ u.id = t.id => u = t
    /\ \A p \in DOMAIN posts : posts[p].by = "bridge" => posts[p].of # t.id

\* A post that shows a message is the only one.
OnlyPost(p) ==
    /\ posts[p].of # 0 => posts[p].by \in {"bridge", "edit"}
    /\ posts[p].by = "bridge" =>
          /\ posts[p].of \in DOMAIN wire /\ wire[posts[p].of].by # "agent"
          /\ \A q \in DOMAIN posts : posts[q].by = "bridge" /\ posts[q].of = posts[p].of => q = p

SentForPost(id) == wire[id].from # 0 => wire[id].by \in {"agent", "template"}

ShowsInv ==
    /\ \A t \in Work : ~ Importing(t) /\ (Showing(t) => OnlyShower(t))
    /\ \A p \in DOMAIN posts : OnlyPost(p)
    /\ \A id \in DOMAIN wire : SentForPost(id)

\* Nothing that was written says that it shows another message.
SameShown ==
    /\ DOMAIN posts \subseteq DOMAIN posts'
    /\ \A p \in DOMAIN posts : posts'[p].of = posts[p].of /\ posts'[p].by = posts[p].by

LEMMA OthersShowNone ==
    ASSUME ShowsInv, NEW new, TaskStep(new), WireGrows, SameShown,
           \A u \in new : ~ Importing(u) /\ ~ Showing(u),
           \A p \in DOMAIN posts' \ DOMAIN posts :
              posts'[p].by # "bridge" /\ (posts'[p].of # 0 => posts'[p].by = "edit"),
           \A id \in DOMAIN wire' \ DOMAIN wire : SentForPost(id)'
    PROVE  ShowsInv'
  <1>1. /\ DOMAIN wire \subseteq DOMAIN wire'
        /\ \A id \in DOMAIN wire : wire'[id] = wire[id]
    BY DEF WireGrows
  <1>2. ASSUME NEW t \in Work'
        PROVE  ~ Importing(t) /\ (Showing(t) => OnlyShower(t)')
    <2>1. CASE t \in new
      BY <2>1
    <2>2. CASE t \in Work /\ t \notin new
      <3>1. ~ Importing(t) /\ (Showing(t) => OnlyShower(t))
        BY <2>2 DEF ShowsInv
      <3>2. SUFFICES ASSUME Showing(t)
                     PROVE  OnlyShower(t)'
        BY <3>1
      <3>3. tasks'[t] = 1
        <4>1. tasks'[t] \leq tasks[t] /\ tasks[t] = 1
          BY <2>2, <3>1, <3>2 DEF TaskStep, OnlyShower
        <4>2. tasks'[t] \in Nat \ {0}
          BY DEF TaskStep, IsABag, Work, BagToSet
        <4>. QED BY <4>1, <4>2
      <3>4. \A u \in Work' : Showing(u) => u \in Work
        BY DEF TaskStep
      <3>. QED BY <1>1, <3>1, <3>2, <3>3, <3>4 DEF OnlyShower, SameShown
    <2>. QED BY <2>1, <2>2 DEF TaskStep
  <1>3. ASSUME NEW p \in DOMAIN posts'
        PROVE  OnlyPost(p)'
    <2>1. \A q \in DOMAIN posts' : posts'[q].by = "bridge" => q \in DOMAIN posts
      OBVIOUS
    <2>2. CASE p \in DOMAIN posts
      <3>1. OnlyPost(p)
        BY <2>2 DEF ShowsInv
      <3>. QED BY <1>1, <2>1, <2>2, <3>1 DEF OnlyPost, SameShown
    <2>3. CASE p \notin DOMAIN posts
      BY <2>3 DEF OnlyPost
    <2>. QED BY <2>2, <2>3
  <1>4. ASSUME NEW id \in DOMAIN wire'
        PROVE  SentForPost(id)'
    BY <1>1 DEF ShowsInv, SentForPost
  <1>. QED BY <1>2, <1>3, <1>4 DEF ShowsInv, Importing, Showing

\* A callback that is to show a message goes on.
LEMMA ShowerGoesOn ==
    ASSUME BaseInv, ShowsInv, NEW t \in Work, Showing(t), NEW u, u.do \in EventDos, u.id = t.id,
           Replace(t, {u}), UNCHANGED <<wire, posts>>
    PROVE  ShowsInv'
  <1>1. tasks[t] = 1 /\ OnlyShower(t)
    BY DEF ShowsInv, OnlyShower
  <1>2. /\ TaskStep({u}) /\ Work' = (Work \ {t}) \cup {u}
        /\ u = t => tasks'[t] = 1
    BY <1>1, ReplaceSteps
  <1>3. tasks'[u] = 1
    <2>1. u \in Work => u = t
      BY <1>1 DEF OnlyShower, Showing
    <2>. QED BY <1>2, <2>1 DEF TaskStep
  <1>4. ~ Importing(u) /\ Showing(u)
    BY DEF Importing, Showing, EventDos, ImportDos
  <1>5. OnlyShower(u)'
    BY <1>1, <1>2, <1>3 DEF OnlyShower
  <1>6. ASSUME NEW v \in Work, v # t, v # u, v \in Work'
        PROVE  ~ Importing(v) /\ (Showing(v) => OnlyShower(v)')
    <2>1. ~ Importing(v) /\ (Showing(v) => OnlyShower(v))
      BY <1>6 DEF ShowsInv
    <2>2. SUFFICES ASSUME Showing(v)
                   PROVE  OnlyShower(v)'
      BY <2>1
    <2>3. tasks'[v] = 1
      <3>1. tasks'[v] \leq tasks[v] /\ tasks[v] = 1
        BY <1>2, <1>6, <2>1, <2>2 DEF TaskStep, OnlyShower
      <3>2. tasks'[v] \in Nat \ {0}
        BY <1>2, <1>6 DEF TaskStep, IsABag, Work, BagToSet
      <3>. QED BY <3>1, <3>2
    <2>4. v.id # t.id
      BY <1>1, <1>6, <2>2 DEF OnlyShower
    <2>. QED BY <1>2, <2>1, <2>2, <2>3, <2>4 DEF OnlyShower
  <1>7. \A v \in Work' : ~ Importing(v) /\ (Showing(v) => OnlyShower(v)')
    BY <1>2, <1>4, <1>5, <1>6
  <1>8. (\A p \in DOMAIN posts' : OnlyPost(p)') /\ \A id \in DOMAIN wire' : SentForPost(id)'
    BY DEF ShowsInv, OnlyPost, SentForPost
  <1>. QED BY <1>7, <1>8 DEF ShowsInv, Importing, Showing

\* The message is shown.
LEMMA ShownOnceMore ==
    ASSUME DeleteInv, ShowsInv, NEW t \in Work, Showing(t), Shown(t), UNCHANGED wire
    PROVE  ShowsInv'
  <1>1. BaseInv /\ IsTask(t) /\ OnlyShower(t) /\ tasks[t] = 1 /\ t.id # 0
    BY DEF DeleteInv, BaseInv, ShapeInv, ShowsInv, OnlyShower, About, Showing, EventDos, NoIdDos
  <1>2. PICK q : q = Len(posts')
    OBVIOUS
  <1>3. /\ q \notin DOMAIN posts /\ DOMAIN posts' = DOMAIN posts \cup {q}
        /\ \A p \in DOMAIN posts : posts'[p] = posts[p]
        /\ posts'[q].by = "bridge" /\ posts'[q].of = t.id
    BY <1>1, <1>2, Posted DEF Shown, WriteIn, Writers
  <1>4. PICK new : /\ Replace(t, new)
                   /\ \A u \in new : u.do \in {"Row", "ClearCache", "Webhook"}
    <2>1. \A u \in Rest([t EXCEPT !.post = q]) : u.do \in {"Row", "ClearCache"}
      BY <1>1 DEF Rest, IsTask, TaskFields
    <2>2. Webhook(q).do = "Webhook"
      BY DEF Webhook, NoTask
    <2>. QED BY <1>2, <2>1, <2>2 DEF Shown
  <1>5. /\ TaskStep(new) /\ Work' = (Work \ {t}) \cup new
        /\ \A u \in new : ~ Importing(u) /\ ~ Showing(u)
    BY <1>1, <1>4, ReplaceSteps DEF Importing, Showing, EventDos, ImportDos
  <1>6. ASSUME NEW v \in Work'
        PROVE  ~ Importing(v) /\ (Showing(v) => OnlyShower(v)')
    <2>1. CASE v \in new
      BY <1>5, <2>1
    <2>2. CASE v \in Work /\ v # t /\ v \notin new
      <3>1. ~ Importing(v) /\ (Showing(v) => OnlyShower(v))
        BY <2>2 DEF ShowsInv
      <3>2. SUFFICES ASSUME Showing(v)
                     PROVE  OnlyShower(v)'
        BY <3>1
      <3>3. tasks'[v] = 1
        <4>1. tasks'[v] \leq tasks[v] /\ tasks[v] = 1
          BY <1>5, <2>2, <3>1, <3>2 DEF TaskStep, OnlyShower
        <4>2. tasks'[v] \in Nat \ {0}
          BY <1>5 DEF TaskStep, IsABag, Work, BagToSet
        <4>. QED BY <4>1, <4>2
      <3>4. v.id # t.id
        BY <1>1, <2>2, <3>2 DEF OnlyShower
      <3>. QED BY <1>3, <1>5, <3>1, <3>2, <3>3, <3>4 DEF OnlyShower
    <2>. QED BY <1>5, <2>1, <2>2
  <1>7. ASSUME NEW p \in DOMAIN posts'
        PROVE  OnlyPost(p)'
    <2>1. CASE p \in DOMAIN posts
      <3>1. OnlyPost(p) /\ (posts[p].by = "bridge" => posts[p].of # t.id)
        BY <1>1, <2>1 DEF ShowsInv, OnlyShower
      <3>. QED BY <1>3, <2>1, <3>1 DEF OnlyPost
    <2>2. CASE p = q
      BY <1>1, <1>3, <2>2 DEF OnlyPost, OnlyShower
    <2>. QED BY <1>3, <2>1, <2>2
  <1>8. \A id \in DOMAIN wire' : SentForPost(id)'
    BY DEF ShowsInv, SentForPost
  <1>. QED BY <1>6, <1>7, <1>8 DEF ShowsInv, Importing, Showing

\* A message comes, or is sent by a request or as a template: it will be shown by one callback.
LEMMA MessageComes ==
    ASSUME BaseInv, ShowsInv, NEW by, by # "agent", NEW kind, NEW from,
           from # 0 => by = "template", wire' = Append(wire, Said(by, kind, from)),
           UNCHANGED posts, NEW new, TaskStep(new),
           NEW e, e.do = "Event", e.id = Len(wire'),
           \A u \in new : u = e \/ (~ Showing(u) /\ ~ Importing(u))
    PROVE  ShowsInv'
  <1>1. PICK i : i = Len(wire')
    OBVIOUS
  <1>2. /\ WireGrows /\ i \in Nat \ {0} /\ i \notin DOMAIN wire /\ DOMAIN wire' = DOMAIN wire \cup {i}
        /\ wire'[i].by = by /\ wire'[i].from = from
        /\ \A id \in DOMAIN wire : wire'[id] = wire[id]
    BY <1>1, Appended DEF WireGrows
  <1>3. \A v \in Work : Showing(v) => v.id # i
    BY <1>2 DEF ShowsInv, OnlyShower
  <1>4. e \notin Work /\ Showing(e) /\ ~ Importing(e)
    BY <1>1, <1>3 DEF Showing, Importing, EventDos, ImportDos
  <1>5. ASSUME e \in Work'
        PROVE  OnlyShower(e)'
    <2>1. e \in new /\ tasks'[e] = 1
      BY <1>4, <1>5 DEF TaskStep
    <2>2. \A u \in Work' : Showing(u) /\ u.id = i => u = e
      BY <1>3 DEF TaskStep
    <2>3. \A p \in DOMAIN posts : posts[p].by = "bridge" => posts[p].of # i
      BY <1>2 DEF ShowsInv, OnlyPost
    <2>. QED BY <1>1, <1>2, <2>1, <2>2, <2>3 DEF OnlyShower
  <1>6. ASSUME NEW v \in Work', v # e
        PROVE  ~ Importing(v) /\ (Showing(v) => OnlyShower(v)')
    <2>1. CASE v \in new
      BY <1>6, <2>1
    <2>2. CASE v \in Work /\ v \notin new
      <3>1. ~ Importing(v) /\ (Showing(v) => OnlyShower(v))
        BY <2>2 DEF ShowsInv
      <3>2. SUFFICES ASSUME Showing(v)
                     PROVE  OnlyShower(v)'
        BY <3>1
      <3>3. tasks'[v] = 1
        <4>1. tasks'[v] \leq tasks[v] /\ tasks[v] = 1
          BY <2>2, <3>1, <3>2 DEF TaskStep, OnlyShower
        <4>2. tasks'[v] \in Nat \ {0}
          BY DEF TaskStep, IsABag, Work, BagToSet
        <4>. QED BY <4>1, <4>2
      <3>4. \A u \in Work' : Showing(u) => u \in Work \/ u.id = i
        BY <1>1 DEF TaskStep
      <3>5. v.id # i
        BY <1>3, <2>2, <3>2
      <3>. QED BY <1>2, <3>1, <3>2, <3>3, <3>4, <3>5 DEF OnlyShower
    <2>. QED BY <2>1, <2>2 DEF TaskStep
  <1>7. \A v \in Work' : ~ Importing(v) /\ (Showing(v) => OnlyShower(v)')
    BY <1>4, <1>5, <1>6
  <1>8. ASSUME NEW p \in DOMAIN posts'
        PROVE  OnlyPost(p)'
    BY <1>2 DEF ShowsInv, OnlyPost
  <1>9. \A id \in DOMAIN wire' : SentForPost(id)'
    BY <1>2 DEF ShowsInv, SentForPost
  <1>. QED BY <1>7, <1>8, <1>9 DEF ShowsInv, Importing, Showing

LEMMA ShowingKeeps ==
    ASSUME DeleteInv, ShowsInv, NEW t \in Work, EventAction(t) \/ CreateMessage(t) \/ SendData(t)
    PROVE  ShowsInv'
  <1>1. BaseInv /\ IsTask(t)
    BY DEF DeleteInv, BaseInv, ShapeInv
  <1>2. CASE Replace(t, Rest(t)) /\ UNCHANGED <<wire, posts>>
    <2>1. TaskStep(Rest(t))
      BY <1>1, <1>2, ReplaceSteps
    <2>2. \A u \in Rest(t) : ~ Importing(u) /\ ~ Showing(u)
      BY <1>1 DEF Rest, IsTask, TaskFields, Importing, Showing, EventDos, ImportDos
    <2>3. WireGrows /\ SameShown
      BY <1>1, <1>2, SameGrow DEF SameShown
    <2>. QED BY <1>2, <2>1, <2>2, <2>3, OthersShowNone
  <1>3. CASE EventAction(t)
    <2>1. t.do \in EventDos /\ Same
      BY <1>1, <1>3, EventsGoOn
    <2>2. ASSUME NEW d \in EventDos, NEW c, Replace(t, {[t EXCEPT !.do = d]})
          PROVE  ShowsInv'
      <3>1. [t EXCEPT !.do = d].do = d /\ [t EXCEPT !.do = d].id = t.id
        BY <1>1 DEF IsTask, TaskFields
      <3>. QED BY <1>1, <2>1, <2>2, <3>1, ShowerGoesOn DEF Showing, Same
    <2>3. ASSUME NEW d \in EventDos, NEW c, Replace(t, {[t EXCEPT !.do = d, !.conv = c]})
          PROVE  ShowsInv'
      <3>1. [t EXCEPT !.do = d, !.conv = c].do = d /\ [t EXCEPT !.do = d, !.conv = c].id = t.id
        BY <1>1 DEF IsTask, TaskFields
      <3>. QED BY <1>1, <2>1, <2>3, <3>1, ShowerGoesOn DEF Showing, Same
    <2>. QED BY <1>1, <1>2, <1>3, <2>1, <2>2, <2>3, EventsGoOn DEF Same
  <1>4. CASE Shown(t) /\ UNCHANGED wire /\ t.do \in {"Post", "Upload"}
    BY <1>4, ShownOnceMore DEF Showing, EventDos
  <1>5. CASE CreateMessage(t)
    BY <1>4, <1>5 DEF CreateMessage, whatsapp
  <1>6. CASE SendData(t)
    BY <1>2, <1>4, <1>6 DEF SendData, whatsapp
  <1>. QED BY <1>3, <1>5, <1>6

\* What the other callbacks go on with.
OtherDos == {"Row", "ClearCache", "DropRow", "DeletePost", "Deleted", "ShowEdit", "Webhook", "Sent",
             "Note", "Link", "Next", "Read", "Undo", "DropRows"}

OtherCallback(t) ==
    \/ SaveRow(t) \/ FindRow(t) \/ DropRow(t) \/ DeletePost(t) \/ FindEdited(t) \/ ShowEdit(t)
    \/ ClearConversation(t) \/ Connect(t) \/ Disconnect(t) \/ ClearCache(t) \/ IgnorePost(t)
    \/ SendPost(t) \/ SendFails(t) \/ SentRow(t) \/ LinkRow(t) \/ MarkRead(t) \/ FindDeleted(t)
    \/ Undo(t) \/ DropRows(t) \/ Note(t) \/ WebhookFails(t)

LEMMA OthersGoOn ==
    ASSUME Plain, NEW t, IsTask(t), OtherCallback(t)
    PROVE  \E new : Replace(t, new) /\ \A u \in new : u.do \in OtherDos
  <1>1. ASSUME NEW u, Replace(t, {u}), u.do \in OtherDos
        PROVE  \E new : Replace(t, new) /\ \A v \in new : v.do \in OtherDos
    BY <1>1
  <1>2. \A p : Webhook(p).do = "Webhook"
    BY DEF Webhook, NoTask
  <1>3. CASE Finish(t)
    BY <1>3 DEF Finish
  <1>4. ASSUME NEW d \in OtherDos, Continue(t, d)
        PROVE  \E new : Replace(t, new) /\ \A u \in new : u.do \in OtherDos
    <2>1. PICK u : u = [t EXCEPT !.do = d]
      OBVIOUS
    <2>2. u.do = d
      BY <2>1 DEF IsTask, TaskFields
    <2>3. Replace(t, {u})
      BY <1>4, <2>1 DEF Continue
    <2>. QED BY <1>1, <2>2, <2>3
  <1>5. ASSUME NEW d \in OtherDos, NEW c,
               \/ Replace(t, {[t EXCEPT !.do = d, !.conv = c]})
               \/ Replace(t, {[t EXCEPT !.do = d, !.post = c]})
               \/ Replace(t, {[t EXCEPT !.do = d, !.id = c]})
               \/ Replace(t, {[NoTask EXCEPT !.do = d, !.post = c]})
        PROVE  \E new : Replace(t, new) /\ \A u \in new : u.do \in OtherDos
    <2>1. CASE Replace(t, {[t EXCEPT !.do = d, !.conv = c]})
      <3>1. PICK u : u = [t EXCEPT !.do = d, !.conv = c]
        OBVIOUS
      <3>2. u.do = d
        BY <3>1 DEF IsTask, TaskFields
      <3>3. Replace(t, {u})
        BY <2>1, <3>1
      <3>. QED BY <1>1, <3>2, <3>3
    <2>2. CASE Replace(t, {[t EXCEPT !.do = d, !.post = c]})
      <3>1. PICK u : u = [t EXCEPT !.do = d, !.post = c]
        OBVIOUS
      <3>2. u.do = d
        BY <3>1 DEF IsTask, TaskFields
      <3>3. Replace(t, {u})
        BY <2>2, <3>1
      <3>. QED BY <1>1, <3>2, <3>3
    <2>3. CASE Replace(t, {[t EXCEPT !.do = d, !.id = c]})
      <3>1. PICK u : u = [t EXCEPT !.do = d, !.id = c]
        OBVIOUS
      <3>2. u.do = d
        BY <3>1 DEF IsTask, TaskFields
      <3>3. Replace(t, {u})
        BY <2>3, <3>1
      <3>. QED BY <1>1, <3>2, <3>3
    <2>4. CASE Replace(t, {[NoTask EXCEPT !.do = d, !.post = c]})
      <3>1. PICK u : u = [NoTask EXCEPT !.do = d, !.post = c]
        OBVIOUS
      <3>2. u.do = d
        BY <3>1 DEF NoTask
      <3>3. Replace(t, {u})
        BY <2>4, <3>1
      <3>. QED BY <1>1, <3>2, <3>3
    <2>. QED BY <1>5, <2>1, <2>2, <2>3, <2>4
  <1>6. CASE \/ SaveRow(t) \/ ClearConversation(t) \/ Connect(t) \/ Disconnect(t) \/ ClearCache(t)
             \/ IgnorePost(t) \/ MarkRead(t) \/ DropRows(t) \/ Note(t) \/ WebhookFails(t)
    BY <1>3, <1>6 DEF SaveRow, ClearConversation, Connect, Disconnect, ClearCache, IgnorePost,
                      MarkRead, DropRows, Note, WebhookFails
  <1>7. CASE FindRow(t)
    BY <1>3, <1>5, <1>7 DEF FindRow, OtherDos
  <1>8. CASE DropRow(t) \/ Undo(t)
    BY <1>3, <1>4, <1>8 DEF DropRow, Undo, OtherDos
  <1>9. CASE DeletePost(t)
    BY <1>3, <1>5, <1>9 DEF DeletePost, OtherDos
  <1>10. CASE FindEdited(t)
    BY <1>3, <1>5, <1>10 DEF FindEdited, OtherDos
  <1>11. CASE ShowEdit(t)
    <2>1. CASE Finish(t)
      BY <1>3, <2>1
    <2>2. PICK q : q = Len(posts')
      OBVIOUS
    <2>3. CASE Replace(t, IF Mine(t.id) THEN {Webhook(q)} ELSE {})
      <3>1. \A u \in IF Mine(t.id) THEN {Webhook(q)} ELSE {} : u.do \in OtherDos
        BY <1>2 DEF OtherDos
      <3>. QED BY <2>3, <3>1
    <2>. QED BY <1>11, <2>1, <2>2, <2>3 DEF ShowEdit
  <1>12. CASE SendPost(t)
    BY <1>5, <1>12 DEF SendPost, OtherDos
  <1>13. CASE Tell(t)
    <2>1. CASE posts[t.post].kind = "text"
      BY <1>5, <1>13, <2>1 DEF Tell, OtherDos
    <2>2. CASE posts[t.post].kind # "text"
      BY <1>3, <1>13, <2>2 DEF Tell, Finish
    <2>. QED BY <2>1, <2>2
  <1>14. CASE SendFails(t) \/ SentRow(t)
    BY <1>4, <1>13, <1>14 DEF SendFails, SentRow, OtherDos
  <1>15. CASE LinkRow(t)
    BY <1>4, <1>15 DEF LinkRow, AfterLink, Plain, OtherDos
  <1>16. CASE FindDeleted(t)
    BY <1>3, <1>5, <1>16 DEF FindDeleted, OtherDos
  <1>. QED BY <1>6, <1>7, <1>8, <1>9, <1>10, <1>11, <1>12, <1>14, <1>15, <1>16 DEF OtherCallback

\* What comes from outside and is no message.
OtherCause == \/ \E id \in DOMAIN wire : Revoke(id) \/ Edit(id) \/ Age(id)
              \/ \E p \in DOMAIN posts : AgentDeletes(p)
              \/ \E c \in DOMAIN convs : Resolve(c) \/ Drop(c)
              \/ Agent \/ Command

LEMMA OthersBegin ==
    ASSUME OtherCause
    PROVE  UNCHANGED tasks \/ \E u : Begin({u}) /\ ~ Showing(u) /\ ~ Importing(u)
  <1>1. \A u : u.do \in {"FindRow", "FindEdited", "Deleted", "Resolved", "Init", "Disconnect",
                         "ClearCache", "Webhook"} => ~ Showing(u) /\ ~ Importing(u)
    BY DEF Showing, Importing, EventDos, ImportDos
  <1>2. ASSUME NEW id, Revoke(id)
        PROVE  UNCHANGED tasks \/ \E u : Begin({u}) /\ ~ Showing(u) /\ ~ Importing(u)
    <2>1. PICK u : u = [NoTask EXCEPT !.do = "FindRow", !.id = id]
      OBVIOUS
    <2>2. u.do = "FindRow"
      BY <2>1 DEF NoTask, Webhook
    <2>3. UNCHANGED tasks \/ Begin({u})
      BY <1>2, <2>1 DEF Revoke
    <2>4. ~ Showing(u) /\ ~ Importing(u)
      BY <1>1, <2>2
    <2>. QED BY <2>3, <2>4
  <1>3. ASSUME NEW id, Edit(id)
        PROVE  \E u : Begin({u}) /\ ~ Showing(u) /\ ~ Importing(u)
    <2>1. PICK u : u = [NoTask EXCEPT !.do = "FindEdited", !.id = id]
      OBVIOUS
    <2>2. u.do = "FindEdited"
      BY <2>1 DEF NoTask, Webhook
    <2>3. Begin({u})
      BY <1>3, <2>1 DEF Edit
    <2>. QED BY <1>1, <2>2, <2>3
  <1>4. ASSUME NEW p, AgentDeletes(p)
        PROVE  \E u : Begin({u}) /\ ~ Showing(u) /\ ~ Importing(u)
    <2>1. PICK u : u = [NoTask EXCEPT !.do = "Deleted", !.post = p]
      OBVIOUS
    <2>2. u.do = "Deleted"
      BY <2>1 DEF NoTask, Webhook
    <2>3. Begin({u})
      BY <1>4, <2>1 DEF AgentDeletes
    <2>. QED BY <1>1, <2>2, <2>3
  <1>5. ASSUME NEW c, Resolve(c)
        PROVE  \E u : Begin({u}) /\ ~ Showing(u) /\ ~ Importing(u)
    <2>1. PICK u : u = [NoTask EXCEPT !.do = "Resolved"]
      OBVIOUS
    <2>2. u.do = "Resolved"
      BY <2>1 DEF NoTask, Webhook
    <2>3. Begin({u})
      BY <1>5, <2>1 DEF Resolve
    <2>. QED BY <1>1, <2>2, <2>3
  <1>6. ASSUME Agent
        PROVE  \E u : Begin({u}) /\ ~ Showing(u) /\ ~ Importing(u)
    <2>1. PICK u : u = Webhook(Len(posts'))
      OBVIOUS
    <2>2. u.do = "Webhook"
      BY <2>1 DEF NoTask, Webhook
    <2>3. Begin({u})
      BY <1>6, <2>1 DEF Agent
    <2>. QED BY <1>1, <2>2, <2>3
  <1>7. ASSUME Command
        PROVE  \E u : Begin({u}) /\ ~ Showing(u) /\ ~ Importing(u)
    <2>1. PICK d \in {"Init", "Disconnect", "ClearCache"} : Begin({[NoTask EXCEPT !.do = d]})
      BY <1>7 DEF Command
    <2>2. PICK u : u = [NoTask EXCEPT !.do = d]
      OBVIOUS
    <2>3. u.do = d
      BY <2>2 DEF NoTask
    <2>4. Begin({u})
      BY <2>1, <2>2
    <2>. QED BY <1>1, <2>3, <2>4
  <1>8. ASSUME NEW id, Age(id) \/ Drop(id)
        PROVE  UNCHANGED tasks
    BY <1>8 DEF Age, Drop
  <1>. QED BY <1>2, <1>3, <1>4, <1>5, <1>6, <1>7, <1>8 DEF OtherCause

\* No other step writes that a post shows a message, but an edit's.
LEMMA OthersWriteNone ==
    ASSUME BaseInv, OtherCause \/ (\E t \in Work : OtherCallback(t)) \/ UNCHANGED vars
    PROVE  /\ SameShown
           /\ \A p \in DOMAIN posts' \ DOMAIN posts :
                 posts'[p].by # "bridge" /\ (posts'[p].of # 0 => posts'[p].by = "edit")
  <1>1. CASE UNCHANGED posts
    BY <1>1 DEF SameShown
  <1>2. ASSUME NEW by \in {"agent", "template", "edit"}, NEW kind, NEW conv, NEW of,
               by # "edit" => of = 0, by = "edit" => of # 0,
               posts' = Append(posts, Written(by, kind, conv, of))
        PROVE  /\ SameShown
               /\ \A p \in DOMAIN posts' \ DOMAIN posts :
                     posts'[p].by # "bridge" /\ (posts'[p].of # 0 => posts'[p].by = "edit")
    <2>1. by \in Writers /\ (by \in {"bridge", "edit"} => of # 0)
      BY <1>2 DEF Writers
    <2>2. /\ DOMAIN posts' = DOMAIN posts \cup {Len(posts')}
          /\ \A p \in DOMAIN posts : posts'[p] = posts[p]
          /\ posts'[Len(posts')].by = by /\ posts'[Len(posts')].of = of
      BY <1>2, <2>1, Posted
    <2>. QED BY <1>2, <2>2 DEF SameShown
  <1>3. ASSUME NEW q \in DOMAIN posts, posts[q].gone = "no", NEW g,
               posts' = [posts EXCEPT ![q].gone = g]
        PROVE  /\ SameShown /\ DOMAIN posts' = DOMAIN posts
    BY <1>3, GoneChanged DEF SameShown, PostsGrow
  <1>4. CASE Agent
    BY <1>2, <1>4 DEF Agent
  <1>5. ASSUME NEW p \in DOMAIN posts, AgentDeletes(p)
        PROVE  SameShown /\ DOMAIN posts' = DOMAIN posts
    BY <1>3, <1>5 DEF AgentDeletes
  <1>6. ASSUME NEW c, Drop(c)
        PROVE  SameShown /\ DOMAIN posts' = DOMAIN posts
    <2>1. \A p \in DOMAIN posts : DOMAIN posts[p] = PostFields
      BY DEF BaseInv, ShapeInv
    <2>2. posts' = [p \in DOMAIN posts |-> IF posts[p].conv = c THEN [posts[p] EXCEPT !.gone = "conv"]
                                           ELSE posts[p]]
      BY <1>6 DEF Drop
    <2>3. ASSUME NEW p \in DOMAIN posts
          PROVE  posts'[p].of = posts[p].of /\ posts'[p].by = posts[p].by
      <3>1. [posts[p] EXCEPT !.gone = "conv"].of = posts[p].of
            /\ [posts[p] EXCEPT !.gone = "conv"].by = posts[p].by
        BY <2>1 DEF PostFields
      <3>. QED BY <2>2, <3>1
    <2>. QED BY <2>2, <2>3 DEF SameShown
  <1>7. ASSUME NEW t \in Work, DeletePost(t)
        PROVE  SameShown /\ DOMAIN posts' = DOMAIN posts
    <2>1. t.post \in DOMAIN posts
      BY <1>7 DEF DeletePost, BaseInv, About, PostDos
    <2>. QED BY <1>1, <1>3, <1>7, <2>1 DEF DeletePost
  <1>8. ASSUME NEW t \in Work, ShowEdit(t)
        PROVE  \/ UNCHANGED posts
               \/ t.id # 0 /\ posts' = Append(posts, Written("edit", "text", t.conv, t.id))
    BY <1>8 DEF ShowEdit, WriteIn, BaseInv, About, NoIdDos
  <1>9. ASSUME NEW t \in Work, OtherCallback(t), ~ DeletePost(t), ~ ShowEdit(t)
        PROVE  UNCHANGED posts
    BY <1>9 DEF OtherCallback, SaveRow, FindRow, DropRow, FindEdited, ClearConversation, Connect,
                Disconnect, ClearCache, IgnorePost, SendPost, SendFails, SentRow, LinkRow, MarkRead,
                FindDeleted, Undo, DropRows, Note, WebhookFails, whatsapp, database, chatwoot
  <1>10. ASSUME NEW id, Revoke(id) \/ Edit(id) \/ Age(id) \/ Resolve(id) \/ Command
         PROVE  UNCHANGED posts
    BY <1>10 DEF Revoke, Edit, Age, Resolve, Command, chatwoot
  <1>11. CASE OtherCause
    BY <1>1, <1>4, <1>5, <1>6, <1>10, <1>11 DEF OtherCause
  <1>12. ASSUME NEW t \in Work, OtherCallback(t)
         PROVE  /\ SameShown
                /\ \A p \in DOMAIN posts' \ DOMAIN posts :
                      posts'[p].by # "bridge" /\ (posts'[p].of # 0 => posts'[p].by = "edit")
    BY <1>1, <1>2, <1>7, <1>8, <1>9, <1>12
  <1>. QED BY <1>1, <1>11, <1>12 DEF vars, chatwoot

\* Nor says anything but an agent's message.
LEMMA OthersSayNone ==
    ASSUME BaseInv, OtherCause \/ (\E t \in Work : OtherCallback(t)) \/ UNCHANGED vars
    PROVE  \A id \in DOMAIN wire' \ DOMAIN wire : SentForPost(id)'
  <1>1. ASSUME NEW t, OtherCallback(t), ~ SendPost(t)
        PROVE  UNCHANGED wire
    BY <1>1 DEF OtherCallback, SaveRow, FindRow, DropRow, DeletePost, FindEdited, ShowEdit,
                ClearConversation, Connect, Disconnect, ClearCache, IgnorePost, SendFails, SentRow,
                LinkRow, MarkRead, FindDeleted, Undo, DropRows, Note, WebhookFails, whatsapp
  <1>2. ASSUME NEW t, SendPost(t)
        PROVE  \A id \in DOMAIN wire' \ DOMAIN wire : wire'[id].by = "agent"
    BY <1>2, Appended DEF SendPost
  <1>3. CASE OtherCause
    BY <1>3 DEF OtherCause, Revoke, Edit, Age, AgentDeletes, Resolve, Drop, Agent, Command, whatsapp
  <1>. QED BY <1>1, <1>2, <1>3 DEF SentForPost, vars, whatsapp

LEMMA OthersKeepShows ==
    ASSUME DeleteInv, ShowsInv, Plain, WireGrows,
           OtherCause \/ (\E t \in Work : OtherCallback(t)) \/ UNCHANGED vars
    PROVE  ShowsInv'
  <1>1. BaseInv
    BY DEF DeleteInv
  <1>2. /\ SameShown
        /\ \A p \in DOMAIN posts' \ DOMAIN posts :
              posts'[p].by # "bridge" /\ (posts'[p].of # 0 => posts'[p].by = "edit")
        /\ \A id \in DOMAIN wire' \ DOMAIN wire : SentForPost(id)'
    BY <1>1, OthersWriteNone, OthersSayNone
  <1>3. PICK new : TaskStep(new) /\ \A u \in new : ~ Importing(u) /\ ~ Showing(u)
    <2>1. CASE UNCHANGED tasks
      BY <1>1, <2>1, NoTaskSteps
    <2>2. ASSUME NEW u, Begin({u}), ~ Showing(u), ~ Importing(u)
          PROVE  \E new : TaskStep(new) /\ \A v \in new : ~ Importing(v) /\ ~ Showing(v)
      BY <1>1, <2>2, BeginSteps
    <2>3. ASSUME NEW t \in Work, OtherCallback(t)
          PROVE  \E new : TaskStep(new) /\ \A v \in new : ~ Importing(v) /\ ~ Showing(v)
      <3>1. IsTask(t)
        BY <1>1 DEF BaseInv, ShapeInv
      <3>2. PICK new : Replace(t, new) /\ \A u \in new : u.do \in OtherDos
        BY <2>3, <3>1, OthersGoOn
      <3>3. TaskStep(new)
        BY <1>1, <3>2, ReplaceSteps
      <3>. QED BY <3>2, <3>3 DEF OtherDos, Importing, Showing, EventDos, ImportDos
    <2>. QED BY <2>1, <2>2, <2>3, OthersBegin DEF vars
  <1>. QED BY <1>2, <1>3, OthersShowNone

\* What comes, or is sent by a request or as a template.
LEMMA ComesKeepShows ==
    ASSUME DeleteInv, ShowsInv, Message \/ ApiMessage \/ \E t \in Work : SendTemplate(t) /\ ~ UNCHANGED wire
    PROVE  ShowsInv'
  <1> PICK i : i = Len(wire')
    OBVIOUS
  <1> DEFINE e1 == [NoTask EXCEPT !.do = "Event", !.id = i, !.then = "Row"]
             e2 == [NoTask EXCEPT !.do = "Event", !.id = i]
             r == [NoTask EXCEPT !.do = "Row", !.id = i]
  <1>1. /\ BaseInv /\ UNCHANGED posts
    BY DEF DeleteInv, Message, ApiMessage, SendTemplate, chatwoot
  <1>2. /\ e1.do = "Event" /\ e1.id = i /\ e2.do = "Event" /\ e2.id = i
        /\ ~ Showing(r) /\ ~ Importing(r)
    BY DEF NoTask, Showing, Importing, EventDos, ImportDos
  <1>3. EventOfSent = {e2, r}
    BY DEF EventOfSent
  <1> HIDE DEF e1, e2, r
  <1>4. CASE Message
    <2>1. PICK by \in {"contact"} \cup ({"phone"} \cap config), kind \in Kinds :
                  wire' = Append(wire, Said(by, kind, 0))
      BY <1>4 DEF Message
    <2>2. TaskStep({e1})
      BY <1>1, <1>4, BeginSteps DEF Message, e1
    <2>3. by # "agent"
      OBVIOUS
    <2>. QED BY <1>1, <1>2, <2>1, <2>2, <2>3, MessageComes
  <1>5. ASSUME NEW by \in {"api", "template"}, NEW kind, NEW from, from # 0 => by = "template",
               wire' = Append(wire, Said(by, kind, from)), TaskStep(EventOfSent)
        PROVE  ShowsInv'
    BY <1>1, <1>2, <1>3, <1>5, MessageComes
  <1>6. CASE ApiMessage
    <2>1. TaskStep(EventOfSent)
      BY <1>1, <1>6, BeginSteps DEF ApiMessage
    <2>2. PICK kind : wire' = Append(wire, Said("api", kind, 0))
      BY <1>6 DEF ApiMessage, SendMessage
    <2>. QED BY <1>5, <2>1, <2>2
  <1>7. ASSUME NEW t \in Work, SendTemplate(t), ~ UNCHANGED wire
        PROVE  ShowsInv'
    <2>1. SendMessage("template", "text", t.post) /\ Replace(t, EventOfSent)
      BY <1>7 DEF SendTemplate
    <2>2. TaskStep(EventOfSent)
      BY <1>1, <2>1, ReplaceSteps
    <2>. QED BY <1>5, <2>1, <2>2 DEF SendMessage
  <1>. QED BY <1>4, <1>6, <1>7

\* A template that is not sent.
LEMMA UnsentKeepsShows ==
    ASSUME DeleteInv, ShowsInv, NEW t \in Work, SendTemplate(t), UNCHANGED wire
    PROVE  ShowsInv'
  <1>1. BaseInv /\ UNCHANGED posts
    BY DEF DeleteInv, SendTemplate, chatwoot
  <1>2. Finish(t)
    <2>1. ASSUME SendMessage("template", "text", t.post)
          PROVE  FALSE
      BY <1>1, <2>1, Appended DEF SendMessage
    <2>. QED BY <2>1 DEF SendTemplate
  <1>3. TaskStep({})
    BY <1>1, <1>2, ReplaceSteps DEF Finish
  <1>4. WireGrows /\ SameShown
    BY <1>1, SameGrow DEF SameShown
  <1>. QED BY <1>1, <1>3, <1>4, OthersShowNone

LEMMA NextKeepsShows ==
    ASSUME DeleteInv, ShowsInv, Plain, [Next]_vars
    PROVE  ShowsInv'
  <1>1. WireGrows
    BY NextKeeps DEF Kept
  <1>2. \A t \in Work : ~ Importing(t)
    BY DEF ShowsInv
  <1>3. CASE FromWhatsapp
    <2>1. ~ History
      BY DEF History, Plain
    <2>. QED BY <1>1, <1>3, <2>1, ComesKeepShows, OthersKeepShows DEF FromWhatsapp, OtherCause
  <1>4. CASE FromChatwoot
    BY <1>1, <1>4, OthersKeepShows DEF FromChatwoot, OtherCause
  <1>5. CASE EventStep
    BY <1>1, <1>5, ShowingKeeps, OthersKeepShows DEF EventStep, EventAction, OtherCallback
  <1>6. CASE WebhookStep
    <2>1. \A t \in Work : ~ UpdateSourceID(t)
      BY <1>2 DEF UpdateSourceID, Importing
    <2>. QED BY <1>1, <1>6, <2>1, ComesKeepShows, UnsentKeepsShows, OthersKeepShows
             DEF WebhookStep, OtherCallback
  <1>7. ~ StartSync
    BY DEF StartSync, Plain
  <1>8. ASSUME NEW then, ImportStep(then)
        PROVE  ShowsInv'
    <2>1. PICK t \in Work : ClearCache(t)
      BY <1>2, <1>8 DEF ImportStep, SyncRows, SyncFails, ImportHistoryMessages, SelectOrCreateFks,
                        InsertMessages, ImportFails, Importing, ImportDos
    <2>. QED BY <1>1, <2>1, OthersKeepShows DEF OtherCallback
  <1>9. CASE UNCHANGED vars
    BY <1>1, <1>9, OthersKeepShows
  <1>. QED BY <1>3, <1>4, <1>5, <1>6, <1>7, <1>8, <1>9 DEF Next

\* The posts of a message: the one that shows it, and the one that it was sent for.
LEMMA ShowsOnce ==
    ASSUME DeleteInv, ShowsInv
    PROVE  ShownOnce
  <1>1. ASSUME NEW id \in DOMAIN wire
        PROVE  Cardinality(PostsOf(id)) <= IF wire[id].by = "template" THEN 2 ELSE 1
    <2> DEFINE B == {p \in DOMAIN posts : posts[p].by = "bridge" /\ posts[p].of = id}
    <2>1. id # 0 /\ 0 \notin DOMAIN posts
      BY DEF DeleteInv, BaseInv, ShapeInv, IsList
    <2>2. \A p \in B, q \in B : p = q
      BY DEF ShowsInv, OnlyPost
    <2>3. PICK b : B \subseteq {b}
      BY <2>2
    <2>4. PostsOf(id) \subseteq B \cup {wire[id].from}
      BY <2>1 DEF ShowsInv, OnlyPost, PostsOf
    <2>5. wire[id].from \notin DOMAIN posts => PostsOf(id) \subseteq {b}
      BY <2>3, <2>4 DEF PostsOf
    <2>6. wire[id].by = "agent" => PostsOf(id) \subseteq {wire[id].from}
      <3>1. wire[id].by = "agent" => B = {}
        BY DEF ShowsInv, OnlyPost
      <3>. QED BY <2>4, <3>1
    <2> HIDE DEF B
    <2>7. CASE wire[id].by = "template"
      <3>1. PostsOf(id) \subseteq {b, wire[id].from}
        BY <2>3, <2>4
      <3>2. IsFiniteSet({b, wire[id].from}) /\ Cardinality({b, wire[id].from}) <= 2
        <4>1. IsFiniteSet({b}) /\ Cardinality({b}) = 1
          BY FS_Singleton
        <4>2. {b, wire[id].from} = {b} \cup {wire[id].from}
          OBVIOUS
        <4>. QED BY <4>1, <4>2, FS_AddElement
      <3>3. Cardinality(PostsOf(id)) <= Cardinality({b, wire[id].from})
        BY <3>1, <3>2, FS_Subset
      <3>4. Cardinality(PostsOf(id)) \in Nat /\ Cardinality({b, wire[id].from}) \in Nat
        BY <3>1, <3>2, FS_Subset, FS_CardinalityType
      <3>. QED BY <2>7, <3>2, <3>3, <3>4
    <2>8. CASE wire[id].by # "template"
      <3>1. PICK c : PostsOf(id) \subseteq {c}
        <4>1. CASE wire[id].by = "agent"
          BY <2>6, <4>1
        <4>2. CASE wire[id].by # "agent"
          <5>1. wire[id].from = 0
            BY <2>8, <4>2 DEF ShowsInv, SentForPost
          <5>. QED BY <2>1, <2>5, <5>1
        <4>. QED BY <4>1, <4>2
      <3>2. IsFiniteSet({c}) /\ Cardinality({c}) = 1
        BY FS_Singleton
      <3>3. Cardinality(PostsOf(id)) <= 1
        BY <3>1, <3>2, FS_Subset
      <3>. QED BY <2>8, <3>3
    <2>. QED BY <2>7, <2>8
  <1>. QED BY <1>1 DEF ShownOnce

\* Without the import no message is twice in Chatwoot, however the callbacks interleave and
\* whichever calls fail, but next to the template that it was sent for, or as one attachment of
\* several (createConversation's retries, sendData and receiveWebhook).
THEOREM ShownOnceHolds == Spec => [](~ On("import") /\ ~ On("history") => ShownOnce)
  <1>1. Init => DeleteInv /\ ShowsInv
    <2>1. Init => \A t \in Work : FALSE
      BY NoTasks, Zenon DEF Init, Work
    <2>2. Init => DOMAIN wire = {} /\ DOMAIN posts = {}
      BY DEF Init
    <2>. QED BY <2>1, <2>2, InitKept DEF ShowsInv
  <1>2. DeleteInv /\ (Plain => ShowsInv) /\ [Next]_vars => (DeleteInv /\ (Plain => ShowsInv))'
    <2>1. [Next]_vars => (Plain' <=> Plain)
      BY StepsCount DEF vars, Plain, On
    <2>. QED BY <2>1, NextKeeps, NextKeepsShows DEF Kept
  <1>3. DeleteInv /\ (Plain => ShowsInv) => (~ On("import") /\ ~ On("history") => ShownOnce)
    BY ShowsOnce DEF Plain
  <1>. QED BY <1>1, <1>2, <1>3, PTL DEF Spec

=============================================================================
