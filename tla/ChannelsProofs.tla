--------------------------- MODULE ChannelsProofs ---------------------------
(***************************************************************************)
(* Theorems about Channels, for every set of configurations and every      *)
(* bound.                                                                  *)
(***************************************************************************)
EXTENDS Channels, DataFacts, FiniteSetTheorems

-----------------------------------------------------------------------------
(* The invariants *)

TaskFields == {"do", "kind", "batch", "jid", "n", "id", "touched", "queued", "ask"}

\* The tasks of a batch of new messages, those of a history, of updates, of requests that send
\* a message, and of a webhook of Meta.
UpsertDos == {"Upsert", "Edit", "Create", "Count", "Media", "Announce"}
CountDos == {"Recount", "Write", "Counted"}
HistoryDos == {"History", "Snapshot", "Import"}
UpdateDos == {"Update", "SetStatus", "Updated"}
SendDos == {"PrepareMedia", "ConvertToWebP", "FormatStatus", "ProcessAudio", "Number",
            "Send", "Store", "Convert", "Upload", "Post", "S3"}
MetaDos == {"Settings", "Tell", "Row"}
Chain(b) == b.do \in UpsertDos \/ b.kind = "upsert"
IsHist(b) == b.do \in HistoryDos

\* The messages that a task is going to store a row of: the one it is at, and what is left of
\* its batch.
Own(b) == b.do \in {"Create", "Store", "Settings"} \/ (b.do \in {"Tell", "Row"} /\ ~ Medium(b.id))
Left(b) == {j \in DOMAIN b.batch : Chain(b) /\ (j > 1 \/ b.do = "Upsert")}
Makes(b) == (IF Own(b) THEN {b.id} ELSE {}) \cup {b.batch[j].id : j \in Left(b)}
Items(b) == {b.batch[j].id : j \in DOMAIN b.batch}

Different(s) == \A j, k \in DOMAIN s : s[j].id = s[k].id => j = k

Shape(b) ==
    /\ DOMAIN b = TaskFields /\ b.queued \in BOOLEAN
    /\ b.kind = "history" <=> IsHist(b)
    /\ b.kind = "upsert" => b.do \in UpsertDos \cup CountDos /\ On("wa")
    /\ Chain(b) \/ b.do \in HistoryDos \cup UpdateDos \cup MetaDos => b.queued
    /\ Chain(b) \/ IsHist(b) => /\ IsList(b.batch) /\ Different(b.batch)
                                /\ \A j \in DOMAIN b.batch : b.batch[j].id \in DOMAIN wire
    /\ Chain(b) /\ On("wa") /\ b.do # "Upsert" => Len(b.batch) > 0
    /\ b.do = "Create" /\ On("wa") => b.id = b.batch[1].id
    /\ IsHist(b) => On("history") /\ On("wa")
    /\ b.do \in MetaDos \cup {"Create", "Store"} => b.id \in DOMAIN wire
    /\ b.do \in SendDos => On("asks")

ShapeInv ==
    /\ IsABag(tasks) /\ IsList(queue) /\ IsList(rows) /\ IsList(wire)
    /\ \A t \in Work : Shape(t)
    /\ \A i \in DOMAIN queue : Shape(queue[i])
    /\ Ids \subseteq DOMAIN wire

\* No message has two rows.
RowInv == \A i, j \in DOMAIN rows : rows[i].id = rows[j].id => i = j

\* What a task is going to store has no row, and no other task is going to store it.
WorkInv ==
    \A t \in Work : \A id \in Makes(t) :
        /\ id \notin Ids
        /\ tasks[t] = 1
        /\ \A u \in Work : id \in Makes(u) => u = t

\* Nor does a batch that waits have a message that has a row, or that another one has.
QueueInv ==
    \A i \in DOMAIN queue : \A id \in Makes(queue[i]) :
        /\ id \notin Ids
        /\ \A t \in Work : id \notin Makes(t)
        /\ \A k \in DOMAIN queue : id \in Makes(queue[k]) => k = i

\* There is one history. While it is handled no other batch is, what has a row is in the
\* snapshot, and what arrives is not in the history.
HistoryInv ==
    /\ \A t \in Work : IsHist(t) =>
          /\ tasks[t] = 1
          /\ \A u \in Work : u.queued => u = t
          /\ \A i \in DOMAIN queue : ~ IsHist(queue[i]) /\ Makes(queue[i]) \cap Items(t) = {}
          /\ IF t.do = "Import" THEN Ids \subseteq known ELSE known = None
    /\ \A i \in DOMAIN queue : IsHist(queue[i]) =>
          /\ queue[i].do = "History" /\ known = None
          /\ \A k \in DOMAIN queue : IsHist(queue[k]) => k = i
          /\ \A k \in DOMAIN queue : k > i => Makes(queue[k]) \cap Items(queue[i]) = {}

Premise == /\ ~ On("entries")
           /\ On("history") => ~ On("resync") /\ ~ On("asks")
OneInv == Premise => RowInv /\ WorkInv /\ QueueInv /\ HistoryInv

-----------------------------------------------------------------------------
(* What a step does *)

\* What is on the wire stays, as far as it matters.
WireGrows == /\ IsList(wire') /\ DOMAIN wire \subseteq DOMAIN wire'
             /\ \A i \in DOMAIN wire : wire'[i].kind = wire[i].kind /\ wire'[i].jid = wire[i].jid
Fresh == DOMAIN wire' \ DOMAIN wire

\* The rows get those of the messages M, which have one each.
Writes(M) == /\ IsList(rows') /\ Ids' \subseteq Ids \cup M
             /\ RowInv /\ M \cap Ids = {} => RowInv'

\* A row keeps the contact that it names, and a new one names that of its message.
Names == \A i \in DOMAIN rows' :
            \/ \E j \in DOMAIN rows : rows'[i].id = rows[j].id /\ rows'[i].jid = rows[j].jid
            \/ rows'[i].id \in DOMAIN wire /\ rows'[i].jid = wire[rows'[i].id].jid

\* n is what t leaves behind when the messages M have got their rows.
Follows(t, n, M) ==
    /\ Shape(n)'
    /\ Makes(n)' \subseteq (Makes(t) \ M) \cup Fresh
    /\ n.queued => t.queued
Heir(t, n, M) == Follows(t, n, M) /\ ~ IsHist(n)
OneHeir(new) == \E h : \A n \in new : n = h \/ Makes(n)' = {}

Stays == config' = config /\ WireGrows /\ UNCHANGED queue
Keeps == Stays /\ UNCHANGED known
Steps(t) == /\ Keeps
            /\ \E new, M : /\ Replace(t, new) /\ Writes(M) /\ M \subseteq Makes(t)
                           /\ \A n \in new : Heir(t, n, M)
                           /\ OneHeir(new)

LEMMA HistoryMakesNothing ==
    ASSUME NEW b, Shape(b)
    PROVE  /\ IsHist(b) => Makes(b) = {}
           /\ Makes(b) # {} => b.queued \/ On("asks")
           /\ Makes(b) \subseteq DOMAIN wire
  <1>1. IsHist(b) => ~ Chain(b) /\ ~ Own(b)
    BY DEF Shape, IsHist, Chain, Own, HistoryDos, UpsertDos
  <1>2. Own(b) => b.id \in DOMAIN wire /\ (b.queued \/ On("asks"))
    BY DEF Shape, Own, MetaDos, Chain, UpsertDos, SendDos
  <1>3. \A j \in Left(b) : b.queued /\ b.batch[j].id \in DOMAIN wire /\ ~ IsHist(b)
    BY <1>1 DEF Left, Shape
  <1>. QED BY <1>1, <1>2, <1>3 DEF Makes

\* Neither depends on the rest of the state.
LEMMA ShapeStays ==
    ASSUME NEW b, Shape(b), WireGrows, config' = config
    PROVE  Shape(b)' /\ Makes(b)' = Makes(b)
  <1>1. Shape(b)'
    BY DEF Shape, WireGrows, On, Chain, IsHist, Different
  <1>2. b.do \in {"Tell", "Row"} => Medium(b.id)' = Medium(b.id)
    BY DEF Shape, WireGrows, Medium, MetaDos
  <1>3. Own(b)' = Own(b)
    BY <1>2 DEF Own
  <1>. QED BY <1>1, <1>3 DEF Makes, Left, Chain

LEMMA ReplaceSteps ==
    ASSUME IsABag(tasks), NEW t \in Work, NEW new, Replace(t, new)
    PROVE  /\ IsABag(tasks') /\ Work' \subseteq Work \cup new
           /\ \A u \in Work' \ new : tasks'[u] <= tasks[u]
           /\ \A u \in new \ Work : tasks'[u] = 1
           /\ tasks[t] = 1 => Work' = (Work \ {t}) \cup new
           /\ tasks[t] = 1 /\ t \in new => tasks'[t] = 1
  <1> DEFINE B == tasks
             C == tasks'
  <1>1. IsABag(B) /\ t \in BagToSet(B) /\ C = With(Without(B, t), new)
    BY DEF Work, Replace, With, Without
  <1> HIDE DEF B, C
  <1>2. Replaced(B, t, new, C)
    BY <1>1, ReplaceOne, Zenon
  <1>. QED BY <1>2 DEF Replaced, B, C, Work

LEMMA KeepsShapes ==
    ASSUME ShapeInv, Stays, NEW t \in Work, NEW new, NEW M,
           Replace(t, new), Writes(M), M \subseteq Makes(t), \A n \in new : Follows(t, n, M)
    PROVE  ShapeInv'
  <1>1. IsABag(tasks') /\ Work' \subseteq Work \cup new
    BY ReplaceSteps DEF ShapeInv
  <1>2. ASSUME NEW u \in Work'
        PROVE  Shape(u)'
    BY <1>1, ShapeStays DEF ShapeInv, Stays, Follows
  <1>3. ASSUME NEW i \in DOMAIN queue'
        PROVE  Shape(queue[i])'
    BY ShapeStays DEF ShapeInv, Stays
  <1>4. Ids' \subseteq DOMAIN wire'
    BY HistoryMakesNothing DEF ShapeInv, Stays, Writes, WireGrows
  <1>. QED BY <1>1, <1>2, <1>3, <1>4 DEF ShapeInv, Stays, WireGrows, Writes

\* What was going to be stored, and by whom.
LEMMA KeepsWork ==
    ASSUME ShapeInv, Stays, WorkInv, QueueInv, NEW t \in Work, NEW new, NEW M,
           Replace(t, new), Writes(M), M \subseteq Makes(t), \A n \in new : Follows(t, n, M),
           OneHeir(new)
    PROVE  WorkInv' /\ QueueInv'
  <1>1. /\ IsABag(tasks') /\ Work' \subseteq Work \cup new
        /\ \A u \in Work' \ new : tasks'[u] <= tasks[u]
        /\ \A u \in new \ Work : tasks'[u] = 1
        /\ tasks[t] = 1 => Work' = (Work \ {t}) \cup new
        /\ tasks[t] = 1 /\ t \in new => tasks'[t] = 1
    BY ReplaceSteps DEF ShapeInv
  <1>2. \A u \in Work : Makes(u)' = Makes(u) /\ Makes(u) \subseteq DOMAIN wire
    BY ShapeStays, HistoryMakesNothing DEF ShapeInv, Stays
  <1>3. \A i \in DOMAIN queue : /\ Makes(queue[i])' = Makes(queue[i])
                                /\ Makes(queue[i]) \subseteq DOMAIN wire
    BY ShapeStays, HistoryMakesNothing DEF ShapeInv, Stays
  <1>4. Ids' \subseteq Ids \cup M /\ Ids \subseteq DOMAIN wire
    BY DEF Writes, ShapeInv
  <1>5. \A id \in Makes(t) : tasks[t] = 1 /\ \A u \in Work : id \in Makes(u) => u = t
    BY DEF WorkInv
  <1>6. \A n \in new : Makes(n)' \subseteq (Makes(t) \ M) \cup Fresh
    BY DEF Follows
  <1>7. \A id \in Fresh : id \notin DOMAIN wire
    BY DEF Fresh
  <1>8. ASSUME NEW n \in new, NEW id \in Makes(n)', NEW u \in Work, id \in Makes(u)
        PROVE  u = t /\ id \in Makes(t) \ M
    BY <1>2, <1>5, <1>6, <1>7, <1>8
  <1>9. ASSUME NEW u \in Work', NEW id \in Makes(u)'
        PROVE  /\ id \notin Ids'
               /\ tasks'[u] = 1
               /\ \A v \in Work' : id \in Makes(v)' => v = u
               /\ \A i \in DOMAIN queue : id \notin Makes(queue[i])
    <2>1. CASE u \in new
      <3>1. id \in (Makes(t) \ M) \cup Fresh
        BY <1>6, <2>1, <1>9
      <3>2. id \notin Ids'
        BY <3>1, <1>4, <1>2, <1>7 DEF WorkInv
      <3>3. tasks'[u] = 1
        <4>1. CASE u \in Work
          BY <4>1, <1>1, <1>2, <1>5, <1>8, <1>9, <2>1
        <4>2. CASE u \notin Work
          BY <4>2, <1>1, <2>1
        <4>. QED BY <4>1, <4>2
      <3>4. ASSUME NEW v \in Work', id \in Makes(v)'
            PROVE  v = u
        <4>1. CASE v \in new
          BY <4>1, <3>4, <1>9, <2>1 DEF OneHeir
        <4>2. CASE v \notin new
          <5>1. v \in Work /\ id \in Makes(v)
            BY <4>2, <1>1, <1>2, <3>4
          <5>2. v = t /\ tasks[t] = 1
            BY <5>1, <1>5, <1>8, <1>9, <2>1
          <5>. QED BY <5>2, <4>2, <1>1
        <4>. QED BY <4>1, <4>2
      <3>5. \A i \in DOMAIN queue : id \notin Makes(queue[i])
        BY <3>1, <1>3, <1>7 DEF QueueInv
      <3>. QED BY <3>2, <3>3, <3>4, <3>5
    <2>2. CASE u \notin new
      <3>1. u \in Work /\ id \in Makes(u)
        BY <2>2, <1>1, <1>2, <1>9
      <3>2. /\ id \notin Ids /\ tasks[u] = 1 /\ \A v \in Work : id \in Makes(v) => v = u
            /\ \A i \in DOMAIN queue : id \notin Makes(queue[i])
        BY <3>1 DEF WorkInv, QueueInv
      <3>3. u # t
        BY <2>2, <1>1, <3>2
      <3>4. id \notin Makes(t)
        BY <3>2, <3>3
      <3>5. id \notin Ids'
        BY <3>2, <3>4, <1>4
      <3>6. tasks'[u] = 1
        <4>1. tasks'[u] <= 1
          BY <2>2, <1>1, <3>2
        <4>2. tasks'[u] \in Nat /\ tasks'[u] > 0
          BY <1>1 DEF IsABag, Work, BagToSet
        <4>. QED BY <4>1, <4>2
      <3>7. \A v \in Work' : id \in Makes(v)' => v = u
        BY <1>1, <1>2, <3>1, <3>2, <3>4, <1>8
      <3>. QED BY <3>2, <3>5, <3>6, <3>7
    <2>. QED BY <2>1, <2>2
  <1>10. ASSUME NEW i \in DOMAIN queue, NEW id \in Makes(queue[i])
         PROVE  id \notin Ids'
    BY <1>4, <1>10 DEF QueueInv
  <1>11. queue' = queue
    BY DEF Stays
  <1>12. WorkInv'
    BY <1>9 DEF WorkInv
  <1>13. QueueInv'
    BY <1>3, <1>9, <1>10, <1>11 DEF QueueInv
  <1>. QED BY <1>12, <1>13

\* A history is handled alone.
LEMMA KeepsHistory ==
    ASSUME ShapeInv, Keeps, Premise, HistoryInv, NEW t \in Work, NEW new, NEW M,
           Replace(t, new), Writes(M), M \subseteq Makes(t), \A n \in new : Heir(t, n, M)
    PROVE  HistoryInv'
  <1>1. /\ IsABag(tasks') /\ Work' \subseteq Work \cup new
        /\ \A u \in Work' \ new : tasks'[u] <= tasks[u]
    BY ReplaceSteps DEF ShapeInv
  <1>2. \A i \in DOMAIN queue : Makes(queue[i])' = Makes(queue[i])
    BY ShapeStays DEF ShapeInv, Keeps, Stays
  <1>3. queue' = queue /\ known' = known
    BY DEF Keeps, Stays
  <1>4. ASSUME NEW u \in Work', IsHist(u)
        PROVE  /\ tasks'[u] = 1
               /\ \A v \in Work' : v.queued => v = u
               /\ \A i \in DOMAIN queue : /\ ~ IsHist(queue[i])
                                          /\ Makes(queue[i]) \cap Items(u) = {}
               /\ IF u.do = "Import" THEN Ids' \subseteq known ELSE known = None
    <2>1. u \in Work /\ u \notin new
      BY <1>1, <1>4 DEF Heir, Follows
    <2>2. /\ tasks[u] = 1 /\ \A v \in Work : v.queued => v = u
          /\ \A i \in DOMAIN queue : ~ IsHist(queue[i]) /\ Makes(queue[i]) \cap Items(u) = {}
          /\ IF u.do = "Import" THEN Ids \subseteq known ELSE known = None
      BY <2>1, <1>4 DEF HistoryInv
    <2>3. tasks'[u] = 1
      <3>1. tasks'[u] <= 1
        BY <2>1, <1>1, <2>2
      <3>2. tasks'[u] \in Nat /\ tasks'[u] > 0
        BY <1>1 DEF IsABag, Work, BagToSet
      <3>. QED BY <3>1, <3>2
    <2>4. u # t
      <3>1. ASSUME u = t
            PROVE  FALSE
        <4>1. Work' = (Work \ {t}) \cup new
          BY <3>1, <2>2, ReplaceSteps DEF ShapeInv
        <4>. QED BY <4>1, <2>1, <3>1
      <3>. QED BY <3>1
    <2>5. ~ t.queued
      BY <2>2, <2>4
    <2>6. \A v \in Work' : v.queued => v = u
      BY <1>1, <2>2, <2>5 DEF Heir, Follows
    <2>7. M = {}
      <3>1. ~ On("asks")
        BY <1>4, <2>1 DEF Premise, ShapeInv, Shape
      <3>. QED BY <3>1, <2>5, HistoryMakesNothing DEF ShapeInv
    <2>8. Ids' \subseteq Ids
      BY <2>7 DEF Writes
    <2>. QED BY <2>2, <2>3, <2>6, <2>8
  <1>. QED BY <1>2, <1>3, <1>4 DEF HistoryInv, IsHist, Items

LEMMA StepsKeep ==
    ASSUME ShapeInv, OneInv, NEW t \in Work, Steps(t)
    PROVE  ShapeInv' /\ OneInv' /\ WireGrows /\ config' = config
  <1>1. PICK new, M : /\ Replace(t, new) /\ Writes(M) /\ M \subseteq Makes(t)
                      /\ \A n \in new : Heir(t, n, M)
                      /\ OneHeir(new)
    BY DEF Steps
  <1>2. Keeps
    BY DEF Steps
  <1>3. ShapeInv'
    BY <1>1, <1>2, KeepsShapes DEF Heir, Keeps
  <1>4. ASSUME Premise
        PROVE  RowInv' /\ WorkInv' /\ QueueInv' /\ HistoryInv'
    <2>1. RowInv /\ WorkInv /\ QueueInv /\ HistoryInv
      BY <1>4 DEF OneInv
    <2>2. M \cap Ids = {}
      BY <2>1, <1>1 DEF WorkInv
    <2>3. RowInv'
      BY <2>1, <2>2, <1>1 DEF Writes
    <2>. QED BY <1>1, <1>2, <1>4, <2>1, <2>3, KeepsWork, KeepsHistory DEF Heir, Keeps
  <1>5. Premise' = Premise
    BY <1>2 DEF Premise, Keeps, Stays, On
  <1>. QED BY <1>2, <1>3, <1>4, <1>5 DEF OneInv, Keeps, Stays

LEMMA AddSteps ==
    ASSUME IsABag(tasks), NEW new, tasks' = tasks (+) SetToBag(new)
    PROVE  /\ IsABag(tasks') /\ Work' = Work \cup new
           /\ \A u \in Work \ new : tasks'[u] = tasks[u]
           /\ \A u \in new \ Work : tasks'[u] = 1
  <1> DEFINE B == tasks
             C == tasks'
  <1>1. IsABag(B) /\ C = With(B, new)
    BY DEF With
  <1> HIDE DEF B, C
  <1>2. Added(B, new, C)
    BY <1>1, AddTasks, Zenon
  <1>. QED BY <1>2 DEF Added, B, C, Work

\* A request, or a webhook.
Begins(n) ==
    /\ Keeps /\ rows' = rows /\ tasks' = tasks (+) SetToBag({n})
    /\ Shape(n)' /\ ~ IsHist(n) /\ Makes(n)' \subseteq Fresh
    /\ n.queued => ~ On("wa")

LEMMA BeginsKeeps ==
    ASSUME ShapeInv, OneInv, NEW n, Begins(n)
    PROVE  ShapeInv' /\ OneInv' /\ WireGrows /\ config' = config
  <1>1. /\ IsABag(tasks') /\ Work' = Work \cup {n}
        /\ \A u \in Work \ {n} : tasks'[u] = tasks[u]
        /\ n \notin Work => tasks'[n] = 1
    <2>1. IsABag(tasks) /\ tasks' = tasks (+) SetToBag({n})
      BY DEF ShapeInv, Begins
    <2>. QED BY <2>1, AddSteps
  <1>2. \A u \in Work : /\ Shape(u)' /\ Makes(u)' = Makes(u) /\ Makes(u) \subseteq DOMAIN wire
    BY ShapeStays, HistoryMakesNothing DEF ShapeInv, Keeps, Stays, Begins
  <1>3. \A i \in DOMAIN queue : /\ Shape(queue[i])' /\ Makes(queue[i])' = Makes(queue[i])
                                /\ Makes(queue[i]) \subseteq DOMAIN wire
    BY ShapeStays, HistoryMakesNothing DEF ShapeInv, Keeps, Stays, Begins
  <1>4. /\ queue' = queue /\ known' = known /\ rows' = rows /\ config' = config
        /\ WireGrows /\ Ids' = Ids
    BY DEF Begins, Keeps, Stays, Ids
  <1>5. \A id \in Fresh : id \notin DOMAIN wire
    BY DEF Fresh
  <1>6. ShapeInv'
    BY <1>1, <1>2, <1>3, <1>4 DEF ShapeInv, Begins, WireGrows
  <1>7. \A id \in Makes(n)' : id \in Fresh
    BY DEF Begins
  <1>8. ASSUME WorkInv, QueueInv
        PROVE  WorkInv' /\ QueueInv'
    <2>1. ASSUME NEW u \in Work', NEW id \in Makes(u)'
          PROVE  /\ id \notin Ids /\ tasks'[u] = 1
                 /\ \A v \in Work' : id \in Makes(v)' => v = u
                 /\ \A i \in DOMAIN queue : id \notin Makes(queue[i])
      <3>1. CASE id \in Fresh
        <4>1. u = n /\ n \notin Work
          BY <3>1, <2>1, <1>1, <1>2, <1>5
        <4>. QED BY <4>1, <3>1, <1>1, <1>2, <1>3, <1>5 DEF ShapeInv
      <3>2. CASE id \notin Fresh
        <4>1. u # n /\ u \in Work /\ id \in Makes(u)
          BY <3>2, <2>1, <1>1, <1>2, <1>7
        <4>. QED BY <4>1, <3>2, <1>1, <1>2, <1>7, <1>8 DEF WorkInv, QueueInv
      <3>. QED BY <3>1, <3>2
    <2>2. WorkInv'
      BY <2>1, <1>4 DEF WorkInv
    <2>3. QueueInv'
      BY <2>1, <1>3, <1>4, <1>8 DEF QueueInv
    <2>. QED BY <2>2, <2>3
  <1>9. ASSUME HistoryInv
        PROVE  HistoryInv'
    <2>1. ASSUME NEW u \in Work', IsHist(u)
          PROVE  u \in Work /\ u # n /\ ~ n.queued
      <3>1. u \in Work /\ u # n
        BY <1>1, <2>1 DEF Begins
      <3>2. On("wa")
        BY <3>1, <2>1 DEF ShapeInv, Shape
      <3>. QED BY <3>1, <3>2 DEF Begins
    <2>. QED BY <2>1, <1>1, <1>3, <1>4, <1>9 DEF HistoryInv, IsHist, Items
  <1>10. RowInv => RowInv'
    BY <1>4 DEF RowInv
  <1>11. Premise' = Premise
    BY <1>4 DEF Premise, On
  <1>. QED BY <1>4, <1>6, <1>8, <1>9, <1>10, <1>11 DEF OneInv

\* The queue gets one more batch at its end, or its last one grows.
Grows(L, b) ==
    /\ config' = config /\ WireGrows /\ rows' = rows /\ tasks' = tasks /\ known' = known
    /\ IsList(queue') /\ DOMAIN queue' = DOMAIN queue \cup {L}
    /\ \A i \in DOMAIN queue : i <= L
    /\ queue'[L] = b /\ \A i \in DOMAIN queue : i # L => queue'[i] = queue[i]
    /\ Shape(b)'
    /\ \A id \in Makes(b)' : id \in Fresh \/ (L \in DOMAIN queue /\ id \in Makes(queue[L]))
    /\ IsHist(b) /\ Premise => /\ b.do = "History" /\ L \notin DOMAIN queue /\ known = None
                               /\ \A t \in Work : ~ IsHist(t)
                               /\ \A i \in DOMAIN queue : ~ IsHist(queue[i])
    /\ L \in DOMAIN queue => ~ IsHist(queue[L])

\* The batches that wait, by what they are.
LEMMA SameBatch ==
    ASSUME NEW i, NEW q, queue'[i] = q
    PROVE  Shape(queue[i])' = Shape(q)' /\ Makes(queue[i])' = Makes(q)'
  <1>1. Chain(queue[i])' = Chain(q)' /\ IsHist(queue[i])' = IsHist(q)'
    BY DEF Chain, IsHist
  <1>2. Own(queue[i])' = Own(q)'
    BY DEF Own, Medium
  <1>3. Left(queue[i])' = Left(q)'
    BY <1>1 DEF Left
  <1>4. Makes(queue[i])' = Makes(q)'
    BY <1>2, <1>3 DEF Makes
  <1>5. Shape(queue[i])' = Shape(q)'
    BY <1>1 DEF Shape, Different
  <1>. QED BY <1>4, <1>5

LEMMA GrowsKeeps ==
    ASSUME ShapeInv, OneInv, NEW L, NEW b, Grows(L, b)
    PROVE  ShapeInv' /\ OneInv' /\ WireGrows /\ config' = config
  <1>1. Work' = Work /\ tasks' = tasks /\ rows' = rows /\ known' = known /\ Ids' = Ids
    BY DEF Grows, Work, Ids
  <1>2. \A u \in Work : Shape(u)' /\ Makes(u)' = Makes(u) /\ Makes(u) \subseteq DOMAIN wire
    BY ShapeStays, HistoryMakesNothing DEF ShapeInv, Grows
  <1>3. ASSUME NEW i \in DOMAIN queue', i # L
        PROVE  /\ i \in DOMAIN queue /\ queue'[i] = queue[i]
               /\ Shape(queue[i])' /\ Makes(queue[i])' = Makes(queue[i])
    <2>1. i \in DOMAIN queue /\ queue'[i] = queue[i]
      BY <1>3 DEF Grows
    <2>2. PICK q : q = queue[i]
      OBVIOUS
    <2>3. Shape(q)
      BY <2>1, <2>2 DEF ShapeInv
    <2>4. Shape(q)' /\ Makes(q)' = Makes(q)
      BY <2>3, ShapeStays DEF Grows
    <2>5. Shape(queue[i])' = Shape(q)' /\ Makes(queue[i])' = Makes(q)'
      BY <2>1, <2>2, SameBatch
    <2>. QED BY <2>1, <2>2, <2>4, <2>5
  <1>4. L \in DOMAIN queue' /\ queue'[L] = b /\ Shape(queue[L])' /\ Makes(queue[L])' = Makes(b)'
    BY SameBatch DEF Grows
  <1>5. \A id \in Fresh : id \notin DOMAIN wire
    BY DEF Fresh
  <1>6. ShapeInv'
    <2>1. \A i \in DOMAIN queue' : Shape(queue[i])'
      BY <1>3, <1>4
    <2>2. IsABag(tasks)' /\ IsList(queue)' /\ IsList(rows)' /\ IsList(wire)'
      BY <1>1 DEF ShapeInv, Grows, WireGrows
    <2>3. Ids' \subseteq DOMAIN wire'
      BY <1>1 DEF ShapeInv, Grows, WireGrows
    <2>. QED BY <1>1, <1>2, <2>1, <2>2, <2>3 DEF ShapeInv
  <1>7. \A id \in Makes(b)' : id \in Fresh \/ (L \in DOMAIN queue /\ id \in Makes(queue[L]))
    BY DEF Grows
  <1>8. \A i \in DOMAIN queue : Makes(queue[i]) \subseteq DOMAIN wire
    BY HistoryMakesNothing DEF ShapeInv
  <1>9. ASSUME WorkInv, QueueInv
        PROVE  WorkInv' /\ QueueInv'
    <2>1. WorkInv'
      BY <1>1, <1>2, <1>9 DEF WorkInv
    <2>2. ASSUME NEW i \in DOMAIN queue', NEW id \in Makes(queue[i])'
          PROVE  /\ id \notin Ids
                 /\ \A t \in Work : id \notin Makes(t)
                 /\ \A k \in DOMAIN queue' : id \in Makes(queue[k])' => k = i
      <3>1. CASE id \in Fresh
        <4>1. \A k \in DOMAIN queue' : id \in Makes(queue[k])' => k = L
          BY <3>1, <1>3, <1>5, <1>8
        <4>. QED BY <4>1, <2>2, <3>1, <1>2, <1>5 DEF ShapeInv
      <3>2. CASE id \notin Fresh
        <4>1. \A k \in DOMAIN queue' : id \in Makes(queue[k])'
                 => k \in DOMAIN queue /\ id \in Makes(queue[k])
          BY <3>2, <1>3, <1>4, <1>7
        <4>. QED BY <4>1, <2>2, <1>9 DEF QueueInv
      <3>. QED BY <3>1, <3>2
    <2>3. QueueInv'
      BY <2>2, <1>1, <1>2 DEF QueueInv
    <2>. QED BY <2>1, <2>3
  <1>10. ASSUME HistoryInv, Premise
         PROVE  HistoryInv'
    <2>1. \A t \in Work : IsHist(t) => Items(t) \subseteq DOMAIN wire
      BY DEF ShapeInv, Shape, Items
    <2>2. \A i \in DOMAIN queue : IsHist(queue[i]) => Items(queue[i]) \subseteq DOMAIN wire
      BY DEF ShapeInv, Shape, Items
    <2>3. ASSUME NEW t \in Work', IsHist(t)
          PROVE  /\ tasks'[t] = 1
                 /\ \A u \in Work' : u.queued => u = t
                 /\ \A i \in DOMAIN queue' : /\ ~ IsHist(queue'[i])
                                             /\ Makes(queue[i])' \cap Items(t) = {}
                 /\ IF t.do = "Import" THEN Ids' \subseteq known' ELSE known' = None
      <3>1. t \in Work
        BY <2>3, <1>1
      <3>2. ASSUME NEW i \in DOMAIN queue'
            PROVE  ~ IsHist(queue'[i]) /\ Makes(queue[i])' \cap Items(t) = {}
        <4>1. CASE i = L
          <5>1. ~ IsHist(b)
            BY <3>1, <2>3, <1>10 DEF Grows
          <5>2. \A id \in Makes(b)' : id \notin Items(t)
            BY <3>1, <2>1, <2>3, <1>5, <1>7, <1>10 DEF HistoryInv
          <5>. QED BY <5>1, <5>2, <4>1, <1>4
        <4>2. CASE i # L
          <5>1. i \in DOMAIN queue /\ queue'[i] = queue[i] /\ Makes(queue[i])' = Makes(queue[i])
            BY <4>2, <1>3
          <5>. QED BY <5>1, <3>1, <2>3, <1>10 DEF HistoryInv
        <4>. QED BY <4>1, <4>2
      <3>. QED BY <3>1, <3>2, <2>3, <1>1, <1>10 DEF HistoryInv
    <2>4. ASSUME NEW i \in DOMAIN queue', IsHist(queue'[i])
          PROVE  /\ queue'[i].do = "History" /\ known' = None
                 /\ \A k \in DOMAIN queue' : IsHist(queue'[k]) => k = i
                 /\ \A k \in DOMAIN queue' :
                       k > i => Makes(queue[k])' \cap Items(queue'[i]) = {}
      <3>1. CASE i = L
        <4>1. /\ queue'[i].do = "History" /\ L \notin DOMAIN queue /\ known = None
              /\ \A k \in DOMAIN queue : ~ IsHist(queue[k])
          BY <3>1, <2>4, <1>4, <1>10 DEF Grows
        <4>2. \A k \in DOMAIN queue' : ~ (k > L)
          <5>1. \A k \in DOMAIN queue' : k \in Nat
            BY DEF Grows, IsList
          <5>2. \A k \in DOMAIN queue' : k <= L
            BY <5>1, <1>3, <1>4 DEF Grows
          <5>3. L \in DOMAIN queue'
            BY DEF Grows
          <5>. QED BY <5>1, <5>2, <5>3
        <4>. QED BY <4>1, <4>2, <3>1, <1>1, <1>3
      <3>2. CASE i # L
        <4>1. i \in DOMAIN queue /\ queue'[i] = queue[i] /\ IsHist(queue[i])
          BY <3>2, <2>4, <1>3
        <4>2. ~ IsHist(b)
          BY <4>1, <1>10 DEF Grows
        <4>3. /\ queue'[i].do = "History" /\ known = None
              /\ \A k \in DOMAIN queue : IsHist(queue[k]) => k = i
              /\ \A k \in DOMAIN queue : k > i => Makes(queue[k]) \cap Items(queue[i]) = {}
          BY <4>1, <1>10 DEF HistoryInv
        <4>4. ASSUME NEW k \in DOMAIN queue', k > i, NEW id \in Makes(queue[k])'
              PROVE  id \notin Items(queue[i])
          <5>1. CASE k = L
            BY <5>1, <4>1, <4>3, <4>4, <2>2, <1>4, <1>5, <1>7
          <5>2. CASE k # L
            BY <5>2, <4>3, <4>4, <1>3
          <5>. QED BY <5>1, <5>2
        <4>5. Items(queue'[i]) = Items(queue[i])
          BY <4>1
        <4>6. \A k \in DOMAIN queue' : IsHist(queue'[k]) => k = i
          BY <4>2, <4>3, <1>3, <1>4
        <4>7. \A k \in DOMAIN queue' : k > i => Makes(queue[k])' \cap Items(queue'[i]) = {}
          BY <4>4, <4>5
        <4>. QED BY <4>3, <4>6, <4>7, <1>1
      <3>. QED BY <3>1, <3>2
    <2>. QED BY <2>3, <2>4 DEF HistoryInv, IsHist, Items
  <1>11. RowInv => RowInv'
    BY <1>1 DEF RowInv
  <1>12. Premise' = Premise
    BY DEF Premise, On, Grows
  <1>. QED BY <1>6, <1>9, <1>10, <1>11, <1>12 DEF OneInv, Grows

LEMMA NextBatchKeeps ==
    ASSUME ShapeInv, OneInv, NextBatch
    PROVE  ShapeInv' /\ OneInv' /\ WireGrows /\ config' = config
  <1> DEFINE h == queue[1]
  <1>1. /\ Len(queue) > 0 /\ Head(queue) = h /\ 1 \in DOMAIN queue
        /\ IsList(queue') /\ DOMAIN queue' = 1 .. Len(queue) - 1
        /\ \A i \in DOMAIN queue' : queue'[i] = queue[i + 1] /\ i + 1 \in DOMAIN queue
    <2>1. Shortens(queue, queue')
      BY TailList DEF NextBatch, ShapeInv
    <2>2. 1 \in DOMAIN queue
      BY <2>1 DEF Shortens, ShapeInv, IsList
    <2>. QED BY <2>1, <2>2 DEF Shortens
  <1>2. /\ IsABag(tasks') /\ Work' = Work \cup {h}
        /\ \A u \in Work \ {h} : tasks'[u] = tasks[u]
        /\ h \notin Work => tasks'[h] = 1
    <2>1. IsABag(tasks) /\ tasks' = tasks (+) SetToBag({h})
      BY <1>1 DEF ShapeInv, NextBatch
    <2> HIDE DEF h
    <2>. QED BY <2>1, AddSteps
  <1>3. /\ wire' = wire /\ rows' = rows /\ known' = known /\ config' = config /\ Ids' = Ids
        /\ WireGrows
    BY DEF NextBatch, WireGrows, ShapeInv, Ids
  <1>4. \A u \in Work : /\ ~ u.queued /\ Shape(u)' /\ Makes(u)' = Makes(u)
    BY <1>3, ShapeStays DEF ShapeInv, NextBatch, Handled
  <1>5. PICK q : q = h
    OBVIOUS
  <1>6. Shape(q) /\ Shape(q)' /\ Makes(q)' = Makes(q)
    BY <1>1, <1>3, <1>5, ShapeStays DEF ShapeInv
  <1>7. ASSUME NEW i \in DOMAIN queue'
        PROVE  /\ i + 1 \in DOMAIN queue /\ queue'[i] = queue[i + 1] /\ i + 1 # 1 /\ i + 1 > 1
               /\ Shape(queue[i])' /\ Makes(queue[i])' = Makes(queue[i + 1])
               /\ i \in Nat
    <2>1. i + 1 \in DOMAIN queue /\ queue'[i] = queue[i + 1] /\ i + 1 # 1 /\ i + 1 > 1 /\ i \in Nat
      BY <1>1 DEF ShapeInv, IsList
    <2>2. PICK r : r = queue[i + 1]
      OBVIOUS
    <2>3. Shape(r)
      BY <2>1, <2>2 DEF ShapeInv
    <2>4. Shape(r)' /\ Makes(r)' = Makes(r)
      BY <2>3, <1>3, ShapeStays
    <2>5. Shape(queue[i])' = Shape(r)' /\ Makes(queue[i])' = Makes(r)'
      BY <2>1, <2>2, SameBatch
    <2>. QED BY <2>1, <2>2, <2>4, <2>5
  <1>8. ShapeInv'
    BY <1>1, <1>2, <1>3, <1>4, <1>5, <1>6, <1>7 DEF ShapeInv
  <1>9. \A u \in Work' : u = q \/ u \in Work
    BY <1>2, <1>5
  <1>10. ASSUME WorkInv, QueueInv
         PROVE  WorkInv' /\ QueueInv'
    <2>1. \A id \in Makes(q) : /\ id \notin Ids /\ \A t \in Work : id \notin Makes(t)
                               /\ \A k \in DOMAIN queue : id \in Makes(queue[k]) => k = 1
      BY <1>1, <1>5, <1>10 DEF QueueInv
    <2>2. ASSUME NEW u \in Work', NEW id \in Makes(u)'
          PROVE  /\ id \notin Ids' /\ tasks'[u] = 1
                 /\ \A v \in Work' : id \in Makes(v)' => v = u
                 /\ \A i \in DOMAIN queue' : id \notin Makes(queue[i])'
      <3>1. CASE u = q
        <4>1. id \in Makes(q) /\ q \notin Work
          BY <3>1, <2>1, <2>2, <1>6
        <4>. QED BY <4>1, <3>1, <2>1, <1>2, <1>3, <1>4, <1>5, <1>7, <1>9
      <3>2. CASE u # q
        <4>1. u \in Work /\ id \in Makes(u) /\ id \notin Makes(q)
          BY <3>2, <2>1, <2>2, <1>4, <1>9
        <4>2. /\ id \notin Ids' /\ tasks'[u] = 1
              /\ \A v \in Work' : id \in Makes(v)' => v = u
          BY <4>1, <3>2, <1>2, <1>3, <1>4, <1>5, <1>6, <1>9, <1>10 DEF WorkInv
        <4>3. \A i \in DOMAIN queue : id \notin Makes(queue[i])
          BY <4>1, <1>10 DEF QueueInv
        <4>. QED BY <4>2, <4>3, <1>7
      <3>. QED BY <3>1, <3>2
    <2>3. WorkInv'
      BY <2>2 DEF WorkInv
    <2>4. ASSUME NEW i \in DOMAIN queue', NEW id \in Makes(queue[i])'
          PROVE  /\ id \notin Ids' /\ \A t \in Work' : id \notin Makes(t)'
                 /\ \A k \in DOMAIN queue' : id \in Makes(queue[k])' => k = i
      <3>1. id \in Makes(queue[i + 1]) /\ i + 1 \in DOMAIN queue
        BY <2>4, <1>7
      <3>2. id \notin Ids' /\ \A k \in DOMAIN queue : id \in Makes(queue[k]) => k = i + 1
        BY <3>1, <1>3, <1>10 DEF QueueInv
      <3>3. \A k \in DOMAIN queue' : id \in Makes(queue[k])' => k = i
        BY <3>2, <1>7
      <3>. QED BY <2>2, <2>4, <3>2, <3>3
    <2>5. QueueInv'
      BY <2>4 DEF QueueInv
    <2>. QED BY <2>3, <2>5
  <1>11. ASSUME HistoryInv
         PROVE  HistoryInv'
    <2>1. ASSUME NEW t \in Work', IsHist(t)
          PROVE  /\ tasks'[t] = 1 /\ \A u \in Work' : u.queued => u = t
                 /\ \A i \in DOMAIN queue' : /\ ~ IsHist(queue'[i])
                                             /\ Makes(queue[i])' \cap Items(t) = {}
                 /\ IF t.do = "Import" THEN Ids' \subseteq known' ELSE known' = None
      <3>1. \A u \in Work : ~ IsHist(u)
        BY <1>4 DEF ShapeInv, Shape, IsHist
      <3>2. t = q /\ t \notin Work /\ tasks'[t] = 1
        <4>1. t = q /\ t \notin Work
          BY <2>1, <3>1, <1>9
        <4>. QED BY <4>1, <1>2, <1>5
      <3>3. /\ q.do = "History" /\ known = None
            /\ \A k \in DOMAIN queue : IsHist(queue[k]) => k = 1
            /\ \A k \in DOMAIN queue : k > 1 => Makes(queue[k]) \cap Items(q) = {}
        <4>1. 1 \in DOMAIN queue /\ IsHist(queue[1]) /\ q = queue[1]
          BY <1>1, <1>5, <2>1, <3>2
        <4>. QED BY <4>1, <1>11 DEF HistoryInv
      <3>4. \A i \in DOMAIN queue' : ~ IsHist(queue'[i]) /\ Makes(queue[i])' \cap Items(t) = {}
        BY <3>2, <3>3, <1>7
      <3>. QED BY <3>2, <3>3, <3>4, <1>3, <1>4, <1>9
    <2>2. ASSUME NEW i \in DOMAIN queue', IsHist(queue'[i])
          PROVE  /\ queue'[i].do = "History" /\ known' = None
                 /\ \A k \in DOMAIN queue' : IsHist(queue'[k]) => k = i
                 /\ \A k \in DOMAIN queue' :
                       k > i => Makes(queue[k])' \cap Items(queue'[i]) = {}
      <3>1. i + 1 \in DOMAIN queue /\ queue'[i] = queue[i + 1] /\ IsHist(queue[i + 1])
        BY <1>7, <2>2
      <3>2. /\ queue[i + 1].do = "History" /\ known = None
            /\ \A k \in DOMAIN queue : IsHist(queue[k]) => k = i + 1
            /\ \A k \in DOMAIN queue : k > i + 1 => Makes(queue[k]) \cap Items(queue[i + 1]) = {}
        BY <3>1, <1>11 DEF HistoryInv
      <3>3. \A k \in DOMAIN queue' : IsHist(queue'[k]) => k = i
        BY <3>2, <1>7
      <3>4. Items(queue'[i]) = Items(queue[i + 1])
        BY <3>1
      <3>5. \A k \in DOMAIN queue' : k > i => Makes(queue[k])' \cap Items(queue'[i]) = {}
        BY <3>2, <3>4, <1>7
      <3>. QED BY <3>1, <3>2, <3>3, <3>5, <1>3
    <2>. QED BY <2>1, <2>2 DEF HistoryInv, IsHist, Items
  <1>12. RowInv => RowInv'
    BY <1>3 DEF RowInv
  <1>13. Premise' = Premise
    BY <1>3 DEF Premise, On
  <1>. QED BY <1>3, <1>8, <1>10, <1>11, <1>12, <1>13 DEF OneInv

-----------------------------------------------------------------------------
(* The rows *)

LEMMA SameRows ==
    ASSUME IsList(rows'), DOMAIN rows' = DOMAIN rows,
           \A i \in DOMAIN rows : rows'[i].id = rows[i].id
    PROVE  Writes({})
  BY DEF Writes, Ids, RowInv

LEMMA UnchangedRows ==
    ASSUME ShapeInv, rows' = rows
    PROVE  Writes({})
  BY SameRows DEF ShapeInv

LEMMA OneMoreRow ==
    ASSUME ShapeInv, NEW r, rows' = Append(rows, r)
    PROVE  Writes({r.id})
  <1>1. Extends(rows, r, rows')
    BY AppendList DEF ShapeInv
  <1>2. Ids' \subseteq Ids \cup {r.id}
    BY <1>1 DEF Extends, Ids
  <1>3. ASSUME RowInv, r.id \notin Ids
        PROVE  RowInv'
    <2>1. \A i \in DOMAIN rows : rows'[i].id = rows[i].id /\ rows[i].id # r.id
      BY <1>1, <1>3 DEF Extends, Ids
    <2>2. \A i \in DOMAIN rows' : i \in DOMAIN rows \/ (i = Len(rows) + 1 /\ rows'[i].id = r.id)
      BY <1>1 DEF Extends
    <2>. QED BY <1>3, <2>1, <2>2 DEF RowInv
  <1>. QED BY <1>1, <1>2, <1>3 DEF Writes, Extends

LEMMA OneLessRow ==
    ASSUME ShapeInv, NEW i \in DOMAIN rows, DropRow(i)
    PROVE  Writes({})
  <1>1. Len(rows) \in Nat /\ DOMAIN rows = 1 .. Len(rows) /\ Len(rows) - 1 \in Nat
    BY DEF ShapeInv, IsList
  <1>2. DOMAIN rows' = 1 .. Len(rows) - 1 /\ rows' = [j \in DOMAIN rows' |-> rows'[j]]
    BY DEF DropRow
  <1>3. IsList(rows')
    BY <1>1, <1>2, FunctionIsList
  <1>4. \A j \in DOMAIN rows' : \/ j < i /\ j \in DOMAIN rows /\ rows'[j] = rows[j]
                                \/ j >= i /\ j + 1 \in DOMAIN rows /\ rows'[j] = rows[j + 1]
    BY <1>1 DEF DropRow
  <1>5. \A j \in DOMAIN rows' : j \in Nat
    BY <1>1, <1>2
  <1>6. Ids' \subseteq Ids
    BY <1>4 DEF Ids
  <1>7. ASSUME RowInv
        PROVE  RowInv'
    <2>1. ASSUME NEW j \in DOMAIN rows', NEW k \in DOMAIN rows', rows'[j].id = rows'[k].id
          PROVE  j = k
      <3>1. PICK a \in DOMAIN rows : rows'[j] = rows[a]
                                     /\ ((j < i /\ a = j) \/ (j >= i /\ a = j + 1))
        BY <1>4
      <3>2. PICK c \in DOMAIN rows : rows'[k] = rows[c]
                                     /\ ((k < i /\ c = k) \/ (k >= i /\ c = k + 1))
        BY <1>4
      <3>3. a = c
        BY <3>1, <3>2, <2>1, <1>7 DEF RowInv
      <3>4. i \in Nat
        BY <1>1
      <3>. QED BY <3>1, <3>2, <3>3, <3>4, <1>5
    <2>. QED BY <2>1 DEF RowInv
  <1>. QED BY <1>3, <1>6, <1>7 DEF Writes

\* What ReadUpTo makes of the rows.
LEMMA ReadRows ==
    ASSUME ShapeInv, NEW S,
           rows' = [i \in DOMAIN rows |-> IF i \in S THEN [rows[i] EXCEPT !.status = "READ"]
                                          ELSE rows[i]]
    PROVE  Writes({})
  <1>1. DOMAIN rows' = DOMAIN rows /\ rows' = [j \in DOMAIN rows' |-> rows'[j]]
    OBVIOUS
  <1>2. IsList(rows')
    BY <1>1, FunctionIsList DEF ShapeInv, IsList
  <1>3. \A j \in DOMAIN rows : rows'[j].id = rows[j].id
    OBVIOUS
  <1>. QED BY <1>1, <1>2, <1>3, SameRows

-----------------------------------------------------------------------------
(* A history *)

\* Only a history is handled next to itself.
LEMMA HistoryAlone ==
    ASSUME ShapeInv, Premise, HistoryInv, NEW t \in Work, IsHist(t)
    PROVE  /\ \A u \in Work : Makes(u) = {}
           /\ tasks[t] = 1
           /\ \A u \in Work : u.queued => u = t
  <1>1. ~ On("asks")
    BY DEF ShapeInv, Shape, Premise
  <1>2. tasks[t] = 1 /\ \A u \in Work : u.queued => u = t
    BY DEF HistoryInv
  <1>3. ASSUME NEW u \in Work
        PROVE  Makes(u) = {}
    BY <1>1, <1>2, HistoryMakesNothing DEF ShapeInv
  <1>. QED BY <1>2, <1>3

\* The chats of a history are written, or the snapshot is taken.
NextOfHistory(t, n) ==
    /\ IsHist(t) /\ t.do # "Import" /\ n.do \in {"Snapshot", "Import"}
    /\ DOMAIN n = DOMAIN t /\ n.batch = t.batch /\ n.kind = t.kind /\ n.queued = t.queued
    /\ Replace(t, {n}) /\ UNCHANGED <<wire, rows, queue, config>>
    /\ IF n.do = "Import" THEN known = None => Ids \subseteq known' ELSE known' = known
    /\ known = None \/ known' = known

LEMMA NextOfHistoryKeeps ==
    ASSUME ShapeInv, OneInv, NEW t \in Work, NEW n, NextOfHistory(t, n)
    PROVE  ShapeInv' /\ OneInv' /\ WireGrows /\ config' = config
  <1> DEFINE new == {n}
  <1>1. Stays /\ Writes({}) /\ Replace(t, new)
    BY UnchangedRows DEF NextOfHistory, Stays, WireGrows, ShapeInv
  <1>2. Shape(t) /\ IsHist(t)
    BY DEF ShapeInv, NextOfHistory
  <1>3. IsHist(n) /\ Shape(n)
    <2>1. n.do \in HistoryDos /\ t.do \in HistoryDos
      BY <1>2 DEF NextOfHistory, IsHist, HistoryDos
    <2>2. n.do \notin UpsertDos /\ n.do \notin CountDos /\ n.do \notin UpdateDos
          /\ n.do \notin MetaDos /\ n.do \notin SendDos /\ n.do # "Create" /\ n.do # "Store"
      BY <2>1 DEF HistoryDos, UpsertDos, CountDos, UpdateDos, MetaDos, SendDos
    <2>3. n.kind = "history" /\ ~ Chain(n)
      BY <1>2, <2>2 DEF Shape, NextOfHistory, Chain
    <2>. QED BY <1>2, <2>1, <2>2, <2>3 DEF NextOfHistory, Shape, IsHist, Different
  <1>4. Shape(n)' /\ Makes(n)' = {}
    BY <1>1, <1>3, ShapeStays, HistoryMakesNothing DEF Stays
  <1>5. \A m \in new : Follows(t, m, {})
    BY <1>4 DEF Follows, NextOfHistory
  <1>6. OneHeir(new)
    BY DEF OneHeir
  <1> HIDE DEF new
  <1>7. ShapeInv'
    BY <1>1, <1>5, KeepsShapes
  <1>8. ASSUME Premise
        PROVE  RowInv' /\ WorkInv' /\ QueueInv' /\ HistoryInv'
    <2>1. RowInv /\ WorkInv /\ QueueInv /\ HistoryInv
      BY <1>8 DEF OneInv
    <2>2. RowInv' /\ WorkInv' /\ QueueInv'
      BY <1>1, <1>5, <1>6, <2>1, KeepsWork DEF Writes
    <2>3. tasks[t] = 1 /\ \A u \in Work : u.queued => u = t
      BY <1>2, <1>8, <2>1, HistoryAlone
    <2>4. Work' = (Work \ {t}) \cup {n} /\ (\A u \in {n} \ Work : tasks'[u] = 1)
          /\ (t = n => tasks'[t] = 1)
      BY <1>1, <2>3, ReplaceSteps DEF ShapeInv, new
    <2>5. n.queued
      BY <1>3 DEF Shape, IsHist
    <2>6. \A u \in Work' : u.queued => u = n
      BY <2>3, <2>4
    <2>7. tasks'[n] = 1
      BY <2>3, <2>4, <2>5
    <2>8. /\ \A i \in DOMAIN queue : ~ IsHist(queue[i]) /\ Makes(queue[i]) \cap Items(t) = {}
          /\ known = None
      BY <1>2, <2>1 DEF HistoryInv, NextOfHistory
    <2>9. Items(n) = Items(t) /\ queue' = queue /\ Ids' = Ids
      BY DEF Items, NextOfHistory, Ids
    <2>10. \A i \in DOMAIN queue : Makes(queue[i])' = Makes(queue[i])
      BY <1>1, ShapeStays DEF ShapeInv, Stays
    <2>11. IF n.do = "Import" THEN Ids' \subseteq known' ELSE known' = None
      BY <2>8, <2>9 DEF NextOfHistory
    <2>12. \A u \in Work' : IsHist(u) => u = n
      BY <1>7, <2>6 DEF ShapeInv, Shape, IsHist
    <2>13. \A u \in Work' : IsHist(u) =>
              /\ tasks'[u] = 1 /\ \A v \in Work' : v.queued => v = u
              /\ \A i \in DOMAIN queue : /\ ~ IsHist(queue[i])
                                         /\ Makes(queue[i])' \cap Items(u) = {}
              /\ IF u.do = "Import" THEN Ids' \subseteq known' ELSE known' = None
      BY <2>6, <2>7, <2>8, <2>9, <2>10, <2>11, <2>12
    <2>14. HistoryInv'
      BY <2>8, <2>9, <2>13 DEF HistoryInv, IsHist, Items
    <2>. QED BY <2>2, <2>14
  <1>9. Premise' = Premise
    BY <1>1 DEF Premise, Stays, On
  <1>. QED BY <1>1, <1>7, <1>8, <1>9 DEF OneInv, Stays

LEMMA ImportRows ==
    ASSUME ShapeInv, NEW t \in Work, ImportMessages(t)
    PROVE  Names /\ \E M \in SUBSET Items(t) : Writes(M) /\ M \cap known = {}
  <1> DEFINE new == {i \in DOMAIN t.batch : /\ t.batch[i].id \notin known
                                            /\ wire[t.batch[i].id].kind \notin {"stub", "edit"}}
             M == {t.batch[i].id : i \in new}
  <1>1. IsList(t.batch) /\ Different(t.batch)
    BY DEF ShapeInv, Shape, ImportMessages, IsHist, HistoryDos
  <1>2. Cardinality(new) \in Nat
    <2>1. IsFiniteSet(DOMAIN t.batch)
      BY <1>1, FS_Interval DEF IsList
    <2>. QED BY <2>1, FS_Subset, FS_CardinalityType
  <1>3. PICK place \in [1 .. Cardinality(new) -> new], status \in {"DELIVERY_ACK", "READ"} :
           /\ \A j, k \in DOMAIN place : j < k => place[j] < place[k]
           /\ rows' = rows \o [j \in DOMAIN place |->
                        LET id == t.batch[place[j]].id
                        IN Row(id, wire[id], IF wire[id].mine THEN "SERVER_ACK" ELSE status)]
    BY DEF ImportMessages
  <1>4. \A i \in new : i \in DOMAIN t.batch /\ i \in Nat /\ t.batch[i].id \in M
    BY <1>1 DEF IsList
  <1>5. M \in SUBSET Items(t) /\ M \cap known = {}
    BY DEF Items
  <1> DEFINE N == Cardinality(new)
             r == [j \in DOMAIN place |->
                     LET id == t.batch[place[j]].id
                     IN Row(id, wire[id], IF wire[id].mine THEN "SERVER_ACK" ELSE status)]
  <1>6. DOMAIN place = 1 .. N /\ N \in Nat /\ \A j \in 1 .. N : place[j] \in new
    BY <1>2, <1>3
  <1>7. \A j, k \in 1 .. N : place[j] = place[k] => j = k
    <2>1. \A j, k \in 1 .. N : j < k => place[j] < place[k]
      BY <1>3, <1>6
    <2>2. \A j \in 1 .. N : place[j] \in Nat
      BY <1>4, <1>6
    <2> HIDE DEF N, new
    <2>3. ASSUME NEW j \in 1 .. N, NEW k \in 1 .. N, place[j] = place[k]
          PROVE  j = k
      <3>1. ~ (j < k) /\ ~ (k < j)
        BY <2>1, <2>2, <2>3
      <3>. QED BY <3>1, <1>6
    <2>. QED BY <2>3
  <1>8. /\ DOMAIN r = 1 .. N /\ r = [j \in DOMAIN r |-> r[j]]
        /\ \A j \in 1 .. N : /\ r[j].id = t.batch[place[j]].id
                             /\ r[j].jid = wire[t.batch[place[j]].id].jid
    BY <1>6 DEF Row
  <1>9. rows' = rows \o r
    BY <1>3
  <1> HIDE DEF r, N, new, M
  <1>10. IsList(r) /\ Len(r) = N
    BY <1>6, <1>8, FunctionIsList
  <1>11. IsList(rows)
    BY DEF ShapeInv
  <1>12. /\ IsList(rows')
         /\ \A i \in DOMAIN rows : rows'[i] = rows[i]
         /\ \A i \in DOMAIN rows' \ DOMAIN rows : /\ i - Len(rows) \in DOMAIN r
                                                  /\ rows'[i] = r[i - Len(rows)]
    BY <1>9, <1>10, <1>11, ConcatList, ConcatParts DEF Joins
  <1>13. ASSUME NEW i \in DOMAIN rows' \ DOMAIN rows
         PROVE  /\ i - Len(rows) \in 1 .. N
                /\ rows'[i].id = t.batch[place[i - Len(rows)]].id
                /\ place[i - Len(rows)] \in new
                /\ rows'[i].id \in M
    BY <1>4, <1>6, <1>8, <1>12
  <1>14. Ids' \subseteq Ids \cup M
    BY <1>12, <1>13 DEF Ids
  <1>15. ASSUME RowInv, M \cap Ids = {}
         PROVE  RowInv'
    <2>1. ASSUME NEW i \in DOMAIN rows', NEW k \in DOMAIN rows', rows'[i].id = rows'[k].id
          PROVE  i = k
      <3>1. CASE i \in DOMAIN rows /\ k \in DOMAIN rows
        BY <3>1, <2>1, <1>12, <1>15 DEF RowInv
      <3>2. CASE i \in DOMAIN rows /\ k \notin DOMAIN rows
        BY <3>2, <2>1, <1>12, <1>13, <1>15 DEF Ids
      <3>3. CASE i \notin DOMAIN rows /\ k \in DOMAIN rows
        BY <3>3, <2>1, <1>12, <1>13, <1>15 DEF Ids
      <3>4. CASE i \notin DOMAIN rows /\ k \notin DOMAIN rows
        <4>1. place[i - Len(rows)] = place[k - Len(rows)]
          BY <3>4, <2>1, <1>1, <1>4, <1>13 DEF Different
        <4>2. i - Len(rows) = k - Len(rows)
          BY <4>1, <3>4, <1>7, <1>13
        <4>3. i \in Int /\ k \in Int /\ Len(rows) \in Int
          BY <1>11, <1>12 DEF IsList
        <4>. QED BY <4>2, <4>3
      <3>. QED BY <3>1, <3>2, <3>3, <3>4
    <2>. QED BY <2>1 DEF RowInv
  <1>16. Writes(M)
    BY <1>12, <1>14, <1>15 DEF Writes
  <1>17. M \subseteq DOMAIN wire
    <2>1. IsHist(t) /\ Shape(t)
      BY DEF ShapeInv, ImportMessages, IsHist, HistoryDos
    <2>. QED BY <2>1, <1>5 DEF Shape, Items
  <1>18. \A i \in DOMAIN rows' \ DOMAIN rows : rows'[i].jid = wire[rows'[i].id].jid
    BY <1>8, <1>12, <1>13
  <1>19. Names
    BY <1>12, <1>13, <1>17, <1>18 DEF Names
  <1>. QED BY <1>5, <1>16, <1>19

LEMMA ImportKeeps ==
    ASSUME ShapeInv, OneInv, NEW t \in Work, ImportMessages(t)
    PROVE  ShapeInv' /\ OneInv' /\ WireGrows /\ config' = config
  <1>1. PICK M \in SUBSET Items(t) : Writes(M) /\ M \cap known = {}
    BY ImportRows
  <1>2. /\ wire' = wire /\ queue' = queue /\ known' = known /\ config' = config /\ WireGrows
        /\ t.do = "Import" /\ IsHist(t) /\ Replace(t, {})
    BY DEF ImportMessages, Finish, baileysVars, WireGrows, ShapeInv, IsHist, HistoryDos
  <1>3. /\ IsABag(tasks') /\ Work' \subseteq Work
        /\ tasks[t] = 1 => Work' = Work \ {t}
    BY <1>2, ReplaceSteps DEF ShapeInv
  <1>4. \A u \in Work : Shape(u)' /\ Makes(u)' = Makes(u)
    BY <1>2, ShapeStays DEF ShapeInv
  <1>5. \A i \in DOMAIN queue : Shape(queue[i])' /\ Makes(queue[i])' = Makes(queue[i])
    BY <1>2, ShapeStays DEF ShapeInv
  <1>6. Items(t) \subseteq DOMAIN wire
    BY <1>2 DEF ShapeInv, Shape, Items
  <1>7. ShapeInv'
    BY <1>1, <1>2, <1>3, <1>4, <1>5, <1>6 DEF ShapeInv, Writes
  <1>8. ASSUME Premise
        PROVE  RowInv' /\ WorkInv' /\ QueueInv' /\ HistoryInv'
    <2>1. RowInv /\ WorkInv /\ QueueInv /\ HistoryInv
      BY <1>8 DEF OneInv
    <2>2. /\ \A u \in Work : Makes(u) = {}
          /\ tasks[t] = 1 /\ \A u \in Work : u.queued => u = t
      BY <1>2, <1>8, <2>1, HistoryAlone
    <2>3. /\ Ids \subseteq known
          /\ \A i \in DOMAIN queue : ~ IsHist(queue[i]) /\ Makes(queue[i]) \cap Items(t) = {}
      BY <1>2, <2>1 DEF HistoryInv
    <2>4. RowInv'
      BY <1>1, <2>1, <2>3 DEF Writes
    <2>5. \A u \in Work' : Makes(u)' = {}
      BY <1>3, <1>4, <2>2
    <2>6. WorkInv'
      BY <2>5 DEF WorkInv
    <2>7. \A i \in DOMAIN queue : \A id \in Makes(queue[i]) : id \notin Ids'
      BY <1>1, <2>1, <2>3 DEF Writes, QueueInv
    <2>8. QueueInv'
      BY <1>2, <1>5, <2>1, <2>5, <2>7 DEF QueueInv
    <2>9. \A u \in Work' : ~ IsHist(u)
      BY <1>3, <2>2 DEF ShapeInv, Shape, IsHist
    <2>10. HistoryInv'
      BY <1>2, <2>3, <2>9 DEF HistoryInv, IsHist
    <2>. QED BY <2>4, <2>6, <2>8, <2>10
  <1>9. Premise' = Premise
    BY <1>2 DEF Premise, On
  <1>. QED BY <1>2, <1>7, <1>8, <1>9 DEF OneInv

-----------------------------------------------------------------------------
(* What a task leaves behind *)

LEMMA SameWire ==
    ASSUME ShapeInv, wire' = wire
    PROVE  WireGrows
  BY DEF WireGrows, ShapeInv

LEMMA OneOnWire ==
    ASSUME ShapeInv, NEW m, wire' = Append(wire, m)
    PROVE  /\ WireGrows /\ Fresh = {Len(wire')} /\ Len(wire') \in DOMAIN wire'
           /\ wire'[Len(wire')] = m
  <1>1. Extends(wire, m, wire')
    BY AppendList DEF ShapeInv
  <1>. QED BY <1>1 DEF Extends, WireGrows, Fresh

LEMMA FinishSteps ==
    ASSUME Keeps, NEW t \in Work, Finish(t), NEW M, Writes(M), M \subseteq Makes(t)
    PROVE  Steps(t)
  <1>1. Replace(t, {}) /\ OneHeir({})
    BY DEF Finish, OneHeir
  <1>. QED BY <1>1 DEF Steps

LEMMA OneSteps ==
    ASSUME Keeps, NEW t \in Work, NEW n, Replace(t, {n}), NEW M, Writes(M), M \subseteq Makes(t),
           Heir(t, n, M)
    PROVE  Steps(t)
  <1> DEFINE new == {n}
  <1>1. OneHeir(new) /\ Replace(t, new) /\ \A m \in new : Heir(t, m, M)
    BY DEF OneHeir
  <1> HIDE DEF new
  <1>. QED BY <1>1 DEF Steps

\* A task that stores nothing.
Idle(t, n) ==
    /\ DOMAIN n = TaskFields /\ n.queued \in BOOLEAN
    /\ n.queued => t.queued
    /\ n.do \in UpdateDos => n.queued
    /\ n.kind # "upsert" /\ n.kind # "history"
    /\ n.do \notin UpsertDos \cup HistoryDos \cup MetaDos \cup SendDos

LEMMA IdleHeir ==
    ASSUME ShapeInv, Keeps, NEW t \in Work, NEW n, Idle(t, n), NEW M
    PROVE  Heir(t, n, M) /\ Makes(n)' = {}
  <1>1. ~ Chain(n) /\ ~ IsHist(n) /\ n.do # "Create" /\ n.do # "Store"
    BY DEF Idle, Chain, IsHist, UpsertDos, SendDos
  <1>2. ~ Own(n)'
    BY <1>1 DEF Idle, Own, MetaDos
  <1>3. Left(n)' = {} /\ Makes(n)' = {}
    BY <1>1, <1>2 DEF Left, Makes, Chain
  <1>4. Shape(n)'
    BY <1>1 DEF Shape, Idle, Chain, IsHist
  <1>. QED BY <1>1, <1>3, <1>4 DEF Heir, Follows, Idle

LEMMA Unmoved ==
    ASSUME ShapeInv, UNCHANGED <<wire, config, queue, known>>
    PROVE  Keeps
  BY SameWire DEF Keeps, Stays

LEMMA DoneSteps ==
    ASSUME ShapeInv, NEW t \in Work, UNCHANGED <<wire, config, queue, known>>, Writes({}), Finish(t)
    PROVE  Steps(t)
  BY Unmoved, FinishSteps

LEMMA IdleSteps ==
    ASSUME ShapeInv, NEW t \in Work, UNCHANGED <<wire, config, queue, known>>, Writes({}),
           NEW n, Replace(t, {n}), Idle(t, n)
    PROVE  Steps(t)
  BY Unmoved, IdleHeir, OneSteps

\* A task that is none of those that are watched is of no kind that is.
LEMMA Plain ==
    ASSUME ShapeInv, NEW t \in Work, t.do \notin UpsertDos \cup CountDos \cup HistoryDos
    PROVE  t.kind # "upsert" /\ t.kind # "history"
  BY DEF ShapeInv, Shape, IsHist

LEMMA ContinueSteps ==
    ASSUME ShapeInv, NEW t \in Work, UNCHANGED <<wire, config, queue, known>>, Writes({}),
           t.do \notin UpsertDos \cup CountDos \cup HistoryDos,
           NEW d, Continue(t, d), d \notin UpsertDos \cup HistoryDos \cup MetaDos \cup SendDos,
           d \in UpdateDos => t.queued
    PROVE  Steps(t)
  <1>1. PICK n : n = [t EXCEPT !.do = d] /\ Replace(t, {n})
    BY DEF Continue
  <1>2. DOMAIN t = TaskFields /\ t.queued \in BOOLEAN
    BY DEF ShapeInv, Shape
  <1>3. DOMAIN n = TaskFields /\ n.queued = t.queued /\ n.do = d /\ n.kind = t.kind
    BY <1>1, <1>2 DEF TaskFields
  <1>4. Idle(t, n)
    BY <1>2, <1>3, Plain DEF Idle
  <1>. QED BY <1>1, <1>4, IdleSteps

\* A request goes on to send.
LEMMA SendHeir ==
    ASSUME ShapeInv, Keeps, NEW t \in Work, t.do \in SendDos, NEW n, NEW M,
           DOMAIN n = TaskFields, n.queued = t.queued, n.kind = t.kind, n.do \in SendDos,
           n.do = "Store" => n.id \in Fresh
    PROVE  Heir(t, n, M)
  <1>1. t.do \notin UpsertDos \cup CountDos \cup HistoryDos
    BY DEF SendDos, UpsertDos, CountDos, HistoryDos
  <1>2. n.kind # "upsert" /\ n.kind # "history" /\ On("asks") /\ n.queued \in BOOLEAN
    BY <1>1, Plain DEF ShapeInv, Shape
  <1>3. n.do \notin UpsertDos \cup HistoryDos \cup UpdateDos \cup MetaDos /\ n.do # "Create"
    BY DEF SendDos, UpsertDos, HistoryDos, UpdateDos, MetaDos
  <1>4. ~ Chain(n) /\ ~ IsHist(n)
    BY <1>2, <1>3 DEF Chain, IsHist
  <1>5. Own(n)' => n.do = "Store"
    BY <1>3 DEF Own, MetaDos
  <1>6. Makes(n)' \subseteq Fresh
    BY <1>4, <1>5 DEF Makes, Left, Chain
  <1>7. Fresh \subseteq DOMAIN wire'
    BY DEF Fresh
  <1>8. Shape(n)'
    BY <1>2, <1>3, <1>4, <1>7 DEF Shape, Keeps, Stays, On, Chain, IsHist
  <1>. QED BY <1>4, <1>6, <1>8 DEF Heir, Follows

LEMMA SendSteps ==
    ASSUME ShapeInv, NEW t \in Work, UNCHANGED <<wire, config, queue, known>>, Writes({}),
           t.do \in SendDos, NEW d, Continue(t, d), d \in SendDos, d # "Store"
    PROVE  Steps(t)
  <1>1. PICK n : n = [t EXCEPT !.do = d] /\ Replace(t, {n})
    BY DEF Continue
  <1>2. DOMAIN t = TaskFields
    BY DEF ShapeInv, Shape
  <1>3. DOMAIN n = TaskFields /\ n.queued = t.queued /\ n.do = d /\ n.kind = t.kind
    BY <1>1, <1>2 DEF TaskFields
  <1>4. Heir(t, n, {})
    BY <1>3, SendHeir, Unmoved
  <1>. QED BY <1>1, <1>4, OneSteps, Unmoved

\* A batch of new messages goes on with the message it is at.
LEMMA ChainHeir ==
    ASSUME ShapeInv, Keeps, On("wa"), NEW t \in Work, Chain(t), Len(t.batch) > 0, NEW n, NEW M,
           DOMAIN n = TaskFields, n.batch = t.batch, n.queued = t.queued,
           n.do \in UpsertDos \cup CountDos, n.do # "Upsert", Chain(n), n.kind # "history",
           n.do = "Create" => t.do = "Upsert" /\ n.id = t.batch[1].id,
           M = IF t.do = "Create" THEN {t.batch[1].id} ELSE {}
    PROVE  Heir(t, n, M)
  <1>1. /\ IsList(t.batch) /\ Different(t.batch) /\ t.queued
        /\ \A j \in DOMAIN t.batch : t.batch[j].id \in DOMAIN wire
    BY DEF ShapeInv, Shape
  <1>2. /\ n.do \notin HistoryDos \cup UpdateDos \cup MetaDos \cup SendDos /\ n.do # "Store"
        /\ n.do # "Settings" /\ n.do # "Tell" /\ n.do # "Row"
    BY DEF UpsertDos, CountDos, HistoryDos, UpdateDos, MetaDos, SendDos
  <1>3. 1 \in DOMAIN t.batch /\ DOMAIN wire \subseteq DOMAIN wire'
    BY <1>1 DEF IsList, Keeps, Stays, WireGrows
  <1>4. Shape(n)'
    BY <1>1, <1>2, <1>3 DEF Shape, Different, Chain, IsHist, Keeps, Stays, On
  <1>5. Own(n)' => n.do = "Create"
    BY <1>2 DEF Own
  <1>6. Left(n)' = {j \in DOMAIN t.batch : j > 1}
    BY DEF Left, Chain
  <1>7. \A j \in DOMAIN t.batch : j > 1 => t.batch[j].id \in Makes(t) \ M
    BY <1>1, <1>3 DEF Makes, Left, Different
  <1>8. n.do = "Create" => t.batch[1].id \in Makes(t) \ M
    BY <1>3 DEF Makes, Left
  <1>9. Makes(n)' \subseteq Makes(t) \ M
    BY <1>5, <1>6, <1>7, <1>8 DEF Makes
  <1>. QED BY <1>2, <1>4, <1>9 DEF Heir, Follows, IsHist

LEMMA RestHeir ==
    ASSUME ShapeInv, Keeps, NEW t \in Work, Chain(t), t.batch # <<>>, NEW n, n = Rest(t)
    PROVE  Heir(t, n, {})
  <1>1. /\ IsList(t.batch) /\ Different(t.batch) /\ t.queued /\ DOMAIN t = TaskFields
        /\ \A j \in DOMAIN t.batch : t.batch[j].id \in DOMAIN wire
    BY DEF ShapeInv, Shape
  <1>2. /\ DOMAIN n = TaskFields /\ n.do = "Upsert" /\ n.batch = Tail(t.batch)
        /\ n.queued = t.queued /\ n.kind = "none"
    BY <1>1 DEF Rest, TaskFields
  <1>3. Shortens(t.batch, n.batch)
    BY <1>1, <1>2, TailList
  <1>4. /\ IsList(n.batch)
        /\ \A j \in DOMAIN n.batch : n.batch[j] = t.batch[j + 1] /\ j + 1 \in DOMAIN t.batch
                                     /\ j + 1 > 1 /\ j \in Nat
    BY <1>3 DEF Shortens, IsList
  <1>5. Different(n.batch)
    BY <1>1, <1>4 DEF Different
  <1>6. DOMAIN wire \subseteq DOMAIN wire'
    BY DEF Keeps, Stays, WireGrows
  <1>7. /\ n.do \notin HistoryDos \cup UpdateDos \cup MetaDos \cup SendDos
        /\ n.do \in UpsertDos /\ ~ IsHist(n)
    BY <1>2 DEF UpsertDos, HistoryDos, UpdateDos, MetaDos, SendDos, IsHist
  <1>8. n.kind # "upsert" /\ n.kind # "history" /\ n.do # "Create" /\ n.do # "Store"
    BY <1>2
  <1>9. Shape(n)'
    BY <1>1, <1>2, <1>4, <1>5, <1>6, <1>7, <1>8 DEF Shape, Different, Chain, IsHist
  <1>10. ~ Own(n)'
    BY <1>2 DEF Own
  <1>11. \A j \in DOMAIN n.batch : n.batch[j].id \in Makes(t)
    BY <1>4 DEF Makes, Left
  <1>12. Makes(n)' \subseteq Makes(t)
    BY <1>10, <1>11 DEF Makes, Left
  <1>. QED BY <1>2, <1>7, <1>9, <1>12 DEF Heir, Follows

LEMMA RestSteps ==
    ASSUME ShapeInv, NEW t \in Work, UNCHANGED <<wire, config, queue, known>>, Writes({}),
           Chain(t), t.batch # <<>>, Replace(t, {Rest(t)})
    PROVE  Steps(t)
  <1>1. PICK n : n = Rest(t) /\ Replace(t, {n})
    OBVIOUS
  <1>2. Heir(t, n, {})
    BY <1>1, RestHeir, Unmoved
  <1>. QED BY <1>1, <1>2, OneSteps, Unmoved

LEMMA EditedRow ==
    ASSUME ShapeInv, NEW i \in DOMAIN rows, NEW status, NEW ts,
           rows' = [rows EXCEPT ![i].status = status, ![i].ts = ts]
    PROVE  Writes({})
  <1>1. DOMAIN rows' = DOMAIN rows /\ rows' = [j \in DOMAIN rows' |-> rows'[j]]
    OBVIOUS
  <1>2. IsList(rows')
    BY <1>1, FunctionIsList DEF ShapeInv, IsList
  <1>3. \A j \in DOMAIN rows : rows'[j].id = rows[j].id
    OBVIOUS
  <1>. QED BY <1>1, <1>2, <1>3, SameRows

LEMMA SetStatusRow ==
    ASSUME ShapeInv, NEW i \in DOMAIN rows, NEW status, SetStatus(i, status)
    PROVE  Writes({})
  <1>1. DOMAIN rows' = DOMAIN rows /\ rows' = [j \in DOMAIN rows' |-> rows'[j]]
    BY DEF SetStatus
  <1>2. IsList(rows')
    BY <1>1, FunctionIsList DEF ShapeInv, IsList
  <1>3. \A j \in DOMAIN rows : rows'[j].id = rows[j].id
    BY DEF SetStatus
  <1>. QED BY <1>1, <1>2, <1>3, SameRows

-----------------------------------------------------------------------------
(* The handlers of BaileysMessages *)

LEMMA ChainBatch ==
    ASSUME ShapeInv, On("wa"), NEW t \in Work, Chain(t), t.do # "Upsert" \/ t.batch # <<>>
    PROVE  /\ Len(t.batch) > 0 /\ t.batch # <<>> /\ Head(t.batch) = t.batch[1]
           /\ t.batch[1].id \in DOMAIN wire
  <1>1. IsList(t.batch) /\ \A j \in DOMAIN t.batch : t.batch[j].id \in DOMAIN wire
    BY DEF ShapeInv, Shape
  <1>2. t.batch # <<>>
    <2>1. CASE t.do # "Upsert"
      <3>1. Len(t.batch) > 0
        BY <2>1 DEF ShapeInv, Shape
      <3>. QED BY <3>1
    <2>. QED BY <2>1
  <1>3. Shortens(t.batch, Tail(t.batch))
    BY <1>1, <1>2, TailList
  <1>4. 1 \in DOMAIN t.batch
    BY <1>1, <1>3 DEF IsList, Shortens
  <1>. QED BY <1>1, <1>2, <1>3, <1>4 DEF Shortens

\* A recount, or a batch that waits for one.
LEMMA CountSteps ==
    ASSUME ShapeInv, On("wa"), NEW t \in Work, UNCHANGED <<wire, config, queue, known>>,
           Writes({}), t.do \in CountDos, NEW n, Replace(t, {n}), n.do \in CountDos,
           DOMAIN n = DOMAIN t, n.kind = t.kind, n.batch = t.batch, n.queued = t.queued
    PROVE  Steps(t)
  <1>1. DOMAIN t = TaskFields /\ t.queued \in BOOLEAN /\ t.do \notin HistoryDos /\ t.do # "Upsert"
        /\ t.do # "Create"
    BY DEF ShapeInv, Shape, CountDos, HistoryDos
  <1>2. t.kind # "history"
    BY <1>1 DEF ShapeInv, Shape, IsHist
  <1>3. n.do \notin UpsertDos \cup HistoryDos \cup MetaDos \cup SendDos \cup UpdateDos
        /\ n.do # "Upsert" /\ n.do # "Create"
    BY DEF CountDos, UpsertDos, HistoryDos, MetaDos, SendDos, UpdateDos
  <1>4. Heir(t, n, {})
    <2>1. CASE t.kind = "upsert"
      <3>1. Chain(t) /\ Chain(n)
        BY <2>1 DEF Chain
      <3>2. Len(t.batch) > 0
        BY <3>1, <1>1, ChainBatch
      <3>. QED BY <1>1, <1>2, <1>3, <3>1, <3>2, ChainHeir, Unmoved
    <2>2. CASE t.kind # "upsert"
      <3>1. Idle(t, n)
        BY <2>2, <1>1, <1>2, <1>3 DEF Idle
      <3>. QED BY <3>1, IdleHeir, Unmoved
    <2>. QED BY <2>1, <2>2
  <1>. QED BY <1>4, OneSteps, Unmoved

LEMMA RecountSteps ==
    ASSUME ShapeInv, On("wa"), NEW t \in Work, Recount(t)
    PROVE  Steps(t)
  <1>1. UNCHANGED <<wire, config, queue, known>> /\ Writes({}) /\ t.do \in CountDos
    BY UnchangedRows DEF Recount, baileysVars, CountDos
  <1>2. DOMAIN t = TaskFields
    BY DEF ShapeInv, Shape
  <1>3. \/ \E d, k, i : \E n : /\ n = [t EXCEPT !.do = d, !.n = k, !.touched = {i}]
                               /\ d \in {"Counted", "Write"} /\ Replace(t, {n})
        \/ \E n : n = [t EXCEPT !.do = "Counted"] /\ Replace(t, {n})
    BY DEF Recount, Continue
  <1>4. PICK n : /\ Replace(t, {n}) /\ n.do \in {"Counted", "Write"} /\ DOMAIN n = DOMAIN t
                 /\ n.kind = t.kind /\ n.batch = t.batch /\ n.queued = t.queued
    <2>1. CASE \E d, k, i : \E n : /\ n = [t EXCEPT !.do = d, !.n = k, !.touched = {i}]
                                   /\ d \in {"Counted", "Write"} /\ Replace(t, {n})
      <3>1. PICK d, k, i, n : /\ n = [t EXCEPT !.do = d, !.n = k, !.touched = {i}]
                              /\ d \in {"Counted", "Write"} /\ Replace(t, {n})
        BY <2>1
      <3>2. /\ n.do \in {"Counted", "Write"} /\ DOMAIN n = DOMAIN t
            /\ n.kind = t.kind /\ n.batch = t.batch /\ n.queued = t.queued
        BY <1>2, <3>1 DEF TaskFields
      <3>. QED BY <3>1, <3>2
    <2>2. CASE \E n : n = [t EXCEPT !.do = "Counted"] /\ Replace(t, {n})
      <3>1. PICK n : n = [t EXCEPT !.do = "Counted"] /\ Replace(t, {n})
        BY <2>2
      <3>2. /\ n.do \in {"Counted", "Write"} /\ DOMAIN n = DOMAIN t
            /\ n.kind = t.kind /\ n.batch = t.batch /\ n.queued = t.queued
        BY <1>2, <3>1 DEF TaskFields
      <3>. QED BY <3>1, <3>2
    <2>. QED BY <1>3, <2>1, <2>2
  <1>5. n.do \in CountDos
    BY <1>4 DEF CountDos
  <1>. QED BY <1>1, <1>4, <1>5, CountSteps

LEMMA WriteCountSteps ==
    ASSUME ShapeInv, On("wa"), NEW t \in Work, WriteCount(t)
    PROVE  Steps(t)
  <1>1. UNCHANGED <<wire, config, queue, known>> /\ Writes({}) /\ t.do \in CountDos
    BY UnchangedRows DEF WriteCount, baileysVars, CountDos
  <1>2. CASE Finish(t)
    BY <1>1, <1>2, DoneSteps
  <1>3. CASE \E n : n = [t EXCEPT !.do = "Counted"] /\ Replace(t, {n})
    <2>1. PICK n : n = [t EXCEPT !.do = "Counted"] /\ Replace(t, {n})
      BY <1>3
    <2>2. DOMAIN t = TaskFields
      BY DEF ShapeInv, Shape
    <2>3. /\ n.do \in CountDos /\ DOMAIN n = DOMAIN t
          /\ n.kind = t.kind /\ n.batch = t.batch /\ n.queued = t.queued
      BY <2>1, <2>2 DEF TaskFields, CountDos
    <2>. QED BY <1>1, <2>1, <2>3, CountSteps
  <1>. QED BY <1>2, <1>3 DEF WriteCount

LEMMA CountedSteps ==
    ASSUME ShapeInv, On("wa"), NEW t \in Work, Counted(t)
    PROVE  Steps(t)
  <1>1. UNCHANGED <<wire, config, queue, known>> /\ Writes({}) /\ t.do = "Counted"
    BY UnchangedRows DEF Counted
  <1>2. CASE t.kind = "upsert"
    <2>1. PICK n : n = [t EXCEPT !.do = "Media", !.n = 0, !.touched = {}] /\ Replace(t, {n})
      BY <1>2 DEF Counted
    <2>2. DOMAIN t = TaskFields
      BY DEF ShapeInv, Shape
    <2>3. /\ n.do = "Media" /\ DOMAIN n = TaskFields
          /\ n.kind = t.kind /\ n.batch = t.batch /\ n.queued = t.queued
      BY <2>1, <2>2 DEF TaskFields
    <2>4. Chain(t) /\ Chain(n) /\ n.do \in UpsertDos
      BY <1>2, <2>3 DEF Chain, UpsertDos
    <2>5. Len(t.batch) > 0
      BY <1>1, <2>4, ChainBatch
    <2>6. Heir(t, n, {})
      BY <1>1, <1>2, <2>3, <2>4, <2>5, ChainHeir, Unmoved
    <2>. QED BY <1>1, <2>1, <2>6, OneSteps, Unmoved
  <1>3. CASE t.kind # "upsert"
    <2>1. Finish(t)
      BY <1>3 DEF Counted
    <2>. QED BY <1>1, <2>1, DoneSteps
  <1>. QED BY <1>2, <1>3

LEMMA RecountIsIdle ==
    ASSUME NEW t, NEW jid, NEW n, n = [NoTask EXCEPT !.do = "Recount", !.jid = jid]
    PROVE  Idle(t, n)
  <1>1. /\ DOMAIN n = TaskFields /\ n.do = "Recount" /\ n.queued = FALSE /\ n.kind = "none"
    BY DEF NoTask, TaskFields
  <1>. QED BY <1>1 DEF Idle, UpdateDos, UpsertDos, HistoryDos, MetaDos, SendDos

LEMMA ReadSteps ==
    ASSUME ShapeInv, NEW t \in Work, UNCHANGED <<wire, config, queue, known>>,
           NEW jid, NEW ts, NEW next, ReadUpTo(t, jid, ts, next),
           NEW h, \A n \in next : n = h /\ Heir(t, n, {})
    PROVE  Steps(t)
  <1>1. Keeps
    BY Unmoved
  <1>2. Writes({})
    BY ReadRows DEF ReadUpTo
  <1>3. PICK r : r = [NoTask EXCEPT !.do = "Recount", !.jid = jid]
    OBVIOUS
  <1>4. Heir(t, r, {}) /\ Makes(r)' = {}
    BY <1>1, <1>3, RecountIsIdle, IdleHeir
  <1>5. PICK new : Replace(t, new) /\ \A n \in new : n \in next \/ n = r
    BY <1>3 DEF ReadUpTo
  <1>6. (\A n \in new : Heir(t, n, {})) /\ OneHeir(new)
    BY <1>4, <1>5 DEF OneHeir
  <1>. QED BY <1>1, <1>2, <1>5, <1>6 DEF Steps

LEMMA UpsertDoneSteps ==
    ASSUME ShapeInv, NEW t \in Work, UpsertDone(t)
    PROVE  Steps(t)
  BY UnchangedRows, DoneSteps DEF UpsertDone, baileysVars

LEMMA UndecryptedSteps ==
    ASSUME ShapeInv, NEW t \in Work, Undecrypted(t)
    PROVE  Steps(t)
  <1>1. UNCHANGED <<wire, config, queue, known>> /\ Writes({})
    BY UnchangedRows DEF Undecrypted, baileysVars
  <1>2. Chain(t) /\ t.batch # <<>> /\ Replace(t, {Rest(t)})
    BY DEF Undecrypted, Chain, UpsertDos
  <1>. QED BY <1>1, <1>2, RestSteps

LEMMA EditedSteps ==
    ASSUME ShapeInv, On("wa"), NEW t \in Work, Edited(t)
    PROVE  Steps(t)
  <1>1. UNCHANGED <<wire, config, queue, known>> /\ Writes({})
    BY UnchangedRows DEF Edited
  <1>2. Chain(t) /\ t.batch # <<>> /\ t.do = "Upsert"
    BY DEF Edited, Chain, UpsertDos
  <1>3. CASE Replace(t, {Rest(t)})
    BY <1>1, <1>2, <1>3, RestSteps
  <1>4. CASE \E id, n : n = [t EXCEPT !.do = "Edit", !.id = id] /\ Replace(t, {n})
    <2>1. PICK id, n : n = [t EXCEPT !.do = "Edit", !.id = id] /\ Replace(t, {n})
      BY <1>4
    <2>2. DOMAIN t = TaskFields
      BY DEF ShapeInv, Shape
    <2>3. /\ n.do = "Edit" /\ DOMAIN n = TaskFields
          /\ n.kind = t.kind /\ n.batch = t.batch /\ n.queued = t.queued
      BY <2>1, <2>2 DEF TaskFields
    <2>4. Chain(n) /\ n.do \in UpsertDos
      BY <2>3 DEF Chain, UpsertDos
    <2>5. Len(t.batch) > 0
      BY <1>2, ChainBatch
    <2>6. n.kind # "history"
      BY <1>2, <2>3 DEF ShapeInv, Shape, IsHist, HistoryDos
    <2>7. Heir(t, n, {})
      BY <1>1, <1>2, <2>3, <2>4, <2>5, <2>6, ChainHeir, Unmoved
    <2>. QED BY <1>1, <2>1, <2>7, OneSteps, Unmoved
  <1>. QED BY <1>3, <1>4 DEF Edited

LEMMA EditRowSteps ==
    ASSUME ShapeInv, On("wa"), NEW t \in Work, EditRow(t)
    PROVE  Steps(t)
  <1>1. UNCHANGED <<wire, config, queue, known>> /\ t.do = "Edit"
    BY DEF EditRow, baileysVars
  <1>2. CASE Finish(t) /\ UNCHANGED rows
    BY <1>1, <1>2, UnchangedRows, DoneSteps
  <1>3. CASE /\ \E i \in Found(t.id) : \E ts :
                  rows' = [rows EXCEPT ![i].status = "EDITED", ![i].ts = ts]
             /\ Replace(t, {Rest(t)})
    <2>1. PICK i \in Found(t.id) : \E ts :
                    rows' = [rows EXCEPT ![i].status = "EDITED", ![i].ts = ts]
      BY <1>3
    <2>2. Writes({})
      BY <2>1, EditedRow DEF Found
    <2>3. Chain(t)
      BY <1>1 DEF Chain, UpsertDos
    <2>4. t.batch # <<>>
      BY <1>1, <2>3, ChainBatch
    <2>. QED BY <1>1, <1>3, <2>2, <2>3, <2>4, RestSteps
  <1>. QED BY <1>2, <1>3 DEF EditRow

LEMMA TakeMessageSteps ==
    ASSUME ShapeInv, On("wa"), NEW t \in Work, TakeMessage(t)
    PROVE  Steps(t)
  <1>1. UNCHANGED <<wire, config, queue, known>> /\ Writes({})
    BY UnchangedRows DEF TakeMessage, baileysVars
  <1>2. Chain(t) /\ t.batch # <<>> /\ t.do = "Upsert"
    BY DEF TakeMessage, Chain, UpsertDos
  <1>3. Len(t.batch) > 0 /\ Head(t.batch) = t.batch[1]
    BY <1>2, ChainBatch
  <1>4. CASE Replace(t, {Rest(t)})
    BY <1>1, <1>2, <1>4, RestSteps
  <1>5. CASE \E n : n = [t EXCEPT !.do = "Create", !.id = t.batch[1].id] /\ Replace(t, {n})
    <2>1. PICK n : n = [t EXCEPT !.do = "Create", !.id = t.batch[1].id] /\ Replace(t, {n})
      BY <1>5
    <2>2. DOMAIN t = TaskFields
      BY DEF ShapeInv, Shape
    <2>3. /\ n.do = "Create" /\ DOMAIN n = TaskFields /\ n.id = t.batch[1].id
          /\ n.kind = t.kind /\ n.batch = t.batch /\ n.queued = t.queued
      BY <2>1, <2>2 DEF TaskFields
    <2>4. Chain(n) /\ n.do \in UpsertDos
      BY <2>3 DEF Chain, UpsertDos
    <2>6. n.kind # "history"
      BY <1>2, <2>3 DEF ShapeInv, Shape, IsHist, HistoryDos
    <2>7. Heir(t, n, {})
      BY <1>1, <1>2, <1>3, <2>3, <2>4, <2>6, ChainHeir, Unmoved
    <2>. QED BY <1>1, <2>1, <2>7, OneSteps, Unmoved
  <1>. QED BY <1>3, <1>4, <1>5 DEF TakeMessage

\* The message that a batch is at: one more has been done for it.
LEMMA NextHeir ==
    ASSUME ShapeInv, Keeps, On("wa"), NEW t \in Work, t.do \in UpsertDos, t.do # "Upsert",
           NEW d, d \in {"Count", "Media", "Announce"}, NEW n, n = [t EXCEPT !.do = d], NEW M,
           M = IF t.do = "Create" THEN {t.batch[1].id} ELSE {}
    PROVE  Heir(t, n, M)
  <1>1. DOMAIN t = TaskFields
    BY DEF ShapeInv, Shape
  <1>2. /\ n.do = d /\ DOMAIN n = TaskFields
        /\ n.kind = t.kind /\ n.batch = t.batch /\ n.queued = t.queued
    BY <1>1 DEF TaskFields
  <1>3. d \in UpsertDos /\ d # "Upsert" /\ d # "Create"
    BY DEF UpsertDos
  <1>4. Chain(t) /\ Chain(n)
    BY <1>2, <1>3 DEF Chain
  <1>5. Len(t.batch) > 0
    BY <1>4, ChainBatch
  <1>6. t.kind # "history"
    BY DEF ShapeInv, Shape, IsHist, HistoryDos, UpsertDos
  <1>. QED BY <1>2, <1>3, <1>4, <1>5, <1>6, ChainHeir

LEMMA CreateRowSteps ==
    ASSUME ShapeInv, On("wa"), NEW t \in Work, CreateRow(t)
    PROVE  Steps(t)
  <1>1. UNCHANGED <<wire, config, queue, known>> /\ t.do = "Create"
    BY DEF CreateRow, baileysVars
  <1>2. PICK n : n = [t EXCEPT !.do = "Count"] /\ Replace(t, {n})
    BY DEF CreateRow, Continue
  <1>3. t.do \in UpsertDos /\ t.do # "Upsert"
    BY <1>1 DEF UpsertDos
  <1>4. PICK M : M = IF t.do = "Create" THEN {t.batch[1].id} ELSE {}
    OBVIOUS
  <1>5. Heir(t, n, M)
    BY <1>1, <1>2, <1>3, <1>4, NextHeir, Unmoved
  <1>6. M = {t.id}
    BY <1>1, <1>4 DEF ShapeInv, Shape
  <1>7. M \subseteq Makes(t)
    BY <1>1, <1>6 DEF Makes, Own
  <1>8. Writes(M)
    <2>1. PICK r : r.id = t.id /\ rows' = Append(rows, r)
      BY DEF CreateRow, Row
    <2>. QED BY <2>1, <1>6, OneMoreRow
  <1>. QED BY <1>1, <1>2, <1>5, <1>7, <1>8, OneSteps, Unmoved

LEMMA CountUnreadSteps ==
    ASSUME ShapeInv, On("wa"), NEW t \in Work, CountUnread(t)
    PROVE  Steps(t)
  <1>1. UNCHANGED <<wire, config, queue, known>> /\ t.do = "Count"
    BY DEF CountUnread
  <1>2. t.do \in UpsertDos /\ t.do # "Upsert" /\ t.do # "Create"
    BY <1>1 DEF UpsertDos
  <1>3. DOMAIN t = TaskFields
    BY DEF ShapeInv, Shape
  <1>4. PICK m : m = [t EXCEPT !.do = "Media"]
    OBVIOUS
  <1>5. Heir(t, m, {})
    BY <1>1, <1>2, <1>4, NextHeir, Unmoved
  <1>6. CASE Continue(t, "Media") /\ UNCHANGED rows
    <2>1. Replace(t, {m})
      BY <1>4, <1>6 DEF Continue
    <2>. QED BY <1>1, <1>5, <1>6, <2>1, OneSteps, Unmoved, UnchangedRows
  <1>7. CASE \E jid, ts : ReadUpTo(t, jid, ts, {[t EXCEPT !.do = "Media"]})
    <2>1. PICK jid, ts, next : ReadUpTo(t, jid, ts, next) /\ next = {m}
      BY <1>4, <1>7
    <2>2. \A n \in next : n = m /\ Heir(t, n, {})
      BY <2>1, <1>5
    <2>. QED BY <1>1, <2>1, <2>2, ReadSteps
  <1>8. CASE /\ \E jid, n : n = [t EXCEPT !.do = "Recount", !.kind = "upsert", !.jid = jid]
                            /\ Replace(t, {n})
             /\ UNCHANGED rows
    <2>1. PICK jid, n : /\ n = [t EXCEPT !.do = "Recount", !.kind = "upsert", !.jid = jid]
                        /\ Replace(t, {n})
      BY <1>8
    <2>2. /\ n.do = "Recount" /\ DOMAIN n = TaskFields
          /\ n.kind = "upsert" /\ n.batch = t.batch /\ n.queued = t.queued
      BY <2>1, <1>3 DEF TaskFields
    <2>3. Chain(t) /\ Chain(n) /\ n.do \in CountDos
      BY <1>2, <2>2 DEF Chain, CountDos
    <2>4. Len(t.batch) > 0
      BY <1>2, <2>3, ChainBatch
    <2>5. Heir(t, n, {})
      BY <1>1, <1>2, <2>2, <2>3, <2>4, ChainHeir, Unmoved
    <2>. QED BY <1>1, <1>8, <2>1, <2>5, OneSteps, Unmoved, UnchangedRows
  <1>. QED BY <1>6, <1>7, <1>8 DEF CountUnread

LEMMA UploadMediaSteps ==
    ASSUME ShapeInv, On("wa"), NEW t \in Work, UploadMedia(t)
    PROVE  Steps(t)
  <1>1. UNCHANGED <<wire, config, queue, known>> /\ t.do = "Media" /\ Writes({})
    BY UnchangedRows DEF UploadMedia, baileysVars
  <1>2. t.do \in UpsertDos /\ t.do # "Upsert" /\ t.do # "Create"
    BY <1>1 DEF UpsertDos
  <1>3. CASE Finish(t)
    BY <1>1, <1>3, DoneSteps
  <1>4. CASE Continue(t, "Announce")
    <2>1. PICK n : n = [t EXCEPT !.do = "Announce"] /\ Replace(t, {n})
      BY <1>4 DEF Continue
    <2>2. Heir(t, n, {})
      BY <1>1, <1>2, <2>1, NextHeir, Unmoved
    <2>. QED BY <1>1, <2>1, <2>2, OneSteps, Unmoved
  <1>. QED BY <1>3, <1>4 DEF UploadMedia

LEMMA AnnounceSteps ==
    ASSUME ShapeInv, On("wa"), NEW t \in Work, Announce(t)
    PROVE  Steps(t)
  <1>1. UNCHANGED <<wire, config, queue, known>> /\ Writes({}) /\ t.do = "Announce"
    BY UnchangedRows DEF Announce, baileysVars
  <1>2. Chain(t) /\ Replace(t, {Rest(t)})
    BY DEF Announce, Chain, UpsertDos
  <1>3. t.batch # <<>>
    BY <1>1, <1>2, ChainBatch
  <1>. QED BY <1>1, <1>2, <1>3, RestSteps

LEMMA HandlerFailsSteps ==
    ASSUME ShapeInv, NEW t \in Work, HandlerFails(t)
    PROVE  Steps(t)
  BY UnchangedRows, DoneSteps DEF HandlerFails, baileysVars

LEMMA UpdatesDoneSteps ==
    ASSUME ShapeInv, NEW t \in Work, UpdatesDone(t)
    PROVE  Steps(t)
  <1>1. UNCHANGED <<wire, config, queue, known>> /\ Writes({}) /\ t.do = "Update" /\ Keeps
    BY UnchangedRows, Unmoved DEF UpdatesDone, baileysVars
  <1>2. PICK new : Replace(t, new) /\ new = Recounts(t.touched)
    BY DEF UpdatesDone
  <1>3. t.queued
    BY <1>1 DEF ShapeInv, Shape, UpdateDos
  <1>4. ASSUME NEW n \in new
        PROVE  Heir(t, n, {}) /\ Makes(n)' = {}
    <2>1. PICK jid : n = [NoTask EXCEPT !.do = "Recount", !.jid = jid, !.queued = TRUE]
      BY <1>2, <1>4 DEF Recounts
    <2>2. /\ DOMAIN n = TaskFields /\ n.do = "Recount" /\ n.queued = TRUE /\ n.kind = "none"
      BY <2>1 DEF NoTask, TaskFields
    <2>3. Idle(t, n)
      BY <1>3, <2>2 DEF Idle, UpdateDos, UpsertDos, HistoryDos, MetaDos, SendDos
    <2>. QED BY <1>1, <2>3, IdleHeir
  <1>5. OneHeir(new)
    BY <1>4 DEF OneHeir
  <1>. QED BY <1>1, <1>2, <1>4, <1>5 DEF Steps

\* What is left behind by a task of an update.
LEMMA UpdateIdle ==
    ASSUME ShapeInv, NEW t \in Work, t.do \in UpdateDos, NEW n,
           DOMAIN n = TaskFields, n.kind = t.kind, n.queued = t.queued, n.do \in UpdateDos
    PROVE  Idle(t, n)
  <1>1. t.queued /\ t.queued \in BOOLEAN
    BY DEF ShapeInv, Shape
  <1>2. \A d \in UpdateDos :
            d \notin UpsertDos \cup HistoryDos \cup MetaDos \cup SendDos \cup CountDos
    BY DEF UpdateDos, UpsertDos, HistoryDos, MetaDos, SendDos, CountDos
  <1>3. t.kind # "upsert" /\ t.kind # "history"
    BY <1>2, Plain
  <1>. QED BY <1>1, <1>2, <1>3 DEF Idle

LEMMA RestOfUpdatesIs ==
    ASSUME ShapeInv, NEW t \in Work, t.do \in UpdateDos, NEW n, n = RestOfUpdates(t)
    PROVE  Idle(t, n)
  <1>1. DOMAIN t = TaskFields
    BY DEF ShapeInv, Shape
  <1>2. DOMAIN n = TaskFields /\ n.kind = t.kind /\ n.queued = t.queued /\ n.do \in UpdateDos
    BY <1>1 DEF RestOfUpdates, TaskFields, UpdateDos
  <1>. QED BY <1>2, UpdateIdle

LEMMA SkipUpdateSteps ==
    ASSUME ShapeInv, NEW t \in Work, SkipUpdate(t)
    PROVE  Steps(t)
  <1>1. UNCHANGED <<wire, config, queue, known>> /\ Writes({}) /\ t.do \in UpdateDos
    BY UnchangedRows DEF SkipUpdate, UpdateDos
  <1>2. PICK n : n = RestOfUpdates(t) /\ Replace(t, {n})
    BY DEF SkipUpdate
  <1>. QED BY <1>1, <1>2, RestOfUpdatesIs, IdleSteps

LEMMA ChangedSteps ==
    ASSUME ShapeInv, NEW t \in Work, UNCHANGED <<wire, config, queue, known>>, t.do \in UpdateDos,
           NEW id, NEW i, NEW status, Changed(t, id, i, status)
    PROVE  Steps(t)
  <1>1. DOMAIN t = TaskFields
    BY DEF ShapeInv, Shape
  <1>2. PICK touched : touched = [t EXCEPT !.touched = @ \cup {rows[i].jid}, !.id = id]
    OBVIOUS
  <1>3. DOMAIN touched = TaskFields /\ touched.kind = t.kind /\ touched.queued = t.queued
    BY <1>1, <1>2 DEF TaskFields
  <1>4. ASSUME NEW d, d \in UpdateDos, NEW n, n = [touched EXCEPT !.do = d]
        PROVE  Idle(t, n)
    <2>1. DOMAIN n = TaskFields /\ n.kind = t.kind /\ n.queued = t.queued /\ n.do \in UpdateDos
      BY <1>3, <1>4 DEF TaskFields
    <2>. QED BY <2>1, UpdateIdle
  <1>5. CASE Replace(t, {[touched EXCEPT !.do = "Updated"]}) /\ UNCHANGED rows
    <2>1. PICK n : n = [touched EXCEPT !.do = "Updated"] /\ Replace(t, {n})
      BY <1>5
    <2>2. "Updated" \in UpdateDos
      BY DEF UpdateDos
    <2>. QED BY <1>4, <1>5, <2>1, <2>2, IdleSteps, UnchangedRows
  <1>6. CASE \E jid, ts : ReadUpTo(t, jid, ts, {[touched EXCEPT !.do = "SetStatus"]})
    <2>1. PICK n : n = [touched EXCEPT !.do = "SetStatus"]
      OBVIOUS
    <2>2. PICK jid, ts, next : ReadUpTo(t, jid, ts, next) /\ next = {n}
      BY <1>6, <2>1
    <2>3. "SetStatus" \in UpdateDos
      BY DEF UpdateDos
    <2>4. Heir(t, n, {})
      BY <1>4, <2>1, <2>3, IdleHeir, Unmoved
    <2>5. \A m \in next : m = n /\ Heir(t, m, {})
      BY <2>2, <2>4
    <2>. QED BY <2>2, <2>5, ReadSteps
  <1>. QED BY <1>2, <1>5, <1>6 DEF Changed

LEMMA TakeUpdateSteps ==
    ASSUME ShapeInv, NEW t \in Work, TakeUpdate(t)
    PROVE  Steps(t)
  <1>1. UNCHANGED <<wire, config, queue, known>> /\ t.do \in UpdateDos
    BY DEF TakeUpdate, UpdateDos
  <1>2. PICK id, i : \/ Gone(t, id)
                     \/ Changed(t, id, i, Head(t.batch).what)
                     \/ Replace(t, {[t EXCEPT !.do = "Updated", !.id = id]}) /\ UNCHANGED rows
    BY DEF TakeUpdate
  <1>3. CASE Gone(t, id)
    <2>1. PICK n : n = RestOfUpdates(t) /\ Replace(t, {n})
      BY <1>3 DEF Gone
    <2>2. UNCHANGED rows
      BY <1>3 DEF Gone
    <2>. QED BY <1>1, <2>1, <2>2, RestOfUpdatesIs, IdleSteps, UnchangedRows
  <1>4. CASE Changed(t, id, i, Head(t.batch).what)
    BY <1>1, <1>4, ChangedSteps
  <1>5. CASE Replace(t, {[t EXCEPT !.do = "Updated", !.id = id]}) /\ UNCHANGED rows
    <2>1. PICK n : n = [t EXCEPT !.do = "Updated", !.id = id] /\ Replace(t, {n})
      BY <1>5
    <2>2. DOMAIN t = TaskFields
      BY DEF ShapeInv, Shape
    <2>3. DOMAIN n = TaskFields /\ n.kind = t.kind /\ n.queued = t.queued /\ n.do \in UpdateDos
      BY <2>1, <2>2 DEF TaskFields, UpdateDos
    <2>4. Idle(t, n)
      BY <1>1, <2>3, UpdateIdle
    <2>. QED BY <1>1, <1>5, <2>1, <2>4, IdleSteps, UnchangedRows
  <1>. QED BY <1>2, <1>3, <1>4, <1>5

LEMMA UpdateRowSteps ==
    ASSUME ShapeInv, NEW t \in Work, UpdateRow(t)
    PROVE  Steps(t)
  <1>1. UNCHANGED <<wire, config, queue, known>> /\ t.do \in UpdateDos
    BY DEF UpdateRow, UpdateDos, baileysVars
  <1>2. CASE Finish(t) /\ UNCHANGED rows
    BY <1>1, <1>2, UnchangedRows, DoneSteps
  <1>3. CASE (\E i \in Found(t.id) : \E s : SetStatus(i, s)) /\ Continue(t, "Updated")
    <2>1. Writes({})
      BY <1>3, SetStatusRow DEF Found
    <2>2. PICK n : n = [t EXCEPT !.do = "Updated"] /\ Replace(t, {n})
      BY <1>3 DEF Continue
    <2>3. DOMAIN t = TaskFields
      BY DEF ShapeInv, Shape
    <2>4. DOMAIN n = TaskFields /\ n.kind = t.kind /\ n.queued = t.queued /\ n.do \in UpdateDos
      BY <2>2, <2>3 DEF TaskFields, UpdateDos
    <2>5. Idle(t, n)
      BY <1>1, <2>4, UpdateIdle
    <2>. QED BY <1>1, <2>1, <2>2, <2>5, IdleSteps
  <1>. QED BY <1>2, <1>3 DEF UpdateRow

LEMMA AnnounceUpdateSteps ==
    ASSUME ShapeInv, NEW t \in Work, AnnounceUpdate(t)
    PROVE  Steps(t)
  <1>1. UNCHANGED <<wire, config, queue, known>> /\ Writes({}) /\ t.do \in UpdateDos
    BY UnchangedRows DEF AnnounceUpdate, UpdateDos, baileysVars
  <1>2. PICK n : n = RestOfUpdates(t) /\ Replace(t, {n})
    BY DEF AnnounceUpdate
  <1>. QED BY <1>1, <1>2, RestOfUpdatesIs, IdleSteps

LEMMA ReadReceiptSteps ==
    ASSUME ShapeInv, NEW t \in Work, ReadReceipt(t)
    PROVE  Steps(t)
  <1>1. UNCHANGED <<wire, config, queue, known>>
    BY DEF ReadReceipt, baileysVars
  <1>2. PICK jid, ts, next : ReadUpTo(t, jid, ts, next) /\ next = {}
    BY DEF ReadReceipt
  <1>3. \A n \in next : n = 0 /\ Heir(t, n, {})
    BY <1>2
  <1>. QED BY <1>1, <1>2, <1>3, ReadSteps

LEMMA ChatsUpsertSteps ==
    ASSUME ShapeInv, NEW t \in Work, ChatsUpsert(t)
    PROVE  Steps(t)
  <1>1. UNCHANGED <<wire, config, queue, known>> /\ Writes({})
    BY UnchangedRows DEF ChatsUpsert, baileysVars
  <1>2. CASE Finish(t)
    BY <1>1, <1>2, DoneSteps
  <1>3. CASE t.do = "ChatsUpsert" /\ Continue(t, "InsertChat")
    <2>1. t.do \notin UpsertDos \cup CountDos \cup HistoryDos
      BY <1>3 DEF UpsertDos, CountDos, HistoryDos
    <2>2. "InsertChat" \notin UpsertDos \cup HistoryDos \cup MetaDos \cup SendDos \cup UpdateDos
      BY DEF UpsertDos, HistoryDos, MetaDos, SendDos, UpdateDos
    <2>. QED BY <1>1, <1>3, <2>1, <2>2, ContinueSteps
  <1>. QED BY <1>2, <1>3 DEF ChatsUpsert

LEMMA ChatsSteps ==
    ASSUME ShapeInv, NEW t \in Work, ChatsUpdate(t) \/ ChatsDelete(t) \/ LabelsAssociation(t)
    PROVE  Steps(t)
  <1>1. UNCHANGED <<wire, config, queue, known, rows>> /\ Finish(t)
    BY DEF ChatsUpdate, ChatsDelete, LabelsAssociation, baileysVars
  <1>. QED BY <1>1, UnchangedRows, DoneSteps

-----------------------------------------------------------------------------
(* The requests of BaileysMessages *)

LEMMA RefuseSteps ==
    ASSUME ShapeInv, NEW t \in Work, Refuse(t)
    PROVE  Steps(t)
  BY UnchangedRows, DoneSteps DEF Refuse, baileysVars

LEMMA SucceedSteps ==
    ASSUME ShapeInv, NEW t \in Work, Succeed(t)
    PROVE  Steps(t)
  BY UnchangedRows, DoneSteps DEF Succeed, baileysVars

LEMMA PreparedSteps ==
    ASSUME ShapeInv, NEW t \in Work, t.do \in SendDos, Prepared(t)
    PROVE  Steps(t)
  <1>1. CASE Refuse(t)
    BY <1>1, RefuseSteps
  <1>2. CASE /\ Continue(t, "Number")
             /\ UNCHANGED <<wire, rows, config, baileysVars>>
    <2>1. UNCHANGED <<wire, config, queue, known>> /\ Writes({})
      BY <1>2, UnchangedRows DEF baileysVars
    <2>2. "Number" \in SendDos /\ "Number" # "Store"
      BY DEF SendDos
    <2>. QED BY <1>2, <2>1, <2>2, SendSteps
  <1>. QED BY <1>1, <1>2 DEF Prepared

LEMMA PrepareSteps ==
    ASSUME ShapeInv, NEW t \in Work,
           \/ PrepareMediaMessage(t) \/ ConvertToWebP(t) \/ ProcessAudio(t)
           \/ FormatStatusMessage(t)
    PROVE  Steps(t)
  <1>1. CASE PrepareMediaMessage(t)
    BY <1>1, PreparedSteps DEF PrepareMediaMessage, SendDos
  <1>2. CASE ConvertToWebP(t)
    BY <1>2, PreparedSteps DEF ConvertToWebP, SendDos
  <1>3. CASE ProcessAudio(t)
    BY <1>3, PreparedSteps DEF ProcessAudio, SendDos
  <1>4. CASE FormatStatusMessage(t)
    BY <1>4, PreparedSteps, RefuseSteps DEF FormatStatusMessage, SendDos
  <1>. QED BY <1>1, <1>2, <1>3, <1>4

LEMMA WhatsappNumberSteps ==
    ASSUME ShapeInv, NEW t \in Work, WhatsappNumber(t)
    PROVE  Steps(t)
  <1>1. CASE Refuse(t)
    BY <1>1, RefuseSteps
  <1>2. CASE Continue(t, "Send") /\ UNCHANGED <<wire, rows, config, baileysVars>>
    <2>1. UNCHANGED <<wire, config, queue, known>> /\ Writes({})
      BY <1>2, UnchangedRows DEF baileysVars
    <2>2. "Send" \in SendDos /\ "Send" # "Store" /\ t.do \in SendDos
      BY DEF SendDos, WhatsappNumber
    <2>. QED BY <1>2, <2>1, <2>2, SendSteps
  <1>. QED BY <1>1, <1>2 DEF WhatsappNumber

\* What is sent gets its place on the wire and waits for its row.
LEMMA SentSteps ==
    ASSUME ShapeInv, NEW t \in Work, t.do \in SendDos, UNCHANGED <<rows, config, queue, known>>,
           NEW m, wire' = Append(wire, m), NEW n,
           n = [t EXCEPT !.do = "Store", !.id = Len(wire')], Replace(t, {n})
    PROVE  Steps(t)
  <1>1. Keeps /\ Fresh = {Len(wire')}
    BY OneOnWire DEF Keeps, Stays
  <1>2. DOMAIN t = TaskFields
    BY DEF ShapeInv, Shape
  <1>3. /\ DOMAIN n = TaskFields /\ n.queued = t.queued /\ n.kind = t.kind
        /\ n.do = "Store" /\ n.id = Len(wire')
    BY <1>2 DEF TaskFields
  <1>4. n.do \in SendDos /\ n.id \in Fresh
    BY <1>1, <1>3 DEF SendDos
  <1>5. Heir(t, n, {})
    BY <1>1, <1>3, <1>4, SendHeir
  <1>. QED BY <1>1, <1>5, OneSteps, UnchangedRows

LEMMA SendMessageSteps ==
    ASSUME ShapeInv, NEW t \in Work, SendMessage(t)
    PROVE  Steps(t)
  <1>1. CASE Refuse(t)
    BY <1>1, RefuseSteps
  <1>2. CASE /\ wire' = Append(wire, Message(t.jid, TRUE, LastTs + 1, t.kind, 0))
             /\ Replace(t, {[t EXCEPT !.do = "Store", !.id = Len(wire')]})
             /\ UNCHANGED <<rows, config, baileysVars>>
    <2>1. PICK m : wire' = Append(wire, m)
      BY <1>2
    <2>2. PICK n : n = [t EXCEPT !.do = "Store", !.id = Len(wire')] /\ Replace(t, {n})
      BY <1>2
    <2>3. t.do \in SendDos
      BY DEF SendMessage, SendDos
    <2>4. UNCHANGED <<rows, config, queue, known>>
      BY <1>2 DEF baileysVars
    <2>. QED BY <2>1, <2>2, <2>3, <2>4, SentSteps
  <1>. QED BY <1>1, <1>2 DEF SendMessage

\* The row that a request has waited for.
LEMMA StoredRow ==
    ASSUME ShapeInv, NEW t \in Work, t.do = "Store", NEW m, NEW status,
           rows' = Append(rows, Row(t.id, m, status))
    PROVE  Writes({t.id}) /\ {t.id} \subseteq Makes(t)
  <1>1. PICK r : r.id = t.id /\ rows' = Append(rows, r)
    BY DEF Row
  <1>. QED BY <1>1, OneMoreRow DEF Makes, Own

LEMMA StoreSentSteps ==
    ASSUME ShapeInv, NEW t \in Work, StoreSent(t)
    PROVE  Steps(t)
  <1>1. UNCHANGED <<wire, config, queue, known>> /\ t.do = "Store"
    BY DEF StoreSent, baileysVars
  <1>2. CASE Finish(t) /\ UNCHANGED rows
    BY <1>1, <1>2, UnchangedRows, DoneSteps
  <1>3. CASE rows' = Append(rows, Row(t.id, wire[t.id], "PENDING")) /\ Continue(t, "Stored")
    <2>1. Writes({t.id}) /\ {t.id} \subseteq Makes(t)
      BY <1>1, <1>3, StoredRow
    <2>2. PICK n : n = [t EXCEPT !.do = "Stored"] /\ Replace(t, {n})
      BY <1>3 DEF Continue
    <2>3. DOMAIN t = TaskFields /\ t.queued \in BOOLEAN
      BY DEF ShapeInv, Shape
    <2>4. DOMAIN n = TaskFields /\ n.kind = t.kind /\ n.queued = t.queued /\ n.do = "Stored"
      BY <2>2, <2>3 DEF TaskFields
    <2>5. t.do \notin UpsertDos \cup CountDos \cup HistoryDos
      BY <1>1 DEF UpsertDos, CountDos, HistoryDos
    <2>6. n.do \notin UpsertDos \cup HistoryDos \cup MetaDos \cup SendDos \cup UpdateDos
      BY <2>4 DEF UpsertDos, HistoryDos, MetaDos, SendDos, UpdateDos
    <2>7. Idle(t, n)
      BY <2>3, <2>4, <2>5, <2>6, Plain DEF Idle
    <2>8. Heir(t, n, {t.id})
      BY <1>1, <2>7, IdleHeir, Unmoved
    <2>. QED BY <1>1, <2>1, <2>2, <2>8, OneSteps, Unmoved
  <1>. QED BY <1>2, <1>3 DEF StoreSent

LEMMA SentIsDone ==
    ASSUME ShapeInv, NEW t \in Work, Sent(t)
    PROVE  Steps(t)
  <1>1. UNCHANGED <<wire, config, queue, known, rows>> /\ Finish(t)
    BY DEF Sent, baileysVars
  <1>. QED BY <1>1, UnchangedRows, DoneSteps

\* A request that stores nothing goes on.
AboutDos == {"GetMessage", "Download", "DownloadContent", "LastMessage", "ChatModify", "Labelled",
             "Revoke", "DeleteRow", "Rewrite", "EditSent"}

LEMMA AboutSteps ==
    ASSUME ShapeInv, NEW t \in Work, t.do \in AboutDos, NEW d \in AboutDos, Continue(t, d),
           UNCHANGED <<wire, rows, config, baileysVars>>
    PROVE  Steps(t)
  <1>1. \A a \in AboutDos : /\ a \notin UpsertDos \cup CountDos \cup HistoryDos
                            /\ a \notin UpsertDos \cup HistoryDos \cup MetaDos \cup SendDos
                            /\ a \notin UpdateDos
    BY DEF AboutDos, UpsertDos, CountDos, HistoryDos, MetaDos, SendDos, UpdateDos
  <1>2. UNCHANGED <<wire, config, queue, known>> /\ Writes({})
    BY UnchangedRows DEF baileysVars
  <1>. QED BY <1>1, <1>2, ContinueSteps

LEMMA AboutMessageSteps ==
    ASSUME ShapeInv, NEW t \in Work,
           GetMessage(t) \/ Download(t) \/ GetLastMessage(t) \/ ChatModify(t) \/ LabelNumber(t)
    PROVE  Steps(t)
  <1>1. CASE GetMessage(t)
    BY <1>1, RefuseSteps, AboutSteps DEF GetMessage, AboutDos
  <1>2. CASE Download(t)
    BY <1>2, RefuseSteps, SucceedSteps, AboutSteps DEF Download, AboutDos
  <1>3. CASE GetLastMessage(t)
    BY <1>3, RefuseSteps, AboutSteps DEF GetLastMessage, AboutDos
  <1>4. CASE ChatModify(t)
    BY <1>4, RefuseSteps, SucceedSteps DEF ChatModify
  <1>5. CASE LabelNumber(t)
    <2>1. CASE Refuse(t)
      BY <2>1, RefuseSteps
    <2>2. CASE Finish(t) /\ UNCHANGED <<wire, rows, config, baileysVars>>
      BY <2>2, UnchangedRows, DoneSteps DEF baileysVars
    <2>. QED BY <1>5, <2>1, <2>2 DEF LabelNumber
  <1>. QED BY <1>1, <1>2, <1>3, <1>4, <1>5

LEMMA DeleteSteps ==
    ASSUME ShapeInv, NEW t \in Work, DeleteMessage(t) \/ DeleteRow(t)
    PROVE  Steps(t)
  <1>1. CASE DeleteMessage(t)
    BY <1>1, RefuseSteps, AboutSteps DEF DeleteMessage, AboutDos
  <1>2. CASE DeleteRow(t)
    <2>1. UNCHANGED <<wire, config, queue, known>> /\ Finish(t)
      BY <1>2 DEF DeleteRow, baileysVars
    <2>2. CASE UNCHANGED rows
      BY <2>1, <2>2, UnchangedRows, DoneSteps
    <2>3. CASE \E i \in Found(t.id) : SetStatus(i, "DELETED")
      BY <2>1, <2>3, SetStatusRow, DoneSteps DEF Found
    <2>4. CASE \E i \in Found(t.id) : DropRow(i)
      BY <2>1, <2>4, OneLessRow, DoneSteps DEF Found
    <2>. QED BY <1>2, <2>2, <2>3, <2>4 DEF DeleteRow
  <1>. QED BY <1>1, <1>2

LEMMA EditSteps ==
    ASSUME ShapeInv, NEW t \in Work, UpdateMessage(t) \/ EditSent(t)
    PROVE  Steps(t)
  <1>1. CASE UpdateMessage(t)
    BY <1>1, RefuseSteps, AboutSteps DEF UpdateMessage, AboutDos
  <1>2. CASE EditSent(t)
    <2>1. UNCHANGED <<wire, config, queue, known>> /\ Finish(t)
      BY <1>2 DEF EditSent, baileysVars
    <2>2. CASE UNCHANGED rows
      BY <2>1, <2>2, UnchangedRows, DoneSteps
    <2>3. CASE \E i \in Found(t.id) : \E ts :
                  rows' = [rows EXCEPT ![i].status = "EDITED", ![i].ts = ts]
      <3>1. PICK i \in Found(t.id) : \E ts :
                    rows' = [rows EXCEPT ![i].status = "EDITED", ![i].ts = ts]
        BY <2>3
      <3>. QED BY <2>1, <3>1, EditedRow, DoneSteps DEF Found
    <2>. QED BY <1>2, <2>2, <2>3 DEF EditSent
  <1>. QED BY <1>1, <1>2

LEMMA AskBegins ==
    ASSUME ShapeInv, NEW do, NEW kind, NEW jids, Ask(do, kind, jids), UNCHANGED <<queue, known>>,
           kind # "upsert", kind # "history", do # "Store", do # "Create",
           do \notin UpsertDos \cup HistoryDos \cup UpdateDos \cup MetaDos
    PROVE  \E n : Begins(n)
  <1>1. PICK n, jid, ask : /\ n = [NoTask EXCEPT !.do = do, !.kind = kind, !.jid = jid, !.ask = ask]
                           /\ tasks' = tasks (+) SetToBag({n})
    BY DEF Ask
  <1>2. DOMAIN n = TaskFields /\ n.do = do /\ n.kind = kind /\ n.queued = FALSE
    BY <1>1 DEF NoTask, TaskFields
  <1>3. Keeps /\ rows' = rows /\ On("asks")
    BY SameWire DEF Ask, Keeps, Stays, Asked
  <1>4. ~ Chain(n) /\ ~ IsHist(n)
    BY <1>2 DEF Chain, IsHist
  <1>5. ~ Own(n)'
    BY <1>2 DEF Own, MetaDos
  <1>6. Makes(n)' = {}
    BY <1>4, <1>5 DEF Makes, Left, Chain
  <1>7. Shape(n)'
    BY <1>2, <1>3, <1>4 DEF Shape, Chain, IsHist, Keeps, Stays, On
  <1>. QED BY <1>1, <1>2, <1>3, <1>4, <1>6, <1>7 DEF Begins

LEMMA AskAboutBegins ==
    ASSUME ShapeInv, NEW do \in AboutDos, NEW ids, AskAbout(do, ids)
    PROVE  \E n : Begins(n)
  <1>1. PICK n, id, jid, ask : /\ n = [NoTask EXCEPT !.do = do, !.id = id, !.jid = jid, !.ask = ask]
                               /\ tasks' = tasks (+) SetToBag({n})
    BY DEF AskAbout
  <1>2. DOMAIN n = TaskFields /\ n.do = do /\ n.kind = "none" /\ n.queued = FALSE
    BY <1>1 DEF NoTask, TaskFields
  <1>3. /\ do \notin UpsertDos \cup HistoryDos \cup UpdateDos \cup MetaDos \cup SendDos
        /\ do # "Create" /\ do # "Store"
    BY DEF AboutDos, UpsertDos, HistoryDos, UpdateDos, MetaDos, SendDos
  <1>4. Keeps /\ rows' = rows
    BY SameWire DEF AskAbout, Keeps, Stays, baileysVars
  <1>5. ~ Chain(n) /\ ~ IsHist(n)
    BY <1>2, <1>3 DEF Chain, IsHist
  <1>6. ~ Own(n)'
    BY <1>2, <1>3 DEF Own, MetaDos
  <1>7. Makes(n)' = {}
    BY <1>5, <1>6 DEF Makes, Left, Chain
  <1>8. Shape(n)'
    BY <1>2, <1>3, <1>5 DEF Shape, Chain, IsHist
  <1>. QED BY <1>1, <1>2, <1>4, <1>5, <1>7, <1>8 DEF Begins

\* A step that is about none of this.
Elsewhere == Keeps /\ rows' = rows /\ tasks' = tasks

LEMMA ElsewhereKeeps ==
    ASSUME ShapeInv, OneInv, Elsewhere
    PROVE  ShapeInv' /\ OneInv' /\ WireGrows /\ config' = config
  <1>1. /\ Work' = Work /\ tasks' = tasks /\ rows' = rows /\ known' = known /\ queue' = queue
        /\ Ids' = Ids /\ WireGrows /\ config' = config
    BY DEF Elsewhere, Keeps, Stays, Work, Ids
  <1>2. \A u \in Work : Shape(u)' /\ Makes(u)' = Makes(u)
    BY <1>1, ShapeStays DEF ShapeInv
  <1>3. \A i \in DOMAIN queue : Shape(queue[i])' /\ Makes(queue[i])' = Makes(queue[i])
    BY <1>1, ShapeStays DEF ShapeInv
  <1>4. ShapeInv'
    BY <1>1, <1>2, <1>3 DEF ShapeInv, WireGrows
  <1>5. RowInv => RowInv'
    BY <1>1 DEF RowInv
  <1>6. WorkInv => WorkInv'
    BY <1>1, <1>2 DEF WorkInv
  <1>7. QueueInv => QueueInv'
    BY <1>1, <1>2, <1>3 DEF QueueInv
  <1>8. HistoryInv => HistoryInv'
    BY <1>1, <1>3 DEF HistoryInv, IsHist, Items
  <1>9. Premise' = Premise
    BY <1>1 DEF Premise, On
  <1>. QED BY <1>1, <1>4, <1>5, <1>6, <1>7, <1>8, <1>9 DEF OneInv

LEMMA RequestBegins ==
    ASSUME ShapeInv, Request
    PROVE  (\E n : Begins(n)) \/ Elsewhere
  <1>1. CASE TextMessage \/ MediaMessage \/ MediaSticker \/ StatusMessage
    <2>1. PICK do, kind, jids : /\ Ask(do, kind, jids) /\ UNCHANGED baileysVars
                                /\ do \in {"Number", "PrepareMedia", "ConvertToWebP",
                                           "FormatStatus"}
                                /\ kind \in {"text", "media", "status"}
      BY <1>1 DEF TextMessage, MediaMessage, MediaSticker, StatusMessage
    <2>2. /\ do # "Store" /\ do # "Create" /\ kind # "upsert" /\ kind # "history"
          /\ do \notin UpsertDos \cup HistoryDos \cup UpdateDos \cup MetaDos
      BY <2>1 DEF UpsertDos, HistoryDos, UpdateDos, MetaDos
    <2>. QED BY <2>1, <2>2, AskBegins DEF baileysVars
  <1>2. CASE AudioWhatsapp \/ HandleLabel
    <2>1. PICK do, kind, jids : /\ Ask(do, kind, jids) /\ UNCHANGED baileysVars
                                /\ do \in {"Number", "ProcessAudio", "Labelled"}
                                /\ kind \in {"text", "media"}
      BY <1>2 DEF AudioWhatsapp, HandleLabel
    <2>2. /\ do # "Store" /\ do # "Create" /\ kind # "upsert" /\ kind # "history"
          /\ do \notin UpsertDos \cup HistoryDos \cup UpdateDos \cup MetaDos
      BY <2>1 DEF UpsertDos, HistoryDos, UpdateDos, MetaDos
    <2>. QED BY <2>1, <2>2, AskBegins DEF baileysVars
  <1>3. CASE ButtonMessage
    <2>1. CASE \E do \in {"PrepareMedia", "Number"} : Ask(do, "text", {"contact"})
      <3>1. PICK do \in {"PrepareMedia", "Number"} : Ask(do, "text", {"contact"})
        BY <2>1
      <3>2. /\ do # "Store" /\ do # "Create"
            /\ do \notin UpsertDos \cup HistoryDos \cup UpdateDos \cup MetaDos
        BY DEF UpsertDos, HistoryDos, UpdateDos, MetaDos
      <3>. QED BY <1>3, <3>1, <3>2, AskBegins DEF ButtonMessage, baileysVars
    <2>2. CASE UNCHANGED <<wire, rows, tasks, config>>
      <3>1. UNCHANGED <<queue, known>>
        BY <1>3 DEF ButtonMessage, baileysVars
      <3>. QED BY <2>2, <3>1, Unmoved DEF Elsewhere
    <2>. QED BY <1>3, <2>1, <2>2 DEF ButtonMessage
  <1>4. CASE GetBase64FromMediaMessage \/ ArchiveChat \/ AskDelete \/ AskEdit
    BY <1>4, AskAboutBegins DEF GetBase64FromMediaMessage, ArchiveChat, AskDelete, AskEdit, AboutDos
  <1>. QED BY <1>1, <1>2, <1>3, <1>4 DEF Request

LEMMA TimeIsElsewhere ==
    ASSUME ShapeInv, TimePasses
    PROVE  Elsewhere
  <1>1. UNCHANGED <<wire, rows, tasks, config, queue, known>>
    BY DEF TimePasses, SecondPasses, FiveMinutesPass, storeVars
  <1>. QED BY <1>1, Unmoved DEF Elsewhere

-----------------------------------------------------------------------------
(* What happens on WhatsApp *)

LEMMA EnqueueGrows ==
    ASSUME ShapeInv, config' = config, WireGrows, UNCHANGED <<rows, tasks, known>>,
           NEW b, queue' = Append(queue, b), Shape(b)', Makes(b)' \subseteq Fresh,
           IsHist(b) /\ Premise => /\ b.do = "History" /\ known = None
                                   /\ \A t \in Work : ~ IsHist(t)
                                   /\ \A i \in DOMAIN queue : ~ IsHist(queue[i])
    PROVE  Grows(Len(queue) + 1, b)
  <1>1. Extends(queue, b, queue')
    BY AppendList DEF ShapeInv
  <1>2. \A i \in DOMAIN queue : i <= Len(queue) + 1
    BY DEF ShapeInv, IsList
  <1>. QED BY <1>1, <1>2 DEF Grows, Extends

\* A batch of anything but messages.
LEMMA OtherBatch ==
    ASSUME ShapeInv, NEW b, DOMAIN b = TaskFields, b.queued \in BOOLEAN, b.kind = "none",
           b.do \notin UpsertDos \cup HistoryDos \cup MetaDos \cup SendDos,
           b.do \in UpdateDos => b.queued
    PROVE  Shape(b)' /\ Makes(b)' = {} /\ ~ IsHist(b)
  <1>1. ~ Chain(b) /\ ~ IsHist(b) /\ b.do # "Create" /\ b.do # "Store"
    BY DEF Chain, IsHist, UpsertDos, SendDos
  <1>2. ~ Own(b)'
    BY <1>1 DEF Own, MetaDos
  <1>3. Makes(b)' = {}
    BY <1>1, <1>2 DEF Left, Makes, Chain
  <1>4. Shape(b)'
    BY <1>1 DEF Shape, Chain, IsHist
  <1>. QED BY <1>1, <1>3, <1>4

LEMMA ArriveGrows ==
    ASSUME ShapeInv, On("wa"), Arrive
    PROVE  \E L, b : Grows(L, b)
  <1>1. PICK m, item : /\ wire' = Append(wire, m) /\ item = Item(Len(wire'), "new")
                       /\ Buffered(item)
    BY DEF Arrive
  <1>2. WireGrows /\ Fresh = {Len(wire')} /\ Fresh \subseteq DOMAIN wire'
    BY <1>1, OneOnWire
  <1>3. UNCHANGED <<rows, tasks, known, config>>
    BY DEF Arrive
  <1>4. item.id = Len(wire')
    BY <1>1 DEF Item
  <1>5. CASE Enqueue("Upsert", <<item>>)
    <2>1. PICK b : b = Batch("Upsert", <<item>>) /\ queue' = Append(queue, b)
      BY <1>5 DEF Enqueue
    <2>2. /\ DOMAIN b = TaskFields /\ b.do = "Upsert" /\ b.batch = <<item>> /\ b.queued = TRUE
          /\ b.kind = "none"
      BY <2>1 DEF Batch, NoTask, TaskFields
    <2>3. IsList(b.batch) /\ DOMAIN b.batch = {1} /\ b.batch[1] = item
      BY <2>2 DEF IsList
    <2>4. Different(b.batch)
      BY <2>3 DEF Different
    <2>5. /\ b.do \in UpsertDos /\ b.do \notin HistoryDos \cup UpdateDos \cup MetaDos \cup SendDos
          /\ b.do # "Create" /\ b.do # "Store" /\ ~ IsHist(b)
      BY <2>2 DEF UpsertDos, HistoryDos, UpdateDos, MetaDos, SendDos, IsHist
    <2>6. Shape(b)'
      BY <1>2, <1>4, <2>2, <2>3, <2>4, <2>5 DEF Shape, Different, IsHist, Chain
    <2>7. Makes(b)' \subseteq Fresh
      BY <1>2, <1>4, <2>2, <2>3, <2>5 DEF Makes, Own, Left, MetaDos
    <2>. QED BY <1>2, <1>3, <2>1, <2>5, <2>6, <2>7, EnqueueGrows
  <1>6. CASE /\ queue # <<>> /\ queue[Len(queue)].do = "Upsert"
             /\ queue' = [queue EXCEPT ![Len(queue)].batch = Append(@, item)]
    <2> DEFINE L == Len(queue)
    <2>1. /\ L \in DOMAIN queue /\ DOMAIN queue = 1 .. L /\ L \in Nat
          /\ \A i \in DOMAIN queue : i <= L
      <3>1. Shortens(queue, Tail(queue))
        BY <1>6, TailList DEF ShapeInv
      <3>. QED BY <3>1 DEF ShapeInv, IsList, Shortens
    <2>2. PICK q : q = queue[L]
      OBVIOUS
    <2>3. PICK b : b = [q EXCEPT !.batch = Append(q.batch, item)]
      OBVIOUS
    <2>4. /\ DOMAIN queue' = DOMAIN queue /\ queue' = [i \in DOMAIN queue' |-> queue'[i]]
          /\ \A i \in DOMAIN queue : i # L => queue'[i] = queue[i]
          /\ queue'[L] = b
      BY <1>6, <2>1, <2>2, <2>3
    <2>5. IsList(queue')
      BY <2>1, <2>4, FunctionIsList
    <2>6. Shape(q) /\ q.do = "Upsert"
      BY <1>6, <2>1, <2>2 DEF ShapeInv
    <2>7. Chain(q) /\ DOMAIN q = TaskFields
      BY <2>6 DEF Chain, UpsertDos, Shape
    <2>8. /\ IsList(q.batch) /\ Different(q.batch) /\ q.queued
          /\ \A j \in DOMAIN q.batch : q.batch[j].id \in DOMAIN wire
      BY <2>6, <2>7 DEF Shape
    <2>9. /\ DOMAIN b = TaskFields /\ b.do = "Upsert" /\ b.batch = Append(q.batch, item)
          /\ b.queued = q.queued /\ b.kind = q.kind
      BY <2>3, <2>6, <2>7 DEF TaskFields
    <2>10. Extends(q.batch, item, b.batch)
      BY <2>8, <2>9, AppendList
    <2>11. Len(wire') \notin DOMAIN wire
      BY <1>2 DEF Fresh
    <2>12. IsList(b.batch) /\ Different(b.batch)
      BY <1>4, <2>8, <2>10, <2>11 DEF Extends, Different
    <2>13. \A j \in DOMAIN b.batch : b.batch[j].id \in DOMAIN wire'
      BY <1>2, <1>4, <2>8, <2>10 DEF Extends, WireGrows
    <2>14. /\ b.do \in UpsertDos /\ b.do \notin HistoryDos \cup UpdateDos \cup MetaDos \cup SendDos
           /\ b.do # "Create" /\ b.do # "Store" /\ ~ IsHist(b) /\ ~ IsHist(q)
      BY <2>6, <2>9 DEF UpsertDos, HistoryDos, UpdateDos, MetaDos, SendDos, IsHist
    <2>15. b.kind # "history" /\ b.queued \in BOOLEAN
      BY <2>6, <2>8, <2>9, <2>14 DEF Shape
    <2>16. Shape(b)'
      BY <1>3, <2>8, <2>9, <2>12, <2>13, <2>14, <2>15 DEF Shape, Different, IsHist, Chain, On
    <2>17. ASSUME NEW id \in Makes(b)'
           PROVE  id \in Fresh \/ id \in Makes(q)
      <3>1. PICK j \in DOMAIN b.batch : id = b.batch[j].id
        BY <2>9, <2>17 DEF Makes, Own, Left
      <3>2. CASE j \in DOMAIN q.batch
        BY <3>1, <3>2, <2>6, <2>7, <2>10 DEF Extends, Makes, Left
      <3>3. CASE j \notin DOMAIN q.batch
        BY <3>1, <3>3, <2>10, <1>2, <1>4 DEF Extends
      <3>. QED BY <3>2, <3>3
    <2>18. Grows(L, b)
      <3> HIDE DEF L
      <3>. QED BY <1>2, <1>3, <2>1, <2>2, <2>4, <2>5, <2>14, <2>16, <2>17 DEF Grows
    <2>. QED BY <2>18
  <1>. QED BY <1>1, <1>5, <1>6 DEF Buffered

LEMMA UpdateGrows ==
    ASSUME ShapeInv, Update
    PROVE  \E L, b : Grows(L, b)
  <1>1. PICK i, items : /\ i \in DOMAIN wire /\ Enqueue("Update", items)
                        /\ wire' = [wire EXCEPT ![i].updated = TRUE]
    BY DEF Update
  <1>2. DOMAIN wire' = DOMAIN wire /\ wire' = [j \in DOMAIN wire' |-> wire'[j]]
    BY <1>1
  <1>3. IsList(wire')
    BY <1>2, FunctionIsList DEF ShapeInv, IsList
  <1>4. \A j \in DOMAIN wire : wire'[j].kind = wire[j].kind /\ wire'[j].jid = wire[j].jid
    BY <1>1
  <1>5. WireGrows /\ UNCHANGED <<rows, tasks, known, config>>
    BY <1>2, <1>3, <1>4 DEF WireGrows, Update
  <1>6. PICK b : b = Batch("Update", items) /\ queue' = Append(queue, b)
    BY <1>1 DEF Enqueue
  <1>7. DOMAIN b = TaskFields /\ b.do = "Update" /\ b.queued = TRUE /\ b.kind = "none"
    BY <1>6 DEF Batch, NoTask, TaskFields
  <1>8. b.do \notin UpsertDos \cup HistoryDos \cup MetaDos \cup SendDos
    BY <1>7 DEF UpsertDos, HistoryDos, MetaDos, SendDos
  <1>9. Shape(b)' /\ Makes(b)' = {} /\ ~ IsHist(b)
    BY <1>7, <1>8, OtherBatch
  <1>. QED BY <1>5, <1>6, <1>9, EnqueueGrows

LEMMA ReceiptGrows ==
    ASSUME ShapeInv, Receipt
    PROVE  \E L, b : Grows(L, b)
  <1>1. PICK items : Enqueue("Receipt", items)
    BY DEF Receipt
  <1>2. WireGrows /\ UNCHANGED <<rows, tasks, known, config>>
    BY SameWire DEF Receipt
  <1>3. PICK b : b = Batch("Receipt", items) /\ queue' = Append(queue, b)
    BY <1>1 DEF Enqueue
  <1>4. DOMAIN b = TaskFields /\ b.do = "Receipt" /\ b.queued = TRUE /\ b.kind = "none"
    BY <1>3 DEF Batch, NoTask, TaskFields
  <1>5. b.do \notin UpsertDos \cup HistoryDos \cup MetaDos \cup SendDos
    BY <1>4 DEF UpsertDos, HistoryDos, MetaDos, SendDos
  <1>6. Shape(b)' /\ Makes(b)' = {} /\ ~ IsHist(b)
    BY <1>4, <1>5, OtherBatch
  <1>. QED BY <1>2, <1>3, <1>6, EnqueueGrows

LEMMA ChatEventGrows ==
    ASSUME ShapeInv, ChatEvent
    PROVE  \E L, b : Grows(L, b)
  <1> DEFINE Dos == {"ChatsUpsert", "ChatsUpdate", "ChatsDelete", "AddLabel", "RemoveLabel"}
  <1>0. PICK do \in Dos, jid \in {"contact"} :
                queue' = Append(queue, [NoTask EXCEPT !.do = do, !.jid = jid])
    BY DEF ChatEvent
  <1>1. PICK b : b = [NoTask EXCEPT !.do = do, !.jid = jid] /\ queue' = Append(queue, b)
    BY <1>0
  <1>2. WireGrows /\ UNCHANGED <<rows, tasks, known, config>>
    BY SameWire DEF ChatEvent
  <1>3. DOMAIN b = TaskFields /\ b.do = do /\ b.queued = FALSE /\ b.kind = "none"
    BY <1>1 DEF NoTask, TaskFields
  <1>4. b.do \notin UpsertDos \cup HistoryDos \cup MetaDos \cup SendDos \cup UpdateDos
    BY <1>0, <1>3 DEF UpsertDos, HistoryDos, MetaDos, SendDos, UpdateDos
  <1>5. Shape(b)' /\ Makes(b)' = {} /\ ~ IsHist(b)
    BY <1>3, <1>4, OtherBatch
  <1>. QED BY <1>1, <1>2, <1>5, EnqueueGrows

LEMMA HistoryGrows ==
    ASSUME ShapeInv, On("wa"), History
    PROVE  \E L, b : Grows(L, b)
  <1> DEFINE items == [i \in DOMAIN wire |-> Item(i, "old")]
  <1>1. PICK c, b : /\ c = Batch("History", items) /\ b = [c EXCEPT !.kind = "history"]
                    /\ queue' = Append(queue, b)
    BY DEF History
  <1>2. /\ DOMAIN items = DOMAIN wire /\ items = [i \in DOMAIN items |-> items[i]]
        /\ \A i \in DOMAIN wire : items[i].id = i
    BY DEF Item
  <1> HIDE DEF items
  <1>3. IsList(items) /\ Different(items)
    BY <1>2, FunctionIsList DEF ShapeInv, IsList, Different
  <1>4. WireGrows /\ UNCHANGED <<wire, rows, tasks, known, config>> /\ On("history")
    BY SameWire DEF History
  <1>5. /\ DOMAIN c = TaskFields /\ c.do = "History" /\ c.batch = items /\ c.queued = TRUE
        /\ c.kind = "none"
    BY <1>1 DEF Batch, NoTask, TaskFields
  <1>6. /\ DOMAIN b = TaskFields /\ b.do = "History" /\ b.queued = TRUE /\ b.kind = "history"
        /\ b.batch = items
    BY <1>1, <1>5 DEF TaskFields
  <1>7. /\ b.do \in HistoryDos /\ b.do # "Create" /\ b.do # "Store" /\ IsHist(b) /\ ~ Chain(b)
        /\ b.do \notin UpsertDos \cup MetaDos \cup SendDos \cup UpdateDos
    BY <1>6 DEF UpsertDos, HistoryDos, MetaDos, SendDos, UpdateDos, IsHist, Chain
  <1>8. Shape(b)
    BY <1>2, <1>3, <1>4, <1>6, <1>7 DEF Shape
  <1>9. Shape(b)' /\ Makes(b)' = {}
    BY <1>4, <1>7, <1>8, ShapeStays, HistoryMakesNothing
  <1>10. Premise => /\ known = None
                    /\ \A t \in Work : ~ IsHist(t)
                    /\ \A i \in DOMAIN queue : ~ IsHist(queue[i])
    <2>1. Premise => ~ On("resync")
      BY <1>4 DEF Premise
    <2>2. Premise => /\ known = None
                     /\ \A t \in Work : t.kind # "history"
                     /\ \A i \in DOMAIN queue : queue[i].kind # "history"
      BY <2>1 DEF History
    <2>. QED BY <2>2 DEF ShapeInv, Shape
  <1>. QED BY <1>1, <1>4, <1>6, <1>9, <1>10, EnqueueGrows
-----------------------------------------------------------------------------
(* Every step of BaileysMessages *)

LEMMA HistorySteps ==
    ASSUME ShapeInv, NEW t \in Work, HistoryChats(t) \/ Snapshot(t)
    PROVE  \E n : NextOfHistory(t, n)
  <1> DEFINE next == IF t.do = "History" THEN "Snapshot" ELSE "Import"
  <1>0. Continue(t, next)
    BY DEF HistoryChats, Snapshot
  <1>1. PICK n : n = [t EXCEPT !.do = next] /\ Replace(t, {n})
    BY <1>0 DEF Continue
  <1>2. DOMAIN t = TaskFields
    BY DEF ShapeInv, Shape
  <1>3. /\ DOMAIN n = TaskFields /\ n.batch = t.batch /\ n.kind = t.kind /\ n.queued = t.queued
        /\ n.do = next
    BY <1>1, <1>2 DEF TaskFields
  <1>4. UNCHANGED <<wire, rows, queue, config>>
    BY DEF HistoryChats, Snapshot, baileysVars
  <1>5. CASE HistoryChats(t)
    <2>1. t.do = "History" /\ known' = known
      BY <1>5 DEF HistoryChats, baileysVars
    <2>2. n.do = "Snapshot" /\ IsHist(t)
      BY <2>1, <1>3 DEF IsHist, HistoryDos
    <2>. QED BY <2>1, <2>2, <1>1, <1>2, <1>3, <1>4 DEF NextOfHistory
  <1>6. CASE Snapshot(t)
    <2>1. t.do = "Snapshot" /\ known' = IF known = None THEN Ids ELSE known
      BY <1>6 DEF Snapshot
    <2>2. n.do = "Import" /\ IsHist(t)
      BY <2>1, <1>3 DEF IsHist, HistoryDos
    <2>. QED BY <2>1, <2>2, <1>1, <1>2, <1>3, <1>4 DEF NextOfHistory
  <1>. QED BY <1>5, <1>6

LEMMA HandlerKeeps ==
    ASSUME ShapeInv, OneInv, On("wa"), HandlerStep
    PROVE  ShapeInv' /\ OneInv' /\ WireGrows /\ config' = config
  <1>1. CASE NextBatch
    BY <1>1, NextBatchKeeps
  <1>2. CASE \E t \in Work : HistoryChats(t) \/ Snapshot(t)
    BY <1>2, HistorySteps, NextOfHistoryKeeps
  <1>3. CASE \E t \in Work : ImportMessages(t)
    BY <1>3, ImportKeeps
  <1>4. CASE \E t \in Work : Recount(t) \/ WriteCount(t) \/ Counted(t)
    BY <1>4, RecountSteps, WriteCountSteps, CountedSteps, StepsKeep
  <1>5. CASE \E t \in Work : UpsertDone(t) \/ Undecrypted(t) \/ Edited(t) \/ EditRow(t)
    BY <1>5, UpsertDoneSteps, UndecryptedSteps, EditedSteps, EditRowSteps, StepsKeep
  <1>6. CASE \E t \in Work : \/ TakeMessage(t) \/ CreateRow(t) \/ CountUnread(t)
                             \/ UploadMedia(t) \/ Announce(t)
    BY <1>6, TakeMessageSteps, CreateRowSteps, CountUnreadSteps, UploadMediaSteps,
       AnnounceSteps, StepsKeep
  <1>7. CASE \E t \in Work : \/ UpdatesDone(t) \/ SkipUpdate(t) \/ TakeUpdate(t) \/ UpdateRow(t)
                             \/ AnnounceUpdate(t) \/ ReadReceipt(t)
    BY <1>7, UpdatesDoneSteps, SkipUpdateSteps, TakeUpdateSteps, UpdateRowSteps,
       AnnounceUpdateSteps, ReadReceiptSteps, StepsKeep
  <1>8. CASE \E t \in Work : \/ ChatsUpsert(t) \/ ChatsUpdate(t) \/ ChatsDelete(t)
                             \/ LabelsAssociation(t)
    BY <1>8, ChatsUpsertSteps, ChatsSteps, StepsKeep
  <1>. QED BY <1>1, <1>2, <1>3, <1>4, <1>5, <1>6, <1>7, <1>8 DEF HandlerStep

LEMMA RequestKeeps ==
    ASSUME ShapeInv, OneInv, RequestStep
    PROVE  ShapeInv' /\ OneInv' /\ WireGrows /\ config' = config
  <1>1. CASE \E t \in Work : \/ PrepareMediaMessage(t) \/ ConvertToWebP(t) \/ ProcessAudio(t)
                             \/ FormatStatusMessage(t)
    BY <1>1, PrepareSteps, StepsKeep
  <1>2. CASE \E t \in Work : \/ GetMessage(t) \/ Download(t) \/ GetLastMessage(t)
                             \/ ChatModify(t) \/ LabelNumber(t)
    BY <1>2, AboutMessageSteps, StepsKeep
  <1>3. CASE \E t \in Work : WhatsappNumber(t) \/ SendMessage(t) \/ StoreSent(t) \/ Sent(t)
    BY <1>3, WhatsappNumberSteps, SendMessageSteps, StoreSentSteps, SentIsDone, StepsKeep
  <1>4. CASE \E t \in Work : DeleteMessage(t) \/ DeleteRow(t) \/ UpdateMessage(t) \/ EditSent(t)
    BY <1>4, DeleteSteps, EditSteps, StepsKeep
  <1>. QED BY <1>1, <1>2, <1>3, <1>4 DEF RequestStep

LEMMA BaileysKeeps ==
    ASSUME ShapeInv, OneInv, On("wa"), BaileysNext
    PROVE  ShapeInv' /\ OneInv' /\ WireGrows /\ config' = config
  <1>1. CASE World
    BY <1>1, ArriveGrows, UpdateGrows, ReceiptGrows, HistoryGrows, ChatEventGrows, GrowsKeeps
       DEF World
  <1>2. CASE TimePasses
    BY <1>2, TimeIsElsewhere, ElsewhereKeeps
  <1>3. CASE Request
    BY <1>3, RequestBegins, BeginsKeeps, ElsewhereKeeps
  <1>4. CASE HandlerStep
    BY <1>4, HandlerKeeps
  <1>5. CASE RequestStep
    BY <1>5, RequestKeeps
  <1>6. CASE Failure
    BY <1>6, HandlerFailsSteps, StepsKeep DEF Failure
  <1>. QED BY <1>1, <1>2, <1>3, <1>4, <1>5, <1>6 DEF BaileysNext

-----------------------------------------------------------------------------
(* CloudMessages *)

Apart == ~ On("wa") /\ UNCHANGED <<queue, known>>

\* A webhook that brings a message is going to store it.
LEMMA HookedIs ==
    ASSUME ShapeInv, Apart, UNCHANGED <<rows, config>>, NEW m, wire' = Append(wire, m),
           NEW n, DOMAIN n = TaskFields, n.queued = TRUE, n.kind = "none", n.batch = <<>>,
           n.do \in {"Settings", "Create"}, n.id = Len(wire')
    PROVE  Keeps /\ Shape(n)' /\ ~ IsHist(n) /\ Makes(n)' \subseteq Fresh
  <1>1. WireGrows /\ Fresh = {Len(wire')} /\ Len(wire') \in DOMAIN wire'
    BY OneOnWire
  <1>2. Keeps
    BY <1>1 DEF Keeps, Stays, Apart
  <1>3. ~ IsHist(n) /\ n.do \notin SendDos /\ n.do # "Store"
    BY DEF IsHist, HistoryDos, SendDos
  <1>4. DOMAIN n.batch = {} /\ IsList(n.batch)
    BY DEF IsList
  <1>5. Different(n.batch)
    BY <1>4 DEF Different
  <1>6. ~ On("wa")'
    BY DEF On, Apart
  <1>7. Shape(n)'
    BY <1>1, <1>3, <1>4, <1>5, <1>6 DEF Shape, Different, Chain, IsHist
  <1>8. Makes(n)' \subseteq {n.id}
    BY <1>4 DEF Makes, Left
  <1>. QED BY <1>1, <1>2, <1>3, <1>7, <1>8

\* As many copies of a task.
LEMMA AddCopies ==
    ASSUME IsABag(tasks), NEW h, NEW n \in Nat, n > 0, tasks' = tasks (+) [t \in {h} |-> n]
    PROVE  IsABag(tasks') /\ Work' = Work \cup {h}
  <1> DEFINE C == tasks'
  <1>1. DOMAIN C = DOMAIN tasks \cup {h} /\ C = [e \in DOMAIN C |-> C[e]]
    BY DEF (+)
  <1>2. \A e \in DOMAIN tasks \cup {h} :
           C[e] = (IF e \in DOMAIN tasks THEN tasks[e] ELSE 0) + (IF e \in {h} THEN n ELSE 0)
    BY DEF (+)
  <1>3. \A e \in DOMAIN tasks : tasks[e] \in Nat /\ tasks[e] > 0
    BY DEF IsABag
  <1> HIDE DEF C
  <1>4. \A e \in DOMAIN C : C[e] \in {k \in Nat : k > 0}
    BY <1>1, <1>2, <1>3
  <1>5. IsABag(C)
    BY <1>1, <1>4 DEF IsABag
  <1>. QED BY <1>1, <1>5 DEF C, Work, BagToSet

LEMMA MetaWebhookKeeps ==
    ASSUME ShapeInv, OneInv, Apart, MetaWebhook
    PROVE  ShapeInv' /\ OneInv' /\ WireGrows /\ config' = config
  <1>0. PICK jid \in Contacts, kind \in CloudKinds,
             entries \in {1} \cup (IF On("entries") THEN {2} ELSE {}) :
                /\ wire' = Append(wire, Message(jid, FALSE, LastTs + 1, kind, 0))
                /\ tasks' = tasks (+) [t \in {Hooked("Settings", Len(wire'))} |-> entries]
    BY DEF MetaWebhook
  <1>1. PICK m : wire' = Append(wire, m)
    BY <1>0
  <1>2. PICK n : n = Hooked("Settings", Len(wire'))
    OBVIOUS
  <1>3. /\ DOMAIN n = TaskFields /\ n.queued = TRUE /\ n.kind = "none" /\ n.batch = <<>>
        /\ n.do = "Settings" /\ n.id = Len(wire')
    BY <1>2 DEF Hooked, NoTask, TaskFields
  <1>4. UNCHANGED <<rows, config>>
    BY DEF MetaWebhook
  <1>5. Keeps /\ Shape(n)' /\ ~ IsHist(n) /\ Makes(n)' \subseteq Fresh
    BY <1>1, <1>3, <1>4, HookedIs
  <1>6. CASE entries = 1
    <2>1. tasks' = tasks (+) SetToBag({n})
      BY <1>0, <1>2, <1>6 DEF SetToBag
    <2>2. Begins(n)
      BY <1>3, <1>4, <1>5, <2>1 DEF Begins, Apart
    <2>. QED BY <2>2, BeginsKeeps
  <1>7. CASE entries # 1
    <2>1. On("entries") /\ entries \in Nat /\ entries > 0
      BY <1>0, <1>7
    <2>2. IsABag(tasks') /\ Work' = Work \cup {n}
      BY <1>0, <1>2, <2>1, AddCopies DEF ShapeInv
    <2>3. /\ queue' = queue /\ rows' = rows /\ config' = config /\ Ids' = Ids /\ WireGrows
      BY <1>4, <1>5 DEF Keeps, Stays, Ids
    <2>4. \A u \in Work : Shape(u)'
      BY <2>3, ShapeStays DEF ShapeInv
    <2>5. \A i \in DOMAIN queue : Shape(queue[i])'
      BY <2>3, ShapeStays DEF ShapeInv
    <2>6. ShapeInv'
      BY <1>5, <2>2, <2>3, <2>4, <2>5 DEF ShapeInv, WireGrows
    <2>7. ~ Premise'
      BY <2>1, <2>3 DEF Premise, On
    <2>. QED BY <2>3, <2>6, <2>7 DEF OneInv
  <1>. QED BY <1>6, <1>7

LEMMA WebhookBegins ==
    ASSUME ShapeInv, Apart, MetaStatuses \/ EvolutionWebhook
    PROVE  \E n : Begins(n)
  <1>1. CASE MetaStatuses
    <2>1. PICK n, items : /\ n = [Hooked("Statuses", 0) EXCEPT !.batch = items]
                          /\ tasks' = tasks (+) SetToBag({n})
      BY <1>1 DEF MetaStatuses
    <2>2. DOMAIN n = TaskFields /\ n.queued = TRUE /\ n.kind = "none" /\ n.do = "Statuses"
      BY <2>1 DEF Hooked, NoTask, TaskFields
    <2>3. n.do \notin UpsertDos \cup HistoryDos \cup MetaDos \cup SendDos \cup UpdateDos
      BY <2>2 DEF UpsertDos, HistoryDos, MetaDos, SendDos, UpdateDos
    <2>4. Shape(n)' /\ Makes(n)' = {} /\ ~ IsHist(n)
      BY <2>2, <2>3, OtherBatch
    <2>5. Keeps /\ rows' = rows
      BY <1>1, SameWire DEF MetaStatuses, Apart, Keeps, Stays
    <2>. QED BY <2>1, <2>2, <2>4, <2>5 DEF Begins, Apart
  <1>2. CASE EvolutionWebhook
    <2>1. PICK m : wire' = Append(wire, m)
      BY <1>2 DEF EvolutionWebhook
    <2>2. PICK n, jid : /\ n = [Hooked("Create", Len(wire')) EXCEPT !.jid = jid]
                        /\ tasks' = tasks (+) SetToBag({n})
      BY <1>2 DEF EvolutionWebhook
    <2>3. /\ DOMAIN n = TaskFields /\ n.queued = TRUE /\ n.kind = "none" /\ n.batch = <<>>
          /\ n.do = "Create" /\ n.id = Len(wire')
      BY <2>2 DEF Hooked, NoTask, TaskFields
    <2>4. UNCHANGED <<rows, config>>
      BY <1>2 DEF EvolutionWebhook
    <2>5. Keeps /\ Shape(n)' /\ ~ IsHist(n) /\ Makes(n)' \subseteq Fresh
      BY <2>1, <2>3, <2>4, HookedIs
    <2>. QED BY <2>2, <2>4, <2>5 DEF Begins, Apart
  <1>. QED BY <1>1, <1>2

LEMMA CloudRequestBegins ==
    ASSUME ShapeInv, Apart, CloudRequest
    PROVE  (\E n : Begins(n)) \/ Elsewhere
  <1>1. CASE CloudText \/ MetaMedia \/ EvolutionMedia \/ MetaAudio
    <2>1. PICK do, kind, jids : /\ Ask(do, kind, jids)
                                /\ do \in {"Convert", "Upload", "Post"}
                                /\ kind \in {"text", "media"}
      BY <1>1 DEF CloudText, MetaMedia, EvolutionMedia, MetaAudio
    <2>2. do # "Store" /\ do # "Create" /\ kind # "upsert" /\ kind # "history"
          /\ do \notin UpsertDos \cup HistoryDos \cup UpdateDos \cup MetaDos
      BY <2>1 DEF UpsertDos, HistoryDos, UpdateDos, MetaDos
    <2>. QED BY <2>1, <2>2, AskBegins DEF Apart
  <1>2. CASE \E do \in {"Convert", "Post"} : Ask(do, "media", {"contact"})
    <2>1. PICK do \in {"Convert", "Post"} : Ask(do, "media", {"contact"})
      BY <1>2
    <2>2. do # "Store" /\ do # "Create"
          /\ do \notin UpsertDos \cup HistoryDos \cup UpdateDos \cup MetaDos
      BY DEF UpsertDos, HistoryDos, UpdateDos, MetaDos
    <2>. QED BY <2>1, <2>2, AskBegins DEF Apart
  <1>3. CASE RefuseAtOnce
    BY <1>3, Unmoved DEF RefuseAtOnce, Elsewhere, Apart
  <1>. QED BY <1>1, <1>2, <1>3
        DEF CloudRequest, EvolutionAudio, MetaUnavailable, EvolutionUnavailable

\* Meta's message goes on: with S3 a medium has got its row.
LEMMA HookedHeir ==
    ASSUME ShapeInv, Keeps, ~ On("wa"), NEW t \in Work, t.do \in {"Settings", "Tell"},
           NEW n, DOMAIN n = TaskFields, n.kind = t.kind, n.queued = t.queued, n.id = t.id,
           n.do \in {"Tell", "Row"}, n.do = "Row" => t.do = "Tell",
           NEW M, M = {} \/ Medium(t.id)
    PROVE  Heir(t, n, M)
  <1>1. t.id \in DOMAIN wire /\ t.queued = TRUE /\ t.kind # "upsert" /\ t.kind # "history"
    <2>1. t.do \in MetaDos /\ t.do \notin HistoryDos
      BY DEF MetaDos, HistoryDos
    <2>. QED BY <2>1 DEF ShapeInv, Shape, IsHist
  <1>2. DOMAIN wire \subseteq DOMAIN wire' /\ ~ On("wa")' /\ Medium(t.id)' = Medium(t.id)
    BY <1>1 DEF Keeps, Stays, WireGrows, On, Medium
  <1>3. /\ n.do \notin UpsertDos \cup HistoryDos \cup SendDos /\ n.do # "Create" /\ n.do # "Store"
        /\ n.do # "Settings"
    BY DEF UpsertDos, HistoryDos, SendDos
  <1>4. ~ Chain(n) /\ ~ IsHist(n)
    BY <1>1, <1>3 DEF Chain, IsHist
  <1>5. Shape(n)'
    BY <1>1, <1>2, <1>3, <1>4 DEF Shape, Chain, IsHist
  <1>6. Makes(n)' \subseteq IF Medium(t.id) THEN {} ELSE {t.id}
    BY <1>2, <1>3, <1>4 DEF Makes, Own, Left, Chain
  <1>7. ~ Medium(t.id) => M = {} /\ t.id \in Makes(t)
    BY DEF Makes, Own
  <1>. QED BY <1>1, <1>4, <1>5, <1>6, <1>7 DEF Heir, Follows

LEMMA MetaMessageSteps ==
    ASSUME ShapeInv, Apart, NEW t \in Work, MetaMessage(t)
    PROVE  Steps(t)
  <1>1. UNCHANGED <<wire, config, queue, known>> /\ t.do = "Settings" /\ Keeps
    BY Unmoved DEF MetaMessage, Apart
  <1>2. CASE Finish(t) /\ UNCHANGED rows
    BY <1>1, <1>2, UnchangedRows, DoneSteps
  <1>3. CASE Replace(t, {[t EXCEPT !.do = "Tell", !.jid = phone]})
    <2>1. PICK n : n = [t EXCEPT !.do = "Tell", !.jid = phone] /\ Replace(t, {n})
      BY <1>3
    <2>2. DOMAIN t = TaskFields
      BY DEF ShapeInv, Shape
    <2>3. /\ DOMAIN n = TaskFields /\ n.kind = t.kind /\ n.queued = t.queued /\ n.id = t.id
          /\ n.do = "Tell"
      BY <2>1, <2>2 DEF TaskFields
    <2>4. CASE UNCHANGED rows
      <3>1. Heir(t, n, {})
        BY <1>1, <2>3, HookedHeir DEF Apart
      <3>. QED BY <1>1, <2>1, <2>4, <3>1, UnchangedRows, OneSteps
    <2>5. CASE /\ Medium(t.id)
               /\ rows' = Append(rows, [Row(t.id, wire[t.id], "none") EXCEPT !.jid = phone])
      <3>1. PICK r : r.id = t.id /\ rows' = Append(rows, r)
        BY <2>5 DEF Row
      <3>2. Writes({t.id}) /\ {t.id} \subseteq Makes(t)
        BY <1>1, <3>1, OneMoreRow DEF Makes, Own
      <3>3. Heir(t, n, {t.id})
        BY <1>1, <2>3, <2>5, HookedHeir DEF Apart
      <3>. QED BY <1>1, <2>1, <3>2, <3>3, OneSteps
    <2>. QED BY <1>1, <2>4, <2>5 DEF MetaMessage
  <1>. QED BY <1>2, <1>3 DEF MetaMessage

LEMMA MetaTellSteps ==
    ASSUME ShapeInv, Apart, NEW t \in Work, MetaTell(t)
    PROVE  Steps(t)
  <1>1. UNCHANGED <<wire, config, queue, known, rows>> /\ t.do = "Tell" /\ Keeps
    BY Unmoved DEF MetaTell, Apart
  <1>2. PICK n : n = [t EXCEPT !.do = "Row"] /\ Replace(t, {n})
    BY DEF MetaTell, Continue
  <1>3. DOMAIN t = TaskFields
    BY DEF ShapeInv, Shape
  <1>4. /\ DOMAIN n = TaskFields /\ n.kind = t.kind /\ n.queued = t.queued /\ n.id = t.id
        /\ n.do = "Row"
    BY <1>2, <1>3 DEF TaskFields
  <1>5. Heir(t, n, {})
    BY <1>1, <1>4, HookedHeir DEF Apart
  <1>. QED BY <1>1, <1>2, <1>5, UnchangedRows, OneSteps

LEMMA MetaRowSteps ==
    ASSUME ShapeInv, Apart, NEW t \in Work, MetaRow(t)
    PROVE  Steps(t)
  <1>1. UNCHANGED <<wire, config, queue, known>> /\ t.do = "Row" /\ Keeps /\ Finish(t)
    BY Unmoved DEF MetaRow, Apart
  <1>2. CASE UNCHANGED rows
    BY <1>1, <1>2, UnchangedRows, DoneSteps
  <1>3. CASE /\ ~ Medium(t.id)
             /\ rows' = Append(rows, [Row(t.id, wire[t.id], "none") EXCEPT !.jid = t.jid])
    <2>1. PICK r : r.id = t.id /\ rows' = Append(rows, r)
      BY <1>3 DEF Row
    <2>2. Writes({t.id}) /\ {t.id} \subseteq Makes(t)
      BY <1>1, <1>3, <2>1, OneMoreRow DEF Makes, Own
    <2>. QED BY <1>1, <2>2, FinishSteps
  <1>. QED BY <1>2, <1>3 DEF MetaRow

\* What becomes of the messages that were sent.
LEMMA MetaStatusSteps ==
    ASSUME ShapeInv, Apart, NEW t \in Work, MetaStatus(t)
    PROVE  Steps(t)
  <1>1. UNCHANGED <<wire, config, queue, known, rows>> /\ t.do = "Statuses" /\ Writes({})
    BY UnchangedRows DEF MetaStatus, Apart
  <1>2. CASE Finish(t)
    BY <1>1, <1>2, DoneSteps
  <1>3. CASE Replace(t, {[t EXCEPT !.batch = Tail(t.batch)]})
    <2>1. PICK n : n = [t EXCEPT !.batch = Tail(t.batch)] /\ Replace(t, {n})
      BY <1>3
    <2>2. DOMAIN t = TaskFields /\ t.queued \in BOOLEAN
      BY DEF ShapeInv, Shape
    <2>3. DOMAIN n = TaskFields /\ n.kind = t.kind /\ n.queued = t.queued /\ n.do = t.do
      BY <2>1, <2>2 DEF TaskFields
    <2>4. /\ t.do \notin UpsertDos \cup CountDos \cup HistoryDos
          /\ n.do \notin UpsertDos \cup HistoryDos \cup MetaDos \cup SendDos \cup UpdateDos
      BY <1>1, <2>3 DEF UpsertDos, CountDos, HistoryDos, MetaDos, SendDos, UpdateDos
    <2>5. Idle(t, n)
      BY <2>2, <2>3, <2>4, Plain DEF Idle
    <2>. QED BY <1>1, <2>1, <2>5, IdleSteps
  <1>. QED BY <1>2, <1>3 DEF MetaStatus

\* A message that Evolution has brought.
LEMMA EvolutionRowSteps ==
    ASSUME ShapeInv, Apart, NEW t \in Work, EvolutionRow(t)
    PROVE  Steps(t)
  <1>1. UNCHANGED <<wire, config, queue, known>> /\ t.do = "Create" /\ Keeps
    BY Unmoved DEF EvolutionRow, Apart
  <1>2. CASE Finish(t) /\ UNCHANGED rows
    BY <1>1, <1>2, UnchangedRows, DoneSteps
  <1>3. CASE rows' = Append(rows, Row(t.id, wire[t.id], "none")) /\ Continue(t, "Contact")
    <2>1. PICK r : r.id = t.id /\ rows' = Append(rows, r)
      BY <1>3 DEF Row
    <2>2. Writes({t.id}) /\ {t.id} \subseteq Makes(t)
      BY <1>1, <2>1, OneMoreRow DEF Makes, Own
    <2>3. PICK n : n = [t EXCEPT !.do = "Contact"] /\ Replace(t, {n})
      BY <1>3 DEF Continue
    <2>4. DOMAIN t = TaskFields /\ t.queued \in BOOLEAN /\ t.kind # "upsert" /\ t.kind # "history"
      <3>1. t.do \notin HistoryDos
        BY <1>1 DEF HistoryDos
      <3>. QED BY <3>1 DEF ShapeInv, Shape, IsHist, Apart
    <2>5. DOMAIN n = TaskFields /\ n.kind = t.kind /\ n.queued = t.queued /\ n.do = "Contact"
      BY <2>3, <2>4 DEF TaskFields
    <2>6. n.do \notin UpsertDos \cup HistoryDos \cup MetaDos \cup SendDos \cup UpdateDos
      BY <2>5 DEF UpsertDos, HistoryDos, MetaDos, SendDos, UpdateDos
    <2>7. Heir(t, n, {t.id})
      BY <1>1, <2>4, <2>5, <2>6, IdleHeir DEF Idle
    <2>. QED BY <1>1, <2>2, <2>3, <2>7, OneSteps
  <1>. QED BY <1>2, <1>3 DEF EvolutionRow

LEMMA EvolutionSteps ==
    ASSUME ShapeInv, Apart, NEW t \in Work,
           FindContact(t) \/ WriteContact(t) \/ FindChat(t) \/ InsertChat(t)
    PROVE  Steps(t)
  <1> DEFINE Dos == {"Contact", "UpdateContact", "InsertContact", "Chat", "InsertChat"}
  <1>1. UNCHANGED <<wire, config, queue, known, rows>> /\ t.do \in Dos /\ Writes({})
    BY UnchangedRows DEF FindContact, WriteContact, FindChat, InsertChat, Apart
  <1>2. \A a \in Dos : /\ a \notin UpsertDos \cup CountDos \cup HistoryDos
                       /\ a \notin UpsertDos \cup HistoryDos \cup MetaDos \cup SendDos
                       /\ a \notin UpdateDos
    BY DEF UpsertDos, CountDos, HistoryDos, MetaDos, SendDos, UpdateDos
  <1>3. CASE Finish(t)
    BY <1>1, <1>3, DoneSteps
  <1>4. CASE \E d \in Dos : Continue(t, d)
    <2>1. PICK d \in Dos : Continue(t, d)
      BY <1>4
    <2>. QED BY <1>1, <1>2, <2>1, ContinueSteps
  <1>. QED BY <1>3, <1>4 DEF FindContact, WriteContact, FindChat, InsertChat

\* A file is converted or uploaded for a request that sends.
LEMMA FetchedSteps ==
    ASSUME ShapeInv, Apart, NEW t \in Work,
           MetaProcessAudio(t) \/ EvolutionProcessAudio(t) \/ GetIdMedia(t)
    PROVE  Steps(t)
  <1>1. PICK d \in {"Upload", "Post"} : Fetched(t, d)
    BY DEF MetaProcessAudio, EvolutionProcessAudio, GetIdMedia
  <1>2. t.do \in SendDos /\ d \in SendDos /\ d # "Store"
    BY DEF MetaProcessAudio, EvolutionProcessAudio, GetIdMedia, SendDos
  <1>3. UNCHANGED <<wire, config, queue, known>> /\ Writes({})
    BY <1>1, UnchangedRows DEF Fetched, Apart
  <1>. QED BY <1>1, <1>2, <1>3, SendSteps, DoneSteps DEF Fetched

LEMMA ToldSteps ==
    ASSUME ShapeInv, Apart, NEW t \in Work, t.do \in SendDos, Told(t), UNCHANGED <<rows, config>>
    PROVE  Steps(t)
  <1>1. PICK m : wire' = Append(wire, m)
    BY DEF Told
  <1>2. PICK n : n = [t EXCEPT !.do = "Store", !.id = Len(wire')] /\ Replace(t, {n})
    BY DEF Told
  <1>. QED BY <1>1, <1>2, SentSteps DEF Apart

LEMMA PostSteps ==
    ASSUME ShapeInv, Apart, NEW t \in Work, MetaPost(t) \/ EvolutionSend(t) \/ UploadToS3(t)
    PROVE  Steps(t)
  <1>1. t.do \in SendDos /\ UNCHANGED <<rows, config, queue, known>>
    BY DEF MetaPost, EvolutionSend, UploadToS3, SendDos, Apart
  <1>2. CASE Told(t)
    BY <1>1, <1>2, ToldSteps
  <1>3. CASE Finish(t) /\ UNCHANGED wire
    BY <1>1, <1>3, UnchangedRows, DoneSteps
  <1>4. CASE Continue(t, "S3") /\ UNCHANGED wire
    <2>1. "S3" \in SendDos /\ "S3" # "Store" /\ Writes({})
      BY <1>1, UnchangedRows DEF SendDos
    <2>. QED BY <1>1, <1>4, <2>1, SendSteps
  <1>. QED BY <1>2, <1>3, <1>4 DEF MetaPost, EvolutionSend, UploadToS3

LEMMA StorePostedSteps ==
    ASSUME ShapeInv, Apart, NEW t \in Work, StorePosted(t)
    PROVE  Steps(t)
  <1>1. UNCHANGED <<wire, config, queue, known>> /\ t.do = "Store" /\ Finish(t) /\ Keeps
    BY Unmoved DEF StorePosted, Apart
  <1>2. CASE UNCHANGED rows
    BY <1>1, <1>2, UnchangedRows, DoneSteps
  <1>3. CASE \E status : rows' = Append(rows, Row(t.id, wire[t.id], status))
    <2>1. PICK status : rows' = Append(rows, Row(t.id, wire[t.id], status))
      BY <1>3
    <2>2. Writes({t.id}) /\ {t.id} \subseteq Makes(t)
      BY <1>1, <2>1, StoredRow
    <2>. QED BY <1>1, <2>2, FinishSteps
  <1>. QED BY <1>2, <1>3 DEF StorePosted

LEMMA CloudKeeps ==
    ASSUME ShapeInv, OneInv, ~ On("wa"), CloudNext, UNCHANGED baileysVars
    PROVE  ShapeInv' /\ OneInv' /\ WireGrows /\ config' = config
  <1>1. Apart
    BY DEF Apart, baileysVars
  <1>2. CASE Webhook
    BY <1>1, <1>2, MetaWebhookKeeps, WebhookBegins, BeginsKeeps DEF Webhook
  <1>3. CASE CloudRequest
    BY <1>1, <1>3, CloudRequestBegins, BeginsKeeps, ElsewhereKeeps
  <1>4. CASE MetaStep
    BY <1>1, <1>4, MetaMessageSteps, MetaTellSteps, MetaRowSteps, MetaStatusSteps, StepsKeep
       DEF MetaStep
  <1>5. CASE EvolutionStep
    BY <1>1, <1>5, EvolutionRowSteps, EvolutionSteps, StepsKeep DEF EvolutionStep
  <1>6. CASE CloudSend
    BY <1>1, <1>6, FetchedSteps, PostSteps, StorePostedSteps, StepsKeep DEF CloudSend
  <1>. QED BY <1>2, <1>3, <1>4, <1>5, <1>6 DEF CloudNext

-----------------------------------------------------------------------------
(* OneRow *)

LEMMA InitHolds ==
    ASSUME Init
    PROVE  ShapeInv /\ OneInv
  <1>1. /\ wire = <<>> /\ rows = <<>> /\ queue = <<>> /\ tasks = EmptyBag
    BY DEF Init, StoreInit, BaileysInit
  <1>2. IsABag(tasks) /\ Work = {}
    BY <1>1, NoTasks DEF Work
  <1>3. IsList(queue) /\ IsList(rows) /\ IsList(wire) /\ DOMAIN queue = {} /\ DOMAIN rows = {}
    BY <1>1 DEF IsList
  <1>4. Ids = {}
    BY <1>3 DEF Ids
  <1>5. ShapeInv
    BY <1>2, <1>3, <1>4 DEF ShapeInv
  <1>6. RowInv /\ WorkInv /\ QueueInv /\ HistoryInv
    BY <1>2, <1>3 DEF RowInv, WorkInv, QueueInv, HistoryInv
  <1>. QED BY <1>5, <1>6 DEF OneInv

LEMMA NextKeeps ==
    ASSUME ShapeInv, OneInv, [Next]_vars
    PROVE  ShapeInv' /\ OneInv' /\ WireGrows /\ config' = config
  <1>1. CASE On("wa") /\ BaileysNext
    BY <1>1, BaileysKeeps
  <1>2. CASE ~ On("wa") /\ CloudNext /\ UNCHANGED baileysVars
    BY <1>2, CloudKeeps
  <1>3. CASE UNCHANGED vars
    BY <1>3, Unmoved, ElsewhereKeeps DEF vars, storeVars, baileysVars, Elsewhere
  <1>. QED BY <1>1, <1>2, <1>3 DEF Next

LEMMA OneInvGivesOneRow ==
    ASSUME ShapeInv, OneInv
    PROVE  OneRow
  <1>1. SUFFICES ASSUME Premise, NEW id \in DOMAIN wire
                 PROVE  Stored(id) <= 1
    BY DEF OneRow, Premise
  <1>2. RowInv
    BY <1>1 DEF OneInv
  <1>3. \A i, j \in Found(id) : i = j
    BY <1>2 DEF RowInv, Found
  <1>4. CASE Found(id) = {}
    BY <1>4, FS_EmptySet DEF Stored
  <1>5. CASE Found(id) # {}
    <2>1. PICK i : Found(id) = {i}
      BY <1>3, <1>5
    <2>. QED BY <2>1, FS_Singleton DEF Stored
  <1>. QED BY <1>4, <1>5

\* A message has one row, however it reached the instance (prisma.message.create in the
\* handlers of new messages and of sent ones, createMany in the one of a history): a batch that
\* waits, a callback and the table never share one that is still to be stored.
THEOREM OneRowHolds == Spec => []OneRow
  <1>1. Init => ShapeInv /\ OneInv
    BY InitHolds
  <1>2. ShapeInv /\ OneInv /\ [Next]_vars => ShapeInv' /\ OneInv'
    BY NextKeeps
  <1>3. ShapeInv /\ OneInv => OneRow
    BY OneInvGivesOneRow
  <1>. QED BY <1>1, <1>2, <1>3, PTL DEF Spec
-----------------------------------------------------------------------------
(* The contact of a row *)

RowsNamed == \A i \in DOMAIN rows : rows[i].jid = wire[rows[i].id].jid

\* When the settings are read, the contact of the last webhook is the one of this message's, and
\* it stays with the message until its row is written.
Named(t) == /\ t.do = "Settings" => phone = wire[t.id].jid
            /\ t.do \in {"Tell", "Row"} => t.jid = wire[t.id].jid

NameInv == /\ On("wa") \/ On("serial") => RowsNamed
           /\ ~ On("wa") /\ On("serial") => \A t \in Work : Named(t)

LEMMA NamesKeep ==
    ASSUME ShapeInv, WireGrows, Names, RowsNamed
    PROVE  RowsNamed'
  <1>1. \A j \in DOMAIN rows : rows[j].id \in DOMAIN wire
    BY DEF ShapeInv, Ids
  <1>. QED BY <1>1 DEF Names, RowsNamed, WireGrows

LEMMA SameNames ==
    ASSUME rows' = rows
    PROVE  Names
  BY DEF Names

LEMMA NewNames ==
    ASSUME ShapeInv, NEW r, rows' = Append(rows, r), r.id \in DOMAIN wire,
           r.jid = wire[r.id].jid
    PROVE  Names
  <1>1. Extends(rows, r, rows')
    BY AppendList DEF ShapeInv
  <1>2. \A i \in DOMAIN rows' : (i \in DOMAIN rows /\ rows'[i] = rows[i]) \/ rows'[i] = r
    BY <1>1 DEF Extends
  <1>. QED BY <1>2 DEF Names

LEMMA DroppedNames ==
    ASSUME ShapeInv, NEW i \in DOMAIN rows, DropRow(i)
    PROVE  Names
  <1>1. Len(rows) \in Nat /\ DOMAIN rows = 1 .. Len(rows)
    BY DEF ShapeInv, IsList
  <1>2. ASSUME NEW j \in DOMAIN rows'
        PROVE  \E k \in DOMAIN rows : rows'[j] = rows[k]
    <2>1. j \in 1 .. Len(rows) - 1 /\ rows'[j] = IF j < i THEN rows[j] ELSE rows[j + 1]
      BY <1>2 DEF DropRow
    <2>2. j \in DOMAIN rows /\ j + 1 \in DOMAIN rows
      BY <1>1, <2>1
    <2>. QED BY <2>1, <2>2
  <1>. QED BY <1>2 DEF Names

LEMMA RowNames ==
    ASSUME ShapeInv, NEW t \in Work, t.do \in {"Create", "Store"}, NEW status,
           rows' = Append(rows, Row(t.id, wire[t.id], status))
    PROVE  Names
  <1>1. t.id \in DOMAIN wire
    BY DEF ShapeInv, Shape
  <1>2. PICK r : r.id = t.id /\ r.jid = wire[t.id].jid /\ rows' = Append(rows, r)
    BY DEF Row
  <1>. QED BY <1>1, <1>2, NewNames

LEMMA ReadNames ==
    ASSUME NEW t, NEW jid, NEW ts, NEW next, ReadUpTo(t, jid, ts, next)
    PROVE  Names
  BY DEF ReadUpTo, Names

LEMMA HandlerNames ==
    ASSUME ShapeInv, HandlerStep
    PROVE  Names
  <1>1. CASE NextBatch
    BY <1>1, SameNames DEF NextBatch
  <1>2. CASE \E t \in Work : HistoryChats(t) \/ Snapshot(t)
    BY <1>2, SameNames DEF HistoryChats, Snapshot
  <1>3. CASE \E t \in Work : ImportMessages(t)
    BY <1>3, ImportRows
  <1>4. CASE \E t \in Work : Recount(t) \/ WriteCount(t) \/ Counted(t)
    BY <1>4, SameNames DEF Recount, WriteCount, Counted
  <1>5. CASE \E t \in Work : UpsertDone(t) \/ Undecrypted(t) \/ Edited(t)
    BY <1>5, SameNames DEF UpsertDone, Undecrypted, Edited
  <1>6. CASE \E t \in Work : EditRow(t)
    <2>1. CASE UNCHANGED rows
      BY <2>1, SameNames
    <2>2. CASE \E i, ts : rows' = [rows EXCEPT ![i].status = "EDITED", ![i].ts = ts]
      BY <2>2 DEF Names
    <2>. QED BY <1>6, <2>1, <2>2 DEF EditRow
  <1>7. CASE \E t \in Work : TakeMessage(t) \/ UploadMedia(t) \/ Announce(t)
    BY <1>7, SameNames DEF TakeMessage, UploadMedia, Announce
  <1>8. CASE \E t \in Work : CreateRow(t)
    BY <1>8, RowNames DEF CreateRow
  <1>9. CASE \E t \in Work : CountUnread(t)
    BY <1>9, SameNames, ReadNames DEF CountUnread
  <1>10. CASE \E t \in Work : UpdatesDone(t) \/ SkipUpdate(t) \/ AnnounceUpdate(t)
    BY <1>10, SameNames DEF UpdatesDone, SkipUpdate, AnnounceUpdate
  <1>11. CASE \E t \in Work : TakeUpdate(t)
    <2>1. PICK t \in Work : TakeUpdate(t)
      BY <1>11
    <2>2. \/ rows' = rows
          \/ \E id, i, status : Changed(t, id, i, status)
      BY <2>1 DEF TakeUpdate, Gone
    <2>. QED BY <2>2, SameNames, ReadNames DEF Changed
  <1>12. CASE \E t \in Work : UpdateRow(t)
    <2>1. CASE UNCHANGED rows
      BY <2>1, SameNames
    <2>2. CASE \E i, status : SetStatus(i, status)
      BY <2>2 DEF SetStatus, Names
    <2>. QED BY <1>12, <2>1, <2>2 DEF UpdateRow
  <1>13. CASE \E t \in Work : ReadReceipt(t)
    BY <1>13, ReadNames DEF ReadReceipt
  <1>14. CASE \E t \in Work : \/ ChatsUpsert(t) \/ ChatsUpdate(t) \/ ChatsDelete(t)
                              \/ LabelsAssociation(t)
    BY <1>14, SameNames DEF ChatsUpsert, ChatsUpdate, ChatsDelete, LabelsAssociation
  <1>. QED BY <1>1, <1>2, <1>3, <1>4, <1>5, <1>6, <1>7, <1>8, <1>9, <1>10, <1>11, <1>12, <1>13,
              <1>14 DEF HandlerStep

LEMMA RequestNames ==
    ASSUME ShapeInv, RequestStep
    PROVE  Names
  <1>1. CASE \E t : Refuse(t) \/ Succeed(t) \/ Prepared(t)
    BY <1>1, SameNames DEF Refuse, Succeed, Prepared
  <1>2. CASE \E t \in Work : \/ PrepareMediaMessage(t) \/ ConvertToWebP(t) \/ ProcessAudio(t)
                             \/ FormatStatusMessage(t)
    BY <1>1, <1>2 DEF PrepareMediaMessage, ConvertToWebP, ProcessAudio, FormatStatusMessage
  <1>3. CASE \E t \in Work : \/ GetMessage(t) \/ Download(t) \/ GetLastMessage(t)
                             \/ ChatModify(t) \/ LabelNumber(t)
    BY <1>1, <1>3, SameNames DEF GetMessage, Download, GetLastMessage, ChatModify, LabelNumber
  <1>4. CASE \E t \in Work : WhatsappNumber(t) \/ SendMessage(t) \/ Sent(t)
    BY <1>1, <1>4, SameNames DEF WhatsappNumber, SendMessage, Sent
  <1>5. CASE \E t \in Work : StoreSent(t)
    BY <1>5, SameNames, RowNames DEF StoreSent
  <1>6. CASE \E t \in Work : DeleteMessage(t) \/ UpdateMessage(t)
    BY <1>1, <1>6, SameNames DEF DeleteMessage, UpdateMessage
  <1>7. CASE \E t \in Work : DeleteRow(t)
    <2>1. CASE UNCHANGED rows
      BY <2>1, SameNames
    <2>2. CASE \E i, status : SetStatus(i, status)
      BY <2>2 DEF SetStatus, Names
    <2>3. CASE \E i \in DOMAIN rows : DropRow(i)
      BY <2>3, DroppedNames
    <2>. QED BY <1>7, <2>1, <2>2, <2>3 DEF DeleteRow, Found
  <1>8. CASE \E t \in Work : EditSent(t)
    <2>1. CASE UNCHANGED rows
      BY <2>1, SameNames
    <2>2. CASE \E i, ts : rows' = [rows EXCEPT ![i].status = "EDITED", ![i].ts = ts]
      BY <2>2 DEF Names
    <2>. QED BY <1>8, <2>1, <2>2 DEF EditSent
  <1>. QED BY <1>2, <1>3, <1>4, <1>5, <1>6, <1>7, <1>8 DEF RequestStep

LEMMA BaileysNames ==
    ASSUME ShapeInv, BaileysNext
    PROVE  Names
  <1>1. CASE World
    BY <1>1, SameNames DEF World, Arrive, Update, Receipt, History, ChatEvent
  <1>2. CASE TimePasses
    BY <1>2, SameNames DEF TimePasses, SecondPasses, FiveMinutesPass, storeVars
  <1>3. CASE Request
    BY <1>3, SameNames DEF Request, TextMessage, MediaMessage, MediaSticker, AudioWhatsapp,
       ButtonMessage, StatusMessage, GetBase64FromMediaMessage, ArchiveChat, HandleLabel, AskDelete,
       AskEdit, Ask, AskAbout
  <1>4. CASE Failure
    BY <1>4, SameNames DEF Failure, HandlerFails
  <1>. QED BY <1>1, <1>2, <1>3, <1>4, HandlerNames, RequestNames DEF BaileysNext

LEMMA CloudNames ==
    ASSUME ShapeInv, CloudNext, \A t \in Work : Named(t)
    PROVE  Names
  <1>1. CASE Webhook
    BY <1>1, SameNames DEF Webhook, MetaWebhook, MetaStatuses, EvolutionWebhook
  <1>2. CASE CloudRequest
    BY <1>2, SameNames DEF CloudRequest, CloudText, MetaMedia, EvolutionMedia, MetaAudio,
       EvolutionAudio, MetaUnavailable, EvolutionUnavailable, RefuseAtOnce, Ask
  <1>3. CASE \E t \in Work : MetaMessage(t)
    <2>1. PICK t \in Work : MetaMessage(t)
      BY <1>3
    <2>2. CASE UNCHANGED rows
      BY <2>2, SameNames
    <2>3. CASE rows' = Append(rows, [Row(t.id, wire[t.id], "none") EXCEPT !.jid = phone])
      <3>1. PICK r : r.id = t.id /\ r.jid = phone /\ rows' = Append(rows, r)
        BY <2>3 DEF Row
      <3>2. t.id \in DOMAIN wire /\ phone = wire[t.id].jid
        <4>1. t.do = "Settings" /\ t.do \in MetaDos
          BY <2>1 DEF MetaMessage, MetaDos
        <4>. QED BY <4>1 DEF Named, ShapeInv, Shape
      <3>. QED BY <3>1, <3>2, NewNames
    <2>. QED BY <2>1, <2>2, <2>3 DEF MetaMessage
  <1>4. CASE \E t \in Work : MetaRow(t)
    <2>1. PICK t \in Work : MetaRow(t)
      BY <1>4
    <2>2. CASE UNCHANGED rows
      BY <2>2, SameNames
    <2>3. CASE rows' = Append(rows, [Row(t.id, wire[t.id], "none") EXCEPT !.jid = t.jid])
      <3>1. PICK r : r.id = t.id /\ r.jid = t.jid /\ rows' = Append(rows, r)
        BY <2>3 DEF Row
      <3>2. t.id \in DOMAIN wire /\ t.jid = wire[t.id].jid
        <4>1. t.do = "Row" /\ t.do \in MetaDos
          BY <2>1 DEF MetaRow, MetaDos
        <4>. QED BY <4>1 DEF Named, ShapeInv, Shape
      <3>. QED BY <3>1, <3>2, NewNames
    <2>. QED BY <2>1, <2>2, <2>3 DEF MetaRow
  <1>5. CASE \E t \in Work : MetaTell(t) \/ MetaStatus(t)
    BY <1>5, SameNames DEF MetaTell, MetaStatus
  <1>6. CASE EvolutionStep
    BY <1>6, SameNames, RowNames
       DEF EvolutionStep, EvolutionRow, FindContact, WriteContact, FindChat, InsertChat
  <1>7. CASE \E t \in Work : StorePosted(t)
    BY <1>7, SameNames, RowNames DEF StorePosted
  <1>8. CASE \E t \in Work : \/ MetaProcessAudio(t) \/ EvolutionProcessAudio(t) \/ GetIdMedia(t)
                             \/ MetaPost(t) \/ EvolutionSend(t) \/ UploadToS3(t)
    BY <1>8, SameNames DEF MetaProcessAudio, EvolutionProcessAudio, GetIdMedia, Fetched, MetaPost,
       EvolutionSend, UploadToS3
  <1>. QED BY <1>1, <1>2, <1>3, <1>4, <1>5, <1>6, <1>7, <1>8 DEF CloudNext, MetaStep, CloudSend

\* The callbacks that wait keep their contact, if those that are new have theirs.
LEMMA NamedStays ==
    ASSUME ShapeInv, WireGrows, phone' = phone, \A t \in Work : Named(t), NEW new,
           Work' \subseteq Work \cup new, \A n \in new : Named(n)'
    PROVE  \A t \in Work' : Named(t)'
  <1>1. ASSUME NEW t \in Work
        PROVE  Named(t)'
    <2>1. t.do \in MetaDos => t.id \in DOMAIN wire
      BY DEF ShapeInv, Shape
    <2>. QED BY <2>1 DEF Named, MetaDos, WireGrows
  <1>. QED BY <1>1

\* Only Meta's callbacks keep one.
LEMMA NamedNew ==
    ASSUME NEW n, n.do \notin MetaDos
    PROVE  Named(n)'
  BY DEF Named, MetaDos

LEMMA StepNames ==
    ASSUME ShapeInv, WireGrows, phone' = phone, \A t \in Work : Named(t), NEW t \in Work,
           \/ Finish(t)
           \/ \E n : Replace(t, {n}) /\ Named(n)'
    PROVE  \A u \in Work' : Named(u)'
  <1>1. CASE Finish(t)
    <2>1. PICK new : new = {}
      OBVIOUS
    <2>2. Work' \subseteq Work \cup new
      BY <1>1, <2>1, ReplaceSteps DEF Finish, ShapeInv
    <2>. QED BY <2>1, <2>2, NamedStays
  <1>2. CASE \E n : Replace(t, {n}) /\ Named(n)'
    <2>1. PICK n : Replace(t, {n}) /\ Named(n)'
      BY <1>2
    <2>2. PICK new : new = {n}
      OBVIOUS
    <2>3. Work' \subseteq Work \cup new
      BY <2>1, <2>2, ReplaceSteps DEF ShapeInv
    <2>. QED BY <2>1, <2>2, <2>3, NamedStays
  <1>. QED BY <1>1, <1>2

LEMMA ContinueNames ==
    ASSUME ShapeInv, WireGrows, phone' = phone, \A t \in Work : Named(t), NEW t \in Work,
           \/ Finish(t)
           \/ \E d : Continue(t, d) /\ d \notin MetaDos
    PROVE  \A u \in Work' : Named(u)'
  <1>1. CASE \E d : Continue(t, d) /\ d \notin MetaDos
    <2>1. PICK d, n : n = [t EXCEPT !.do = d] /\ Replace(t, {n}) /\ d \notin MetaDos
      BY <1>1 DEF Continue
    <2>2. n.do = d
      BY <2>1 DEF ShapeInv, Shape, TaskFields
    <2>. QED BY <2>1, <2>2, NamedNew, StepNames
  <1>. QED BY <1>1, StepNames

LEMMA MetaNames ==
    ASSUME ShapeInv, WireGrows, \A t \in Work : Named(t), MetaStep
    PROVE  \A u \in Work' : Named(u)'
  <1>1. phone' = phone /\ wire' = wire
    BY DEF MetaStep, MetaMessage, MetaTell, MetaRow, MetaStatus
  <1>2. CASE \E t \in Work : MetaMessage(t)
    <2>1. PICK t \in Work : MetaMessage(t)
      BY <1>2
    <2>2. CASE Replace(t, {[t EXCEPT !.do = "Tell", !.jid = phone]})
      <3>1. PICK n : n = [t EXCEPT !.do = "Tell", !.jid = phone] /\ Replace(t, {n})
        BY <2>2
      <3>2. n.do = "Tell" /\ n.jid = phone /\ n.id = t.id
        BY <3>1 DEF ShapeInv, Shape, TaskFields
      <3>3. Named(n)'
        BY <1>1, <2>1, <3>2 DEF Named, MetaMessage
      <3>. QED BY <1>1, <3>1, <3>3, StepNames
    <2>. QED BY <1>1, <2>1, <2>2, StepNames DEF MetaMessage
  <1>3. CASE \E t \in Work : MetaTell(t)
    <2>1. PICK t \in Work : MetaTell(t)
      BY <1>3
    <2>2. PICK n : n = [t EXCEPT !.do = "Row"] /\ Replace(t, {n})
      BY <2>1 DEF MetaTell, Continue
    <2>3. n.do = "Row" /\ n.jid = t.jid /\ n.id = t.id
      BY <2>2 DEF ShapeInv, Shape, TaskFields
    <2>4. Named(n)'
      BY <1>1, <2>1, <2>3 DEF Named, MetaTell
    <2>. QED BY <1>1, <2>2, <2>4, StepNames
  <1>4. CASE \E t \in Work : MetaRow(t)
    BY <1>1, <1>4, StepNames DEF MetaRow
  <1>5. CASE \E t \in Work : MetaStatus(t)
    <2>1. PICK t \in Work : MetaStatus(t)
      BY <1>5
    <2>2. CASE Finish(t)
      BY <1>1, <2>2, StepNames
    <2>3. CASE Replace(t, {[t EXCEPT !.batch = Tail(t.batch)]})
      <3>1. PICK n : n = [t EXCEPT !.batch = Tail(t.batch)] /\ Replace(t, {n})
        BY <2>3
      <3>2. n.do = "Statuses"
        BY <2>1, <3>1 DEF ShapeInv, Shape, TaskFields, MetaStatus
      <3>. QED BY <1>1, <3>1, <3>2, NamedNew, StepNames DEF MetaDos
    <2>. QED BY <2>1, <2>2, <2>3 DEF MetaStatus
  <1>. QED BY <1>2, <1>3, <1>4, <1>5 DEF MetaStep

LEMMA SendNames ==
    ASSUME ShapeInv, WireGrows, \A t \in Work : Named(t), CloudSend
    PROVE  \A u \in Work' : Named(u)'
  <1>1. phone' = phone
    BY DEF CloudSend, MetaProcessAudio, EvolutionProcessAudio, GetIdMedia, Fetched, MetaPost,
       EvolutionSend, UploadToS3, StorePosted
  <1>2. CASE \E t \in Work : Finish(t)
    BY <1>1, <1>2, StepNames
  <1>3. CASE \E t \in Work : \E d \in {"Upload", "Post", "S3"} : Continue(t, d)
    BY <1>1, <1>3, ContinueNames DEF MetaDos
  <1>4. CASE \E t \in Work : Told(t)
    <2>0. PICK t \in Work : Told(t)
      BY <1>4
    <2>1. PICK n : n = [t EXCEPT !.do = "Store", !.id = Len(wire')] /\ Replace(t, {n})
      BY <2>0 DEF Told
    <2>2. n.do = "Store"
      BY <2>1 DEF ShapeInv, Shape, TaskFields
    <2>. QED BY <1>1, <2>1, <2>2, NamedNew, StepNames DEF MetaDos
  <1>. QED BY <1>2, <1>3, <1>4
       DEF CloudSend, MetaProcessAudio, EvolutionProcessAudio, GetIdMedia, Fetched, MetaPost,
           EvolutionSend, UploadToS3, StorePosted

LEMMA EvolutionNames ==
    ASSUME ShapeInv, WireGrows, \A t \in Work : Named(t), EvolutionStep
    PROVE  \A u \in Work' : Named(u)'
  <1>1. phone' = phone
    BY DEF EvolutionStep, EvolutionRow, FindContact, WriteContact, FindChat, InsertChat
  <1> DEFINE Dos == {"Contact", "UpdateContact", "InsertContact", "Chat", "InsertChat"}
  <1>2. PICK t \in Work : Finish(t) \/ \E d \in Dos : Continue(t, d)
    BY DEF EvolutionStep, EvolutionRow, FindContact, WriteContact, FindChat, InsertChat
  <1>3. \A d \in Dos : d \notin MetaDos
    BY DEF MetaDos
  <1>. QED BY <1>1, <1>2, <1>3, ContinueNames

LEMMA AddedNames ==
    ASSUME ShapeInv, NEW n, tasks' = tasks (+) SetToBag({n}), Named(n)',
           \A t \in Work : Named(t)'
    PROVE  \A u \in Work' : Named(u)'
  <1>1. PICK new : new = {n}
    OBVIOUS
  <1>2. Work' = Work \cup new
    BY <1>1, AddSteps DEF ShapeInv
  <1>. QED BY <1>1, <1>2

LEMMA RequestKeepsNames ==
    ASSUME ShapeInv, WireGrows, \A t \in Work : Named(t), CloudRequest
    PROVE  \A u \in Work' : Named(u)'
  <1>1. CASE CloudText \/ MetaMedia \/ EvolutionMedia \/ MetaAudio
    <2>1. phone' = phone
      BY <1>1 DEF CloudText, MetaMedia, EvolutionMedia, MetaAudio
    <2>2. PICK do, kind, jids : Ask(do, kind, jids) /\ do \in {"Convert", "Upload", "Post"}
      BY <1>1 DEF CloudText, MetaMedia, EvolutionMedia, MetaAudio
    <2>3. PICK n, jid, ask : /\ n = [NoTask EXCEPT !.do = do, !.kind = kind, !.jid = jid,
                                                   !.ask = ask]
                             /\ tasks' = tasks (+) SetToBag({n})
      BY <2>2 DEF Ask
    <2>4. Named(n)'
      BY <2>2, <2>3, NamedNew DEF NoTask, MetaDos
    <2>5. \A t \in Work : Named(t)'
      <3>1. \A t \in Work : t.do \in MetaDos => t.id \in DOMAIN wire
        BY DEF ShapeInv, Shape
      <3>. QED BY <2>1, <3>1 DEF Named, MetaDos, WireGrows
    <2>. QED BY <2>3, <2>4, <2>5, AddedNames
  <1>2. CASE RefuseAtOnce
    <2>1. tasks' = tasks /\ phone' = phone /\ wire' = wire
      BY <1>2 DEF RefuseAtOnce
    <2>. QED BY <2>1 DEF Named, Work
  <1>3. CASE (\E do \in {"Convert", "Post"} : Ask(do, "media", {"contact"})) /\ UNCHANGED phone
    <2>1. PICK do \in {"Convert", "Post"} : Ask(do, "media", {"contact"})
      BY <1>3
    <2>2. PICK n, ask : /\ n = [NoTask EXCEPT !.do = do, !.kind = "media", !.jid = "contact",
                                              !.ask = ask]
                        /\ tasks' = tasks (+) SetToBag({n})
      BY <2>1 DEF Ask
    <2>3. Named(n)'
      BY <2>1, <2>2, NamedNew DEF NoTask, MetaDos
    <2>4. wire' = wire
      BY <2>1 DEF Ask
    <2>. QED BY <1>3, <2>2, <2>3, <2>4, AddedNames DEF Named
  <1>. QED BY <1>1, <1>2, <1>3
       DEF CloudRequest, EvolutionAudio, MetaUnavailable, EvolutionUnavailable

\* A webhook of Meta's changes the contact when nobody is going to read it.
LEMMA WebhookNames ==
    ASSUME ShapeInv, WireGrows, On("serial"), \A t \in Work : Named(t), Webhook
    PROVE  \A u \in Work' : Named(u)'
  <1>1. \A t \in Work : ~ t.queued
    BY DEF Webhook, MetaWebhook, MetaStatuses, EvolutionWebhook, Quiet
  <1>2. \A t \in Work : t.do \notin MetaDos
    BY <1>1 DEF ShapeInv, Shape
  <1>3. \A t \in Work : Named(t)'
    BY <1>2 DEF Named, MetaDos
  <1>4. CASE MetaWebhook
    <2>1. PICK jid \in Contacts, kind \in CloudKinds,
               entries \in {1} \cup (IF On("entries") THEN {2} ELSE {}) :
                  /\ wire' = Append(wire, Message(jid, FALSE, LastTs + 1, kind, 0))
                  /\ phone' = PhoneOf(jid)
                  /\ tasks' = tasks (+) [t \in {Hooked("Settings", Len(wire'))} |-> entries]
      BY <1>4 DEF MetaWebhook
    <2>2. PICK n : n = Hooked("Settings", Len(wire'))
      OBVIOUS
    <2>3. n.do = "Settings" /\ n.id = Len(wire')
      BY <2>2 DEF Hooked, NoTask
    <2>4. PICK m : m = Message(jid, FALSE, LastTs + 1, kind, 0)
      OBVIOUS
    <2>5. wire'[Len(wire')] = m /\ m.jid = jid
      BY <2>1, <2>4, OneOnWire DEF Message
    <2>6. Named(n)'
      BY <2>1, <2>3, <2>5 DEF Named, PhoneOf
    <2>7. tasks' = tasks (+) [t \in {n} |-> entries] /\ entries \in Nat /\ entries > 0
      BY <2>1, <2>2
    <2>8. Work' = Work \cup {n}
      BY <2>7, AddCopies DEF ShapeInv
    <2>. QED BY <1>3, <2>6, <2>8
  <1>5. CASE MetaStatuses
    <2>1. PICK n, items : /\ n = [Hooked("Statuses", 0) EXCEPT !.batch = items]
                          /\ tasks' = tasks (+) SetToBag({n})
      BY <1>5 DEF MetaStatuses
    <2>2. Named(n)'
      BY <2>1, NamedNew DEF Hooked, NoTask, MetaDos
    <2>. QED BY <1>3, <2>1, <2>2, AddedNames
  <1>6. CASE EvolutionWebhook
    <2>1. PICK n, jid : /\ n = [Hooked("Create", Len(wire')) EXCEPT !.jid = jid]
                        /\ tasks' = tasks (+) SetToBag({n})
      BY <1>6 DEF EvolutionWebhook
    <2>2. Named(n)'
      BY <2>1, NamedNew DEF Hooked, NoTask, MetaDos
    <2>. QED BY <1>3, <2>1, <2>2, AddedNames
  <1>. QED BY <1>4, <1>5, <1>6 DEF Webhook

LEMMA NextNames ==
    ASSUME ShapeInv, OneInv, NameInv, [Next]_vars
    PROVE  NameInv'
  <1>1. WireGrows /\ config' = config
    BY NextKeeps
  <1>2. CASE On("wa") /\ BaileysNext
    <2>1. RowsNamed'
      BY <1>1, <1>2, BaileysNames, NamesKeep DEF NameInv
    <2>. QED BY <1>1, <1>2, <2>1 DEF NameInv, On
  <1>3. CASE ~ On("wa") /\ CloudNext
    <2>1. CASE On("serial")
      <3>1. RowsNamed /\ \A t \in Work : Named(t)
        BY <1>3, <2>1 DEF NameInv
      <3>2. RowsNamed'
        BY <1>1, <1>3, <3>1, CloudNames, NamesKeep
      <3>3. \A u \in Work' : Named(u)'
        BY <1>1, <1>3, <2>1, <3>1, WebhookNames, RequestKeepsNames, MetaNames, EvolutionNames,
           SendNames DEF CloudNext
      <3>. QED BY <3>2, <3>3 DEF NameInv
    <2>2. CASE ~ On("serial")
      BY <1>1, <1>3, <2>2 DEF NameInv, On
    <2>. QED BY <2>1, <2>2
  <1>4. CASE UNCHANGED vars
    <2>1. UNCHANGED <<wire, rows, tasks, config, phone>>
      BY <1>4 DEF vars, storeVars
    <2>. QED BY <2>1 DEF NameInv, RowsNamed, Named, Work, On
  <1>. QED BY <1>2, <1>3, <1>4 DEF Next

\* With one webhook of Meta's at a time, a row names the contact that its message is from: the
\* field that the webhook set (this.phoneNumber) is still its own when the settings are read.
PROPOSITION RowsNameTheirContactHolds == Spec => []RowsNameTheirContact
  <1>1. Init => ShapeInv /\ OneInv /\ NameInv
    <2>1. Init => ShapeInv /\ OneInv
      BY InitHolds
    <2>2. Init => rows = <<>> /\ tasks = EmptyBag
      BY DEF Init, StoreInit
    <2>3. Init => DOMAIN rows = {} /\ Work = {}
      BY <2>2, NoTasks DEF Work
    <2>. QED BY <2>1, <2>3 DEF NameInv, RowsNamed
  <1>2. ShapeInv /\ OneInv /\ NameInv /\ [Next]_vars => ShapeInv' /\ OneInv' /\ NameInv'
    BY NextKeeps, NextNames
  <1>3. NameInv => RowsNameTheirContact
    BY DEF NameInv, RowsNamed, RowsNameTheirContact
  <1>. QED BY <1>1, <1>2, <1>3, PTL DEF Spec
=============================================================================
