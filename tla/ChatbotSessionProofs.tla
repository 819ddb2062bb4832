------------------------ MODULE ChatbotSessionProofs ------------------------
(***************************************************************************)
(* ChatbotSession, for any number of messages, requests, bots and          *)
(* instances: no message of the contact is lost or processed twice; with   *)
(* messages and requests one at a time, no session is without its bot and  *)
(* no bot speaks in a session that is paused.                              *)
(***************************************************************************)
EXTENDS ChatbotSession, DataFacts, FiniteSetTheorems

-----------------------------------------------------------------------------
(* The inductive invariant *)

JobFields == {"kind", "name", "msgs", "text", "mine", "sess", "bot"}
IsJob(job) == /\ DOMAIN job = JobFields /\ job.msgs \subseteq 1 .. count.messages
              /\ job.msgs # {} => job.kind \in Kinds

\* What is counted. There is one callback with a message: a second copy would be done with it
\* once more.
TasksInv ==
    /\ IsABag(tasks)
    /\ \A t \in Work : DOMAIN t = {"do", "job", "arg"} /\ IsJob(t.job)
    /\ \A t \in Work : t.job.msgs # {} => tasks[t] = 1

\* What waits for the debounce of a controller is for that controller.
BufferInv ==
    /\ DOMAIN buffer = Kinds
    /\ \A k \in Kinds :
          /\ buffer[k].msgs \subseteq 1 .. count.messages
          /\ buffer[k] # NoBuffer => IsJob(buffer[k].job) /\ buffer[k].job.kind = k

CountInv ==
    /\ DOMAIN count = {"messages", "asks"}
    /\ count.messages \in 0 .. MaxMessages
    /\ DOMAIN done = Kinds \X (1 .. MaxMessages)
    /\ \A k \in Kinds, n \in 1 .. MaxMessages : n > count.messages => done[<<k, n>>] = 0

Has(t, k, n) == t.job.kind = k /\ n \in t.job.msgs

Waits(k, n) == n \in buffer[k].msgs /\ done[<<k, n>>] = 0 /\ \A t \in Work : ~ Has(t, k, n)
IsDone(k, n) == n \notin buffer[k].msgs /\ done[<<k, n>>] = 1 /\ \A t \in Work : ~ Has(t, k, n)
IsHeld(k, n) == /\ n \notin buffer[k].msgs /\ done[<<k, n>>] = 0
                /\ \E t \in Work : Has(t, k, n) /\ \A u \in Work : Has(u, k, n) => u = t

\* A message is in one of three places, and in one callback at most.
PlaceInv ==
    \A k \in Kinds, n \in 1 .. count.messages : Waits(k, n) \/ IsDone(k, n) \/ IsHeld(k, n)

LostInv == TasksInv /\ BufferInv /\ CountInv /\ PlaceInv

-----------------------------------------------------------------------------
(* What a callback does with its messages *)

SameJob(job, new) == DOMAIN new = JobFields /\ new.kind = job.kind /\ new.msgs = job.msgs
Others == UNCHANGED <<count, config>>

\* It goes on with them, it is done with them, or they wait with those that wait.
Moved(t) == /\ \E do, job, arg : Replace(t, {Task(do, job, arg)}) /\ SameJob(t.job, job)
            /\ UNCHANGED <<buffer, done>> /\ Others
Ended(t) == Finish(t) /\ UNCHANGED buffer /\ Others
Merged(t) == (\E job : ProcessDebounce(t, job) /\ SameJob(t.job, job)) /\ Others
Handled(t) == Moved(t) \/ Ended(t) \/ Merged(t)

LEMMA ContinueMoves ==
    ASSUME NEW t, NEW do, NEW job, NEW arg, Continue(t, do, job, arg), SameJob(t.job, job),
           UNCHANGED buffer, Others
    PROVE  Handled(t)
  BY DEF Handled, Moved, Continue

LEMMA FinishEnds ==
    ASSUME NEW t, Finish(t), UNCHANGED buffer, Others
    PROVE  Handled(t)
  BY DEF Handled, Ended

LEMMA SessionInJob ==
    ASSUME NEW job, DOMAIN job = JobFields, NEW sess, NEW b
    PROVE  /\ SameJob(job, job)
           /\ SameJob(job, [job EXCEPT !.sess = sess])
           /\ SameJob(job, [job EXCEPT !.bot = b, !.sess = sess])
  BY DEF SameJob, JobFields

LEMMA DecideHandles ==
    ASSUME NEW t, DOMAIN t.job = JobFields, NEW b, Decide(t, b), Others
    PROVE  Handled(t)
  <1> DEFINE job == [t.job EXCEPT !.bot = b, !.sess = Current(@)]
  <1>1. SameJob(t.job, t.job) /\ SameJob(t.job, job)
    BY DEF SameJob, JobFields
  <1>2. \/ Continue(t, "Set", t.job, "paused") /\ UNCHANGED buffer
        \/ Finish(t) /\ UNCHANGED buffer
        \/ ProcessDebounce(t, job)
        \/ Continue(t, "Process", job, "") /\ UNCHANGED buffer
    BY DEF Decide
  <1> HIDE DEF job
  <1>3. CASE ProcessDebounce(t, job)
    BY <1>1, <1>3 DEF Handled, Merged
  <1>. QED BY <1>1, <1>2, <1>3, ContinueMoves, FinishEnds

LEMMA EmitHandles ==
    ASSUME LostInv, NEW t \in Work,
           EmitSettings(t) \/ EmitSession(t) \/ EmitBot(t) \/ EmitFallback(t)
    PROVE  Handled(t)
  <1>1. DOMAIN t.job = JobFields
    BY DEF LostInv, TasksInv, IsJob
  <1>2. SameJob(t.job, t.job)
    BY <1>1 DEF SameJob
  <1>3. CASE EmitSettings(t)
    BY <1>2, <1>3, ContinueMoves, FinishEnds DEF EmitSettings, Others
  <1>4. CASE EmitSession(t)
    <2> DEFINE job == [t.job EXCEPT !.sess = GetSession(t.job.name)]
    <2>1. SameJob(t.job, job)
      BY <1>1 DEF SameJob, JobFields
    <2>2. Continue(t, "Bot", job, "") /\ UNCHANGED buffer /\ Others
      BY <1>4 DEF EmitSession, Others
    <2> HIDE DEF job
    <2>. QED BY <2>1, <2>2, ContinueMoves
  <1>5. CASE EmitBot(t)
    <2>1. Others
      BY <1>5 DEF EmitBot, Others
    <2>2. CASE Continue(t, "Fallback", t.job, "") /\ UNCHANGED buffer
      BY <1>2, <2>1, <2>2, ContinueMoves
    <2>3. ASSUME NEW b, Decide(t, b) PROVE Handled(t)
      BY <1>1, <2>1, <2>3, DecideHandles
    <2>. QED BY <1>5, <2>2, <2>3 DEF EmitBot
  <1>6. CASE EmitFallback(t)
    <2>1. Others
      BY <1>6 DEF EmitFallback, Others
    <2>2. ASSUME NEW b, Decide(t, b) PROVE Handled(t)
      BY <1>1, <2>1, <2>2, DecideHandles
    <2>3. CASE Finish(t) /\ UNCHANGED buffer
      BY <2>1, <2>3, FinishEnds
    <2>. QED BY <1>6, <2>2, <2>3 DEF EmitFallback
  <1>. QED BY <1>3, <1>4, <1>5, <1>6

ServiceActions(t) ==
    \/ Process(t) \/ CreateNewSession(t) \/ SetStatus(t) \/ DeleteSession(t)
    \/ DeleteBotRows(t) \/ AnswerPlain(t) \/ AnswerDify(t) \/ AnswerOpenai(t)
    \/ StartTypebot(t) \/ ProcessMessages(t)

LEMMA ServiceHandles ==
    ASSUME LostInv, NEW t \in Work, ServiceActions(t)
    PROVE  Handled(t)
  <1>1. DOMAIN t.job = JobFields
    BY DEF LostInv, TasksInv, IsJob
  <1>2. SameJob(t.job, t.job) /\ SameJob(t.job, InSession(t.job))
    BY <1>1 DEF SameJob, JobFields, InSession
  <1>3. Others /\ UNCHANGED buffer
    BY DEF ServiceActions, Process, CreateNewSession, SetStatus, DeleteSession,
           DeleteBotRows, AnswerPlain, AnswerDify, AnswerOpenai, StartTypebot,
           ProcessMessages, Others
  <1>4. \/ \E do, arg : \/ Continue(t, do, t.job, arg)
                        \/ Continue(t, do, InSession(t.job), arg)
        \/ Finish(t)
    <2>1. CASE Process(t)
      BY <2>1 DEF Process, ProcessOpenai, ProcessTypebot, ProcessBase, Expired
    <2>2. CASE CreateNewSession(t)
      BY <2>2 DEF CreateNewSession
    <2>3. CASE SetStatus(t)
      BY <2>3 DEF SetStatus, AfterSet
    <2>4. CASE DeleteSession(t) \/ DeleteBotRows(t)
      BY <2>4 DEF DeleteSession, DeleteBotRows
    <2>5. CASE AnswerPlain(t) \/ AnswerDify(t) \/ AnswerOpenai(t)
      BY <2>5 DEF AnswerPlain, AnswerDify, AnswerOpenai
    <2>6. CASE StartTypebot(t)
      BY <2>6 DEF StartTypebot, NoChat, Chat
    <2>7. CASE ProcessMessages(t)
      BY <2>7 DEF ProcessMessages
    <2>. QED BY <2>1, <2>2, <2>3, <2>4, <2>5, <2>6, <2>7 DEF ServiceActions
  <1>. QED BY <1>2, <1>3, <1>4, ContinueMoves, FinishEnds

LEMMA WriteEnds ==
    ASSUME NEW t, WriteBot(t) \/ DeleteBotRow(t) \/ WriteIgnore(t)
    PROVE  Ended(t)
  BY DEF WriteBot, DeleteBotRow, WriteIgnore, Ended, Others

-----------------------------------------------------------------------------
(* The callback's step keeps the invariant *)

LEMMA ReplaceFacts ==
    ASSUME TasksInv, NEW t \in Work, NEW new, Replace(t, new)
    PROVE  /\ IsABag(tasks')
           /\ Work' \subseteq Work \cup new
           /\ (Work \ {t}) \cup new \subseteq Work'
           /\ t.job.msgs # {} => Work' = (Work \ {t}) \cup new
           /\ \A u \in Work' \ new : tasks'[u] \leq tasks[u]
           /\ \A u \in new \ Work : tasks'[u] = 1
           /\ t.job.msgs # {} /\ t \in new => tasks'[t] = 1
  <1>1. IsABag(tasks) /\ t \in BagToSet(tasks)
    BY DEF TasksInv, Work
  <1>2. t.job.msgs # {} => tasks[t] = 1
    BY DEF TasksInv
  <1>3. tasks' = (tasks (-) SetToBag({t})) (+) SetToBag(new)
    BY DEF Replace
  <1> DEFINE B == tasks
             C == tasks'
  <1>4. IsABag(B) /\ t \in BagToSet(B) /\ C = With(Without(B, t), new)
    BY <1>1, <1>3 DEF With, Without
  <1> HIDE DEF B, C
  <1>5. Replaced(B, t, new, C)
    BY <1>4, ReplaceOne, Zenon
  <1>. QED BY <1>2, <1>5 DEF Replaced, B, C, Work

\* Two callbacks do not have the same message.
LEMMA OneOwner ==
    ASSUME LostInv, NEW t \in Work, NEW k, NEW n, Has(t, k, n)
    PROVE  /\ k \in Kinds /\ n \in 1 .. count.messages
           /\ n \notin buffer[k].msgs /\ done[<<k, n>>] = 0
           /\ \A u \in Work : Has(u, k, n) => u = t
  <1>1. k \in Kinds /\ n \in 1 .. count.messages
    BY DEF LostInv, TasksInv, IsJob, Has
  <1>2. IsHeld(k, n)
    BY <1>1 DEF LostInv, PlaceInv, Waits, IsDone
  <1>. QED BY <1>1, <1>2 DEF IsHeld

\* Copies: what a callback is replaced with has its messages, so it is not there yet.
LEMMA TasksKept ==
    ASSUME LostInv, NEW t \in Work, NEW new, Replace(t, new), Others,
           \A u \in new : DOMAIN u = {"do", "job", "arg"} /\ SameJob(t.job, u.job)
    PROVE  TasksInv'
  <1>1. TasksInv
    BY DEF LostInv
  <1>2. count' = count /\ Kinds' = Kinds
    BY DEF Others, Kinds
  <1>3. /\ IsABag(tasks')
        /\ Work' \subseteq Work \cup new
        /\ \A u \in Work' \ new : tasks'[u] \leq tasks[u]
        /\ \A u \in new \ Work : tasks'[u] = 1
        /\ t.job.msgs # {} /\ t \in new => tasks'[t] = 1
    BY <1>1, ReplaceFacts
  <1>4. ASSUME NEW u \in Work'
        PROVE  DOMAIN u = {"do", "job", "arg"} /\ IsJob(u.job)'
    <2>1. CASE u \in Work
      BY <1>1, <1>2, <2>1 DEF TasksInv, IsJob
    <2>2. CASE u \in new
      <3>1. IsJob(t.job)
        BY <1>1 DEF TasksInv
      <3>. QED BY <1>2, <2>2, <3>1 DEF IsJob, SameJob
    <2>. QED BY <1>3, <2>1, <2>2
  <1>5. ASSUME NEW u \in Work', u.job.msgs # {}
        PROVE  tasks'[u] = 1
    <2>1. CASE u \notin new
      <3>1. u \in Work /\ tasks[u] = 1
        BY <1>1, <1>3, <1>5, <2>1 DEF TasksInv
      <3>2. tasks'[u] \leq 1
        BY <1>3, <2>1, <3>1
      <3>3. tasks'[u] \in Nat /\ tasks'[u] > 0
        BY <1>3 DEF IsABag, Work, BagToSet
      <3>. QED BY <3>2, <3>3
    <2>2. CASE u \in new /\ u \in Work
      <3>1. PICK n : n \in u.job.msgs
        BY <1>5
      <3>2. Has(t, t.job.kind, n) /\ Has(u, t.job.kind, n)
        BY <2>2, <3>1 DEF SameJob, Has
      <3>3. u = t
        BY <2>2, <3>2, OneOwner
      <3>. QED BY <1>3, <1>5, <2>2, <3>3
    <2>. QED BY <1>3, <2>1, <2>2
  <1>. QED BY <1>3, <1>4, <1>5 DEF TasksInv

LEMMA MovedKeeps ==
    ASSUME LostInv, NEW t \in Work, Moved(t)
    PROVE  LostInv'
  <1>1. PICK do, job, arg : Replace(t, {Task(do, job, arg)}) /\ SameJob(t.job, job)
    BY DEF Moved
  <1> DEFINE new == Task(do, job, arg)
  <1>2. DOMAIN new = {"do", "job", "arg"} /\ new.job = job
    BY DEF Task
  <1>3. Replace(t, {new}) /\ SameJob(t.job, new.job)
    BY <1>1, <1>2
  <1> HIDE DEF new
  <1>4. Others /\ count' = count /\ Kinds' = Kinds /\ buffer' = buffer /\ done' = done
    BY DEF Moved, Others, Kinds
  <1>5. TasksInv'
    BY <1>2, <1>3, <1>4, TasksKept
  <1>6. BufferInv' /\ CountInv'
    BY <1>4 DEF LostInv, BufferInv, CountInv, IsJob
  <1>7. \A k, n : Has(new, k, n) <=> Has(t, k, n)
    BY <1>3 DEF Has, SameJob
  <1>8. /\ Work' \subseteq Work \cup {new}
        /\ (Work \ {t}) \cup {new} \subseteq Work'
        /\ t.job.msgs # {} => Work' = (Work \ {t}) \cup {new}
    BY <1>3, ReplaceFacts DEF LostInv
  <1>9. ASSUME NEW k \in Kinds, NEW n \in 1 .. count.messages
        PROVE  Waits(k, n)' \/ IsDone(k, n)' \/ IsHeld(k, n)'
    <2>1. CASE \A u \in Work : ~ Has(u, k, n)
      <3>1. \A u \in Work' : ~ Has(u, k, n)
        BY <1>7, <1>8, <2>1
      <3>2. Waits(k, n) \/ IsDone(k, n)
        BY <2>1 DEF LostInv, PlaceInv, IsHeld
      <3>. QED BY <1>4, <3>1, <3>2 DEF Waits, IsDone
    <2>2. CASE Has(t, k, n)
      <3>1. Work' = (Work \ {t}) \cup {new}
        BY <1>8, <2>2 DEF Has
      <3>2. /\ n \notin buffer[k].msgs /\ done[<<k, n>>] = 0
            /\ \A u \in Work : Has(u, k, n) => u = t
        BY <2>2, OneOwner
      <3>3. Has(new, k, n) /\ new \in Work' /\ \A u \in Work' : Has(u, k, n) => u = new
        BY <1>7, <2>2, <3>1, <3>2
      <3>. QED BY <1>4, <3>2, <3>3 DEF IsHeld
    <2>3. CASE \E w \in Work : Has(w, k, n) /\ w # t
      <3>1. PICK w \in Work : Has(w, k, n) /\ w # t
        BY <2>3
      <3>2. /\ n \notin buffer[k].msgs /\ done[<<k, n>>] = 0
            /\ \A u \in Work : Has(u, k, n) => u = w
        BY <3>1, OneOwner
      <3>3. w \in Work' /\ \A u \in Work' : Has(u, k, n) => u = w
        BY <1>7, <1>8, <3>1, <3>2
      <3>. QED BY <1>4, <3>1, <3>2, <3>3 DEF IsHeld
    <2>. QED BY <2>1, <2>2, <2>3
  <1>. QED BY <1>4, <1>5, <1>6, <1>9 DEF LostInv, PlaceInv

LEMMA EndedKeeps ==
    ASSUME LostInv, NEW t \in Work, Ended(t)
    PROVE  LostInv'
  <1>1. Replace(t, {}) /\ buffer' = buffer /\ Others /\ count' = count /\ Kinds' = Kinds
    BY DEF Ended, Finish, Others, Kinds
  <1>2. done' = [p \in DOMAIN done |->
                   done[p] + IF p[1] = t.job.kind /\ p[2] \in t.job.msgs THEN 1 ELSE 0]
    BY DEF Ended, Finish
  <1>3. TasksInv'
    BY <1>1, TasksKept
  <1>4. /\ DOMAIN done = Kinds \X (1 .. MaxMessages)
        /\ count.messages \in 0 .. MaxMessages
        /\ t.job.msgs \subseteq 1 .. count.messages
    BY DEF LostInv, TasksInv, CountInv, IsJob
  <1>5. ASSUME NEW k \in Kinds, NEW n \in 1 .. MaxMessages
        PROVE  done'[<<k, n>>] = done[<<k, n>>] + IF Has(t, k, n) THEN 1 ELSE 0
    <2>1. <<k, n>> \in DOMAIN done
      BY <1>4
    <2>. QED BY <1>2, <2>1 DEF Has
  <1>6. DOMAIN done' = DOMAIN done
    BY <1>2
  <1>7. ASSUME NEW k \in Kinds, NEW n \in 1 .. MaxMessages, n > count.messages
        PROVE  done'[<<k, n>>] = 0
    <2>1. ~ Has(t, k, n)
      BY <1>4, <1>7 DEF Has
    <2>2. done[<<k, n>>] = 0
      BY <1>7 DEF LostInv, CountInv
    <2>. QED BY <1>5, <2>1, <2>2
  <1>8. BufferInv' /\ CountInv'
    BY <1>1, <1>4, <1>6, <1>7 DEF LostInv, BufferInv, CountInv, IsJob
  <1>9. /\ Work' \subseteq Work
        /\ Work \ {t} \subseteq Work'
        /\ t.job.msgs # {} => Work' = Work \ {t}
    BY <1>1, ReplaceFacts DEF LostInv
  <1>10. ASSUME NEW k \in Kinds, NEW n \in 1 .. count.messages
         PROVE  Waits(k, n)' \/ IsDone(k, n)' \/ IsHeld(k, n)'
    <2>0. n \in 1 .. MaxMessages
      BY <1>4, BoundsAreNumbers
    <2>1. CASE \A u \in Work : ~ Has(u, k, n)
      <3>1. \A u \in Work' : ~ Has(u, k, n)
        BY <1>9, <2>1
      <3>2. Waits(k, n) \/ IsDone(k, n)
        BY <2>1 DEF LostInv, PlaceInv, IsHeld
      <3>3. ~ Has(t, k, n) /\ done[<<k, n>>] \in {0, 1}
        BY <2>1, <3>2 DEF Waits, IsDone
      <3>4. done'[<<k, n>>] = done[<<k, n>>]
        BY <1>5, <2>0, <3>3
      <3>. QED BY <1>1, <3>1, <3>2, <3>4 DEF Waits, IsDone
    <2>2. CASE Has(t, k, n)
      <3>1. Work' = Work \ {t}
        BY <1>9, <2>2 DEF Has
      <3>2. /\ n \notin buffer[k].msgs /\ done[<<k, n>>] = 0
            /\ \A u \in Work : Has(u, k, n) => u = t
        BY <2>2, OneOwner
      <3>3. done'[<<k, n>>] = 1
        BY <1>5, <2>0, <2>2, <3>2
      <3>. QED BY <1>1, <3>1, <3>2, <3>3 DEF IsDone
    <2>3. CASE \E w \in Work : Has(w, k, n) /\ w # t
      <3>1. PICK w \in Work : Has(w, k, n) /\ w # t
        BY <2>3
      <3>2. /\ n \notin buffer[k].msgs /\ done[<<k, n>>] = 0
            /\ \A u \in Work : Has(u, k, n) => u = w
        BY <3>1, OneOwner
      <3>3. w \in Work' /\ \A u \in Work' : Has(u, k, n) => u = w
        BY <1>9, <3>1, <3>2
      <3>4. done'[<<k, n>>] = 0
        BY <1>5, <2>0, <3>1, <3>2
      <3>. QED BY <1>1, <3>1, <3>2, <3>3, <3>4 DEF IsHeld
    <2>. QED BY <2>1, <2>2, <2>3
  <1>. QED BY <1>1, <1>3, <1>8, <1>10 DEF LostInv, PlaceInv

LEMMA MergedKeeps ==
    ASSUME LostInv, NEW t \in Work, Merged(t)
    PROVE  LostInv'
  <1>1. PICK job : ProcessDebounce(t, job) /\ SameJob(t.job, job)
    BY DEF Merged
  <1> DEFINE h == t.job.kind
             row == [msgs |-> buffer[h].msgs \cup t.job.msgs,
                     job |-> [job EXCEPT !.text = IF buffer[h] = NoBuffer THEN @ ELSE "other"]]
  <1>2. /\ Replace(t, {}) /\ done' = done /\ buffer' = [buffer EXCEPT ![h] = row]
        /\ Others /\ count' = count /\ Kinds' = Kinds
    BY <1>1 DEF Merged, ProcessDebounce, SameJob, Others, Kinds
  <1>3. /\ row.msgs = buffer[h].msgs \cup t.job.msgs
        /\ DOMAIN row.job = JobFields /\ row.job.kind = h /\ row.job.msgs = t.job.msgs
    BY <1>1 DEF SameJob, JobFields
  <1> HIDE DEF row
  <1>4. TasksInv'
    BY <1>2, TasksKept
  <1>5. DOMAIN buffer = Kinds /\ IsJob(t.job)
    BY DEF LostInv, TasksInv, BufferInv
  <1>6. ASSUME NEW k \in Kinds
        PROVE  buffer'[k] = IF k = h THEN row ELSE buffer[k]
    BY <1>2, <1>5
  <1>7. ASSUME NEW k \in Kinds
        PROVE  /\ buffer'[k].msgs \subseteq 1 .. count.messages
               /\ buffer'[k] # NoBuffer => IsJob(buffer'[k].job) /\ buffer'[k].job.kind = k
    <2>1. CASE k = h
      <3>1. buffer[h].msgs \subseteq 1 .. count.messages
        BY <2>1 DEF LostInv, BufferInv
      <3>2. IsJob(row.job)
        BY <1>3, <1>5, <2>1 DEF IsJob
      <3>. QED BY <1>3, <1>5, <1>6, <2>1, <3>1, <3>2 DEF IsJob
    <2>2. CASE k # h
      BY <1>6, <2>2 DEF LostInv, BufferInv
    <2>. QED BY <2>1, <2>2
  <1>8. BufferInv' /\ CountInv'
    <2>1. DOMAIN buffer' = Kinds
      BY <1>2, <1>5
    <2>2. \A j : IsJob(j)' <=> IsJob(j)
      BY <1>2 DEF IsJob
    <2>. QED BY <1>2, <1>7, <2>1, <2>2 DEF LostInv, BufferInv, CountInv
  <1>9. /\ Work' \subseteq Work
        /\ Work \ {t} \subseteq Work'
        /\ t.job.msgs # {} => Work' = Work \ {t}
    BY <1>2, ReplaceFacts DEF LostInv
  <1>10. \A k \in Kinds : \A n : n \in buffer'[k].msgs <=> (n \in buffer[k].msgs \/ Has(t, k, n))
    BY <1>3, <1>6 DEF Has
  <1>11. ASSUME NEW k \in Kinds, NEW n \in 1 .. count.messages
         PROVE  Waits(k, n)' \/ IsDone(k, n)' \/ IsHeld(k, n)'
    <2>1. CASE \A u \in Work : ~ Has(u, k, n)
      <3>1. (\A u \in Work' : ~ Has(u, k, n)) /\ ~ Has(t, k, n)
        BY <1>9, <2>1
      <3>2. Waits(k, n) \/ IsDone(k, n)
        BY <2>1 DEF LostInv, PlaceInv, IsHeld
      <3>. QED BY <1>2, <1>10, <3>1, <3>2 DEF Waits, IsDone
    <2>2. CASE Has(t, k, n)
      <3>1. Work' = Work \ {t}
        BY <1>9, <2>2 DEF Has
      <3>2. done[<<k, n>>] = 0 /\ \A u \in Work : Has(u, k, n) => u = t
        BY <2>2, OneOwner
      <3>. QED BY <1>2, <1>10, <2>2, <3>1, <3>2 DEF Waits
    <2>3. CASE ~ Has(t, k, n) /\ \E w \in Work : Has(w, k, n)
      <3>1. PICK w \in Work : Has(w, k, n) /\ w # t
        BY <2>3
      <3>2. /\ n \notin buffer[k].msgs /\ done[<<k, n>>] = 0
            /\ \A u \in Work : Has(u, k, n) => u = w
        BY <3>1, OneOwner
      <3>3. w \in Work' /\ \A u \in Work' : Has(u, k, n) => u = w
        BY <1>9, <3>1, <3>2
      <3>. QED BY <1>2, <1>10, <2>3, <3>1, <3>2, <3>3 DEF IsHeld
    <2>. QED BY <2>1, <2>2, <2>3
  <1>. QED BY <1>2, <1>4, <1>8, <1>11 DEF LostInv, PlaceInv

LEMMA HandledKeeps ==
    ASSUME LostInv, NEW t \in Work, Handled(t)
    PROVE  LostInv'
  BY MovedKeeps, EndedKeeps, MergedKeeps DEF Handled

-----------------------------------------------------------------------------
(* The other steps *)

LEMMA AddFacts ==
    ASSUME TasksInv, NEW new, tasks' = tasks (+) SetToBag(new)
    PROVE  /\ IsABag(tasks') /\ Work' = Work \cup new
           /\ \A u \in Work \ new : tasks'[u] = tasks[u]
           /\ \A u \in new \ Work : tasks'[u] = 1
  <1> DEFINE B == tasks
             C == tasks'
  <1>1. IsABag(B) /\ C = With(B, new)
    BY DEF TasksInv, With
  <1> HIDE DEF B, C
  <1>2. Added(B, new, C)
    BY <1>1, AddTasks, Zenon
  <1>. QED BY <1>2 DEF Added, B, C, Work

\* A request has no message of the contact.
Started(new) ==
    /\ tasks' = tasks (+) SetToBag(new)
    /\ \A u \in new : /\ DOMAIN u = {"do", "job", "arg"} /\ DOMAIN u.job = JobFields
                       /\ u.job.msgs = {}

RequestStep ==
    /\ UNCHANGED <<buffer, done, config>>
    /\ count' = [count EXCEPT !.asks = @ + 1]
    /\ UNCHANGED tasks \/ \E new : Started(new)

StartsOne == \E do, k, name, b, trigger, arg :
                 tasks' = tasks (+) SetToBag({Task(do, BotJob(k, name, b, trigger), arg)})

LEMMA OneStarted ==
    ASSUME StartsOne
    PROVE  \E new : Started(new)
  <1>1. PICK do, k, name, b, trigger, arg :
            tasks' = tasks (+) SetToBag({Task(do, BotJob(k, name, b, trigger), arg)})
    BY DEF StartsOne
  <1> DEFINE u == Task(do, BotJob(k, name, b, trigger), arg)
  <1>2. DOMAIN u = {"do", "job", "arg"} /\ DOMAIN u.job = JobFields /\ u.job.msgs = {}
    BY DEF Task, BotJob, JobFields
  <1> HIDE DEF u
  <1>3. Started({u})
    BY <1>1, <1>2 DEF Started, u
  <1>. QED BY <1>3

LEMMA RequestSteps ==
    ASSUME Request
    PROVE  RequestStep
  <1>1. Asked /\ UNCHANGED <<buffer, done, config>>
    BY DEF Request, CreateBot, SaveSettings, IgnoreJid, UpdateBot, DeleteBot, StartBot,
           ChangeStatus
  <1>2. UNCHANGED tasks \/ StartsOne
    <2>1. ASSUME NEW k \in Kinds, NEW name \in Names, CreateBot(k, name)
          PROVE  StartsOne
      BY <2>1 DEF CreateBot, StartsOne
    <2>2. ASSUME NEW k \in Kinds, NEW name \in Names, IgnoreJid(k, name)
          PROVE  StartsOne
      <3>1. PICK arg : tasks' = tasks (+) SetToBag({Task("WriteIgnore", BotJob(k, name, 0, ""), arg)})
        BY <2>2 DEF IgnoreJid
      <3>. QED BY <3>1, Zenon DEF StartsOne
    <2>3. ASSUME NEW k \in Kinds, NEW name \in Names, SaveSettings(k, name)
          PROVE  UNCHANGED tasks
      BY <2>3 DEF SaveSettings
    <2>4. ASSUME NEW b \in DOMAIN bots, UpdateBot(b)
          PROVE  StartsOne
      BY <2>4 DEF UpdateBot, StartsOne
    <2>5. ASSUME NEW b \in DOMAIN bots, DeleteBot(b)
          PROVE  StartsOne
      BY <2>5, Zenon DEF DeleteBot, StartsOne
    <2>7. ASSUME NEW b \in DOMAIN bots, StartBot(b)
          PROVE  StartsOne
      BY <2>7, Zenon DEF StartBot, StartsOne
    <2>6. ASSUME NEW name \in Names, ChangeStatus(name)
          PROVE  UNCHANGED tasks
      BY <2>6 DEF ChangeStatus
    <2>. QED BY <2>1, <2>2, <2>3, <2>4, <2>5, <2>6, <2>7 DEF Request
  <1>. QED BY <1>1, <1>2, OneStarted DEF RequestStep, Asked

LEMMA RequestKeeps ==
    ASSUME LostInv, RequestStep
    PROVE  LostInv'
  <1>1. /\ buffer' = buffer /\ done' = done /\ Kinds' = Kinds
        /\ DOMAIN count' = DOMAIN count /\ count'.messages = count.messages
    BY DEF RequestStep, LostInv, CountInv, Kinds
  <1>2. \A j : IsJob(j)' <=> IsJob(j)
    BY <1>1 DEF IsJob
  <1>3. BufferInv' /\ CountInv'
    BY <1>1, <1>2 DEF LostInv, BufferInv, CountInv
  <1>4. CASE UNCHANGED tasks
    <2>1. Work' = Work
      BY <1>4 DEF Work
    <2>2. IsABag(tasks')
      BY <1>4, Zenon DEF LostInv, TasksInv
    <2>3. TasksInv'
      BY <1>2, <1>4, <2>1, <2>2 DEF LostInv, TasksInv
    <2>4. PlaceInv'
      BY <1>1, <2>1 DEF LostInv, PlaceInv, Waits, IsDone, IsHeld
    <2>. QED BY <1>3, <2>3, <2>4 DEF LostInv
  <1>5. ASSUME NEW new, Started(new)
        PROVE  LostInv'
    <2>1. /\ IsABag(tasks') /\ Work' = Work \cup new
          /\ \A u \in Work \ new : tasks'[u] = tasks[u]
          /\ \A u \in new : /\ DOMAIN u = {"do", "job", "arg"} /\ DOMAIN u.job = JobFields
                             /\ u.job.msgs = {}
      BY <1>5, AddFacts DEF LostInv, Started
    <2>2. TasksInv'
      <3>1. \A u \in new : IsJob(u.job)'
        BY <2>1 DEF IsJob
      <3>2. \A u \in Work : IsJob(u.job)'
        BY <1>2 DEF LostInv, TasksInv
      <3>. QED BY <2>1, <3>1, <3>2 DEF LostInv, TasksInv
    <2>3. \A k, n : \A u \in new : ~ Has(u, k, n)
      BY <2>1 DEF Has
    <2>4. PlaceInv'
      BY <1>1, <2>1, <2>3 DEF LostInv, PlaceInv, Waits, IsDone, IsHeld
    <2>. QED BY <1>3, <2>2, <2>4 DEF LostInv
  <1>. QED BY <1>4, <1>5 DEF RequestStep

LEMMA MessageKeeps ==
    ASSUME LostInv, NEW name, Message(name)
    PROVE  LostInv'
  <1> DEFINE m == count.messages + 1
  <1>1. PICK text, mine :
            tasks' = tasks (+) SetToBag({Task("Settings",
                [kind |-> k, name |-> name, msgs |-> {count'.messages}, text |-> text,
                 mine |-> mine, sess |-> NoSession, bot |-> 0], "") : k \in Kinds})
    BY DEF Message
  <1>2. /\ buffer' = buffer /\ done' = done /\ Kinds' = Kinds
        /\ DOMAIN count' = DOMAIN count /\ count'.messages = m
        /\ m \in 1 .. MaxMessages /\ count.messages \in Nat
    <2>1. buffer' = buffer /\ done' = done /\ Kinds' = Kinds
      BY DEF Message, Kinds
    <2>2. count' = [count EXCEPT !.messages = m] /\ count.messages < MaxMessages
      BY DEF Message
    <2>3. DOMAIN count = {"messages", "asks"} /\ count.messages \in 0 .. MaxMessages
      BY DEF LostInv, CountInv
    <2>4. MaxMessages \in Nat
      BY BoundsAreNumbers
    <2>. QED BY <2>1, <2>2, <2>3, <2>4
  <1> DEFINE F(k) == Task("Settings",
                [kind |-> k, name |-> name, msgs |-> {m}, text |-> text,
                 mine |-> mine, sess |-> NoSession, bot |-> 0], "")
             new == {F(k) : k \in Kinds}
  <1>3. tasks' = tasks (+) SetToBag(new)
    BY <1>1, <1>2
  <1>4. \A k \in Kinds : /\ DOMAIN F(k) = {"do", "job", "arg"} /\ DOMAIN F(k).job = JobFields
                         /\ F(k).job.msgs = {m} /\ F(k).job.kind = k
    BY DEF Task, JobFields
  <1>5. \A k \in Kinds : F(k) \in new
    OBVIOUS
  <1>6. \A u \in new : \E k \in Kinds : u = F(k)
    OBVIOUS
  <1> HIDE DEF F, new
  <1>7. /\ IsABag(tasks') /\ Work' = Work \cup new
        /\ \A u \in Work \ new : tasks'[u] = tasks[u]
        /\ \A u \in new \ Work : tasks'[u] = 1
    BY <1>3, AddFacts DEF LostInv
  <1>8. \A u \in Work : m \notin u.job.msgs
    BY <1>2 DEF LostInv, TasksInv, IsJob
  <1>9. \A u \in new : /\ DOMAIN u = {"do", "job", "arg"} /\ DOMAIN u.job = JobFields
                       /\ u.job.msgs = {m} /\ u.job.kind \in Kinds /\ u \notin Work
    BY <1>4, <1>6, <1>8
  <1>10. TasksInv'
    <2>1. \A u \in new : IsJob(u.job)'
      BY <1>2, <1>9 DEF IsJob
    <2>2. \A u \in Work : IsJob(u.job)'
      BY <1>2 DEF LostInv, TasksInv, IsJob
    <2>. QED BY <1>7, <1>9, <2>1, <2>2 DEF LostInv, TasksInv
  <1>11. \A k \in Kinds : \A n : Has(F(k), k, n) <=> n = m
    BY <1>4 DEF Has
  <1>12. \A k \in Kinds, u \in new : \A n : Has(u, k, n) => u = F(k) /\ n = m
    BY <1>4, <1>6 DEF Has
  <1>13. BufferInv'
    <2>1. \A j : IsJob(j) => IsJob(j)'
      BY <1>2 DEF IsJob
    <2>2. 1 .. count.messages \subseteq 1 .. count'.messages
      BY <1>2
    <2>. QED BY <1>2, <2>1, <2>2 DEF LostInv, BufferInv
  <1>14. CountInv'
    BY <1>2, BoundsAreNumbers DEF LostInv, CountInv
  <1>15. ASSUME NEW k \in Kinds, NEW n \in 1 .. m
         PROVE  Waits(k, n)' \/ IsDone(k, n)' \/ IsHeld(k, n)'
    <2>1. CASE n = m
      <3>1. n \notin buffer[k].msgs /\ done[<<k, n>>] = 0
        BY <1>2, <2>1 DEF LostInv, BufferInv, CountInv
      <3>2. F(k) \in Work' /\ Has(F(k), k, n)
        BY <1>5, <1>7, <1>11, <2>1
      <3>3. \A u \in Work' : Has(u, k, n) => u = F(k)
        BY <1>7, <1>8, <1>12, <2>1 DEF Has
      <3>. QED BY <1>2, <3>1, <3>2, <3>3 DEF IsHeld
    <2>2. CASE n # m
      <3>1. Waits(k, n) \/ IsDone(k, n) \/ IsHeld(k, n)
        BY <1>2, <2>2 DEF LostInv, PlaceInv
      <3>2. \A u \in new : ~ Has(u, k, n)
        BY <1>12, <2>2
      <3>. QED BY <1>2, <1>7, <3>1, <3>2 DEF Waits, IsDone, IsHeld
    <2>. QED BY <2>1, <2>2
  <1>. QED BY <1>2, <1>10, <1>13, <1>14, <1>15 DEF LostInv, PlaceInv

LEMMA TimeoutKeeps ==
    ASSUME LostInv, NEW h \in Kinds, DebounceTimeout(h)
    PROVE  LostInv'
  <1> DEFINE job == [buffer[h].job EXCEPT !.msgs = buffer[h].msgs]
             new == Task("Process", job, "")
  <1>1. /\ buffer[h] # NoBuffer /\ buffer' = [buffer EXCEPT ![h] = NoBuffer]
        /\ tasks' = tasks (+) SetToBag({new})
        /\ done' = done /\ count' = count /\ Kinds' = Kinds
    BY DEF DebounceTimeout, Kinds
  <1>2. /\ DOMAIN buffer = Kinds /\ IsJob(buffer[h].job) /\ buffer[h].job.kind = h
        /\ buffer[h].msgs \subseteq 1 .. count.messages
    BY <1>1 DEF LostInv, BufferInv
  <1>3. DOMAIN job = JobFields /\ job.kind = h /\ job.msgs = buffer[h].msgs
    BY <1>2 DEF IsJob, JobFields
  <1>4. DOMAIN new = {"do", "job", "arg"} /\ new.job = job
    BY DEF Task
  <1> HIDE DEF job, new
  <1>5. /\ IsABag(tasks') /\ Work' = Work \cup {new}
        /\ \A u \in Work \ {new} : tasks'[u] = tasks[u]
        /\ \A u \in {new} \ Work : tasks'[u] = 1
    BY <1>1, AddFacts DEF LostInv
  <1>6. \A k, n : Has(new, k, n) <=> k = h /\ n \in buffer[h].msgs
    BY <1>3, <1>4 DEF Has
  <1>7. ASSUME NEW n, n \in buffer[h].msgs
        PROVE  done[<<h, n>>] = 0 /\ \A u \in Work : ~ Has(u, h, n)
    <2>1. Waits(h, n)
      BY <1>2, <1>7 DEF LostInv, PlaceInv, IsDone, IsHeld
    <2>. QED BY <2>1 DEF Waits
  <1>8. new.job.msgs # {} => new \notin Work
    BY <1>3, <1>4, <1>6, <1>7
  <1>9. \A j : IsJob(j)' <=> IsJob(j)
    BY <1>1 DEF IsJob
  <1>10. TasksInv'
    <2>1. IsJob(new.job)
      BY <1>2, <1>3, <1>4 DEF IsJob
    <2>2. \A u \in Work' : DOMAIN u = {"do", "job", "arg"} /\ IsJob(u.job)'
      BY <1>4, <1>5, <1>9, <2>1 DEF LostInv, TasksInv
    <2>3. ASSUME NEW u \in Work', u.job.msgs # {}
          PROVE  tasks'[u] = 1
      BY <1>5, <1>8, <2>3 DEF LostInv, TasksInv
    <2>. QED BY <1>5, <2>2, <2>3 DEF TasksInv
  <1>11. \A k \in Kinds : buffer'[k] = IF k = h THEN NoBuffer ELSE buffer[k]
    BY <1>1, <1>2
  <1>12. NoBuffer.msgs = {}
    BY DEF NoBuffer
  <1>13. BufferInv' /\ CountInv'
    <2>1. DOMAIN buffer' = Kinds
      BY <1>1, <1>2
    <2>. QED BY <1>1, <1>9, <1>11, <1>12, <2>1 DEF LostInv, BufferInv, CountInv
  <1>14. ASSUME NEW k \in Kinds, NEW n \in 1 .. count.messages
         PROVE  Waits(k, n)' \/ IsDone(k, n)' \/ IsHeld(k, n)'
    <2>1. CASE k = h /\ n \in buffer[h].msgs
      <3>1. /\ done[<<k, n>>] = 0 /\ Has(new, k, n) /\ new \in Work'
            /\ \A u \in Work' : Has(u, k, n) => u = new
        BY <1>5, <1>6, <1>7, <2>1
      <3>. QED BY <1>1, <1>11, <1>12, <2>1, <3>1 DEF IsHeld
    <2>2. CASE ~ (k = h /\ n \in buffer[h].msgs)
      <3>1. ~ Has(new, k, n)
        BY <1>6, <2>2
      <3>2. n \in buffer'[k].msgs <=> n \in buffer[k].msgs
        BY <1>11, <1>12, <2>2
      <3>3. Waits(k, n) \/ IsDone(k, n) \/ IsHeld(k, n)
        BY DEF LostInv, PlaceInv
      <3>. QED BY <1>1, <1>5, <3>1, <3>2, <3>3 DEF Waits, IsDone, IsHeld
    <2>. QED BY <2>1, <2>2
  <1>. QED BY <1>1, <1>10, <1>13, <1>14 DEF LostInv, PlaceInv

LEMMA LostInvNext ==
    ASSUME LostInv, [Next]_vars
    PROVE  LostInv'
  <1>1. CASE UNCHANGED vars
    <2>1. /\ buffer' = buffer /\ done' = done /\ Kinds' = Kinds /\ count' = count
          /\ tasks' = tasks /\ Work' = Work
      BY <1>1 DEF vars, Kinds, Work
    <2>2. IsABag(tasks')
      BY <2>1, Zenon DEF LostInv, TasksInv
    <2>3. \A j : IsJob(j)' <=> IsJob(j)
      BY <2>1 DEF IsJob
    <2>4. TasksInv' /\ BufferInv' /\ CountInv'
      BY <2>1, <2>2, <2>3 DEF LostInv, TasksInv, BufferInv, CountInv
    <2>5. PlaceInv'
      BY <2>1 DEF LostInv, PlaceInv, Waits, IsDone, IsHeld
    <2>. QED BY <2>4, <2>5 DEF LostInv
  <1>2. CASE \E name \in Names : Message(name)
    BY <1>2, MessageKeeps
  <1>3. CASE EmitStep
    BY <1>3, EmitHandles, HandledKeeps DEF EmitStep
  <1>4. CASE ServiceStep
    BY <1>4, ServiceHandles, HandledKeeps DEF ServiceStep, ServiceActions
  <1>5. CASE WriteStep
    BY <1>5, WriteEnds, EndedKeeps DEF WriteStep
  <1>6. CASE Timeout
    BY <1>6, TimeoutKeeps DEF Timeout
  <1>7. CASE Request
    BY <1>7, RequestSteps, RequestKeeps
  <1>. QED BY <1>1, <1>2, <1>3, <1>4, <1>5, <1>6, <1>7 DEF Next

LEMMA InitLost ==
    ASSUME Init
    PROVE  LostInv
  <1>1. /\ buffer = [k \in Kinds |-> NoBuffer] /\ tasks = EmptyBag
        /\ done = [p \in Kinds \X (1 .. MaxMessages) |-> 0]
        /\ count = [messages |-> 0, asks |-> 0]
    BY DEF Init
  <1>2. Work = {}
    BY <1>1, NoTasks DEF Work
  <1>3. IsABag(tasks)
    BY <1>1, NoTasks, Zenon
  <1>4. TasksInv
    BY <1>2, <1>3 DEF TasksInv
  <1>5. BufferInv
    BY <1>1 DEF BufferInv, NoBuffer
  <1>6. CountInv /\ count.messages = 0
    BY <1>1, BoundsAreNumbers DEF CountInv
  <1>. QED BY <1>4, <1>5, <1>6 DEF LostInv, PlaceInv

\* One place is one.
LEMMA PlacesAreOne ==
    ASSUME LostInv
    PROVE  NoMessageLost
  <1>1. SUFFICES ASSUME NEW k \in Kinds, NEW n \in 1 .. count.messages
                 PROVE  Holds(n, k) = 1
    BY DEF NoMessageLost
  <1> DEFINE S == {t \in Work : t.job.kind = k /\ n \in t.job.msgs}
  <1>2. \A t : t \in S <=> t \in Work /\ Has(t, k, n)
    BY DEF Has
  <1>3. Holds(n, k) = (IF n \in buffer[k].msgs THEN 1 ELSE 0) + done[<<k, n>>] + Cardinality(S)
    BY DEF Holds
  <1> HIDE DEF S
  <1>4. CASE Waits(k, n) \/ IsDone(k, n)
    <2>1. S = {}
      BY <1>2, <1>4 DEF Waits, IsDone
    <2>2. Cardinality(S) = 0
      BY <2>1, FS_EmptySet
    <2>. QED BY <1>3, <1>4, <2>2 DEF Waits, IsDone
  <1>5. CASE IsHeld(k, n)
    <2>1. PICK t : S = {t}
      BY <1>2, <1>5 DEF IsHeld
    <2>2. Cardinality(S) = 1
      BY <2>1, FS_Singleton
    <2>. QED BY <1>3, <1>5, <2>2 DEF IsHeld
  <1>. QED BY <1>4, <1>5 DEF LostInv, PlaceInv

\* Every message of the contact or the owner is, at each controller of the instance, in exactly
\* one place: one callback has it, or it waits for the debounce, or the controller is done with
\* it, once. processDebounce neither drops nor repeats what it merges, and no path through the
\* services ends twice.
THEOREM NoMessageLostHolds == Spec => []NoMessageLost
  <1>1. Init => LostInv
    BY InitLost
  <1>2. LostInv /\ [Next]_vars => LostInv'
    BY LostInvNext
  <1>3. LostInv => NoMessageLost
    BY PlacesAreOne
  <1>. QED BY <1>1, <1>2, <1>3, PTL DEF Spec

-----------------------------------------------------------------------------
(* Sessions have ids of their own *)

SessionFields == {"id", "name", "kind", "bot", "status"}
RowsInv ==
    /\ \A s \in sessions : DOMAIN s = SessionFields /\ s.id \in Nat \ {0}
    /\ \A s, r \in sessions : s.id = r.id => s = r

Ids == {0} \cup {s.id : s \in sessions} \cup {t.job.sess.id : t \in Work}
       \cup {buffer[k].job.sess.id : k \in {k \in Kinds : buffer[k] # NoBuffer}}

\* An id that is above all of them is not in use.
IdInv == RowsInv /\ \E m \in Nat : Ids \subseteq 0 .. m

LEMMA NewIdFacts ==
    ASSUME IdInv
    PROVE  NewId \in Nat \ {0} /\ \A i \in Ids : i \in Nat /\ i < NewId
  <1> DEFINE used == {s.id : s \in sessions} \cup {t.job.sess.id : t \in Work}
                     \cup {buffer[k].job.sess.id : k \in {k \in Kinds : buffer[k] # NoBuffer}}
  <1>1. Ids = {0} \cup used
    BY DEF Ids
  <1>2. PICK m \in Nat : Ids \subseteq 0 .. m
    BY DEF IdInv
  <1>3. NewId = 1 + CHOOSE i \in {0} \cup used : \A j \in used : j <= i
    BY DEF NewId
  <1> HIDE DEF used
  <1>4. \E i \in Ids : \A j \in Ids : j <= i
    <2>1. Ids \in SUBSET Nat /\ Ids # {} /\ \A i \in Ids : i <= m
      BY <1>1, <1>2
    <2>. QED BY <2>1, GreatestExists
  <1>5. \E i \in {0} \cup used : \A j \in used : j <= i
    BY <1>1, <1>4
  <1> DEFINE g == CHOOSE i \in {0} \cup used : \A j \in used : j <= i
  <1>6. g \in {0} \cup used /\ \A j \in used : j <= g
    BY <1>5
  <1>7. NewId = 1 + g
    BY <1>3
  <1> HIDE DEF g
  <1>. QED BY <1>1, <1>2, <1>6, <1>7

\* The session that is found is a row.
LEMMA GetSessionFacts ==
    ASSUME IdInv, NEW name
    PROVE  \/ GetSession(name) = NoSession
           \/ \E s \in sessions : /\ GetSession(name).id = s.id
                                  /\ GetSession(name).status = s.status
  <1> DEFINE own == {s \in sessions : s.name = name}
  <1>1. CASE own = {}
    BY <1>1 DEF GetSession
  <1>2. CASE own # {}
    <2> DEFINE ids == {s.id : s \in own}
    <2>1. PICK m \in Nat : Ids \subseteq 0 .. m
      BY DEF IdInv
    <2>2. ids \subseteq Ids /\ ids # {}
      BY <1>2 DEF Ids
    <2>3. ids \in SUBSET Nat /\ \A i \in ids : i <= m
      <3> HIDE DEF ids
      <3>. QED BY <2>1, <2>2
    <2>4. PICK i \in ids : \A j \in ids : j <= i
      <3> HIDE DEF ids
      <3>. QED BY <2>2, <2>3, GreatestExists
    <2>5. PICK q \in own : i = q.id
      BY <2>4
    <2>6. \A p \in own : p.id <= q.id
      BY <2>4, <2>5
    <2> DEFINE s == CHOOSE s \in own : \A r \in own : r.id <= s.id
    <2>7. s \in own
      BY <2>6
    <2>8. GetSession(name) = [id |-> s.id, status |-> s.status, bot |-> s.bot]
      BY <1>2 DEF GetSession
    <2> HIDE DEF s
    <2>. QED BY <2>7, <2>8
  <1>. QED BY <1>1, <1>2

-----------------------------------------------------------------------------
(* What a step does to the rows *)

\* A row that was there before keeps its id and its bot, and is paused only if it was.
Descends ==
    /\ RowsInv'
    /\ \A s \in sessions' : \E r \in sessions : s.id = r.id /\ s.bot = r.bot
Unpaused == \A s \in sessions' : s.status = "paused" =>
                \E r \in sessions : s.id = r.id /\ r.status = "paused"

LEMMA LosesFacts ==
    ASSUME RowsInv, sessions' \subseteq sessions
    PROVE  Descends /\ Unpaused
  BY DEF RowsInv, Descends, Unpaused

LEMMA MarksFacts ==
    ASSUME RowsInv, NEW rows \in SUBSET sessions, NEW status, sessions' = WithStatus(rows, status)
    PROVE  Descends /\ (status # "paused" => Unpaused)
  <1> DEFINE M(s) == [s EXCEPT !.status = status]
  <1>1. \A s \in sessions : /\ M(s).id = s.id /\ M(s).bot = s.bot /\ M(s).status = status
                            /\ DOMAIN M(s) = SessionFields
    BY DEF RowsInv, SessionFields
  <1>2. \A s \in sessions' : s \in sessions \ rows \/ \E r \in rows : s = M(r)
    BY DEF WithStatus
  <1> HIDE DEF M
  <1>3. RowsInv'
    <2>1. \A s \in sessions' : DOMAIN s = SessionFields /\ s.id \in Nat \ {0}
      BY <1>1, <1>2 DEF RowsInv
    <2>2. \A s, r \in sessions' : s.id = r.id => s = r
      BY <1>1, <1>2 DEF RowsInv
    <2>. QED BY <2>1, <2>2 DEF RowsInv
  <1>4. \A s \in sessions' : \E r \in sessions : s.id = r.id /\ s.bot = r.bot
    BY <1>1, <1>2
  <1>5. status # "paused" => Unpaused
    BY <1>1, <1>2 DEF Unpaused
  <1>. QED BY <1>3, <1>4, <1>5 DEF Descends

LEMMA OpensFacts ==
    ASSUME IdInv, NEW job, sessions' = sessions \cup {NewSession(job)}
    PROVE  /\ RowsInv' /\ Unpaused
           /\ \A s \in sessions' : s \in sessions \/ (s.id = NewId /\ s.bot = job.bot)
  <1> DEFINE new == NewSession(job)
  <1>1. /\ DOMAIN new = SessionFields /\ new.id = NewId /\ new.bot = job.bot
        /\ new.status = "opened"
    BY DEF NewSession, SessionFields
  <1>2. \A s \in sessions : s.id \in Ids
    BY DEF Ids
  <1>3. sessions' = sessions \cup {new}
    OBVIOUS
  <1> HIDE DEF new
  <1>4. RowsInv'
    BY <1>1, <1>2, <1>3, NewIdFacts DEF IdInv, RowsInv
  <1>. QED BY <1>1, <1>3, <1>4 DEF Unpaused

\* An id that is taken is taken from the rows, or it is the new one.
Taking(i) == i \in Ids \/ i = NewId
LEMMA IdsStay ==
    ASSUME IdInv, RowsInv',
           \A s \in sessions' : \E i : Taking(i) /\ s.id = i,
           \A u \in Work' : \E i : Taking(i) /\ u.job.sess.id = i,
           \A k \in Kinds' : buffer'[k] # NoBuffer => \E i : Taking(i) /\ buffer'[k].job.sess.id = i
    PROVE  IdInv'
  <1>1. PICK m : m = NewId
    OBVIOUS
  <1>2. m \in Nat /\ \A i : Taking(i) => i \in 0 .. m
    BY <1>1, NewIdFacts DEF Taking
  <1>3. Ids' \subseteq 0 .. m
    <2>1. 0 \in 0 .. m
      BY <1>2
    <2>. QED BY <1>2, <2>1 DEF Ids
  <1>. QED BY <1>2, <1>3 DEF IdInv

-----------------------------------------------------------------------------
(* What a callback of a service does with the session of its job *)

ServiceDos == {"Process", "Create", "Set", "Delete", "DeleteBotRows", "Ask", "Start"}
Pauses(t) == t.do = "Set" /\ t.arg = "paused"
Serving(t) == t.do \in ServiceDos \ {"Delete"} /\ ~ Pauses(t)
\* The row is not looked at again before the bot speaks.
Speaks(do, arg) == do = "Ask" \/ (do = "Set" /\ arg \in {"first", "continue"})

Fits(t, do, job, arg) ==
    /\ Serving(t) /\ do \in ServiceDos /\ ~ (do = "Set" /\ arg = "paused")
    /\ Speaks(do, arg) => (Speaks(t.do, t.arg) /\ job = t.job) \/ job.sess.status # "paused"

Opens(t) == sessions' = sessions \cup {NewSession(t.job)}
Marks(t) == \/ sessions' \subseteq sessions
            \/ \E rows \in SUBSET sessions : \E status :
                  sessions' = WithStatus(rows, status) /\ (status = "paused" => Pauses(t))

Served(t) ==
    /\ t.do \in ServiceDos /\ UNCHANGED <<bots, buffer, config>>
    /\ spoke' = spoke \/ (t.do = "Ask" /\ Said(t.job))
    /\ \/ Finish(t) /\ Marks(t)
       \/ \E do, arg : Continue(t, do, t.job, arg) /\ Fits(t, do, t.job, arg) /\ Marks(t)
       \/ \E do, arg : /\ Continue(t, do, InSession(t.job), arg)
                       /\ Fits(t, do, InSession(t.job), arg) /\ Opens(t)

Goes(t) == Finish(t) \/ \E do, arg : Continue(t, do, t.job, arg) /\ Fits(t, do, t.job, arg)

LEMMA InSessionFacts ==
    ASSUME NEW job, DOMAIN job = JobFields
    PROVE  /\ InSession(job).sess.status = "opened" /\ InSession(job).sess.id = NewId
           /\ InSession(job).mine = job.mine /\ InSession(job).bot = job.bot
  BY DEF InSession, JobFields

LEMMA ServiceServes ==
    ASSUME LostInv, NEW t \in Work, ServiceActions(t)
    PROVE  Served(t)
  <1>1. DOMAIN t.job = JobFields
    BY DEF LostInv, TasksInv, IsJob
  <1>2. InSession(t.job).sess.status = "opened"
    BY <1>1, InSessionFacts
  <1>3. "opened" # "paused" /\ NoSession.status # "paused"
    BY DEF NoSession
  <1>4. ASSUME sessions' = sessions
        PROVE  Marks(t)
    BY <1>4 DEF Marks
  <1>5. CASE Process(t)
    <2>0. SUFFICES Goes(t)
      BY <1>4, <1>5 DEF Process, Served, Goes, ServiceDos
    <2>1. \A do, arg : /\ do \in {"Create", "Set", "Delete", "DeleteBotRows", "Start"}
                       /\ arg \in {"", "opened", "closed", "expired"}
                       => Fits(t, do, t.job, arg)
      BY <1>5 DEF Process, Fits, Serving, Pauses, ServiceDos, Speaks
    <2>2. t.job.sess.status # "paused" => /\ Fits(t, "Ask", t.job, "again")
                                          /\ Fits(t, "Set", t.job, "continue")
      BY <1>5 DEF Process, Fits, Serving, Pauses, ServiceDos
    <2>4. CASE ProcessOpenai(t)
      <3>1. \/ Finish(t) \/ Continue(t, "Set", t.job, "closed") \/ Continue(t, "Delete", t.job, "")
            \/ Continue(t, "Create", t.job, "") \/ Continue(t, "Set", t.job, "opened")
            \/ t.job.sess.status # "paused" /\ Continue(t, "Ask", t.job, "again")
        BY <2>4 DEF ProcessOpenai
      <3>. QED BY <2>1, <2>2, <3>1 DEF Goes
    <2>5. CASE ProcessTypebot(t)
      <3>1. CASE Expired(t)
        BY <2>1, <3>1 DEF Expired, Goes
      <3>2. CASE ~ Expired(t)
        <4>1. \/ Finish(t) \/ Continue(t, "Start", t.job, "")
              \/ t.job.sess.status # "paused" /\ Continue(t, "Set", t.job, "continue")
          BY <2>5, <3>2 DEF ProcessTypebot
        <4>. QED BY <2>1, <2>2, <4>1 DEF Goes
      <3>. QED BY <3>1, <3>2
    <2>6. CASE ProcessBase(t)
      <3>1. \/ Finish(t) \/ Continue(t, "Create", t.job, "") \/ Continue(t, "Set", t.job, "closed")
            \/ t.job.sess.status # "paused" /\ Continue(t, "Ask", t.job, "again")
        BY <2>6 DEF ProcessBase
      <3>. QED BY <2>1, <2>2, <3>1 DEF Goes
    <2>. QED BY <1>5, <2>4, <2>5, <2>6 DEF Process
  <1>6. CASE CreateNewSession(t)
    <2>1. Fits(t, "Set", InSession(t.job), "first")
      BY <1>2, <1>3, <1>6 DEF CreateNewSession, Fits, Serving, Pauses, ServiceDos
    <2>. QED BY <1>6, <2>1 DEF CreateNewSession, Served, Opens, ServiceDos
  <1>7. CASE SetStatus(t)
    <2>1. Marks(t)
      <3>1. CASE UNCHANGED sessions
        BY <1>4, <3>1
      <3>2. CASE sessions' = WithStatus(Row(t.job.sess.id), Written(t.arg))
        <4>1. Row(t.job.sess.id) \in SUBSET sessions
          BY DEF Row
        <4>2. Written(t.arg) = "paused" => t.arg = "paused"
          BY DEF Written
        <4>. QED BY <1>7, <3>2, <4>1, <4>2 DEF Marks, SetStatus, Pauses
      <3>. QED BY <1>7, <3>1, <3>2 DEF SetStatus
    <2>0. SUFFICES Goes(t)
      BY <1>7, <2>1 DEF SetStatus, Served, Goes, ServiceDos
    <2>2. Finish(t) => Goes(t)
      BY DEF Goes
    <2>3. \A do, arg : /\ do \in ServiceDos /\ arg # "paused" /\ t.arg # "paused"
                       /\ Speaks(do, arg) => Speaks(t.do, t.arg)
                       /\ Continue(t, do, t.job, arg)
                       => Goes(t)
      BY <1>7 DEF SetStatus, Goes, Fits, Serving, Pauses, ServiceDos
    <2>4. CASE t.arg \in {"first", "continue"} /\ AfterSet(t)
      BY <1>7, <2>3, <2>4 DEF SetStatus, AfterSet, Speaks, ServiceDos
    <2>5. CASE t.arg \in {"answered", "expired"} /\ AfterSet(t)
      BY <2>3, <2>5 DEF AfterSet, Speaks, ServiceDos
    <2>6. CASE t.arg \notin {"first", "continue", "answered", "expired"} /\ AfterSet(t)
      BY <2>2, <2>6 DEF AfterSet
    <2>. QED BY <1>7, <2>2, <2>4, <2>5, <2>6 DEF SetStatus
  <1>8. CASE DeleteSession(t)
    <2>1. Marks(t)
      BY <1>8 DEF DeleteSession, Marks
    <2>. QED BY <1>8, <2>1 DEF DeleteSession, Served, ServiceDos
  <1>9. CASE DeleteBotRows(t)
    <2>1. Marks(t)
      BY <1>9 DEF DeleteBotRows, Marks
    <2>2. Fits(t, "Start", t.job, "")
      BY <1>9 DEF DeleteBotRows, Fits, Serving, Pauses, ServiceDos, Speaks
    <2>. QED BY <1>9, <2>1, <2>2 DEF DeleteBotRows, Served, ServiceDos
  <1>10. CASE AnswerPlain(t) \/ AnswerDify(t) \/ AnswerOpenai(t) \/ ProcessMessages(t)
    <2>1. t.do = "Ask" /\ Marks(t)
      BY <1>4, <1>10 DEF AnswerPlain, AnswerDify, AnswerOpenai, ProcessMessages
    <2>2. \A do, arg : do \in {"Set", "Delete"} /\ arg \in {"opened", "answered", "closed", ""} =>
              Fits(t, do, t.job, arg)
      BY <2>1 DEF Fits, Serving, Pauses, ServiceDos, Speaks
    <2>3. \/ Finish(t)
          \/ \E do, arg : Continue(t, do, t.job, arg) /\ Fits(t, do, t.job, arg)
      BY <1>10, <2>2 DEF AnswerPlain, AnswerDify, AnswerOpenai, ProcessMessages
    <2>4. /\ UNCHANGED <<bots, buffer, config>>
          /\ spoke' = spoke \/ Said(t.job)
      BY <1>10 DEF AnswerPlain, AnswerDify, AnswerOpenai, ProcessMessages
    <2>. QED BY <2>1, <2>3, <2>4 DEF Served, ServiceDos
  <1>11. CASE StartTypebot(t)
    <2>1. \A do, arg : do \in ServiceDos /\ arg # "paused" => Fits(t, do, InSession(t.job), arg)
      BY <1>2, <1>3, <1>11 DEF StartTypebot, Fits, Serving, Pauses, ServiceDos
    <2>2. CASE NoChat(t)
      BY <1>4, <1>11, <2>2 DEF StartTypebot, NoChat, Served, ServiceDos
    <2>3. CASE Chat(t)
      <3>1. \E do, arg : /\ Continue(t, do, InSession(t.job), arg)
                         /\ Fits(t, do, InSession(t.job), arg)
        BY <2>1, <2>3 DEF Chat, ServiceDos
      <3>. QED BY <1>11, <2>3, <3>1 DEF StartTypebot, Chat, Served, ServiceDos, Opens
    <2>. QED BY <1>11, <2>2, <2>3 DEF StartTypebot
  <1>. QED BY <1>5, <1>6, <1>7, <1>8, <1>9, <1>10, <1>11 DEF ServiceActions

-----------------------------------------------------------------------------
(* What a callback of a controller finds *)

EmitDos == {"Settings", "Session", "Bot", "Fallback"}
Owner(job) == On("stop") /\ job.mine

Follows(job, new) ==
    /\ DOMAIN new = JobFields /\ new.mine = job.mine
    /\ \/ new.sess = job.sess
       \/ new.sess = NoSession
       \/ new.sess = GetSession(job.name)

\* The bot is there; what the owner wrote goes to it only with listeningFromMe.
Found(t, job) ==
    Follows(t.job, job) /\ job.bot \in DOMAIN bots /\ (job.mine => On("listen"))

Emitted(t) ==
    /\ t.do \in EmitDos /\ UNCHANGED <<bots, sessions, spoke, config>>
    /\ \/ Finish(t) /\ UNCHANGED buffer
       \/ UNCHANGED buffer /\ \E do \in EmitDos : \E job : Continue(t, do, job, "") /\ Follows(t.job, job)
       \/ UNCHANGED buffer /\ Owner(t.job) /\ Continue(t, "Set", t.job, "paused")
       \/ UNCHANGED buffer /\ \E job : Continue(t, "Process", job, "") /\ Found(t, job)
       \/ \E job : ProcessDebounce(t, job) /\ Found(t, job)

LEMMA DecideEmits ==
    ASSUME NEW t, DOMAIN t.job = JobFields, t.do \in EmitDos, NEW b \in DOMAIN bots, Decide(t, b),
           UNCHANGED <<bots, sessions, spoke, config>>
    PROVE  Emitted(t)
  <1> DEFINE job == [t.job EXCEPT !.bot = b, !.sess = Current(@)]
  <1>1. /\ DOMAIN job = JobFields /\ job.bot = b /\ job.mine = t.job.mine
        /\ job.sess = Current(t.job.sess)
    BY DEF JobFields
  <1>2. Current(t.job.sess) \in {t.job.sess, NoSession}
    BY DEF Current
  <1>3. \/ Owner(t.job) /\ Continue(t, "Set", t.job, "paused") /\ UNCHANGED buffer
        \/ Finish(t) /\ UNCHANGED buffer
        \/ (t.job.mine => On("listen")) /\ ProcessDebounce(t, job)
        \/ (t.job.mine => On("listen")) /\ Continue(t, "Process", job, "") /\ UNCHANGED buffer
    BY DEF Decide, Owner
  <1> HIDE DEF job
  <1>4. Follows(t.job, job)
    BY <1>1, <1>2 DEF Follows
  <1>5. (t.job.mine => On("listen")) => Found(t, job)
    BY <1>1, <1>4 DEF Found
  <1>. QED BY <1>3, <1>5 DEF Emitted

EmitActions(t) == EmitSettings(t) \/ EmitSession(t) \/ EmitBot(t) \/ EmitFallback(t)

LEMMA EmitEmits ==
    ASSUME LostInv, NEW t \in Work, EmitActions(t)
    PROVE  Emitted(t)
  <1>1. DOMAIN t.job = JobFields
    BY DEF LostInv, TasksInv, IsJob
  <1>2. Follows(t.job, t.job)
    BY <1>1 DEF Follows
  <1>3. UNCHANGED <<bots, sessions, spoke, config>> /\ t.do \in EmitDos
    BY DEF EmitActions, EmitSettings, EmitSession, EmitBot, EmitFallback, EmitDos
  <1>4. CASE EmitSettings(t)
    <2>1. UNCHANGED buffer /\ (Finish(t) \/ Continue(t, "Session", t.job, ""))
      BY <1>4 DEF EmitSettings
    <2>. QED BY <1>2, <1>3, <2>1 DEF Emitted, EmitDos
  <1>5. CASE EmitSession(t)
    <2> DEFINE job == [t.job EXCEPT !.sess = GetSession(t.job.name)]
    <2>1. DOMAIN job = JobFields /\ job.mine = t.job.mine /\ job.sess = GetSession(t.job.name)
      BY <1>1 DEF JobFields
    <2>2. Continue(t, "Bot", job, "") /\ UNCHANGED buffer
      BY <1>5 DEF EmitSession
    <2> HIDE DEF job
    <2>3. Follows(t.job, job)
      BY <2>1 DEF Follows
    <2>. QED BY <1>3, <2>2, <2>3 DEF Emitted, EmitDos
  <1>6. CASE EmitBot(t)
    <2>1. CASE Continue(t, "Fallback", t.job, "") /\ UNCHANGED buffer
      BY <1>2, <1>3, <2>1 DEF Emitted, EmitDos
    <2>2. FindBotTrigger(t.job) \subseteq DOMAIN bots
      BY DEF FindBotTrigger, FindBotByTrigger
    <2>3. CASE \E b \in FindBotTrigger(t.job) : Decide(t, b)
      BY <1>1, <1>3, <2>2, <2>3, DecideEmits
    <2>. QED BY <1>6, <2>1, <2>3 DEF EmitBot
  <1>7. CASE EmitFallback(t)
    <2>1. CASE \E b \in DOMAIN bots : Decide(t, b)
      BY <1>1, <1>3, <2>1, DecideEmits
    <2>2. CASE Finish(t) /\ UNCHANGED buffer
      BY <1>3, <2>2 DEF Emitted
    <2>. QED BY <1>7, <2>1, <2>2 DEF EmitFallback
  <1>. QED BY <1>4, <1>5, <1>6, <1>7 DEF EmitActions

-----------------------------------------------------------------------------
(* The ids stay apart *)

LEMMA ContinueFacts ==
    ASSUME TasksInv, NEW t \in Work, NEW do, NEW job, NEW arg, Continue(t, do, job, arg)
    PROVE  Work' \subseteq Work \cup {Task(do, job, arg)}
  <1>1. Replace(t, {Task(do, job, arg)})
    BY DEF Continue
  <1>. QED BY <1>1, ReplaceFacts

LEMMA FinishFacts ==
    ASSUME TasksInv, NEW t \in Work, Finish(t)
    PROVE  Work' \subseteq Work
  <1>1. Replace(t, {})
    BY DEF Finish
  <1>. QED BY <1>1, ReplaceFacts

LEMMA FollowsTaken ==
    ASSUME IdInv, NEW t \in Work, NEW job, Follows(t.job, job)
    PROVE  job.sess.id \in Ids
  <1>1. t.job.sess.id \in Ids /\ NoSession.id \in Ids /\ \A s \in sessions : s.id \in Ids
    BY DEF Ids, NoSession
  <1>. QED BY <1>1, GetSessionFacts DEF Follows

LEMMA ServedIds ==
    ASSUME LostInv, IdInv, NEW t \in Work, Served(t)
    PROVE  IdInv'
  <1>1. /\ TasksInv /\ RowsInv /\ DOMAIN t.job = JobFields
        /\ \A s \in sessions : s.id \in Ids
        /\ \A u \in Work : u.job.sess.id \in Ids
        /\ \A k \in Kinds : buffer[k] # NoBuffer => buffer[k].job.sess.id \in Ids
    BY DEF LostInv, IdInv, Ids, TasksInv, IsJob
  <1>2. buffer' = buffer /\ Kinds' = Kinds
    BY DEF Served, Kinds
  <1>3. ASSUME Marks(t)
        PROVE  RowsInv' /\ \A s \in sessions' : s.id \in Ids
    <2>1. Descends
      BY <1>1, <1>3, LosesFacts, MarksFacts DEF Marks
    <2>. QED BY <1>1, <2>1 DEF Descends
  <1>4. CASE Finish(t) /\ Marks(t)
    <2>1. Work' \subseteq Work
      BY <1>1, <1>4, FinishFacts
    <2>. QED BY <1>1, <1>2, <1>3, <1>4, <2>1, IdsStay DEF Taking
  <1>5. CASE \E do, arg : Continue(t, do, t.job, arg) /\ Fits(t, do, t.job, arg) /\ Marks(t)
    <2>1. PICK do, arg : Continue(t, do, t.job, arg)
      BY <1>5
    <2>2. Work' \subseteq Work \cup {Task(do, t.job, arg)}
      BY <1>1, <2>1, ContinueFacts
    <2>3. \A u \in Work' : u.job.sess.id \in Ids
      BY <1>1, <2>2 DEF Task
    <2>. QED BY <1>1, <1>2, <1>3, <1>5, <2>3, IdsStay DEF Taking
  <1>6. CASE \E do, arg : /\ Continue(t, do, InSession(t.job), arg)
                          /\ Fits(t, do, InSession(t.job), arg) /\ Opens(t)
    <2>1. PICK do, arg : Continue(t, do, InSession(t.job), arg)
      BY <1>6
    <2>2. Work' \subseteq Work \cup {Task(do, InSession(t.job), arg)}
      BY <1>1, <2>1, ContinueFacts
    <2>3. InSession(t.job).sess.id = NewId
      BY <1>1, InSessionFacts
    <2>4. \A u \in Work' : u.job.sess.id \in Ids \/ u.job.sess.id = NewId
      BY <1>1, <2>2, <2>3 DEF Task
    <2>5. /\ RowsInv'
          /\ \A s \in sessions' : s \in sessions \/ s.id = NewId
      BY <1>6, OpensFacts DEF Opens
    <2>6. PICK m : m = NewId
      OBVIOUS
    <2>. QED BY <1>1, <1>2, <2>4, <2>5, <2>6, IdsStay DEF Taking
  <1>. QED BY <1>4, <1>5, <1>6 DEF Served

\* What waits for the debounce is what was waiting, or the job of the callback that joins it.
LEMMA MergesFacts ==
    ASSUME LostInv, NEW t \in Work, NEW job, DOMAIN job = JobFields, ProcessDebounce(t, job)
    PROVE  /\ Work' \subseteq Work
           /\ \A k \in Kinds : \/ buffer'[k] = buffer[k]
                               \/ /\ buffer'[k].job.sess = job.sess
                                  /\ buffer'[k].job.mine = job.mine
                                  /\ buffer'[k].job.bot = job.bot
  <1> DEFINE h == job.kind
             row == [msgs |-> buffer[h].msgs \cup job.msgs,
                     job |-> [job EXCEPT !.text = IF buffer[h] = NoBuffer THEN @ ELSE "other"]]
  <1>1. Replace(t, {}) /\ buffer' = [buffer EXCEPT ![h] = row] /\ TasksInv /\ DOMAIN buffer = Kinds
    BY DEF ProcessDebounce, LostInv, BufferInv
  <1>2. row.job.sess = job.sess /\ row.job.mine = job.mine /\ row.job.bot = job.bot
    BY DEF JobFields
  <1> HIDE DEF row
  <1>3. Work' \subseteq Work
    BY <1>1, ReplaceFacts
  <1>4. \A k \in Kinds : buffer'[k] = IF k = h THEN row ELSE buffer[k]
    BY <1>1
  <1>. QED BY <1>2, <1>3, <1>4

LEMMA EmittedIds ==
    ASSUME LostInv, IdInv, NEW t \in Work, Emitted(t)
    PROVE  IdInv'
  <1>1. /\ TasksInv /\ RowsInv
        /\ \A s \in sessions : s.id \in Ids
        /\ \A u \in Work : u.job.sess.id \in Ids
        /\ \A k \in Kinds : buffer[k] # NoBuffer => buffer[k].job.sess.id \in Ids
    BY DEF LostInv, IdInv, Ids
  <1>2. sessions' = sessions /\ Kinds' = Kinds
    BY DEF Emitted, Kinds
  <1>3. RowsInv'
    BY <1>1, <1>2 DEF RowsInv
  <1>4. CASE /\ \A u \in Work' : u.job.sess.id \in Ids
             /\ \A k \in Kinds : buffer'[k] # NoBuffer => buffer'[k].job.sess.id \in Ids
    BY <1>1, <1>2, <1>3, <1>4, IdsStay DEF Taking
  <1>5. CASE Finish(t) /\ UNCHANGED buffer
    <2>1. Work' \subseteq Work
      BY <1>1, <1>5, FinishFacts
    <2>. QED BY <1>1, <1>4, <1>5, <2>1
  <1>6. CASE UNCHANGED buffer /\ \E do, job, arg : Continue(t, do, job, arg) /\ job.sess.id \in Ids
    <2>1. PICK do, job, arg : Continue(t, do, job, arg) /\ job.sess.id \in Ids
      BY <1>6
    <2>2. Work' \subseteq Work \cup {Task(do, job, arg)}
      BY <1>1, <2>1, ContinueFacts
    <2>3. \A u \in Work' : u.job.sess.id \in Ids
      BY <1>1, <2>1, <2>2 DEF Task
    <2>. QED BY <1>1, <1>4, <1>6, <2>3
  <1>7. ASSUME NEW job, ProcessDebounce(t, job), Found(t, job)
        PROVE  IdInv'
    <2>1. job.sess.id \in Ids /\ DOMAIN job = JobFields
      BY <1>7, FollowsTaken DEF Found, Follows
    <2>2. /\ Work' \subseteq Work
          /\ \A k \in Kinds : buffer'[k] = buffer[k] \/ buffer'[k].job.sess = job.sess
      BY <1>7, <2>1, MergesFacts
    <2>. QED BY <1>1, <1>4, <2>1, <2>2
  <1>8. \A job : Follows(t.job, job) \/ Found(t, job) => job.sess.id \in Ids
    BY FollowsTaken DEF Found
  <1>. QED BY <1>1, <1>5, <1>6, <1>7, <1>8 DEF Emitted

-----------------------------------------------------------------------------
(* The other steps *)

Wrote(t) ==
    /\ t.do \in {"WriteBot", "WriteIgnore", "DeleteBot"}
    /\ Finish(t) /\ UNCHANGED <<sessions, buffer, spoke, config>>
    /\ \/ DOMAIN bots \subseteq DOMAIN bots'
       \/ t.do = "DeleteBot" /\ DOMAIN bots' = DOMAIN bots \ {t.job.bot}

LEMMA WriteWrites ==
    ASSUME NEW t, WriteBot(t) \/ DeleteBotRow(t) \/ WriteIgnore(t)
    PROVE  Wrote(t)
  <1>1. CASE WriteBot(t)
    BY <1>1 DEF WriteBot, Wrote
  <1>2. CASE DeleteBotRow(t)
    BY <1>2 DEF DeleteBotRow, Wrote
  <1>3. CASE WriteIgnore(t)
    BY <1>3 DEF WriteIgnore, Wrote
  <1>. QED BY <1>1, <1>2, <1>3

Posted ==
    /\ Quiet /\ UNCHANGED <<bots, sessions, buffer, spoke, config>>
    /\ \E new : /\ tasks' = tasks (+) SetToBag(new)
                /\ \A u \in new : /\ u.do = "Settings" /\ u.job.sess = NoSession
                                  /\ u.job.mine => Idle
                                  /\ \A v \in new : u.job.mine = v.job.mine

LEMMA MessagePosts ==
    ASSUME NEW name, Message(name)
    PROVE  Posted
  <1>1. PICK text, mine :
            /\ mine \in IF Idle THEN BOOLEAN ELSE {FALSE}
            /\ tasks' = tasks (+) SetToBag({Task("Settings",
                [kind |-> k, name |-> name, msgs |-> {count'.messages}, text |-> text,
                 mine |-> mine, sess |-> NoSession, bot |-> 0], "") : k \in Kinds})
    BY DEF Message
  <1>0. PICK n : n = count'.messages
    OBVIOUS
  <1> DEFINE F(k) == Task("Settings",
                [kind |-> k, name |-> name, msgs |-> {n}, text |-> text,
                 mine |-> mine, sess |-> NoSession, bot |-> 0], "")
             new == {F(k) : k \in Kinds}
  <1>2. tasks' = tasks (+) SetToBag(new)
    BY <1>0, <1>1
  <1>3. \A k : F(k).do = "Settings" /\ F(k).job.sess = NoSession /\ F(k).job.mine = mine
    BY DEF Task
  <1>4. \A u \in new : \E k \in Kinds : u = F(k)
    OBVIOUS
  <1> HIDE DEF F, new
  <1>5. mine => Idle
    BY <1>1
  <1>6. \A u \in new : u.do = "Settings" /\ u.job.sess = NoSession /\ u.job.mine = mine
    BY <1>3, <1>4
  <1>7. Quiet /\ UNCHANGED <<bots, sessions, buffer, spoke, config>>
    BY DEF Message
  <1>. QED BY <1>2, <1>5, <1>6, <1>7 DEF Posted

\* A request starts nothing, or a callback of its own.
Asks(do, job, arg) ==
    /\ job.sess = NoSession /\ ~ job.mine
    /\ \/ do \in {"WriteBot", "WriteIgnore"}
       \/ do = "Process" /\ job.bot \in DOMAIN bots /\ arg = ""
       \/ do = "DeleteBot" /\ \A s \in sessions' : s.bot # job.bot

Requested ==
    /\ Idle /\ UNCHANGED <<bots, buffer, spoke, config>>
    /\ \/ sessions' \subseteq sessions
       \/ \E rows \in SUBSET sessions : \E status : sessions' = WithStatus(rows, status)
    /\ \/ UNCHANGED tasks
       \/ \E do, job, arg : /\ tasks' = tasks (+) SetToBag({Task(do, job, arg)})
                            /\ Asks(do, job, arg)

LEMMA RequestRequests ==
    ASSUME Request
    PROVE  Requested
  <1>1. Idle /\ UNCHANGED <<bots, buffer, spoke, config>>
    BY DEF Request, CreateBot, SaveSettings, IgnoreJid, UpdateBot, DeleteBot, StartBot,
           ChangeStatus, Asked
  <1>3. CASE \E k \in Kinds, name \in Names : CreateBot(k, name)
    <2>1. PICK k, name, b, trigger :
              tasks' = tasks (+) SetToBag({Task("WriteBot", BotJob(k, name, b, trigger), trigger)})
      BY <1>3 DEF CreateBot
    <2>2. PICK job : job = BotJob(k, name, b, trigger)
      OBVIOUS
    <2>3. Asks("WriteBot", job, trigger)
      <3>1. job.sess = NoSession /\ job.mine = FALSE /\ job.bot = b
        BY <2>2 DEF BotJob
      <3>. QED BY <3>1 DEF Asks
    <2>4. sessions' \subseteq sessions
      BY <1>3 DEF CreateBot
    <2>. QED BY <1>1, <2>1, <2>2, <2>3, <2>4 DEF Requested
  <1>4. CASE \E k \in Kinds, name \in Names : SaveSettings(k, name)
    <2>1. UNCHANGED <<sessions, tasks>>
      BY <1>4 DEF SaveSettings
    <2>. QED BY <1>1, <2>1 DEF Requested
  <1>5. CASE \E k \in Kinds, name \in Names : IgnoreJid(k, name)
    <2>1. PICK k, name, arg :
              tasks' = tasks (+) SetToBag({Task("WriteIgnore", BotJob(k, name, 0, ""), arg)})
      BY <1>5 DEF IgnoreJid
    <2>2. PICK job : job = BotJob(k, name, 0, "")
      OBVIOUS
    <2>3. Asks("WriteIgnore", job, arg)
      <3>1. job.sess = NoSession /\ job.mine = FALSE /\ job.bot = 0
        BY <2>2 DEF BotJob
      <3>. QED BY <3>1 DEF Asks
    <2>4. sessions' \subseteq sessions
      BY <1>5 DEF IgnoreJid
    <2>. QED BY <1>1, <2>1, <2>2, <2>3, <2>4 DEF Requested
  <1>6. CASE \E b \in DOMAIN bots : UpdateBot(b)
    <2>1. PICK b, trigger : tasks' = tasks (+) SetToBag({Task("WriteBot",
                          BotJob(bots[b].kind, bots[b].name, b, trigger), trigger)})
      BY <1>6 DEF UpdateBot
    <2>2. PICK job : job = BotJob(bots[b].kind, bots[b].name, b, trigger)
      OBVIOUS
    <2>3. Asks("WriteBot", job, trigger)
      <3>1. job.sess = NoSession /\ job.mine = FALSE /\ job.bot = b
        BY <2>2 DEF BotJob
      <3>. QED BY <3>1 DEF Asks
    <2>4. sessions' \subseteq sessions
      BY <1>6 DEF UpdateBot
    <2>. QED BY <1>1, <2>1, <2>2, <2>3, <2>4 DEF Requested
  <1>7. CASE \E b \in DOMAIN bots : DeleteBot(b)
    <2>1. PICK b \in DOMAIN bots : DeleteBot(b)
      BY <1>7
    <2>2. PICK job : job = BotJob(bots[b].kind, bots[b].name, b, "")
      OBVIOUS
    <2>3. /\ tasks' = tasks (+) SetToBag({Task("DeleteBot", job, "")})
          /\ sessions' = {s \in sessions : s.bot # b}
      BY <2>1, <2>2 DEF DeleteBot
    <2>4. Asks("DeleteBot", job, "")
      <3>1. job.sess = NoSession /\ job.mine = FALSE /\ job.bot = b
        BY <2>2 DEF BotJob
      <3>. QED BY <3>1, <2>3 DEF Asks
    <2>. QED BY <1>1, <2>3, <2>4 DEF Requested
  <1>8. CASE \E b \in DOMAIN bots : StartBot(b)
    <2>1. PICK b \in DOMAIN bots : StartBot(b)
      BY <1>8
    <2>2. PICK job : job = BotJob("typebot", bots[b].name, b, "")
      OBVIOUS
    <2>3. /\ tasks' = tasks (+) SetToBag({Task("Process", job, "")})
          /\ sessions' \subseteq sessions
      BY <2>1, <2>2 DEF StartBot
    <2>4. Asks("Process", job, "")
      <3>1. job.sess = NoSession /\ job.mine = FALSE /\ job.bot = b
        BY <2>2 DEF BotJob
      <3>. QED BY <3>1 DEF Asks
    <2>. QED BY <1>1, <2>3, <2>4 DEF Requested
  <1>9. CASE \E name \in Names : ChangeStatus(name)
    <2>1. UNCHANGED tasks
      BY <1>9 DEF ChangeStatus
    <2>2. \/ sessions' \subseteq sessions
          \/ sessions' = WithStatus(sessions, "closed")
          \/ \E name, status : sessions' = WithStatus({s \in sessions : s.name = name}, status)
      BY <1>9 DEF ChangeStatus
    <2>3. \A name : {s \in sessions : s.name = name} \in SUBSET sessions
      OBVIOUS
    <2>. QED BY <1>1, <2>1, <2>2, <2>3 DEF Requested
  <1>. QED BY <1>3, <1>4, <1>5, <1>6, <1>7, <1>8, <1>9 DEF Request

\* The callback of the debounce is a task with the job that waited.
LEMMA TimeoutFacts ==
    ASSUME LostInv, NEW h \in Kinds, DebounceTimeout(h)
    PROVE  /\ buffer[h] # NoBuffer /\ Quiet /\ UNCHANGED <<bots, sessions, spoke, config>>
           /\ \A k \in Kinds : buffer'[k] \in {buffer[k], NoBuffer}
           /\ \E new : /\ Work' = Work \cup {new} /\ new.do = "Process" /\ new.arg = ""
                       /\ new.job.sess = buffer[h].job.sess
                       /\ new.job.mine = buffer[h].job.mine
                       /\ new.job.bot = buffer[h].job.bot
  <1> DEFINE job == [buffer[h].job EXCEPT !.msgs = buffer[h].msgs]
             new == Task("Process", job, "")
  <1>1. /\ buffer[h] # NoBuffer /\ Quiet /\ UNCHANGED <<bots, sessions, spoke, config>>
        /\ buffer' = [buffer EXCEPT ![h] = NoBuffer]
        /\ tasks' = tasks (+) SetToBag({new})
    BY DEF DebounceTimeout
  <1>2. IsJob(buffer[h].job) /\ DOMAIN buffer = Kinds
    BY <1>1 DEF LostInv, BufferInv
  <1>3. /\ new.do = "Process" /\ new.arg = ""
        /\ new.job.sess = buffer[h].job.sess
        /\ new.job.mine = buffer[h].job.mine
        /\ new.job.bot = buffer[h].job.bot
    BY <1>2 DEF Task, IsJob, JobFields
  <1> HIDE DEF new
  <1>4. Work' = Work \cup {new}
    BY <1>1, AddFacts DEF LostInv
  <1>. QED BY <1>1, <1>2, <1>3, <1>4

LEMMA RequestTasks ==
    ASSUME LostInv, Requested
    PROVE  \/ Work' = Work
           \/ \E do, job, arg : Work' = Work \cup {Task(do, job, arg)} /\ Asks(do, job, arg)
  <1>1. CASE UNCHANGED tasks
    BY <1>1 DEF Work
  <1>2. CASE \E do, job, arg : /\ tasks' = tasks (+) SetToBag({Task(do, job, arg)})
                               /\ Asks(do, job, arg)
    <2>1. PICK do, job, arg : /\ tasks' = tasks (+) SetToBag({Task(do, job, arg)})
                              /\ Asks(do, job, arg)
      BY <1>2
    <2>2. Work' = Work \cup {Task(do, job, arg)}
      BY <2>1, AddFacts DEF LostInv
    <2>. QED BY <2>1, <2>2
  <1>. QED BY <1>1, <1>2 DEF Requested

\* What Next is made of.
LEMMA StepsOf ==
    ASSUME LostInv, Next
    PROVE  \/ \E t \in Work : Emitted(t) \/ Served(t) \/ Wrote(t)
           \/ Posted \/ Requested \/ \E h \in Kinds : DebounceTimeout(h)
  <1>1. CASE EmitStep
    BY <1>1, EmitEmits DEF EmitStep, EmitActions
  <1>2. CASE ServiceStep
    BY <1>2, ServiceServes DEF ServiceStep, ServiceActions
  <1>3. CASE WriteStep
    BY <1>3, WriteWrites DEF WriteStep
  <1>4. CASE \E name \in Names : Message(name)
    BY <1>4, MessagePosts
  <1>5. CASE Timeout \/ Request
    BY <1>5, RequestRequests DEF Timeout
  <1>. QED BY <1>1, <1>2, <1>3, <1>4, <1>5 DEF Next

LEMMA ConfigStays ==
    ASSUME LostInv, [Next]_vars
    PROVE  config' = config
  BY StepsOf, TimeoutFacts DEF Emitted, Served, Wrote, Posted, Requested, vars

LEMMA OtherIds ==
    ASSUME LostInv, IdInv, RowsInv', \A s \in sessions' : s.id \in Ids,
           Kinds' = Kinds,
           \A u \in Work' : u.job.sess.id \in Ids,
           \A k \in Kinds : \/ buffer'[k] = buffer[k] \/ buffer'[k] = NoBuffer
    PROVE  IdInv'
  <1>1. \A k \in Kinds : buffer[k] # NoBuffer => buffer[k].job.sess.id \in Ids
    BY DEF Ids
  <1>. QED BY <1>1, IdsStay DEF Taking

LEMMA IdInvNext ==
    ASSUME LostInv, IdInv, [Next]_vars
    PROVE  IdInv'
  <1>1. /\ TasksInv /\ RowsInv
        /\ 0 \in Ids /\ NoSession.id = 0
        /\ \A s \in sessions : s.id \in Ids
        /\ \A u \in Work : u.job.sess.id \in Ids
        /\ \A k \in Kinds : buffer[k] # NoBuffer => buffer[k].job.sess.id \in Ids
    BY DEF LostInv, IdInv, Ids, NoSession
  <1>2. CASE UNCHANGED vars
    <2>1. Ids' = Ids /\ sessions' = sessions
      BY <1>2 DEF vars, Ids, Work, Kinds
    <2>. QED BY <2>1 DEF IdInv, RowsInv
  <1>3. CASE \E t \in Work : Emitted(t)
    BY <1>3, EmittedIds
  <1>4. CASE \E t \in Work : Served(t)
    BY <1>4, ServedIds
  <1>5. ASSUME NEW t \in Work, Wrote(t)
        PROVE  IdInv'
    <2>1. /\ Work' \subseteq Work /\ Kinds' = Kinds /\ buffer' = buffer
          /\ sessions' = sessions
      BY <1>1, <1>5, FinishFacts DEF Wrote, Kinds
    <2>2. RowsInv'
      BY <1>1, <2>1 DEF RowsInv
    <2>. QED BY <1>1, <2>1, <2>2, OtherIds
  <1>6. CASE Posted
    <2>1. PICK new : /\ tasks' = tasks (+) SetToBag(new)
                     /\ \A u \in new : u.job.sess = NoSession
      BY <1>6 DEF Posted
    <2>2. Work' = Work \cup new
      BY <1>1, <2>1, AddFacts
    <2>3. Kinds' = Kinds /\ buffer' = buffer /\ sessions' = sessions
      BY <1>6 DEF Posted, Kinds
    <2>4. RowsInv'
      BY <1>1, <2>3 DEF RowsInv
    <2>. QED BY <1>1, <2>1, <2>2, <2>3, <2>4, OtherIds
  <1>7. ASSUME NEW h \in Kinds, DebounceTimeout(h)
        PROVE  IdInv'
    <2>1. /\ buffer[h] # NoBuffer /\ sessions' = sessions /\ config' = config
          /\ \A k \in Kinds : buffer'[k] \in {buffer[k], NoBuffer}
      BY <1>7, TimeoutFacts
    <2>2. PICK new : Work' = Work \cup {new} /\ new.job.sess = buffer[h].job.sess
      BY <1>7, TimeoutFacts
    <2>3. \A u \in Work' : u.job.sess.id \in Ids
      BY <1>1, <2>1, <2>2
    <2>4. RowsInv' /\ Kinds' = Kinds
      BY <1>1, <2>1 DEF RowsInv, Kinds
    <2>. QED BY <1>1, <2>1, <2>3, <2>4, OtherIds
  <1>8. CASE Requested
    <2>1. Descends
      BY <1>1, <1>8, LosesFacts, MarksFacts DEF Requested
    <2>2. RowsInv' /\ \A s \in sessions' : s.id \in Ids
      BY <1>1, <2>1 DEF Descends
    <2>3. Kinds' = Kinds /\ buffer' = buffer
      BY <1>8 DEF Requested, Kinds
    <2>4. \A do, job, arg : Asks(do, job, arg) => Task(do, job, arg).job.sess = NoSession
      BY DEF Asks, Task
    <2>5. \A u \in Work' : u \in Work \/ u.job.sess = NoSession
      BY <1>8, <2>4, RequestTasks
    <2>. QED BY <1>1, <2>2, <2>3, <2>5, OtherIds
  <1>. QED BY <1>2, <1>3, <1>4, <1>5, <1>6, <1>7, <1>8, StepsOf

-----------------------------------------------------------------------------
(* Every session has its bot *)

\* With messages and requests one at a time: a bot is deleted when nothing else is in flight.
BotInv ==
    On("serial") =>
        /\ \A s \in sessions : s.bot \in DOMAIN bots
        /\ \A t \in Work : Serving(t) => t.job.bot \in DOMAIN bots
        /\ \A k \in Kinds : buffer[k] # NoBuffer => buffer[k].job.bot \in DOMAIN bots
        /\ \A t \in Work : t.do = "DeleteBot" =>
              /\ Work = {t}
              /\ \A k \in Kinds : buffer[k] = NoBuffer
              /\ \A s \in sessions : s.bot # t.job.bot

\* The callback of a deletion is alone; the others' steps leave the bots as they are.
LEMMA BotsStay ==
    ASSUME BotInv, On("serial"), UNCHANGED <<bots, config>>,
           \A s \in sessions' : s.bot \in DOMAIN bots,
           \A u \in Work' : \/ u \in Work
                            \/ /\ u.do # "DeleteBot"
                               /\ Serving(u) => u.job.bot \in DOMAIN bots,
           \A k \in Kinds : \/ buffer'[k] \in {buffer[k], NoBuffer}
                            \/ buffer'[k].job.bot \in DOMAIN bots,
           \A t \in Work : t.do # "DeleteBot"
    PROVE  BotInv'
  <1>1. Kinds' = Kinds /\ On("serial")' = On("serial")
    BY DEF Kinds, On
  <1>2. \A u \in Work' : /\ Serving(u) => u.job.bot \in DOMAIN bots
                         /\ u.do # "DeleteBot"
    BY DEF BotInv
  <1>3. \A k \in Kinds : buffer'[k] # NoBuffer => buffer'[k].job.bot \in DOMAIN bots
    BY DEF BotInv
  <1>. QED BY <1>1, <1>2, <1>3 DEF BotInv, Serving, Pauses

LEMMA NothingWaits ==
    ASSUME On("serial"), Quiet
    PROVE  Work = {}
  <1>1. tasks = EmptyBag
    BY DEF Quiet
  <1>. QED BY <1>1, NoTasks DEF Work

LEMMA NothingIsIdle ==
    ASSUME On("serial"), Idle
    PROVE  Work = {} /\ \A k \in Kinds : buffer[k] = NoBuffer
  BY NothingWaits DEF Idle, Quiet

LEMMA ServedBots ==
    ASSUME LostInv, IdInv, BotInv, On("serial"), NEW t \in Work, Served(t)
    PROVE  BotInv'
  <1>1. TasksInv /\ RowsInv /\ DOMAIN t.job = JobFields
    BY DEF LostInv, IdInv, TasksInv, IsJob
  <1>2. UNCHANGED <<bots, buffer, config>> /\ t.do # "DeleteBot"
    BY DEF Served, ServiceDos
  <1>3. \A u \in Work : u.do # "DeleteBot"
    BY <1>2 DEF BotInv
  <1>4. \A s \in sessions : s.bot \in DOMAIN bots
    BY DEF BotInv
  <1>5. Serving(t) => t.job.bot \in DOMAIN bots
    BY DEF BotInv
  <1>6. ASSUME Marks(t)
        PROVE  \A s \in sessions' : s.bot \in DOMAIN bots
    <2>1. Descends
      BY <1>1, <1>6, LosesFacts, MarksFacts DEF Marks
    <2>. QED BY <1>4, <2>1 DEF Descends
  <1>7. CASE Finish(t) /\ Marks(t)
    <2>1. Work' \subseteq Work
      BY <1>1, <1>7, FinishFacts
    <2>. QED BY <1>2, <1>3, <1>6, <1>7, <2>1, BotsStay
  <1>8. CASE \E do, arg : Continue(t, do, t.job, arg) /\ Fits(t, do, t.job, arg) /\ Marks(t)
    <2>1. PICK do, arg : Continue(t, do, t.job, arg) /\ Fits(t, do, t.job, arg)
      BY <1>8
    <2>2. Work' \subseteq Work \cup {Task(do, t.job, arg)}
      BY <1>1, <2>1, ContinueFacts
    <2>3. do # "DeleteBot" /\ t.job.bot \in DOMAIN bots
      BY <1>5, <2>1 DEF Fits, ServiceDos
    <2>4. \A u \in Work' : u \in Work \/ (u.do # "DeleteBot" /\ u.job.bot \in DOMAIN bots)
      BY <2>2, <2>3 DEF Task
    <2>. QED BY <1>2, <1>3, <1>6, <1>8, <2>4, BotsStay
  <1>9. CASE \E do, arg : /\ Continue(t, do, InSession(t.job), arg)
                          /\ Fits(t, do, InSession(t.job), arg) /\ Opens(t)
    <2>1. PICK do, arg : /\ Continue(t, do, InSession(t.job), arg)
                         /\ Fits(t, do, InSession(t.job), arg)
      BY <1>9
    <2>2. Work' \subseteq Work \cup {Task(do, InSession(t.job), arg)}
      BY <1>1, <2>1, ContinueFacts
    <2>3. do # "DeleteBot" /\ t.job.bot \in DOMAIN bots
      BY <1>5, <2>1 DEF Fits, ServiceDos
    <2>4. InSession(t.job).bot = t.job.bot
      BY <1>1, InSessionFacts
    <2>5. \A u \in Work' : u \in Work \/ (u.do # "DeleteBot" /\ u.job.bot \in DOMAIN bots)
      BY <2>2, <2>3, <2>4 DEF Task
    <2>6. \A s \in sessions' : s \in sessions \/ s.bot = t.job.bot
      BY <1>9, OpensFacts DEF Opens
    <2>. QED BY <1>2, <1>3, <1>4, <2>3, <2>5, <2>6, BotsStay
  <1>. QED BY <1>7, <1>8, <1>9 DEF Served

LEMMA EmittedBots ==
    ASSUME LostInv, BotInv, On("serial"), NEW t \in Work, Emitted(t)
    PROVE  BotInv'
  <1>1. TasksInv
    BY DEF LostInv
  <1>2. UNCHANGED <<bots, sessions, config>> /\ t.do # "DeleteBot"
    BY DEF Emitted, EmitDos
  <1>3. \A u \in Work : u.do # "DeleteBot"
    BY <1>2 DEF BotInv
  <1>4. \A s \in sessions' : s.bot \in DOMAIN bots
    BY <1>2 DEF BotInv
  <1>5. CASE Finish(t) /\ UNCHANGED buffer
    <2>1. Work' \subseteq Work
      BY <1>1, <1>5, FinishFacts
    <2>. QED BY <1>2, <1>3, <1>4, <1>5, <2>1, BotsStay
  <1>6. ASSUME UNCHANGED buffer, NEW do, NEW job, NEW arg, Continue(t, do, job, arg),
               \/ do \in EmitDos
               \/ do = "Set" /\ arg = "paused"
               \/ do = "Process" /\ job.bot \in DOMAIN bots
        PROVE  BotInv'
    <2> DEFINE new == Task(do, job, arg)
    <2>1. Work' \subseteq Work \cup {new}
      BY <1>1, <1>6, ContinueFacts
    <2>2. new.do # "DeleteBot" /\ (Serving(new) => new.job.bot \in DOMAIN bots)
      BY <1>6 DEF Serving, Pauses, Task, EmitDos, ServiceDos
    <2> HIDE DEF new
    <2>3. \A u \in Work' : \/ u \in Work
                           \/ u.do # "DeleteBot" /\ (Serving(u) => u.job.bot \in DOMAIN bots)
      BY <2>1, <2>2
    <2>. QED BY <1>2, <1>3, <1>4, <1>6, <2>3, BotsStay
  <1>7. ASSUME NEW job, ProcessDebounce(t, job), Found(t, job)
        PROVE  BotInv'
    <2>1. job.bot \in DOMAIN bots /\ DOMAIN job = JobFields
      BY <1>7 DEF Found, Follows
    <2>2. /\ Work' \subseteq Work
          /\ \A k \in Kinds : buffer'[k] = buffer[k] \/ buffer'[k].job.bot = job.bot
      BY <1>7, <2>1, MergesFacts
    <2>. QED BY <1>2, <1>3, <1>4, <2>1, <2>2, BotsStay
  <1>8. ASSUME UNCHANGED buffer, NEW do \in EmitDos, NEW job, Continue(t, do, job, "")
        PROVE  BotInv'
    BY <1>6, <1>8
  <1>9. ASSUME UNCHANGED buffer, Continue(t, "Set", t.job, "paused")
        PROVE  BotInv'
    BY <1>6, <1>9
  <1>10. ASSUME UNCHANGED buffer, NEW job, Continue(t, "Process", job, ""), Found(t, job)
         PROVE  BotInv'
    BY <1>6, <1>10 DEF Found
  <1>. QED BY <1>5, <1>7, <1>8, <1>9, <1>10 DEF Emitted

LEMMA WroteBots ==
    ASSUME LostInv, BotInv, On("serial"), NEW t \in Work, Wrote(t)
    PROVE  BotInv'
  <1>1. Work' \subseteq Work
    BY FinishFacts DEF LostInv, Wrote
  <1>2. /\ Kinds' = Kinds /\ On("serial")' = On("serial") /\ buffer' = buffer
        /\ sessions' = sessions
    BY DEF Wrote, Kinds, On
  <1>3. /\ \A s \in sessions : s.bot \in DOMAIN bots
        /\ \A u \in Work : Serving(u) => u.job.bot \in DOMAIN bots
        /\ \A k \in Kinds : buffer[k] # NoBuffer => buffer[k].job.bot \in DOMAIN bots
        /\ \A u \in Work : u.do = "DeleteBot" =>
              /\ Work = {u}
              /\ \A k \in Kinds : buffer[k] = NoBuffer
              /\ \A s \in sessions : s.bot # u.job.bot
    BY DEF BotInv
  <1>4. \A u \in Work' : u.do = "DeleteBot" =>
              /\ Work' = {u}
              /\ \A k \in Kinds : buffer[k] = NoBuffer
              /\ \A s \in sessions : s.bot # u.job.bot
    BY <1>1, <1>3
  <1>5. CASE DOMAIN bots \subseteq DOMAIN bots'
    BY <1>1, <1>2, <1>3, <1>4, <1>5 DEF BotInv, Serving, Pauses
  <1>6. CASE t.do = "DeleteBot" /\ DOMAIN bots' = DOMAIN bots \ {t.job.bot}
    <2>1. \A u \in Work' : ~ Serving(u)
      BY <1>1, <1>3, <1>6 DEF Serving, ServiceDos
    <2>2. \A s \in sessions : s.bot \in DOMAIN bots'
      BY <1>3, <1>6
    <2>3. \A k \in Kinds : buffer[k] = NoBuffer
      BY <1>3, <1>6
    <2>. QED BY <1>2, <1>4, <2>1, <2>2, <2>3 DEF BotInv, Serving, Pauses
  <1>. QED BY <1>5, <1>6 DEF Wrote

LEMMA PostedBots ==
    ASSUME LostInv, BotInv, On("serial"), Posted
    PROVE  BotInv'
  <1>1. PICK new : /\ tasks' = tasks (+) SetToBag(new)
                   /\ \A u \in new : u.do = "Settings"
    BY DEF Posted
  <1>2. Work' = Work \cup new
    BY <1>1, AddFacts DEF LostInv
  <1>3. UNCHANGED <<bots, sessions, buffer, config>> /\ Work = {}
    BY NothingWaits DEF Posted
  <1>4. \A u \in new : u.do # "DeleteBot" /\ ~ Serving(u)
    BY <1>1 DEF Serving, ServiceDos
  <1>5. \A s \in sessions' : s.bot \in DOMAIN bots
    BY <1>3 DEF BotInv
  <1>. QED BY <1>2, <1>3, <1>4, <1>5, BotsStay

LEMMA TimeoutBots ==
    ASSUME LostInv, BotInv, On("serial"), NEW h \in Kinds, DebounceTimeout(h)
    PROVE  BotInv'
  <1>1. /\ buffer[h] # NoBuffer /\ Work = {} /\ UNCHANGED <<bots, sessions, config>>
        /\ \A k \in Kinds : buffer'[k] \in {buffer[k], NoBuffer}
    BY TimeoutFacts, NothingWaits
  <1>2. PICK new : /\ Work' = Work \cup {new} /\ new.do = "Process"
                   /\ new.job.bot = buffer[h].job.bot
    BY TimeoutFacts
  <1>3. new.job.bot \in DOMAIN bots /\ \A s \in sessions' : s.bot \in DOMAIN bots
    BY <1>1, <1>2 DEF BotInv
  <1>. QED BY <1>1, <1>2, <1>3, BotsStay

LEMMA RequestedBots ==
    ASSUME LostInv, IdInv, BotInv, On("serial"), Requested
    PROVE  BotInv'
  <1>1. /\ Work = {} /\ \A k \in Kinds : buffer[k] = NoBuffer
        /\ UNCHANGED <<bots, buffer, config>> /\ RowsInv
        /\ \A s \in sessions : s.bot \in DOMAIN bots
    BY NothingIsIdle DEF Requested, IdInv, BotInv
  <1>2. Descends
    BY <1>1, LosesFacts, MarksFacts DEF Requested
  <1>3. \A s \in sessions' : s.bot \in DOMAIN bots
    BY <1>1, <1>2 DEF Descends
  <1>4. CASE Work' = Work
    BY <1>1, <1>3, <1>4, BotsStay
  <1>5. ASSUME NEW do, NEW job, NEW arg, Work' = Work \cup {Task(do, job, arg)},
               Asks(do, job, arg)
        PROVE  BotInv'
    <2> DEFINE new == Task(do, job, arg)
    <2>1. new.do = do /\ new.job = job /\ new.arg = arg
      BY DEF Task
    <2> HIDE DEF new
    <2>2. Work' = {new}
      BY <1>1, <1>5 DEF new
    <2>3. Serving(new) => new.job.bot \in DOMAIN bots
      BY <1>5, <2>1 DEF Asks, Serving, ServiceDos
    <2>4. new.do = "DeleteBot" => \A s \in sessions' : s.bot # new.job.bot
      BY <1>5, <2>1 DEF Asks
    <2>5. Kinds' = Kinds /\ buffer' = buffer /\ DOMAIN bots' = DOMAIN bots
      BY <1>1 DEF Kinds
    <2>. QED BY <1>1, <1>3, <2>2, <2>3, <2>4, <2>5 DEF BotInv, Serving, Pauses
  <1>. QED BY <1>4, <1>5, RequestTasks

LEMMA BotInvNext ==
    ASSUME LostInv, IdInv, BotInv, [Next]_vars
    PROVE  BotInv'
  <1>1. On("serial")' = On("serial")
    BY ConfigStays DEF On
  <1>2. CASE ~ On("serial")
    BY <1>1, <1>2 DEF BotInv
  <1>3. CASE On("serial") /\ UNCHANGED vars
    BY <1>3 DEF BotInv, vars, On, Kinds, Work, Serving, Pauses
  <1>4. CASE On("serial") /\ Next
    BY <1>4, StepsOf, EmittedBots, ServedBots, WroteBots, PostedBots, RequestedBots,
       TimeoutBots
  <1>. QED BY <1>2, <1>3, <1>4

LEMMA InitRows ==
    ASSUME Init
    PROVE  /\ sessions = {} /\ spoke = {} /\ Work = {} /\ config \in Configs
           /\ \A k \in Kinds : buffer[k] = NoBuffer
           /\ IdInv /\ BotInv
  <1>1. sessions = {} /\ spoke = {} /\ config \in Configs /\ buffer = [k \in Kinds |-> NoBuffer]
    BY DEF Init
  <1>2. Work = {}
    BY NoTasks DEF Init, Work
  <1>3. Ids \subseteq 0 .. 0
    BY <1>1, <1>2 DEF Ids
  <1>4. IdInv
    BY <1>1, <1>3 DEF IdInv, RowsInv
  <1>5. BotInv
    BY <1>1, <1>2 DEF BotInv
  <1>. QED BY <1>1, <1>2, <1>4, <1>5

\* With messages and requests one at a time, when nothing is in flight every session has its
\* bot: deleteBot removes the sessions with the bot, no job that waits for the debounce or for
\* an answer has a bot that is gone, and what creates a session creates it for such a bot.
PROPOSITION SessionsHaveBotsHolds == Spec => []SessionsHaveBots
  <1> DEFINE Inv == LostInv /\ IdInv /\ BotInv
  <1>1. Init => Inv
    BY InitLost, InitRows
  <1>2. Inv /\ [Next]_vars => Inv'
    BY LostInvNext, IdInvNext, BotInvNext
  <1>3. Inv => SessionsHaveBots
    BY DEF BotInv, SessionsHaveBots
  <1>. QED BY <1>1, <1>2, <1>3, PTL DEF Spec

-----------------------------------------------------------------------------
(* A bot is silent while the session is paused *)

\* No integration has both settings: the owner's messages either stop the bot or go to it.
StopsOrListens == \A c \in Configs : ~ ({"stop", "listen"} \subseteq c)

\* What the job knows of its session is not out of date.
Safe(job) == job.sess.status # "paused" => \A s \in Row(job.sess.id) : s.status # "paused"
Fine(t) == /\ ~ Owner(t.job) /\ Safe(t.job) /\ ~ Pauses(t)
           /\ Speaks(t.do, t.arg) => t.job.sess.status # "paused"

Answering ==
    /\ \A t \in Work : Fine(t)
    /\ \A k \in Kinds : buffer[k] # NoBuffer => ~ Owner(buffer[k].job) /\ Safe(buffer[k].job)
Stopping ==
    /\ \A t \in Work : Owner(t.job) /\ (t.do \in EmitDos \/ Pauses(t))
    /\ \A k \in Kinds : buffer[k] = NoBuffer

\* With messages one at a time the callbacks are those of a message that bots may answer, or
\* those of one that stops them.
SilentInv == config \in Configs /\ (On("serial") => spoke = {} /\ (Answering \/ Stopping))

LEMMA SafeStays ==
    ASSUME Unpaused, NEW job, Safe(job)
    PROVE  Safe(job)'
  BY DEF Unpaused, Safe, Row

LEMMA SafeWithout ==
    ASSUME RowsInv, NEW job, job.sess = NoSession
    PROVE  Safe(job)
  BY DEF RowsInv, Safe, Row, NoSession

LEMMA SafeFollows ==
    ASSUME IdInv, NEW old, NEW job, Follows(old, job), Safe(old)
    PROVE  Safe(job)
  <1>1. RowsInv
    BY DEF IdInv
  <1>2. CASE job.sess = old.sess
    BY <1>2 DEF Safe
  <1>3. CASE job.sess = NoSession
    BY <1>1, <1>3, SafeWithout
  <1>4. CASE /\ job.sess = GetSession(old.name)
             /\ \E s \in sessions : job.sess.id = s.id /\ job.sess.status = s.status
    BY <1>1, <1>4 DEF RowsInv, Safe, Row
  <1>. QED BY <1>2, <1>3, <1>4, GetSessionFacts DEF Follows

LEMMA AnsweringStays ==
    ASSUME SilentInv, On("serial"), config' = config, spoke' = {}, Unpaused, Answering,
           \A u \in Work' : u \in Work \/ Fine(u)',
           \A k \in Kinds : \/ buffer'[k] \in {buffer[k], NoBuffer}
                            \/ \E job : buffer'[k].job = job /\ ~ Owner(job) /\ Safe(job)'
    PROVE  SilentInv'
  <1>1. Kinds' = Kinds /\ \A job : Owner(job)' <=> Owner(job)
    BY DEF Kinds, On, Owner
  <1>2. \A u \in Work : Fine(u)'
    BY <1>1, SafeStays DEF Answering, Fine, Pauses
  <1>3. ASSUME NEW k \in Kinds, buffer'[k] # NoBuffer
        PROVE  \E job : buffer'[k].job = job /\ ~ Owner(job) /\ Safe(job)'
    BY <1>3, SafeStays DEF Answering
  <1>4. ASSUME NEW k \in Kinds, buffer'[k] # NoBuffer
        PROVE  (~ Owner(buffer[k].job) /\ Safe(buffer[k].job))'
    <2>1. PICK job : buffer'[k].job = job /\ ~ Owner(job) /\ Safe(job)'
      BY <1>3, <1>4
    <2>. QED BY <1>1, <2>1 DEF Safe, Row, Owner, On
  <1>5. Answering'
    BY <1>1, <1>2, <1>4 DEF Answering
  <1>. QED BY <1>5 DEF SilentInv

LEMMA StoppingStays ==
    ASSUME SilentInv, config' = config, spoke' = {},
           \A u \in Work' : Owner(u.job) /\ (u.do \in EmitDos \/ Pauses(u)),
           \A k \in Kinds : buffer'[k] = NoBuffer
    PROVE  SilentInv'
  <1>1. Kinds' = Kinds /\ \A job : Owner(job)' <=> Owner(job)
    BY DEF Kinds, On, Owner
  <1>2. Stopping'
    BY <1>1 DEF Stopping, Pauses, EmitDos
  <1>. QED BY <1>2 DEF SilentInv

LEMMA ServedSilent ==
    ASSUME LostInv, IdInv, SilentInv, On("serial"), NEW t \in Work, Served(t)
    PROVE  SilentInv'
  <1>1. TasksInv /\ RowsInv /\ DOMAIN t.job = JobFields /\ spoke = {}
    BY DEF LostInv, IdInv, TasksInv, IsJob, SilentInv
  <1>2. UNCHANGED <<buffer, config>> /\ t.do \in ServiceDos
    BY DEF Served
  <1>3. CASE Answering
    <2>1. Fine(t)
      BY <1>3 DEF Answering
    <2>2. spoke' = {}
      <3>1. t.do = "Ask" => \A s \in Row(t.job.sess.id) : s.status # "paused"
        BY <2>1 DEF Fine, Speaks, Safe
      <3>. QED BY <1>1, <3>1 DEF Served, Said
    <2>3. Marks(t) => Unpaused
      BY <1>1, <2>1, LosesFacts, MarksFacts DEF Marks, Fine
    <2>4. CASE Finish(t) /\ Marks(t)
      <3>1. Work' \subseteq Work
        BY <1>1, <2>4, FinishFacts
      <3>. QED BY <1>2, <1>3, <2>2, <2>3, <2>4, <3>1, AnsweringStays
    <2>5. CASE \E do, arg : Continue(t, do, t.job, arg) /\ Fits(t, do, t.job, arg) /\ Marks(t)
      <3>1. PICK do, arg : Continue(t, do, t.job, arg) /\ Fits(t, do, t.job, arg)
        BY <2>5
      <3> DEFINE new == Task(do, t.job, arg)
      <3>2. new.do = do /\ new.job = t.job /\ new.arg = arg
        BY DEF Task
      <3>3. Work' \subseteq Work \cup {new}
        BY <1>1, <3>1, ContinueFacts
      <3> HIDE DEF new
      <3>4. ~ Pauses(new) /\ (Speaks(new.do, new.arg) => new.job.sess.status # "paused")
        BY <2>1, <3>1, <3>2 DEF Fits, Pauses, Fine
      <3>5. Safe(new.job)' /\ ~ Owner(new.job)'
        BY <1>2, <2>1, <2>3, <2>5, <3>2, SafeStays DEF Fine, Owner, On
      <3>6. Fine(new)'
        BY <3>4, <3>5 DEF Fine, Pauses
      <3>. QED BY <1>2, <1>3, <2>2, <2>3, <2>5, <3>3, <3>6, AnsweringStays
    <2>6. CASE \E do, arg : /\ Continue(t, do, InSession(t.job), arg)
                            /\ Fits(t, do, InSession(t.job), arg) /\ Opens(t)
      <3>1. PICK do, arg : /\ Continue(t, do, InSession(t.job), arg)
                           /\ Fits(t, do, InSession(t.job), arg)
        BY <2>6
      <3>0. PICK job : job = InSession(t.job)
        OBVIOUS
      <3>2. /\ job.sess.status = "opened" /\ job.sess.id = NewId /\ job.mine = t.job.mine
        BY <1>1, <3>0, InSessionFacts
      <3> DEFINE new == Task(do, job, arg)
      <3>3. new.do = do /\ new.job = job /\ new.arg = arg
        BY DEF Task
      <3>4. Work' \subseteq Work \cup {new}
        BY <1>1, <3>0, <3>1, ContinueFacts
      <3> HIDE DEF new
      <3>5. Unpaused
        BY <2>6, OpensFacts DEF Opens
      <3>6. \A s \in sessions : s.id # NewId
        <4>1. \A s \in sessions : s.id \in Ids
          BY DEF Ids
        <4>. QED BY <4>1, NewIdFacts
      <3>7. \A s \in sessions' : s.id = NewId => s.status # "paused"
        BY <3>5, <3>6 DEF Unpaused
      <3>8. Safe(new.job)'
        <4>1. PICK m : m = NewId
          OBVIOUS
        <4>2. \A s \in Row(m)' : s.status # "paused"
          BY <3>7, <4>1 DEF Row
        <4>. QED BY <3>2, <3>3, <4>1, <4>2 DEF Safe
      <3>9. ~ Owner(new.job)'
        BY <1>2, <2>1, <3>2, <3>3 DEF Fine, Owner, On
      <3>10. ~ Pauses(new) /\ new.job.sess.status # "paused"
        BY <3>0, <3>1, <3>2, <3>3 DEF Fits, Pauses
      <3>11. Fine(new)'
        BY <3>8, <3>9, <3>10 DEF Fine, Pauses
      <3>. QED BY <1>2, <1>3, <2>2, <3>4, <3>5, <3>11, AnsweringStays
    <2>. QED BY <2>4, <2>5, <2>6 DEF Served
  <1>4. CASE Stopping
    <2>1. Pauses(t)
      BY <1>2, <1>4 DEF Stopping, EmitDos, ServiceDos
    <2>2. Finish(t) /\ spoke' = {}
      BY <1>1, <2>1 DEF Served, Fits, Serving, Pauses
    <2>3. Work' \subseteq Work
      BY <1>1, <2>2, FinishFacts
    <2>. QED BY <1>2, <1>4, <2>2, <2>3, StoppingStays DEF Stopping
  <1>. QED BY <1>3, <1>4 DEF SilentInv

LEMMA EmittedSilent ==
    ASSUME StopsOrListens, LostInv, IdInv, SilentInv, On("serial"), NEW t \in Work, Emitted(t)
    PROVE  SilentInv'
  <1>1. TasksInv /\ RowsInv /\ spoke = {} /\ config \in Configs
    BY DEF LostInv, IdInv, SilentInv
  <1>2. /\ sessions' = sessions /\ spoke' = {} /\ config' = config /\ t.do \in EmitDos
        /\ \A job : Owner(job)' <=> Owner(job)
        /\ \A job : Safe(job)' <=> Safe(job)
    BY <1>1 DEF Emitted, Owner, On, Safe, Row
  <1>3. Unpaused
    BY <1>2 DEF Unpaused
  <1>4. ASSUME NEW job, Found(t, job)
        PROVE  ~ Owner(job) /\ ~ Owner(t.job)
    BY <1>1, <1>4 DEF Found, Follows, Owner, On, StopsOrListens
  <1>5. ASSUME NEW job, Follows(t.job, job), Answering
        PROVE  Safe(job) /\ ~ Owner(job)
    BY <1>5, SafeFollows DEF Answering, Fine, Follows, Owner
  <1>6. CASE Finish(t) /\ UNCHANGED buffer
    <2>1. Work' \subseteq Work
      BY <1>1, <1>6, FinishFacts
    <2>2. CASE Answering
      BY <1>2, <1>3, <1>6, <2>1, <2>2, AnsweringStays
    <2>3. CASE Stopping
      BY <1>2, <1>6, <2>1, <2>3, StoppingStays DEF Stopping
    <2>. QED BY <2>2, <2>3 DEF SilentInv
  <1>7. ASSUME UNCHANGED buffer, NEW do, NEW job, Continue(t, do, job, ""), Follows(t.job, job),
               do \in EmitDos \/ (do = "Process" /\ Found(t, job))
        PROVE  SilentInv'
    <2> DEFINE new == Task(do, job, "")
    <2>1. new.do = do /\ new.job = job /\ new.arg = ""
      BY DEF Task
    <2>2. Work' \subseteq Work \cup {new}
      BY <1>1, <1>7, ContinueFacts
    <2> HIDE DEF new
    <2>3. ~ Pauses(new) /\ ~ Speaks(new.do, new.arg)
      BY <1>7, <2>1 DEF Pauses, Speaks, EmitDos
    <2>4. CASE Answering
      <3>1. Fine(new)'
        BY <1>2, <1>5, <1>7, <2>1, <2>3, <2>4 DEF Fine, Pauses
      <3>. QED BY <1>2, <1>3, <1>7, <2>2, <2>4, <3>1, AnsweringStays
    <2>5. CASE Stopping
      <3>1. Owner(new.job) /\ new.do \in EmitDos
        BY <1>4, <1>7, <2>1, <2>5 DEF Stopping, Follows, Owner
      <3>. QED BY <1>2, <1>7, <2>2, <2>5, <3>1, StoppingStays DEF Stopping
    <2>. QED BY <2>4, <2>5 DEF SilentInv
  <1>8. CASE UNCHANGED buffer /\ Owner(t.job) /\ Continue(t, "Set", t.job, "paused")
    <2> DEFINE new == Task("Set", t.job, "paused")
    <2>1. Owner(new.job) /\ Pauses(new)
      BY <1>8 DEF Task, Pauses
    <2>2. Work' \subseteq Work \cup {new}
      BY <1>1, <1>8, ContinueFacts
    <2> HIDE DEF new
    <2>3. Stopping
      BY <1>8 DEF SilentInv, Answering, Fine
    <2>. QED BY <1>2, <1>8, <2>1, <2>2, <2>3, StoppingStays DEF Stopping
  <1>9. ASSUME NEW job, ProcessDebounce(t, job), Found(t, job)
        PROVE  SilentInv'
    <2>1. Follows(t.job, job) /\ DOMAIN job = JobFields
      BY <1>9 DEF Found, Follows
    <2>2. Answering
      BY <1>4, <1>9 DEF SilentInv, Stopping
    <2>3. Safe(job) /\ ~ Owner(job)
      BY <1>5, <2>1, <2>2
    <2>4. /\ Work' \subseteq Work
          /\ \A k \in Kinds : \/ buffer'[k] = buffer[k]
                              \/ /\ buffer'[k].job.sess = job.sess
                                 /\ buffer'[k].job.mine = job.mine
      BY <1>9, <2>1, MergesFacts
    <2>5. ASSUME NEW new, new.sess = job.sess, new.mine = job.mine
          PROVE  ~ Owner(new) /\ Safe(new)'
      BY <1>2, <2>3, <2>5 DEF Owner, Safe
    <2>. QED BY <1>2, <1>3, <2>2, <2>4, <2>5, AnsweringStays
  <1>10. ASSUME UNCHANGED buffer, NEW do \in EmitDos, NEW job, Continue(t, do, job, ""),
                Follows(t.job, job)
         PROVE  SilentInv'
    BY <1>7, <1>10
  <1>11. ASSUME UNCHANGED buffer, NEW job, Continue(t, "Process", job, ""), Found(t, job)
         PROVE  SilentInv'
    BY <1>7, <1>11 DEF Found
  <1>. QED BY <1>6, <1>8, <1>9, <1>10, <1>11 DEF Emitted

LEMMA WroteSilent ==
    ASSUME LostInv, SilentInv, On("serial"), NEW t \in Work, Wrote(t)
    PROVE  SilentInv'
  <1>1. Work' \subseteq Work
    BY FinishFacts DEF LostInv, Wrote
  <1>2. buffer' = buffer /\ sessions' = sessions /\ config' = config /\ spoke' = {}
    BY DEF Wrote, SilentInv
  <1>3. Unpaused
    BY <1>2 DEF Unpaused
  <1>4. CASE Answering
    BY <1>1, <1>2, <1>3, <1>4, AnsweringStays
  <1>5. CASE Stopping
    BY <1>1, <1>2, <1>5, StoppingStays DEF Stopping
  <1>. QED BY <1>4, <1>5 DEF SilentInv

\* A callback that begins: it does not speak at once.
LEMMA BeginsFine ==
    ASSUME RowsInv', config' = config, NEW u, u.job.sess = NoSession, ~ Owner(u.job),
           u.do \notin {"Set", "Ask"}
    PROVE  Fine(u)'
  <1>1. PICK job : job = u.job
    OBVIOUS
  <1>2. Safe(job)'
    BY <1>1 DEF RowsInv, Safe, Row, NoSession
  <1>. QED BY <1>1, <1>2 DEF Fine, Owner, On, Pauses, Speaks

LEMMA PostedSilent ==
    ASSUME LostInv, IdInv, SilentInv, On("serial"), Posted
    PROVE  SilentInv'
  <1>1. PICK new : /\ tasks' = tasks (+) SetToBag(new)
                   /\ \A u \in new : /\ u.do = "Settings" /\ u.job.sess = NoSession
                                     /\ u.job.mine => Idle
                                     /\ \A v \in new : u.job.mine = v.job.mine
    BY DEF Posted
  <1>2. Work = {} /\ Work' = Work \cup new
    BY <1>1, AddFacts, NothingWaits DEF LostInv, Posted
  <1>3. buffer' = buffer /\ sessions' = sessions /\ config' = config /\ spoke' = {} /\ Kinds' = Kinds
    BY DEF Posted, SilentInv, Kinds
  <1>4. CASE \E u \in new : Owner(u.job)
    <2>1. \A u \in new : Owner(u.job)
      BY <1>1, <1>4 DEF Owner
    <2>2. \A k \in Kinds : buffer[k] = NoBuffer
      BY <1>1, <1>4, NothingIsIdle DEF Owner
    <2>. QED BY <1>1, <1>2, <1>3, <2>1, <2>2, StoppingStays DEF EmitDos
  <1>5. CASE \A u \in new : ~ Owner(u.job)
    <2>1. Answering
      BY <1>2 DEF SilentInv, Answering, Stopping
    <2>2. RowsInv' /\ Unpaused
      BY <1>3 DEF IdInv, RowsInv, Unpaused
    <2>3. \A u \in new : Fine(u)'
      BY <1>1, <1>3, <1>5, <2>2, BeginsFine
    <2>. QED BY <1>2, <1>3, <2>1, <2>2, <2>3, AnsweringStays
  <1>. QED BY <1>4, <1>5

LEMMA TimeoutSilent ==
    ASSUME LostInv, SilentInv, On("serial"), NEW h \in Kinds, DebounceTimeout(h)
    PROVE  SilentInv'
  <1>1. /\ buffer[h] # NoBuffer /\ sessions' = sessions /\ config' = config /\ spoke' = {}
        /\ \A k \in Kinds : buffer'[k] \in {buffer[k], NoBuffer}
    BY TimeoutFacts DEF SilentInv
  <1>2. PICK new : /\ Work' = Work \cup {new} /\ new.do = "Process"
                   /\ new.job.sess = buffer[h].job.sess
                   /\ new.job.mine = buffer[h].job.mine
    BY TimeoutFacts
  <1>3. Answering
    BY <1>1 DEF SilentInv, Stopping
  <1>4. ~ Owner(buffer[h].job) /\ Safe(buffer[h].job)
    BY <1>1, <1>3 DEF Answering
  <1>5. Safe(new.job) /\ ~ Owner(new.job)
    BY <1>2, <1>4 DEF Safe, Owner
  <1>6. Unpaused
    BY <1>1 DEF Unpaused
  <1>7. Fine(new)'
    BY <1>1, <1>2, <1>5 DEF Fine, Pauses, Speaks, Owner, On, Safe, Row
  <1>. QED BY <1>1, <1>2, <1>3, <1>6, <1>7, AnsweringStays

LEMMA RequestedSilent ==
    ASSUME LostInv, IdInv, SilentInv, On("serial"), Requested
    PROVE  SilentInv'
  <1>1. /\ Work = {} /\ \A k \in Kinds : buffer[k] = NoBuffer
        /\ buffer' = buffer /\ config' = config /\ spoke' = {} /\ Kinds' = Kinds /\ RowsInv
        /\ config \in Configs
    BY NothingIsIdle DEF Requested, IdInv, SilentInv, Kinds
  <1>2. RowsInv'
    BY <1>1, LosesFacts, MarksFacts DEF Requested, Descends
  <1>3. SUFFICES \A u \in Work' : Fine(u)'
    BY <1>1 DEF SilentInv, Answering
  <1>4. CASE Work' = Work
    BY <1>1, <1>4
  <1>5. ASSUME NEW do, NEW job, NEW arg, Work' = Work \cup {Task(do, job, arg)},
               Asks(do, job, arg)
        PROVE  \A u \in Work' : Fine(u)'
    <2> DEFINE new == Task(do, job, arg)
    <2>1. new.do = do /\ new.job = job /\ new.arg = arg
      BY DEF Task
    <2> HIDE DEF new
    <2>2. Work' = {new}
      BY <1>1, <1>5 DEF new
    <2>3. new.job.sess = NoSession /\ ~ Owner(new.job) /\ new.do \notin {"Set", "Ask"}
      BY <1>5, <2>1 DEF Asks, Owner
    <2>4. Fine(new)'
      BY <1>1, <1>2, <2>3, BeginsFine
    <2>. QED BY <2>2, <2>4
  <1>. QED BY <1>4, <1>5, RequestTasks

LEMMA SilentInvNext ==
    ASSUME StopsOrListens, LostInv, IdInv, SilentInv, [Next]_vars
    PROVE  SilentInv'
  <1>1. config' = config /\ On("serial")' = On("serial")
    BY ConfigStays DEF On
  <1>2. CASE ~ On("serial")
    BY <1>1, <1>2 DEF SilentInv
  <1>3. CASE On("serial") /\ UNCHANGED vars
    <2>1. UNCHANGED <<sessions, buffer, spoke>> /\ Kinds' = Kinds /\ Work' = Work
      BY <1>3 DEF vars, Kinds, Work
    <2>2. \A u : Fine(u)' <=> Fine(u)
      BY <1>1, <2>1 DEF Fine, Owner, On, Safe, Row, Pauses
    <2>3. \A job : (Owner(job)' <=> Owner(job)) /\ (Safe(job)' <=> Safe(job))
      BY <1>1, <2>1 DEF Owner, On, Safe, Row
    <2>. QED BY <1>1, <2>1, <2>2, <2>3 DEF SilentInv, Answering, Stopping, Pauses
  <1>4. CASE On("serial") /\ Next
    BY <1>4, StepsOf, EmittedSilent, ServedSilent, WroteSilent, PostedSilent, RequestedSilent,
       TimeoutSilent
  <1>. QED BY <1>2, <1>3, <1>4

\* With messages and requests one at a time, no bot speaks in a session that is paused, when no
\* configuration has both stopBotFromMe and listeningFromMe (with both, in different
\* integrations, one may pause the session that the other is answering in): what a job knows of
\* its session is not out of date, and a message of the owner that pauses sessions has no other
\* callback beside it and nothing that waits for the debounce.
PROPOSITION SilentWhilePausedHolds ==
    ASSUME StopsOrListens
    PROVE  Spec => []SilentWhilePaused
  <1> DEFINE Inv == LostInv /\ IdInv /\ SilentInv
  <1>1. Init => Inv
    BY InitLost, InitRows DEF SilentInv, Answering
  <1>2. Inv /\ [Next]_vars => Inv'
    BY LostInvNext, IdInvNext, SilentInvNext
  <1>3. Inv => SilentWhilePaused
    BY DEF SilentInv, SilentWhilePaused
  <1>. QED BY <1>1, <1>2, <1>3, PTL DEF Spec
=============================================================================
