-------------------------- MODULE ChatbotSession --------------------------
(***************************************************************************)
(* The chatbot integrations of evolution-api and one contact: the bots and *)
(* the settings of each integration, the IntegrationSession rows, the      *)
(* messages of the contact and of the owner, the debounce of each          *)
(* controller, the calls of the bots' services and the requests.           *)
(*                                                                         *)
(* A task is a callback that waits for its database call or its HTTP call; *)
(* an action is what happens between two awaits.                           *)
(***************************************************************************)
EXTENDS Integers, FiniteSets, Bags

CONSTANTS
    InstanceNames, \* the instances there may be
    MaxMessages,  \* bound: messages
    MaxAsks,      \* bound: requests
    MaxBots,      \* bound: rows of bots
    Configs       \* a behaviour has the options, integrations and instances of one of them

\* keepOpen, debounce (time), stop(BotFromMe), listen(ingFromMe) and expire are settings;
\* "requests": requests come; "serial": messages and timeouts come when no callback waits,
\* requests and the owner's messages when no message waits for the debounce, either.
Options == {"serial", "requests", "keepOpen", "debounce", "stop", "listen", "expire"}
Services == {"evolutionBot", "dify", "n8n", "evoai", "flowise", "openai", "typebot"}

ASSUME ConfigsAreOptions == Configs \subseteq SUBSET (Options \cup Services \cup InstanceNames)
ASSUME BoundsAreNumbers == {MaxMessages, MaxAsks, MaxBots} \subseteq Nat

VARIABLES
    bots,      \* the rows of the bots, by id
    settings,  \* the row of settings of each instance and integration
    sessions,  \* the IntegrationSession rows of the contact
    buffer,    \* userMessageDebounce[remoteJid] of each controller
    tasks,     \* the bag of callbacks that wait to be resumed
    spoke,     \* history: the integrations that spoke in a session that was paused
    done,      \* history: how often a controller was done with a message
    count,     \* what the bounds bound
    config     \* the options of this behaviour

vars == <<bots, settings, sessions, buffer, tasks, spoke, done, count, config>>

Texts == {"key", "finish", "other"}
Triggers == {"all", "keyword"}
Jids == {"contact"}
NoSession == [id |-> 0, status |-> "none", bot |-> 0]
NoBuffer == [msgs |-> {}]

On(option) == option \in config
Kinds == Services \cap config
Names == InstanceNames \cap config

\* job: what a callback keeps across its awaits (integration, instance, messages and their text,
\* whether the owner wrote them, the session and the bot that it has found).
Task(do, job, arg) == [do |-> do, job |-> job, arg |-> arg]
Work == BagToSet(tasks)

Replace(t, new) == tasks' = (tasks (-) SetToBag({t})) (+) SetToBag(new)
Finish(t) ==
    /\ Replace(t, {})
    /\ done' = [p \in DOMAIN done |->
                    done[p] + IF p[1] = t.job.kind /\ p[2] \in t.job.msgs THEN 1 ELSE 0]
Continue(t, do, job, arg) == Replace(t, {Task(do, job, arg)}) /\ UNCHANGED done

Quiet == On("serial") => tasks = EmptyBag
Idle == On("serial") => tasks = EmptyBag /\ \A k \in Kinds : buffer[k] = NoBuffer

Init ==
    /\ config \in Configs
    /\ bots \in [1 .. Cardinality(Kinds) -> [kind : Kinds, name : Names, trigger : Triggers]]
    /\ \A b, c \in DOMAIN bots : bots[b].kind = bots[c].kind => b = c
    /\ settings \in [Names \X Kinds -> [ignore : {{}}, fallback : {0} \cup DOMAIN bots]]
    /\ \A p \in DOMAIN settings :
          settings[p].fallback # 0 => /\ bots[settings[p].fallback].name = p[1]
                                      /\ bots[settings[p].fallback].kind = p[2]
    /\ sessions = {} /\ buffer = [k \in Kinds |-> NoBuffer] /\ tasks = EmptyBag
    /\ spoke = {} /\ done = [p \in Kinds \X (1 .. MaxMessages) |-> 0]
    /\ count = [messages |-> 0, asks |-> 0]

-----------------------------------------------------------------------------
(* A message reaches the controllers. *)

\* A message of the contact, or one that the owner typed on the phone.
Message(name) ==
    /\ Quiet /\ count.messages < MaxMessages
    /\ count' = [count EXCEPT !.messages = @ + 1]
    /\ \E text \in Texts, mine \in IF Idle THEN BOOLEAN ELSE {FALSE} :
          tasks' = tasks (+) SetToBag({Task("Settings",
              [kind |-> k, name |-> name, msgs |-> {count'.messages}, text |-> text,
               mine |-> mine, sess |-> NoSession, bot |-> 0], "") : k \in Kinds})
    /\ UNCHANGED <<bots, settings, sessions, buffer, spoke, done, config>>

IgnoresJid(job) == "contact" \in settings[<<job.name, job.kind>>].ignore

EmitSettings(t) ==
    /\ t.do = "Settings"
    /\ IF IgnoresJid(t.job) THEN Finish(t) ELSE Continue(t, "Session", t.job, "")
    /\ UNCHANGED <<bots, settings, sessions, buffer, spoke, count, config>>

\* The newest session of the contact with the instance, whatever integration opened it.
GetSession(name) ==
    LET own == {s \in sessions : s.name = name}
    IN IF own = {} THEN NoSession
       ELSE LET s == CHOOSE s \in own : \A r \in own : r.id <= s.id
            IN [id |-> s.id, status |-> s.status, bot |-> s.bot]

EmitSession(t) ==
    /\ t.do = "Session"
    /\ Continue(t, "Bot", [t.job EXCEPT !.sess = GetSession(t.job.name)], "")
    /\ UNCHANGED <<bots, settings, sessions, buffer, spoke, count, config>>

Matches(b, job) == /\ bots[b].kind = job.kind /\ bots[b].name = job.name
                   /\ bots[b].trigger = "all" \/ job.text = "key"

\* A bot with the trigger "all" comes before those with a keyword.
FindBotByTrigger(job) ==
    LET found == {b \in DOMAIN bots : Matches(b, job)}
        all == {b \in found : bots[b].trigger = "all"}
    IN IF all # {} THEN all ELSE found

FindBotTrigger(job) ==
    IF job.sess = NoSession THEN FindBotByTrigger(job)
    ELSE {b \in DOMAIN bots : b = job.sess.bot /\ bots[b].kind = job.kind}

\* Mutant: the second message replaces the text of the first.
ProcessDebounce_Replaces(t, job) ==
    /\ buffer' = [buffer EXCEPT ![job.kind] = [msgs |-> job.msgs, job |-> job]]
    /\ Replace(t, {}) /\ UNCHANGED done

\* Only the entry of the contact is looked at, whichever instance it is for.
ProcessDebounce(t, job) ==
    LET b == buffer[job.kind]
    IN /\ buffer' = [buffer EXCEPT ![job.kind] =
                       [msgs |-> b.msgs \cup job.msgs,
                        job |-> [job EXCEPT !.text = IF b = NoBuffer THEN @ ELSE "other"]]]
       /\ Replace(t, {}) /\ UNCHANGED done

\* Mutant: a paused session, too, is as good as none.
Current_Paused(sess) == IF sess.status \in {"closed", "paused"} THEN NoSession ELSE sess

\* A session that is closed is as good as none.
Current(sess) == IF sess.status = "closed" THEN NoSession ELSE sess

\* A bot was found: stop it, skip the message, wait for more, or process it.
Decide(t, b) ==
    LET job == [t.job EXCEPT !.bot = b, !.sess = Current(@)]
    IN IF On("stop") /\ t.job.mine /\ t.job.sess # NoSession
       THEN Continue(t, "Set", t.job, "paused") /\ UNCHANGED buffer
       ELSE IF t.job.mine /\ ~ On("listen")
       THEN Finish(t) /\ UNCHANGED buffer
       ELSE IF On("debounce")
       THEN ProcessDebounce(t, job)
       ELSE Continue(t, "Process", job, "") /\ UNCHANGED buffer

EmitBot(t) ==
    /\ t.do = "Bot"
    /\ \/ \E b \in FindBotTrigger(t.job) : Decide(t, b)
       \/ FindBotTrigger(t.job) = {} /\ Continue(t, "Fallback", t.job, "") /\ UNCHANGED buffer
    /\ UNCHANGED <<bots, settings, sessions, spoke, count, config>>

EmitFallback(t) ==
    /\ t.do = "Fallback"
    /\ LET b == settings[<<t.job.name, t.job.kind>>].fallback
       IN IF b \in DOMAIN bots THEN Decide(t, b) ELSE Finish(t) /\ UNCHANGED buffer
    /\ UNCHANGED <<bots, settings, sessions, spoke, count, config>>

\* The callback is the one of the last message: its bot, and the session it saw.
DebounceTimeout(k) ==
    /\ buffer[k] # NoBuffer /\ Quiet
    /\ buffer' = [buffer EXCEPT ![k] = NoBuffer]
    /\ tasks' = tasks (+) SetToBag({Task("Process",
                   [buffer[k].job EXCEPT !.msgs = buffer[k].msgs], "")})
    /\ UNCHANGED <<bots, settings, sessions, spoke, done, count, config>>

-----------------------------------------------------------------------------
(* The services. Process decides from the job alone. *)

Row(id) == {s \in sessions : s.id = id}
WithStatus(rows, status) == (sessions \ rows) \cup {[s EXCEPT !.status = status] : s \in rows}
OfBot(job) == {s \in sessions : s.bot = job.bot}

\* Mutant: the check of the paused session is lost.
ProcessBase_Paused(t) ==
    IF t.job.sess = NoSession THEN Continue(t, "Create", t.job, "")
    ELSE IF t.job.text = "finish" THEN Continue(t, "Set", t.job, "closed")
    ELSE Continue(t, "Ask", t.job, "again")

ProcessBase(t) ==
    IF t.job.sess = NoSession THEN Continue(t, "Create", t.job, "")
    ELSE IF t.job.sess.status = "paused" THEN Finish(t)
    ELSE IF t.job.text = "finish" THEN Continue(t, "Set", t.job, "closed")
    ELSE Continue(t, "Ask", t.job, "again")

\* The word that ends the conversation throws without a session. A message ends a pause.
ProcessOpenai(t) ==
    IF t.job.text = "finish"
    THEN IF t.job.sess = NoSession THEN Finish(t)
         ELSE IF On("keepOpen") THEN Continue(t, "Set", t.job, "closed")
         ELSE Continue(t, "Delete", t.job, "")
    ELSE IF t.job.sess = NoSession THEN Continue(t, "Create", t.job, "")
    ELSE IF t.job.sess.status = "paused" THEN Continue(t, "Set", t.job, "opened")
    ELSE Continue(t, "Ask", t.job, "again")

\* A session that has expired is replaced, also one that is paused.
Expired(t) ==
    /\ On("expire") /\ t.job.sess # NoSession
    /\ Continue(t, IF On("keepOpen") THEN "Set" ELSE "DeleteBotRows", t.job, "expired")

ProcessTypebot(t) ==
    \/ Expired(t)
    \/ IF t.job.sess = NoSession THEN Continue(t, "Start", t.job, "")
       ELSE IF t.job.sess.status # "opened" THEN Finish(t)
       ELSE Continue(t, "Set", t.job, "continue")

Process(t) ==
    /\ t.do = "Process"
    /\ CASE t.job.kind = "openai" -> ProcessOpenai(t)
         [] t.job.kind = "typebot" -> ProcessTypebot(t)
         [] OTHER -> ProcessBase(t)
    /\ UNCHANGED <<bots, settings, sessions, buffer, spoke, count, config>>

NewId == LET used == {s.id : s \in sessions} \cup {t.job.sess.id : t \in Work}
                     \cup {buffer[k].job.sess.id : k \in {k \in Kinds : buffer[k] # NoBuffer}}
         IN 1 + CHOOSE i \in {0} \cup used : \A j \in used : j <= i
NewSession(job) == [id |-> NewId, name |-> job.name, kind |-> job.kind, bot |-> job.bot,
                    status |-> "opened"]
InSession(job) == [job EXCEPT !.sess = [id |-> NewId, status |-> "opened", bot |-> job.bot]]

CreateNewSession(t) ==
    /\ t.do = "Create"
    /\ sessions' = sessions \cup {NewSession(t.job)}
    /\ Continue(t, "Set", InSession(t.job), "first")
    /\ UNCHANGED <<bots, settings, buffer, spoke, count, config>>

\* What an update of a row writes, and what follows when the row was there.
Written(arg) ==
    CASE arg \in {"first", "continue", "answered"} -> "opened" [] arg = "expired" -> "closed" [] OTHER -> arg
AfterSet(t) ==
    CASE t.arg = "first" -> Continue(t, "Ask", t.job, "first")
      [] t.arg = "answered" -> Continue(t, "Set", t.job, "opened")
      [] t.arg = "expired" -> Continue(t, "Start", t.job, "")
      [] t.arg = "continue" /\ t.job.text # "finish" -> Continue(t, "Ask", t.job, "again")
      [] t.arg = "continue" /\ t.job.text = "finish" ->
             Continue(t, IF On("keepOpen") THEN "Set" ELSE "DeleteBotRows", t.job, "closed")
      [] OTHER -> Finish(t)

\* Prisma throws when the row is gone; the service logs it and gives up.
SetStatus(t) ==
    /\ t.do = "Set"
    /\ IF Row(t.job.sess.id) = {} THEN Finish(t) /\ UNCHANGED sessions
       ELSE sessions' = WithStatus(Row(t.job.sess.id), Written(t.arg)) /\ AfterSet(t)
    /\ UNCHANGED <<bots, settings, buffer, spoke, count, config>>

DeleteSession(t) ==
    /\ t.do = "Delete" /\ sessions' = sessions \ Row(t.job.sess.id) /\ Finish(t)
    /\ UNCHANGED <<bots, settings, buffer, spoke, count, config>>

DeleteBotRows(t) ==
    /\ t.do = "DeleteBotRows" /\ sessions' = sessions \ OfBot(t.job)
    /\ IF t.arg = "expired" THEN Continue(t, "Start", t.job, "") ELSE Finish(t)
    /\ UNCHANGED <<bots, settings, buffer, spoke, count, config>>

Said(job) == spoke' = spoke \cup {job.kind : s \in {s \in Row(job.sess.id) : s.status = "paused"}}

\* evolutionBot, evoai and flowise leave the row to process. A send that throws inside the
\* timer of sendSingleMessage, whose promise is then never resolved, is not modelled.
AnswerPlain(t) ==
    /\ t.do = "Ask" /\ t.job.kind \in {"evolutionBot", "evoai", "flowise"}
    /\ Said(t.job) \/ UNCHANGED spoke
    /\ IF t.arg = "again" THEN Continue(t, "Set", t.job, "opened") ELSE Finish(t)
    /\ UNCHANGED <<bots, settings, sessions, buffer, count, config>>

\* dify and n8n write the row themselves after an answer, and process does so again.
AnswerDify(t) ==
    /\ t.do = "Ask" /\ t.job.kind \in {"dify", "n8n"}
    /\ \/ UNCHANGED spoke
          /\ IF t.arg = "again" THEN Continue(t, "Set", t.job, "opened") ELSE Finish(t)
       \/ Said(t.job)
          /\ Continue(t, "Set", t.job, IF t.arg = "again" THEN "answered" ELSE "opened")
    /\ UNCHANGED <<bots, settings, sessions, buffer, count, config>>

\* Only sendMessageToBot writes the row, after an answer or an excuse.
AnswerOpenai(t) ==
    /\ t.do = "Ask" /\ t.job.kind = "openai"
    /\ \/ UNCHANGED spoke /\ Finish(t)
       \/ Said(t.job) /\ Continue(t, "Set", t.job, "opened")
    /\ UNCHANGED <<bots, settings, sessions, buffer, count, config>>

\* createNewSession: startChat fails or the flow needs no session, or a row is stored.
NoChat(t) == UNCHANGED sessions /\ Finish(t)
Chat(t) ==
    /\ sessions' = sessions \cup {NewSession(t.job)}
    /\ \/ Continue(t, "Ask", InSession(t.job), "start")
       \/ t.job.text # "finish" /\ Continue(t, "Ask", InSession(t.job), "again")
       \/ t.job.text = "finish"
          /\ Continue(t, IF On("keepOpen") THEN "Set" ELSE "DeleteBotRows", InSession(t.job), "closed")

\* The first messages of the flow, or its answer to the message of the contact.
StartTypebot(t) ==
    /\ t.do = "Start" /\ (NoChat(t) \/ Chat(t))
    /\ UNCHANGED <<bots, settings, buffer, spoke, count, config>>

\* The messages are sent; without an input the flow is over. continueChat may fail.
ProcessMessages(t) ==
    /\ t.do = "Ask" /\ t.job.kind = "typebot"
    /\ \/ Finish(t) /\ UNCHANGED spoke
       \/ /\ Said(t.job)
          /\ \/ Finish(t)
             \/ IF On("keepOpen") THEN Continue(t, "Set", t.job, "closed")
                ELSE Continue(t, "Delete", t.job, "")
    /\ UNCHANGED <<bots, settings, sessions, buffer, count, config>>

-----------------------------------------------------------------------------
(* Requests. What they read first is read when they come. *)

Asked == On("requests") /\ Idle /\ count.asks < MaxAsks /\ count' = [count EXCEPT !.asks = @ + 1]

BotJob(k, name, b, trigger) ==
    [kind |-> k, name |-> name, msgs |-> {}, text |-> "init", mine |-> FALSE,
     sess |-> NoSession, bot |-> b]

Taken(k, name, trigger, but) ==
    \E b \in DOMAIN bots \ {but} : bots[b] = [kind |-> k, name |-> name, trigger |-> trigger]

CreateBot(k, name) ==
    /\ Asked /\ \E trigger \in Triggers :
          /\ ~ Taken(k, name, trigger, 0)
          /\ \E b \in (1 .. MaxBots) \ DOMAIN bots :
                tasks' = tasks (+) SetToBag({Task("WriteBot", BotJob(k, name, b, trigger), trigger)})
    /\ UNCHANGED <<bots, settings, sessions, buffer, spoke, done, config>>

UpdateBot(b) ==
    /\ Asked /\ b \in DOMAIN bots
    /\ \E trigger \in Triggers :
          /\ ~ Taken(bots[b].kind, bots[b].name, trigger, b)
          /\ tasks' = tasks (+) SetToBag({Task("WriteBot",
                          BotJob(bots[b].kind, bots[b].name, b, trigger), trigger)})
    /\ UNCHANGED <<bots, settings, sessions, buffer, spoke, done, config>>

WriteBot(t) ==
    /\ t.do = "WriteBot"
    /\ bots' = [b \in DOMAIN bots \cup {t.job.bot} |->
                  IF b # t.job.bot THEN bots[b]
                  ELSE [kind |-> t.job.kind, name |-> t.job.name, trigger |-> t.arg]]
    /\ Finish(t) /\ UNCHANGED <<settings, sessions, buffer, spoke, count, config>>

\* Mutant: the sessions of the bot stay.
DeleteBot_KeepsSessions(b) ==
    /\ Asked /\ b \in DOMAIN bots /\ UNCHANGED sessions
    /\ tasks' = tasks (+) SetToBag({Task("DeleteBot", BotJob(bots[b].kind, bots[b].name, b, ""), "")})
    /\ UNCHANGED <<bots, settings, buffer, spoke, done, config>>

DeleteBot(b) ==
    /\ Asked /\ b \in DOMAIN bots
    /\ sessions' = {s \in sessions : s.bot # b}
    /\ tasks' = tasks (+) SetToBag({Task("DeleteBot", BotJob(bots[b].kind, bots[b].name, b, ""), "")})
    /\ UNCHANGED <<bots, settings, buffer, spoke, done, config>>

DeleteBotRow(t) ==
    /\ t.do = "DeleteBot"
    /\ bots' = [b \in DOMAIN bots \ {t.job.bot} |-> bots[b]]
    /\ settings' = [p \in DOMAIN settings |->
                      IF settings[p].fallback = t.job.bot
                      THEN [settings[p] EXCEPT !.fallback = 0] ELSE settings[p]]
    /\ Finish(t) /\ UNCHANGED <<sessions, buffer, spoke, count, config>>

SaveSettings(k, name) ==
    /\ Asked
    /\ \E ignore \in SUBSET Jids, b \in {0} \cup {b \in DOMAIN bots : bots[b].kind = k} :
          settings' = [settings EXCEPT ![<<name, k>>] = [ignore |-> ignore, fallback |-> b]]
    /\ UNCHANGED <<bots, sessions, buffer, tasks, spoke, done, config>>

\* The list is read, changed and written as a whole.
IgnoreJid(k, name) ==
    /\ Asked
    /\ \E jid \in Jids, add \in BOOLEAN :
          LET old == settings[<<name, k>>].ignore
          IN tasks' = tasks (+) SetToBag({Task("WriteIgnore", BotJob(k, name, 0, ""),
                          IF add THEN old \cup {jid} ELSE old \ {jid})})
    /\ UNCHANGED <<bots, settings, sessions, buffer, spoke, done, config>>

WriteIgnore(t) ==
    /\ t.do = "WriteIgnore"
    /\ settings' = [settings EXCEPT ![<<t.job.name, t.job.kind>>].ignore = t.arg]
    /\ Finish(t) /\ UNCHANGED <<bots, sessions, buffer, spoke, count, config>>

\* "delete" and "closed" reach the sessions of every instance.
ChangeStatus(name) ==
    /\ Asked
    /\ \/ sessions' = {}
       \/ On("keepOpen") /\ sessions' = WithStatus(sessions, "closed")
       \/ \E status \in {"opened", "paused"} :
             sessions' = WithStatus({s \in sessions : s.name = name}, status)
    /\ UNCHANGED <<bots, settings, buffer, tasks, spoke, done, config>>

StartBot(b) ==
    /\ Asked /\ b \in DOMAIN bots /\ bots[b].kind = "typebot"
    /\ ~ IgnoresJid([name |-> bots[b].name, kind |-> "typebot"])
    /\ sessions' = {s \in sessions : s.name # bots[b].name}
    /\ tasks' = tasks (+) SetToBag({Task("Process", BotJob("typebot", bots[b].name, b, ""), "")})
    /\ UNCHANGED <<bots, settings, buffer, spoke, done, config>>

-----------------------------------------------------------------------------
EmitStep == \E t \in Work : EmitSettings(t) \/ EmitSession(t) \/ EmitBot(t) \/ EmitFallback(t)
ServiceStep == \E t \in Work : \/ Process(t) \/ CreateNewSession(t) \/ SetStatus(t)
                               \/ DeleteSession(t) \/ DeleteBotRows(t)
                               \/ AnswerPlain(t) \/ AnswerDify(t) \/ AnswerOpenai(t)
                               \/ StartTypebot(t) \/ ProcessMessages(t)
WriteStep == \E t \in Work : WriteBot(t) \/ DeleteBotRow(t) \/ WriteIgnore(t)
Timeout == \E k \in Kinds : DebounceTimeout(k)
Request == \/ \E k \in Kinds, name \in Names : \/ CreateBot(k, name) \/ SaveSettings(k, name)
                                               \/ IgnoreJid(k, name)
           \/ \E b \in DOMAIN bots : UpdateBot(b) \/ DeleteBot(b) \/ StartBot(b)
           \/ \E name \in Names : ChangeStatus(name)

Next == (\E name \in Names : Message(name)) \/ EmitStep \/ ServiceStep \/ WriteStep \/ Timeout
        \/ Request

Spec == Init /\ [][Next]_vars

-----------------------------------------------------------------------------
(* Properties *)

Holds(n, k) == (IF n \in buffer[k].msgs THEN 1 ELSE 0) + done[<<k, n>>]
               + Cardinality({t \in Work : t.job.kind = k /\ n \in t.job.msgs})

\* Every message is in one place at each controller: a callback has it, or it waits for the
\* debounce, or the controller is done with it. No merging loses or repeats one.
NoMessageLost == \A k \in Kinds, n \in 1 .. count.messages : Holds(n, k) = 1

\* A bot does not speak in a session that is paused: the owner has taken over. Only when
\* messages and requests come one at a time: the session that a callback saw may be paused
\* while it waits.
SilentWhilePaused == On("serial") => spoke = {}

\* A controller opens no session while the newest one of the contact is its own and is not
\* closed: a conversation goes on in its session, and one that is paused is not begun anew.
\* Only with one integration, and one message at a time: a job in the debounce still holds its
\* session when another integration's newer one is closed or deleted, and two callbacks may
\* both have found none.
OneIntegration == \A k, l \in Kinds : k = l

GoesOn ==
    [][On("serial") /\ OneIntegration =>
         \A s \in sessions' : s.id \notin {r.id : r \in sessions} =>
             \A r \in sessions : r.id = GetSession(s.name).id /\ r.kind = s.kind => r.status = "closed"]_vars

\* When nothing is in flight every session has its bot: deleteBot takes them along (a session
\* that a callback creates between its two deletes is left over).
SessionsHaveBots ==
    On("serial") /\ tasks = EmptyBag => \A s \in sessions : s.bot \in DOMAIN bots
=============================================================================
