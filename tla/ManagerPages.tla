---------------------------- MODULE ManagerPages ----------------------------
(***************************************************************************)
(* One tab of the manager at the pages of one instance: those of a chatbot *)
(* integration (its bots, their sessions, its default settings), or a page *)
(* of settings.  The user's steps, the requests on their way to the server *)
(* and back, and what a page makes of each answer.                         *)
(***************************************************************************)
EXTENDS ManagerForms

CONSTANTS
    MaxCalls,   \* bound: mutations
    MaxEdits,   \* bound: changes of a form
    MaxLapses,  \* bound: five minutes pass
    MaxFaults,  \* bound: requests that fail, and changes made elsewhere
    Configs     \* a behaviour has the kind and the options of one of them

\* "hasty": the user acts while requests are in flight; "brisk", "leaves": goes elsewhere while
\* queries, mutations are; "switch": goes from one bot to another; "outside": others write, too; "faults": requests
\* fail; "lapses": minutes pass; null, zero, words: what
\* the rows have; the others: what the user does.
Options == {"hasty", "brisk", "leaves", "switch", "outside", "faults", "lapses", "null", "zero", "words",
            "bots", "delete", "new", "status", "creds", "defaults", "fallback", "unset", "twice"}
ASSUME ConfigsAreOptions == Configs \subseteq SUBSET (BotKinds \cup PlainKinds \cup Options)
ASSUME BoundsAreNumbers == {MaxCalls, MaxEdits, MaxLapses, MaxFaults} \subseteq Nat

VARIABLES
    rows,      \* server: the bots, by id
    saved,     \* server: the settings
    session,   \* server: a contact's session and the bot that it is with
    creds,     \* server: OpenAI's credentials
    page,      \* the route, and the dialog that is open
    form,      \* the form of the bot's page, if it is there
    settings,  \* the form of the settings, if it is there
    calls,     \* the mutations whose promise is not settled
    count      \* what the bounds bound

vars == <<cache, config, rows, saved, session, creds, page, form, settings, calls, count>>
server == <<rows, saved, session, creds>>

Away == [at |-> "away", bot |-> 0, dialog |-> "none"]
Index == [at |-> "index", bot |-> 0, dialog |-> "none"]
Sheet(bot) == [at |-> "bot", bot |-> bot, dialog |-> "none"]
NoForm == [there |-> FALSE]
Blank == [there |-> TRUE, n |-> 1, fallback |-> 0, typed |-> FALSE]

Row(bot) == [of |-> bot, note |-> 0, text |-> IF On("null") THEN "null" ELSE "", switch |-> "on",
             delay |-> IF On("zero") THEN 0 ELSE 500,
             words |-> IF ~ On("openai") THEN 0 ELSE IF On("words") THEN 2 ELSE 1,
             creds |-> IF On("creds") THEN bot ELSE 0]

Init ==
    /\ config \in Configs
    /\ rows = [bot \in IF Bots THEN {1, 2} ELSE {} |-> Row(bot)]
    /\ saved = [n |-> 2, fallback |-> 0] /\ session = [bot |-> 1, status |-> "opened"]
    /\ creds = IF On("creds") THEN {1, 2} ELSE {}
    /\ page = Away /\ form = NoForm /\ settings = NoForm
    /\ cache = << >> /\ calls = << >>
    /\ count = [calls |-> 0, edits |-> 0, lapses |-> 0, faults |-> 0]

-----------------------------------------------------------------------------
(* What the page shows. *)

Calm == DOMAIN calls = {} /\ InFlight = {}
Within(what, bound) == count[what] < bound /\ count' = [count EXCEPT ![what] = @ + 1]

\* The keys that are observed and enabled on page p with the bot's form f.
Observed(p, f) ==
    (IF p.at # "away" /\ (SettingsQuery.always \/ p.dialog = "settings") THEN {SettingsQuery.key} ELSE {})
    \cup (IF Bots /\ p.at # "away" THEN {ListKey} ELSE {})
    \cup (IF p.dialog = "settings" THEN {DefaultSettings(saved).list} ELSE {})
    \cup (IF p.at = "bot" THEN {GetKey(p.bot)} ELSE {})
    \cup (IF f.there /\ (~ Sessions(p.bot).waits \/ p.dialog = "sessions") THEN {Sessions(p.bot).key} ELSE {})
    \cup (IF On("openai") /\ (f.there \/ p.dialog \in {"settings", "new"}) THEN {FindOpenaiCreds} ELSE {})
Now == Observed(page, form)

\* UpdateX: a spinner while the row is loaded for the first time, then the form, which takes its
\* values when it appears and not again.
Filled(p, c) ==
    IF p.at # "bot" \/ Loading(At(c, GetKey(p.bot))) THEN NoForm
    ELSE IF form.there THEN form
    ELSE LET data == At(c, GetKey(p.bot)).data
         IN [there |-> TRUE, edited |-> FALSE,
             values |-> Form(<<Update(IF data = <<>> THEN Missing ELSE data[1]).first>>)]

Shown(data) == [there |-> TRUE, n |-> IF Bots THEN data.n ELSE Page(data.n).shown, fallback |-> data.fallback, typed |-> FALSE]

\* Mutant: every answer fills the form of the settings.
Reset_Always(p, c) ==
    LET new == At(c, SettingsQuery.key)
    IN IF p.at = "away" THEN NoForm
       ELSE IF new.data # <<>> /\ (~ settings.there \/ (new.fetch = "idle" /\ new # At(cache, SettingsQuery.key)))
       THEN Shown(new.data[1]) ELSE IF settings.there THEN settings ELSE Blank

\* The effect on the settings' data, which is the same object as long as it is equal.
Reset(p, c) ==
    LET new == At(c, SettingsQuery.key).data
    IN IF p.at = "away" THEN NoForm
       ELSE IF new # <<>> /\ (~ settings.there \/ new # At(cache, SettingsQuery.key).data) THEN Shown(new[1])
       ELSE IF settings.there THEN settings ELSE Blank

\* The page p is rendered, with the cache c: what it observes anew is fetched, the forms follow.
Render(p, c, promises) ==
    LET before == Now
        row == Observe(c, Observed(p, NoForm) \ before, p.bot)
        new == Filled(p, row)
        done == Observe(row, Observed(p, new) \ (before \cup Observed(p, NoForm)), p.bot)
        mounted == (IF p.at # "away" THEN {"settings", "create"} ELSE {})
                   \cup (IF p.at = "bot" THEN {"update", "delete"} ELSE {})
                   \cup (IF new.there THEN {"status", "createCreds", "deleteCreds"} ELSE {})
    IN /\ page' = p /\ cache' = done /\ form' = new /\ settings' = Reset(p, done)
       /\ calls' = [n \in DOMAIN promises |-> [promises[n] EXCEPT !.heard = @ /\ promises[n].do \in mounted]]

-----------------------------------------------------------------------------
(* The user. *)

Ready == On("hasty") \/ Calm
MayGo == (On("brisk") \/ InFlight = {}) /\ (On("leaves") \/ DOMAIN calls = {})
Goes(p) == Render(p, cache, calls) /\ UNCHANGED <<config, server, count>>

\* A dialog is modal: the page stays until it is closed.
Enter == MayGo /\ page.at # "index" /\ page.dialog = "none" /\ Goes(Index)
Leave == MayGo /\ page.at # "away" /\ page.dialog = "none" /\ Goes(Away)

\* A bot of the list is clicked; the page's other components stay.
Visit(bot) ==
    /\ MayGo /\ On("bots")
    /\ page.at = "index" \/ (page.at = "bot" /\ On("switch"))
    /\ page.bot # bot /\ page.dialog = "none"
    /\ At(cache, ListKey).data # <<>> /\ bot \in DOMAIN At(cache, ListKey).data[1]
    /\ Goes(Sheet(bot))

Open(dialog) ==
    /\ Ready /\ Bots /\ page.at # "away" /\ page.dialog = "none"
    /\ dialog \in (IF On("defaults") THEN {"settings"} ELSE {}) \cup (IF On("new") THEN {"new"} ELSE {}) \cup (IF form.there /\ On("status") THEN {"sessions"} ELSE {})
    /\ Goes([page EXCEPT !.dialog = dialog])

\* A dialog is closed: that of the default settings fetches them and the list, that of the
\* sessions fetches these.
Close ==
    /\ MayGo /\ page.dialog # "none"
    /\ LET again == CASE page.dialog = "settings" -> Refetch(Refetch(cache, SettingsQuery.key, page.bot), DefaultSettings(saved).list, page.bot)
                      [] page.dialog = "sessions" -> Refetch(cache, Sessions(page.bot).key, page.bot)
                      [] page.dialog = "new" -> cache
       IN Render([page EXCEPT !.dialog = "none"], again, calls)
    /\ UNCHANGED <<config, server, count>>

Edit ==
    /\ Ready /\ form.there /\ page.dialog = "none" /\ Within("edits", MaxEdits)
    /\ form' = [form EXCEPT !.values.note = count'.edits, !.edited = TRUE]
    /\ UNCHANGED <<cache, config, server, page, settings, calls>>

\* The settings are typed; a fallback is one of the bots that are listed, or none.
Type ==
    /\ Ready /\ settings.there
    /\ Bots => page.dialog = "settings"
    /\ Within("edits", MaxEdits)
    /\ \E n \in 0 .. 2, fallback \in IF On("fallback") THEN 0 .. 2 ELSE {0} :
          /\ On("unset") \/ (n # 0 /\ (fallback # 0 \/ settings.fallback = 0))
          /\ settings' = [settings EXCEPT !.n = n, !.fallback = fallback, !.typed = TRUE]
    /\ UNCHANGED <<cache, config, server, page, form, calls>>

\* A mutation starts; only the latest of each keeps its callbacks.
Start(do, value) ==
    /\ Ready /\ Within("calls", IF On("twice") THEN MaxCalls ELSE 1)
    /\ calls' = (count'.calls :> [do |-> do, bot |-> page.bot, value |-> value, stage |-> "sent", heard |-> TRUE])
                @@ [n \in DOMAIN calls |-> [calls[n] EXCEPT !.heard = @ /\ calls[n].do # do]]
    /\ UNCHANGED <<cache, config, server, page, form>>

SubmitForm ==
    /\ form.there /\ page.dialog = "none" /\ Accepted(form.values)
    /\ Start("update", Update(form.values).sent) /\ UNCHANGED settings
HandleDelete == On("delete") /\ form.there /\ page.dialog = "none" /\ Start("delete", "") /\ UNCHANGED settings
SubmitNew == page.dialog = "new" /\ Start("create", New(Form(<<>>))) /\ UNCHANGED settings
SubmitSettings ==
    /\ settings.there
    /\ ~ Bots /\ (\E n \in DOMAIN calls : calls[n].heard) => ~ Page(0).waits
    /\ Bots => page.dialog = "settings"
    /\ LET value == [n |-> settings.n, fallback |-> settings.fallback]
       IN Start("settings", IF Bots THEN DefaultSettings(value).sent ELSE [n |-> Page(value.n).sent, fallback |-> <<>>])
    /\ settings' = [settings EXCEPT !.typed = FALSE]
ChangeStatus ==
    /\ page.dialog = "sessions" /\ At(cache, Sessions(page.bot).key).data # <<>>
    /\ LET status == At(cache, Sessions(page.bot).key).data[1]
       IN status # "none" /\ \E s \in Offered(status) : Start("status", s)
    /\ UNCHANGED settings
CreateCreds == On("creds") /\ form.there /\ Start("createCreds", 3) /\ UNCHANGED settings
DeleteCreds ==
    /\ On("creds") /\ form.there /\ At(cache, FindOpenaiCreds).data # <<>>
    /\ \E c \in At(cache, FindOpenaiCreds).data[1] : Start("deleteCreds", c)
    /\ UNCHANGED settings

-----------------------------------------------------------------------------
(* The server and its answers. *)

WithoutRows(gone) == [bot \in DOMAIN rows \ gone |-> rows[bot]]
SessionAfter(gone) == IF session.bot \in gone THEN [bot |-> 0, status |-> "none"] ELSE session

\* What the server does with a mutation; the settings' fallback stays if none is sent. Deleting
\* credentials deletes the bots that use them.
Handle(n) ==
    LET call == calls[n]
        gone == IF call.do = "delete" THEN {call.bot}
                ELSE IF call.do = "deleteCreds" THEN {bot \in DOMAIN rows : rows[bot].creds = call.value} ELSE {}
        refused == call.do \in {"update", "delete"} /\ call.bot \notin DOMAIN rows
    IN /\ call.stage = "sent"
       /\ calls' = [calls EXCEPT ![n].stage = IF refused THEN "refused" ELSE "done"]
       /\ rows' = IF call.do = "update" /\ ~ refused THEN [rows EXCEPT ![call.bot] = call.value]
                  ELSE IF call.do = "create" THEN (n + 2 :> [call.value EXCEPT !.of = n + 2]) @@ rows ELSE WithoutRows(gone)
       /\ session' = IF call.do = "status"
                     THEN [session EXCEPT !.status = IF call.value = "delete" THEN "none" ELSE call.value]
                     ELSE SessionAfter(gone)
       /\ saved' = IF call.do # "settings" THEN saved
                   ELSE [n |-> AllEvents(call.value.n),
                         fallback |-> IF call.value.fallback = <<>> THEN saved.fallback ELSE call.value.fallback[1]]
       /\ creds' = IF call.do = "createCreds" THEN creds \cup {call.value}
                   ELSE IF call.do = "deleteCreds" THEN creds \ {call.value} ELSE creds
       /\ UNCHANGED <<cache, config, page, form, settings, count>>

\* What follows on a mutation: the invalidation, if the component is still there to hear of it,
\* then what comes after the await, wherever the user is.
Followed(call) ==
    LET c == IF call.heard THEN Invalidate(cache, Manage[call.do], Now, page.bot) ELSE cache
    IN CASE call.do = "update" -> <<[Sheet(call.bot) EXCEPT !.dialog = page.dialog], Refetch(c, ListKey, 0)>>
         [] call.do = "delete" -> <<[Index EXCEPT !.dialog = IF page.dialog = "sessions" THEN "none" ELSE page.dialog], Refetch(c, ListKey, 0)>>
         [] call.do = "create" -> <<[page EXCEPT !.dialog = IF @ = "new" THEN "none" ELSE @], Refetch(c, ListKey, 0)>>
         [] call.do = "status" -> <<page, Refetch(c, Sessions(call.bot).key, call.bot)>>
         [] call.do = "settings" -> <<page, c>>
         [] call.do \in {"createCreds", "deleteCreds"} -> <<page, Refetch(c, FindOpenaiCreds, 0)>>

Others(n) == [m \in DOMAIN calls \ {n} |-> calls[m]]
Succeed(n) ==
    /\ calls[n].stage = "done"
    /\ LET next == Followed(calls[n]) IN Render(next[1], next[2], Others(n))
    /\ UNCHANGED <<config, server, count>>
\* A toast.
Refuse(n) ==
    /\ calls[n].stage = "refused" /\ calls' = Others(n)
    /\ UNCHANGED <<cache, config, server, page, form, settings, count>>
\* The request, or its answer, is lost.
Lose(n) ==
    /\ On("faults") /\ Within("faults", MaxFaults) /\ calls' = [calls EXCEPT ![n].stage = "refused"]
    /\ UNCHANGED <<cache, config, server, page, form, settings>>

\* What a query reads.
Read(key, arg) ==
    CASE key[1] = "get" -> IF arg \in DOMAIN rows THEN rows[arg] ELSE Missing
      [] key[1] = "list" -> rows
      [] key[1] = "sessions" -> IF arg = session.bot THEN session.status ELSE "none"
      [] key[1] = "settings" -> saved
      [] key[1] = "creds" -> creds

Serve(key) ==
    /\ cache[key].fetch = "sent" /\ cache' = [cache EXCEPT ![key] = Served(@, Read(key, @.arg))]
    /\ UNCHANGED <<config, server, page, form, settings, calls, count>>
Answer(key) ==
    /\ cache[key].fetch = "answered" /\ Render(page, [cache EXCEPT ![key] = Settle(@)], calls)
    /\ UNCHANGED <<config, server, count>>
Fail(key) ==
    /\ cache[key].fetch # "idle" /\ On("faults") /\ Within("faults", MaxFaults)
    /\ Render(page, [cache EXCEPT ![key] = GiveUp(@)], calls)
    /\ UNCHANGED <<config, server>>

-----------------------------------------------------------------------------
(* Others, and time. *)

\* Somebody else saves the settings or a bot; a message of the contact pauses the session.
Elsewhere ==
    /\ On("outside") /\ Within("faults", MaxFaults)
    /\ \/ \E n \in 1 .. 2 : saved' = [saved EXCEPT !.n = n] /\ UNCHANGED <<rows, session>>
       \/ \E bot \in DOMAIN rows : rows' = [rows EXCEPT ![bot].note = 9] /\ UNCHANGED <<saved, session>>
       \/ session.bot # 0 /\ session' = [session EXCEPT !.status = "paused"] /\ UNCHANGED <<rows, saved>>
    /\ UNCHANGED <<cache, config, creds, page, form, settings, calls>>

\* staleTime passes, and the window gets the focus; what nothing observes is removed.
Lapse ==
    /\ On("lapses") /\ Calm /\ Within("lapses", MaxLapses)
    /\ LET kept == {key \in DOMAIN cache : key \in Now \/ (settings.there /\ key = SettingsQuery.key)}
       IN Render(page, [key \in kept |-> IF key \in Now THEN Fetch(cache[key], page.bot) ELSE [cache[key] EXCEPT !.stale = TRUE]], calls)
    /\ UNCHANGED <<config, server>>

UserStep ==
    \/ Enter \/ Leave \/ Close \/ Edit \/ Type
    \/ SubmitForm \/ HandleDelete \/ SubmitNew \/ SubmitSettings \/ ChangeStatus \/ CreateCreds \/ DeleteCreds
    \/ \E bot \in 1 .. MaxCalls + 2 : Visit(bot)
    \/ \E dialog \in {"settings", "new", "sessions"} : Open(dialog)
AnswerStep == \/ \E n \in DOMAIN calls : Handle(n) \/ Succeed(n) \/ Refuse(n)
              \/ \E key \in DOMAIN cache : Serve(key) \/ Answer(key)
FaultStep == \/ \E n \in DOMAIN calls : Lose(n)
             \/ \E key \in DOMAIN cache : Fail(key)

Next == UserStep \/ AnswerStep \/ FaultStep \/ Elsewhere \/ Lapse
Spec == Init /\ [][Next]_vars

-----------------------------------------------------------------------------
Free(excuses) == config \cap excuses = {}

OwnKey == On("dify") \/ On("n8n") \/ On("evoai")

\* What is saved as a bot is the form of that bot: the form was filled from its row, and not from
\* that of the bot that was shown before. Only where the query's key has the bot's id, and where
\* the user does not go from one bot straight to another one, and the row could be loaded.
SavesOwnValues ==
    /\ OwnKey /\ Free({"switch", "outside", "leaves", "faults"})
    => \A n \in DOMAIN calls : calls[n].do = "update" /\ calls[n].bot \in DOMAIN rows => calls[n].value.of = calls[n].bot

\* A bot's form that nobody has edited can be submitted, and then writes what it was loaded with.
\* (Some forms hand on a null that their schema refuses; an update makes a second of a delay of
\* zero; Openai's system messages become one; one who comes back while the row is fetched again gets
\* the form of the old row.)
RoundTrip ==
    /\ form.there /\ ~ form.edited /\ Free({"words"}) /\ (On("null") => OwnKey)
    /\ form.values.of # 0
    => /\ Accepted(form.values)
       /\ OwnKey /\ form.values.of \in DOMAIN rows /\ Calm /\ Free({"outside", "hasty", "brisk", "leaves", "faults", "switch"})
          => Update(form.values).sent.note = rows[form.values.of].note

\* When nothing is in flight, what the page shows as fresh is what the server has. Not if others
\* write, or the user acts before a first load has ended (its answer, of before the write, counts
\* as new), leaves before a mutation's callbacks, or deletes credentials (the bots go with them).
CacheIsCurrent ==
    /\ Calm /\ Free({"outside", "hasty", "leaves", "creds", "faults"})
    => \A key \in Now : cache[key].data # <<>> /\ ~ cache[key].stale =>
           cache[key].data[1] = Read(key, cache[key].arg)

\* What is typed into the settings stays until it is submitted or the page is left. (A
\* first load that comes late replaces it.)
SettingsKeepEdits ==
    [][settings.there /\ settings.typed /\ settings'.there /\ settings'.typed = FALSE
       /\ Free({"outside", "hasty", "leaves"}) /\ At(cache, SettingsQuery.key).data # <<>>
       => \E n \in DOMAIN calls' \ DOMAIN calls : calls'[n].do = "settings"]_vars
=============================================================================
