---------------------------- MODULE ManagerForms ----------------------------
(***************************************************************************)
(* What the manager's pages of the chatbot integrations and of the         *)
(* settings differ in: the keys of their queries, what their mutations     *)
(* invalidate, and how a form is filled from a row and a body from a form. *)
(***************************************************************************)
EXTENDS QueryCache

VARIABLE config  \* the kind of the page and the options of this behaviour

On(option) == option \in config
BotKinds == {"dify", "n8n", "evoai", "flowise", "evolutionBot", "typebot", "openai"}
PlainKinds == {"webhook", "websocket", "rabbitmq", "sqs", "proxy", "settings", "chatwoot"}
Kind == CHOOSE kind \in BotKinds \cup PlainKinds : On(kind)
Bots == Kind \in BotKinds

-----------------------------------------------------------------------------
(* The keys of the queries; 0 where the hook leaves the id out of the key. *)

\* Mutant: Dify's key leaves it out, too.
GetDify_NoId(bot) == <<"get", 0>>

GetDify(bot) == <<"get", bot>>
GetN8n(bot) == <<"get", bot>>
GetEvoai(bot) == <<"get", bot>>
GetFlowise(bot) == <<"get", 0>>
GetEvolutionBot(bot) == <<"get", 0>>
GetTypebot(bot) == <<"get", 0>>
GetOpenai(bot) == <<"get", 0>>

\* The token is part of the key: with it and without it are two entries.
FetchDify(token) == <<"list", token>>
FetchN8n(token) == <<"list", token>>
FetchEvoai(token) == <<"list", token>>
FindFlowise(token) == <<"list", 0>>
FindEvolutionBot(token) == <<"list", 0>>
FindTypebot(token) == <<"list", 0>>
FindOpenai(token) == <<"list", 0>>

FetchSessionsDify(bot) == <<"sessions", bot>>
FetchSessionsN8n(bot) == <<"sessions", bot>>
FetchSessionsEvoai(bot) == <<"sessions", bot>>
FetchSessionsFlowise(bot) == <<"sessions", 0>>
FetchSessionsEvolutionBot(bot) == <<"sessions", 0>>
FetchSessionsTypebot(bot) == <<"sessions", 0>>
FetchSessionsOpenai(bot) == <<"sessions", 0>>

\* always: fetched with the page, not when the dialog opens.
SettingsFindDify == [key |-> <<"settings", 1>>, always |-> TRUE]
SettingsFindN8n == [key |-> <<"settings", 1>>, always |-> TRUE]
SettingsFindEvoai == [key |-> <<"settings", 1>>, always |-> TRUE]
FindDefaultSettingsFlowise == [key |-> <<"settings", 0>>, always |-> FALSE]
FindDefaultSettingsEvolutionBot == [key |-> <<"settings", 0>>, always |-> FALSE]
FindDefaultSettingsTypebot == [key |-> <<"settings", 0>>, always |-> FALSE]
FindDefaultSettingsOpenai == [key |-> <<"settings", 0>>, always |-> FALSE]
FetchWebhook == [key |-> <<"settings", 1>>, always |-> TRUE]
FetchWebsocket == [key |-> <<"settings", 1>>, always |-> TRUE]
FetchRabbitmq == [key |-> <<"settings", 1>>, always |-> TRUE]
FetchSqs == [key |-> <<"settings", 1>>, always |-> TRUE]
FetchProxy == [key |-> <<"settings", 0>>, always |-> TRUE]
FetchSettings == [key |-> <<"settings", 1>>, always |-> TRUE]
FetchChatwoot == [key |-> <<"settings", 1>>, always |-> TRUE]

FindOpenaiCreds == <<"creds", 0>>

-----------------------------------------------------------------------------
(* The names that the mutations invalidate. *)

\* Of the bots: all seven hooks do the same, Openai's has two mutations more.
Managed == [create |-> {"list"}, update |-> {"get", "list", "sessions"}, delete |-> {"get", "list", "sessions"},
            status |-> {"get", "sessions"}, settings |-> {"settings"}]

\* Mutant: the row that was changed is not invalidated, only the list.
ManageDify_KeepsRow == [Managed EXCEPT !.update = {"list"}]

ManageDify == Managed
ManageN8n == Managed
ManageEvoai == Managed
ManageFlowise == Managed
ManageEvolutionBot == Managed
ManageTypebot == Managed
ManageOpenai == [createCreds |-> {"creds"}, deleteCreds |-> {"creds"}] @@ Managed

ManageWebhook == [settings |-> {"settings"}]
ManageWebsocket == [settings |-> {"settings"}]
ManageRabbitmq == [settings |-> {"settings"}]
ManageSqs == [settings |-> {"settings"}]
ManageProxy == [settings |-> {"settings"}]
ManageSettings == [settings |-> {"settings"}]
ManageChatwoot == [settings |-> {"settings"}]

-----------------------------------------------------------------------------
(* Forms and rows. *)

\* A row: whose it is, what its texts say, a text that may be null, the delay, the number of
\* system messages, the switch, the credentials. What is undefined where there is none.
Missing == [of |-> 0, note |-> 0, text |-> "undefined", delay |-> 0, words |-> 0, switch |-> "none", creds |-> 0]

Empty == [Missing EXCEPT !.text = ""]

\* The fields of a form that is filled from a row and of a body: `?? ""` or `|| ""`, the switch of no
\* row, the delay of none.
Text(row) == IF row.text \in {"null", "undefined"} THEN [row EXCEPT !.text = ""] ELSE row
SwitchOr(row, default) == IF row.switch = "none" THEN [row EXCEPT !.switch = default] ELSE row
DelayOr(form, default) == IF form.delay = 0 THEN [form EXCEPT !.delay = default] ELSE form
Joined(row) == IF row.words > 1 THEN [row EXCEPT !.words = 1] ELSE row

\* FormSchema: a text may be left out, and null is not a text.
Accepted(form) == form.text # "null"

\* Mutant: the texts that are null are given to the form as they are.
UpdateDify_Nulls(row) == [first |-> SwitchOr(row, "off"), sent |-> DelayOr(Text(row), 1000)]

\* UpdateX: the form's first values, from the row, and the body, from the form.
UpdateDify(row) == [first |-> SwitchOr(Text(row), "off"), sent |-> DelayOr(Text(row), 1000)]
UpdateN8n(row) == [first |-> SwitchOr(Text(row), "off"), sent |-> DelayOr(Text(row), 1000)]
UpdateEvoai(row) == [first |-> SwitchOr(Text(row), "off"), sent |-> DelayOr(Text(row), 1000)]
UpdateFlowise(row) == [first |-> SwitchOr(row, "on"), sent |-> DelayOr(Text(row), 1000)]
UpdateEvolutionBot(row) == [first |-> SwitchOr(row, "on"), sent |-> DelayOr(Text(row), 1000)]
UpdateTypebot(row) == [first |-> SwitchOr(row, "off"), sent |-> DelayOr(Text(row), 1000)]
\* The system messages are joined for the form and sent as one.
UpdateOpenai(row) == [first |-> SwitchOr(Joined(row), "on"), sent |-> DelayOr(Text([row EXCEPT !.words = 1]), 1000)]

\* XForm: the initial values, or those of a new bot.
DifyForm(initial) == IF initial # <<>> THEN initial[1] ELSE [Empty EXCEPT !.switch = "on"]
N8nForm(initial) == IF initial # <<>> THEN initial[1] ELSE [Empty EXCEPT !.switch = "on"]
EvoaiForm(initial) == IF initial # <<>> THEN initial[1] ELSE [Empty EXCEPT !.switch = "on"]
FlowiseForm(initial) == IF initial # <<>> THEN initial[1] ELSE [Empty EXCEPT !.switch = "on"]
EvolutionBotForm(initial) == IF initial # <<>> THEN initial[1] ELSE [Empty EXCEPT !.switch = "on"]
TypebotForm(initial) == IF initial # <<>> THEN initial[1] ELSE [Empty EXCEPT !.switch = "on"]
OpenaiForm(initial) == IF initial # <<>> THEN initial[1] ELSE [Empty EXCEPT !.switch = "on", !.words = 1]

\* NewX: the body, in which no delay is a delay of zero.
NewDify(form) == DelayOr(Text(form), 0)
NewN8n(form) == DelayOr(Text(form), 0)
NewEvoai(form) == DelayOr(Text(form), 0)
NewFlowise(form) == DelayOr(Text(form), 0)
NewEvolutionBot(form) == DelayOr(Text(form), 0)
NewTypebot(form) == DelayOr(Text(form), 0)
NewOpenai(form) == DelayOr(Text([form EXCEPT !.words = 1]), 0)

\* DefaultSettingsX: the list that the bots to fall back on come from, and what is sent of the
\* settings. `|| undefined` leaves out a fallback of none; Typebot's is never sent.
Optional(fallback) == IF fallback = 0 THEN <<>> ELSE <<fallback>>
DefaultSettingsDify(form) == [list |-> FetchDify(1), sent |-> [form EXCEPT !.fallback = Optional(@)]]
DefaultSettingsN8n(form) == [list |-> FetchN8n(1), sent |-> [form EXCEPT !.fallback = Optional(@)]]
DefaultSettingsEvoai(form) == [list |-> FetchEvoai(1), sent |-> [form EXCEPT !.fallback = Optional(@)]]
DefaultSettingsFlowise(form) == [list |-> FindFlowise(0), sent |-> [form EXCEPT !.fallback = Optional(@)]]
DefaultSettingsEvolutionBot(form) == [list |-> FindEvolutionBot(0), sent |-> [form EXCEPT !.fallback = Optional(@)]]
DefaultSettingsTypebot(form) == [list |-> FindTypebot(1), sent |-> [form EXCEPT !.fallback = <<>>]]
DefaultSettingsOpenai(form) == [list |-> FindOpenai(0), sent |-> [form EXCEPT !.fallback = Optional(@)]]

\* The actions that the list of sessions offers.
Offered(status) == (IF status # "opened" THEN {"opened"} ELSE {})
                   \cup (IF status \notin {"paused", "closed"} THEN {"paused"} ELSE {})
                   \cup (IF status # "closed" THEN {"closed"} ELSE {}) \cup {"delete"}

\* SessionsX: the key, and whether the sessions are fetched only when the dialog is open.
SessionsDify(bot) == [key |-> FetchSessionsDify(bot), waits |-> FALSE]
SessionsN8n(bot) == [key |-> FetchSessionsN8n(bot), waits |-> FALSE]
SessionsEvoai(bot) == [key |-> FetchSessionsEvoai(bot), waits |-> FALSE]
SessionsFlowise(bot) == [key |-> FetchSessionsFlowise(bot), waits |-> TRUE]
SessionsEvolutionBot(bot) == [key |-> FetchSessionsEvolutionBot(bot), waits |-> TRUE]
SessionsTypebot(bot) == [key |-> FetchSessionsTypebot(bot), waits |-> FALSE]
SessionsOpenai(bot) == [key |-> FetchSessionsOpenai(bot), waits |-> TRUE]

\* The pages: the list that they show (Typebot's passes its token, which is not in the key).
Dify == FetchDify(0)
N8n == FetchN8n(0)
Evoai == FetchEvoai(0)
Flowise == FindFlowise(0)
EvolutionBot == FindEvolutionBot(0)
Typebot == FindTypebot(1)
Openai == FindOpenai(0)

\* The pages of the settings: what the form shows of a value, and what is sent. 0 stands for
\* nothing chosen (no events, no days) and 2 for everything. waits: the button is off while one
\* saves.
WebhookPage(n) == [shown |-> n, sent |-> n, waits |-> TRUE]
WebsocketPage(n) == [shown |-> n, sent |-> n, waits |-> TRUE]
RabbitmqPage(n) == [shown |-> n, sent |-> n, waits |-> TRUE]
SqsPage(n) == [shown |-> n, sent |-> n, waits |-> TRUE]
ProxyPage(n) == [shown |-> n, sent |-> n, waits |-> TRUE]
SettingsPage(n) == [shown |-> n, sent |-> n, waits |-> TRUE]
\* `|| 7` days.
ChatwootPage(n) == LET days == IF n = 0 THEN 2 ELSE n IN [shown |-> days, sent |-> days, waits |-> FALSE]

\* The server: no events are all events.
AllEvents(n) == IF n = 0 /\ Kind \in {"webhook", "websocket", "rabbitmq", "sqs"} THEN 2 ELSE n

-----------------------------------------------------------------------------
(* Those of the kind. *)

GetKey(bot) == CASE On("dify") -> GetDify(bot) [] On("n8n") -> GetN8n(bot) [] On("evoai") -> GetEvoai(bot)
                 [] On("flowise") -> GetFlowise(bot) [] On("evolutionBot") -> GetEvolutionBot(bot) [] On("typebot") -> GetTypebot(bot)
                 [] On("openai") -> GetOpenai(bot)
ListKey == CASE On("dify") -> Dify [] On("n8n") -> N8n [] On("evoai") -> Evoai
             [] On("flowise") -> Flowise [] On("evolutionBot") -> EvolutionBot [] On("typebot") -> Typebot
             [] On("openai") -> Openai
Update(row) == CASE On("dify") -> UpdateDify(row) [] On("n8n") -> UpdateN8n(row) [] On("evoai") -> UpdateEvoai(row)
                 [] On("flowise") -> UpdateFlowise(row) [] On("evolutionBot") -> UpdateEvolutionBot(row) [] On("typebot") -> UpdateTypebot(row)
                 [] On("openai") -> UpdateOpenai(row)
Form(initial) == CASE On("dify") -> DifyForm(initial) [] On("n8n") -> N8nForm(initial) [] On("evoai") -> EvoaiForm(initial)
                   [] On("flowise") -> FlowiseForm(initial) [] On("evolutionBot") -> EvolutionBotForm(initial) [] On("typebot") -> TypebotForm(initial)
                   [] On("openai") -> OpenaiForm(initial)
New(form) == CASE On("dify") -> NewDify(form) [] On("n8n") -> NewN8n(form) [] On("evoai") -> NewEvoai(form)
               [] On("flowise") -> NewFlowise(form) [] On("evolutionBot") -> NewEvolutionBot(form) [] On("typebot") -> NewTypebot(form)
               [] On("openai") -> NewOpenai(form)
DefaultSettings(form) == CASE On("dify") -> DefaultSettingsDify(form) [] On("n8n") -> DefaultSettingsN8n(form) [] On("evoai") -> DefaultSettingsEvoai(form)
                           [] On("flowise") -> DefaultSettingsFlowise(form) [] On("evolutionBot") -> DefaultSettingsEvolutionBot(form) [] On("typebot") -> DefaultSettingsTypebot(form)
                           [] On("openai") -> DefaultSettingsOpenai(form)
Sessions(bot) == CASE On("dify") -> SessionsDify(bot) [] On("n8n") -> SessionsN8n(bot) [] On("evoai") -> SessionsEvoai(bot)
                   [] On("flowise") -> SessionsFlowise(bot) [] On("evolutionBot") -> SessionsEvolutionBot(bot) [] On("typebot") -> SessionsTypebot(bot)
                   [] On("openai") -> SessionsOpenai(bot)
Page(n) == CASE On("webhook") -> WebhookPage(n) [] On("websocket") -> WebsocketPage(n) [] On("rabbitmq") -> RabbitmqPage(n)
             [] On("sqs") -> SqsPage(n) [] On("proxy") -> ProxyPage(n) [] On("settings") -> SettingsPage(n)
             [] On("chatwoot") -> ChatwootPage(n)
SettingsQuery == CASE On("dify") -> SettingsFindDify [] On("n8n") -> SettingsFindN8n [] On("evoai") -> SettingsFindEvoai
                   [] On("flowise") -> FindDefaultSettingsFlowise [] On("evolutionBot") -> FindDefaultSettingsEvolutionBot [] On("typebot") -> FindDefaultSettingsTypebot
                   [] On("openai") -> FindDefaultSettingsOpenai [] On("webhook") -> FetchWebhook [] On("websocket") -> FetchWebsocket
                   [] On("rabbitmq") -> FetchRabbitmq [] On("sqs") -> FetchSqs [] On("proxy") -> FetchProxy
                   [] On("settings") -> FetchSettings [] On("chatwoot") -> FetchChatwoot
Manage == CASE On("dify") -> ManageDify [] On("n8n") -> ManageN8n [] On("evoai") -> ManageEvoai
            [] On("flowise") -> ManageFlowise [] On("evolutionBot") -> ManageEvolutionBot [] On("typebot") -> ManageTypebot
            [] On("openai") -> ManageOpenai [] On("webhook") -> ManageWebhook [] On("websocket") -> ManageWebsocket
            [] On("rabbitmq") -> ManageRabbitmq [] On("sqs") -> ManageSqs [] On("proxy") -> ManageProxy
            [] On("settings") -> ManageSettings [] On("chatwoot") -> ManageChatwoot
=============================================================================
