SPECIFICATION Spec
CONSTANTS
    MaxCalls = 2
    MaxEdits = 1
    MaxLapses = 1
    MaxFaults = 1
    Configs = { {"dify", "null", "brisk", "bots"}, {"dify", "bots", "switch", "delete"}, {"dify", "defaults", "fallback"},
                {"n8n", "null", "bots", "status"}, {"n8n", "defaults", "hasty"},
                {"evoai", "bots", "new", "zero", "lapses"}, {"evoai", "bots", "twice"},
                {"flowise", "bots", "status", "switch"}, {"flowise", "defaults", "fallback", "unset", "twice"},
                {"evolutionBot", "bots", "defaults"}, {"evolutionBot", "bots", "leaves"},
                {"evolutionBot", "bots", "delete", "faults"},
                {"typebot", "bots", "zero", "status", "outside"}, {"typebot", "defaults", "fallback"},
                {"openai", "bots", "creds", "words"}, {"openai", "bots", "new", "defaults"},
                {"webhook", "unset", "twice"}, {"websocket", "outside", "lapses", "twice"}, {"rabbitmq", "hasty", "twice"},
                {"sqs", "leaves", "lapses"}, {"proxy", "faults", "lapses", "twice"}, {"settings", "lapses", "twice"},
                {"chatwoot", "lapses", "twice"} }
INVARIANTS SavesOwnValues RoundTrip CacheIsCurrent
PROPERTIES SettingsKeepEdits
CHECK_DEADLOCK FALSE
