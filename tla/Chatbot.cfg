SPECIFICATION Spec
CONSTANTS
    InstanceNames = {"a", "b"}
    MaxMessages = 2
    MaxAsks = 1
    MaxBots = 3
    Configs = {{"a", "dify", "typebot", "serial", "requests", "debounce", "stop", "keepOpen"},
               {"a", "dify", "debounce", "listen", "requests"},
               {"a", "openai", "n8n", "serial", "stop"},
               {"a", "typebot", "serial", "requests", "expire", "debounce", "listen"},
               {"a", "evolutionBot", "serial", "requests", "debounce", "stop", "keepOpen"},
               {"a", "b", "evolutionBot", "debounce"}}
INVARIANTS NoMessageLost SilentWhilePaused SessionsHaveBots
PROPERTIES GoesOn
CHECK_DEADLOCK FALSE
