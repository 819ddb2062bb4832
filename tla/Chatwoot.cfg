SPECIFICATION FairSpec
CONSTANTS
    MaxMessages = 2
    MaxPosts = 1
    MaxAttachments = 2
    MaxAsks = 2
    MaxFaults = 1
    Configs = {{"serial", "undo", "deletes", "phone", "reopen", "agent", "media", "album", "read"},
               {"serial", "import", "api", "faults", "agent", "template"},
               {"serial", "import", "placeholder", "undo", "deletes", "agent", "album"},
               {"serial", "import", "history", "age", "media", "drop", "faults"},
               {"serial", "commands", "agent", "media", "faults", "pending", "undo"},
               {"serial", "pending", "reopen", "empty", "edits", "phone", "resolve", "drop"},
               {"api", "commands", "template", "faults", "one"},
               {"phone", "edits"},
               {"undo", "deletes", "agent", "album", "phone", "one"},
               {"drop", "reopen", "agent", "faults"},
               {"import", "history"},
               {"import", "history", "drop", "faults", "one"},
               {"import", "api", "media", "placeholder", "one"}}
INVARIANTS ShownOnce NoDeleteLoop OneConversation AgentIsTold DeletedForBoth
PROPERTIES LostMessagesFound
CHECK_DEADLOCK FALSE
