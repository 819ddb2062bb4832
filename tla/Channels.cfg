SPECIFICATION Spec
CONSTANTS
    MaxMessages = 2
    MaxUpdates = 2
    MaxAsks = 1
    MaxFaults = 1
    Configs = { {"wa", "prompt", "updates", "stubs", "edits", "gone"}, {"wa", "prompt", "updates", "stubs"},
                {"wa", "prompt", "updates", "receipts", "own"}, {"wa", "prompt", "receipts"},
                {"wa", "prompt", "updates", "group", "ignore", "same"},
                {"wa", "media", "video", "s3"}, {"wa", "media", "video", "s3", "noVideo"},
                {"wa", "chats", "mysql"}, {"wa", "chats", "prompt", "updates"},
                {"wa", "history", "resync", "prompt"}, {"wa", "history", "updates"},
                {"wa", "asks", "updates", "prompt"}, {"wa", "asks", "logical", "shared"}, {"wa", "asks", "edits", "bots", "faults"},
                {"wa", "asks", "media", "s3", "faults"}, {"wa", "asks", "labels", "faults", "mysql"},
                {"meta", "serial", "second", "stubs", "media", "video", "s3"},
                {"meta", "second", "entries", "media", "video", "s3", "noVideo", "faults"},
                {"meta", "updates", "asks", "faults", "bots"}, {"meta", "asks", "media", "faults"},
                {"evolution", "second", "asks", "faults"}, {"evolution", "asks", "media", "s3", "faults", "bots"},
                {"evolution", "second", "bots", "asks", "shared"} }
INVARIANTS Delivered UnreadMatches OneRow RowsNameTheirContact
CHECK_DEADLOCK FALSE
