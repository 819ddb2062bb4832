SPECIFICATION FairSpec
CONSTANTS
    Configs = {{"rabbitmq", "qrcode", "message"},
               {"kafka", "global", "requests", "message"},
               {"websocket", "nats", "sqs", "webhook", "pusher", "kafka", "qrcode"},
               {"websocket", "rabbitmq", "requests", "message", "call"},
               {"websocket", "nats", "global", "requests", "sqs", "pusher", "limit"},
               {"nats", "webhook", "pusher", "badKey", "message", "call"}}
    MaxAttempts = 2
    MaxPosts = 2
    MaxSets = 1
    MaxFaults = 2
INVARIANTS NoDeadChannel RetriesAreSound Contained
PROPERTIES LinksKeepPromise LinksSettle
CHECK_DEADLOCK FALSE
