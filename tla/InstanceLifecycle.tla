------------------------- MODULE InstanceLifecycle -------------------------
(***************************************************************************)
(* One instance name of evolution-api with Baileys: its row and its        *)
(* credentials in the database, the service object registered under the    *)
(* name, the sockets that the object opens, the events they emit, the      *)
(* requests, and the listeners of remove, logout and no connection.        *)
(*                                                                         *)
(* Node runs one callback at a time: an action is what happens between two *)
(* awaits, a task of the bag tasks is a callback that waits to be resumed. *)
(***************************************************************************)
EXTENDS Integers, Sequences, Bags

CONSTANTS
    MaxCreates,   \* bound: requests to create the instance
    MaxAsks,      \* bound: other requests
    MaxCloses,    \* bound: connections that the network or the phone ends
    MaxCrashes,   \* bound: ends of the process
    MaxFaults,    \* bound: attempts to connect that throw
    QrLimit,      \* QRCODE.LIMIT
    DelInstance,  \* DEL_INSTANCE is a number
    Serial,       \* requests and the deletion timeout come when nothing is in flight
    Prompt        \* a database call is shorter than the delay of a reconnection

ASSUME BoundsAreNumbers ==
    /\ {MaxCreates, MaxAsks, MaxCloses, MaxCrashes, MaxFaults, QrLimit} \subseteq Nat
    /\ {DelInstance, Serial, Prompt} \subseteq BOOLEAN

VARIABLES
    row,       \* the Instance row of the name: its id (0: none) and status
    creds,     \* the Session row of each id: "none", "new", "paired", or "revoked" by WhatsApp
    reg,       \* waInstances[name]: an object, 0 for none
    obj,       \* the service objects of this process
    sock,      \* the sockets of this process
    tasks,     \* the bag of callbacks that wait to be resumed
    delTimer,  \* the deletion timeout is set
    up,        \* the process runs
    count      \* what the bounds bound

vars == <<row, creds, reg, obj, sock, tasks, delTimer, up, count>>

Ids == 1 .. MaxCreates
NoRow == [id |-> 0, status |-> "close"]

Fresh(id) == [id |-> id, state |-> "close", qr |-> 0, wuid |-> FALSE, ending |-> FALSE,
              deleting |-> FALSE, client |-> 0, auth |-> "none", queue |-> <<>>, busy |-> FALSE]

Task(do, who, arg) == [do |-> do, who |-> who, arg |-> arg]
Waiting(do) == {t \in BagToSet(tasks) : t.do = do}
Add(new) == tasks' = tasks (+) SetToBag(new)
Replace(t, new) == tasks' = (tasks (-) SetToBag({t})) (+) SetToBag(new)
Count(what) == count' = [count EXCEPT ![what] = @ + 1]

Calm == /\ up /\ tasks = EmptyBag
        /\ \A o \in DOMAIN obj : obj[o].queue = <<>> /\ ~ obj[o].busy

Live(s) == sock[s].state # "closed"

\* A number is used again when nothing refers to what had it.
FreeSocks(o) == {s \in DOMAIN sock : ~ Live(s) /\ \A p \in DOMAIN obj \ {o} : obj[p].client # s}
FreeObjects ==
    {o \in DOMAIN obj \ {reg} :
        /\ obj[o].queue = <<>> /\ \A t \in BagToSet(tasks) : t.who # o
        /\ \A s \in DOMAIN sock : sock[s].owner = o => ~ Live(s)}
Slot(free, seq) == IF free = {} THEN Len(seq) + 1 ELSE CHOOSE i \in free : \A j \in free : i <= j
Put(seq, i, v) == IF i > Len(seq) THEN Append(seq, v) ELSE [seq EXCEPT ![i] = v]

\* client.end: a live socket dies and emits its last connection.update.
Ended(s, event) == IF s # 0 /\ Live(s)
                   THEN [obj EXCEPT ![sock[s].owner].queue = Append(@, event)] ELSE obj
Closed(s) == IF s = 0 THEN sock ELSE [sock EXCEPT ![s].state = "closed", ![s].auth = FALSE]
\* client.logout: WhatsApp forgets the device. It throws on a closed socket that is paired.
Unlinked(s) == IF s # 0 /\ Live(s) /\ sock[s].creds = "paired"
               THEN [creds EXCEPT ![obj[sock[s].owner].id] = IF @ = "paired" THEN "revoked" ELSE @]
               ELSE creds
LogoutThrows(s) == s # 0 /\ ~ Live(s) /\ sock[s].creds # "new"

Init ==
    /\ row = NoRow /\ creds = [i \in Ids |-> "none"] /\ reg = 0
    /\ obj = <<>> /\ sock = <<>> /\ tasks = EmptyBag /\ delTimer = FALSE /\ up = TRUE
    /\ count = [creates |-> 0, asks |-> 0, closes |-> 0, crashes |-> 0, faults |-> 0,
                expired |-> 0]

-----------------------------------------------------------------------------
(* Requests. *)

Asked == up /\ (Serial => Calm) /\ count.asks < MaxAsks /\ Count("asks")

AskCreate ==
    /\ up /\ (Serial => Calm) /\ count.creates < MaxCreates /\ reg = 0
    /\ Count("creates") /\ Add({Task("CreateGuard", count.creates + 1, "none")})
    /\ UNCHANGED <<row, creds, reg, obj, sock, delTimer, up>>

\* Mutant: forgets what is registered before it asks whether the name is free.
CreateGuard_ForgetsFirst(t) ==
    /\ t.do = "CreateGuard" /\ reg' = 0
    /\ IF row.id = 0
       THEN LET o == Slot(FreeObjects, obj)
            IN obj' = Put(obj, o, Fresh(t.who)) /\ Replace(t, {Task("CreateSave", o, "none")})
       ELSE Replace(t, {}) /\ UNCHANGED obj
    /\ UNCHANGED <<row, creds, sock, delTimer, up, count>>

\* The name is free in the table: forget what is registered meanwhile, build the object.
CreateGuard(t) ==
    /\ t.do = "CreateGuard"
    /\ IF row.id = 0
       THEN LET o == Slot(FreeObjects, obj)
            IN /\ reg' = 0 /\ obj' = Put(obj, o, Fresh(t.who))
               /\ Replace(t, {Task("CreateSave", o, "none")})
       ELSE Replace(t, {}) /\ UNCHANGED <<reg, obj>>
    /\ UNCHANGED <<row, creds, sock, delTimer, up, count>>

\* The error of saveInstance is swallowed; the object is registered all the same.
CreateSave(t) ==
    /\ t.do = "CreateSave"
    /\ row' = IF row.id = 0 THEN [id |-> obj[t.who].id, status |-> "close"] ELSE row
    /\ reg' = t.who /\ delTimer' = DelInstance
    /\ Replace(t, {Task("CreateConfigure", t.who, "none")})
    /\ UNCHANGED <<creds, obj, sock, up, count>>

\* Events, proxy, settings; with qrcode the object connects.
CreateConfigure(t) ==
    /\ t.do = "CreateConfigure" /\ reg # 0 /\ row.id = obj[reg].id
    /\ \E new \in {{}, {Task("ReadCreds", t.who, "create")}} : Replace(t, new)
    /\ UNCHANGED <<row, creds, reg, obj, sock, delTimer, up, count>>

\* A bad proxy, nothing registered, no row for the settings: whatever has the name is removed.
CreateFails(t) ==
    /\ t.do = "CreateConfigure" /\ Replace(t, {Task("Remove", 0, "none")})
    /\ UNCHANGED <<row, creds, reg, obj, sock, delTimer, up, count>>

Connect ==
    /\ Asked /\ reg # 0 /\ obj[reg].state = "close"
    /\ Add({Task("ReadCreds", reg, "none")})
    /\ UNCHANGED <<row, creds, reg, obj, sock, delTimer, up>>

\* Mutant: connects without ending the socket.
Restart_KeepsSocket ==
    /\ Asked /\ reg # 0 /\ obj[reg].state # "close" /\ Add({Task("ReadCreds", reg, "none")})
    /\ UNCHANGED <<row, creds, reg, obj, sock, delTimer, up>>

\* Ends the socket; connectToWhatsapp then finds the state it had and does nothing.
Restart ==
    /\ Asked /\ reg # 0 /\ obj[reg].state # "close"
    /\ obj' = Ended(obj[reg].client, "closed") /\ sock' = Closed(obj[reg].client)
    /\ UNCHANGED <<row, creds, reg, tasks, delTimer, up>>

\* Mutant: the flags are not set.
StartLogout_NoFlags(then) == UNCHANGED obj /\ Add({Task("Logout", reg, then)})

StartLogout(then) ==
    /\ obj' = [obj EXCEPT ![reg].deleting = TRUE, ![reg].ending = TRUE]
    /\ Add({Task("Logout", reg, then)})

Logout ==
    /\ Asked /\ reg # 0 /\ obj[reg].state # "close" /\ StartLogout("none")
    /\ UNCHANGED <<row, creds, reg, sock, delTimer, up>>

Delete ==
    /\ Asked /\ (reg # 0 \/ row.id # 0)
    /\ IF reg # 0 /\ obj[reg].state # "close"
       THEN StartLogout("delete")
       ELSE Add({Task("Remove", 0, "none")}) /\ UNCHANGED obj
    /\ UNCHANGED <<row, creds, reg, sock, delTimer, up>>

\* client.logout has returned or thrown; the socket is closed in either case.
LogoutClient(t) ==
    /\ t.do = "Logout"
    /\ LET s == obj[t.who].client
       IN /\ \E event \in {"out", "closed"} : obj' = Ended(s, event)
          /\ sock' = Closed(s) /\ creds' = Unlinked(s)
    /\ Replace(t, {Task("RemoveCreds", t.who, t.arg)})
    /\ UNCHANGED <<row, reg, delTimer, up, count>>

RemoveCreds(t) ==
    /\ t.do = "RemoveCreds" /\ creds' = [creds EXCEPT ![obj[t.who].id] = "none"]
    /\ Replace(t, IF t.arg = "delete" THEN {Task("Remove", 0, "none")} ELSE {})
    /\ UNCHANGED <<row, reg, obj, sock, delTimer, up, count>>

-----------------------------------------------------------------------------
(* Connecting. *)

\* defineAuthState: stored credentials or new ones, which are stored if the row is there.
ReadCreds(t) ==
    /\ t.do = "ReadCreds"
    /\ LET i == obj[t.who].id
           c == IF creds[i] = "none" THEN "new" ELSE creds[i]
       IN /\ obj' = [obj EXCEPT ![t.who].auth = c]
          /\ creds' = IF row.id = i THEN [creds EXCEPT ![i] = c] ELSE creds
    /\ sock' = [s \in DOMAIN sock |-> [sock[s] EXCEPT !.auth = @ /\ sock[s].owner # t.who]]
    /\ Replace(t, {Task("OpenSocket", t.who, t.arg)})
    /\ UNCHANGED <<row, reg, delTimer, up, count>>

OpenSocket(t) ==
    /\ t.do = "OpenSocket"
    /\ LET s == Slot(FreeSocks(t.who), sock)
       IN /\ sock' = Put(sock, s, [owner |-> t.who, state |-> "connecting",
                                   creds |-> obj[t.who].auth, auth |-> TRUE])
          /\ obj' = [obj EXCEPT ![t.who].ending = FALSE, ![t.who].client = s,
                                ![t.who].queue = Append(@, "connecting")]
    /\ reg' = IF t.arg = "register" THEN t.who ELSE reg
    /\ Replace(t, {}) /\ UNCHANGED <<row, creds, delTimer, up, count>>

\* connectToWhatsapp throws: a create is undone, a timer or a load gives up.
ConnectFails(t) ==
    /\ t.do = "ReadCreds" /\ count.faults < MaxFaults /\ Count("faults")
    /\ Replace(t, IF t.arg = "create" THEN {Task("Remove", 0, "none")} ELSE {})
    /\ UNCHANGED <<row, creds, reg, obj, sock, delTimer, up>>

\* Three seconds have passed. Nothing is asked about what happened in them.
Reconnect(t) ==
    /\ t.do = "Reconnect"
    /\ Prompt => Waiting("SaveRow") \cup Waiting("SaveCreds") = {}
    /\ Replace(t, {Task("ReadCreds", t.who, "none")})
    /\ UNCHANGED <<row, creds, reg, obj, sock, delTimer, up, count>>

-----------------------------------------------------------------------------
(* What the sockets do. *)

Emit(s, events) == obj' = [obj EXCEPT ![sock[s].owner].queue = @ \o events]

\* Codes come 20 to 60 seconds apart: what the one before has started is done.
Qr(s) ==
    /\ Live(s) /\ sock[s].creds = "new" /\ obj[sock[s].owner].queue = <<>>
    /\ Waiting("Refuse") \cup Waiting("SaveRow") = {}
    /\ Emit(s, <<"qr">>)
    /\ UNCHANGED <<row, creds, reg, sock, tasks, delTimer, up, count>>

\* The phone scans a code: new credentials, and the server asks for a restart.
Pair(s) ==
    /\ Live(s) /\ sock[s].creds = "new" /\ obj[sock[s].owner].qr > 0
    /\ obj' = [obj EXCEPT ![sock[s].owner].queue = @ \o <<"creds", "closed">>,
                          ![sock[s].owner].auth = IF sock[s].auth THEN "paired" ELSE @]
    /\ sock' = [Closed(s) EXCEPT ![s].creds = "paired"]
    /\ UNCHANGED <<row, creds, reg, tasks, delTimer, up, count>>

Open(s) ==
    /\ sock[s].state = "connecting" /\ sock[s].creds = "paired"
    /\ sock' = [sock EXCEPT ![s].state = "open"] /\ Emit(s, <<"open">>)
    /\ UNCHANGED <<row, creds, reg, tasks, delTimer, up, count>>

Close(s) ==
    /\ Live(s) /\ count.closes < MaxCloses /\ Count("closes")
    /\ sock' = Closed(s) /\ Emit(s, <<"closed">>)
    /\ UNCHANGED <<row, creds, reg, tasks, delTimer, up>>

\* The user unlinks the device on the phone.
LogOutByPhone(s) ==
    /\ Live(s) /\ sock[s].creds = "paired" /\ count.closes < MaxCloses /\ Count("closes")
    /\ sock' = Closed(s) /\ creds' = Unlinked(s) /\ Emit(s, <<"out">>)
    /\ UNCHANGED <<row, reg, tasks, delTimer, up>>

Reject(s) ==
    /\ Live(s) /\ sock[s].creds = "revoked"
    /\ sock' = Closed(s) /\ Emit(s, <<"out">>)
    /\ UNCHANGED <<row, creds, reg, tasks, delTimer, up, count>>

-----------------------------------------------------------------------------
(* Handling the events, one at a time for all sockets of an object.        *)

\* After endSession an event is dropped; otherwise the settings are read first.
Dequeue(o) ==
    /\ obj[o].queue # <<>> /\ ~ obj[o].busy
    /\ obj' = IF obj[o].ending THEN [obj EXCEPT ![o].queue = Tail(@)]
                               ELSE [obj EXCEPT ![o].busy = TRUE]
    /\ UNCHANGED <<row, creds, reg, sock, tasks, delTimer, up, count>>

Handles(o, event) == obj[o].busy /\ Head(obj[o].queue) = event
Handled(o) == [obj EXCEPT ![o].queue = Tail(@), ![o].busy = FALSE]

HandleQr(o) ==
    /\ Handles(o, "qr")
    /\ IF obj[o].qr = QrLimit
       THEN obj' = Handled(o) /\ Add({Task("Refuse", o, "none")})
       ELSE /\ obj' = [Handled(o) EXCEPT ![o].qr = @ + 1]
            /\ Add({Task("SaveRow", o, "connecting")})
    /\ UNCHANGED <<row, creds, reg, sock, delTimer, up, count>>

\* endSession, then no.connection, which acts on whatever has the name.
Refuse(t) ==
    /\ t.do = "Refuse"
    /\ LET ended(objs) == [objs EXCEPT ![t.who].ending = TRUE]
           s == obj[reg].client
       IN IF reg = 0 \/ LogoutThrows(s)
          THEN obj' = ended(obj) /\ UNCHANGED <<sock, creds>>
          ELSE /\ obj' = [ended(Ended(s, "out")) EXCEPT ![reg].qr = 0, ![reg].state = "close"]
               /\ sock' = Closed(s) /\ creds' = Unlinked(s)
    /\ Replace(t, {}) /\ UNCHANGED <<row, reg, delTimer, up, count>>

HandleCreds(o) ==
    /\ Handles(o, "creds") /\ obj' = Handled(o) /\ Add({Task("SaveCreds", o, obj[o].auth)})
    /\ UNCHANGED <<row, creds, reg, sock, delTimer, up, count>>

HandleConnecting(o) ==
    /\ Handles(o, "connecting") /\ obj' = [Handled(o) EXCEPT ![o].state = "connecting"]
    /\ UNCHANGED <<row, creds, reg, sock, tasks, delTimer, up, count>>

\* Mutant: the row is not updated.
HandleOpen_NotSaved(o) ==
    /\ Handles(o, "open") /\ obj' = [Handled(o) EXCEPT ![o].state = "open", ![o].wuid = TRUE]
    /\ UNCHANGED <<row, creds, reg, sock, tasks, delTimer, up, count>>

HandleOpen(o) ==
    /\ Handles(o, "open")
    /\ IF sock[obj[o].client].creds = "new"  \* client.user is undefined
       THEN obj' = [Handled(o) EXCEPT ![o].state = "open"] /\ UNCHANGED tasks
       ELSE /\ obj' = [Handled(o) EXCEPT ![o].state = "open", ![o].wuid = TRUE]
            /\ Add({Task("SaveRow", o, "open")})
    /\ UNCHANGED <<row, creds, reg, sock, delTimer, up, count>>

\* isInitialConnection
Initial(o) == ~ obj[o].wuid /\ obj[o].qr = 0
Quiet(o) == obj[o].deleting \/ obj[o].ending \/ Initial(o)

\* Mutant: no reconnection.
HandleClose_Forgets(o, event) ==
    /\ Handles(o, event) /\ obj' = [Handled(o) EXCEPT ![o].state = "close"]
    /\ IF Quiet(o) \/ event = "closed" THEN UNCHANGED tasks
       ELSE Add({Task("SaveClose", o, "close")})
    /\ UNCHANGED <<row, creds, reg, sock, delTimer, up, count>>

HandleClose(o, event) ==
    /\ Handles(o, event) /\ obj' = [Handled(o) EXCEPT ![o].state = "close"]
    /\ IF Quiet(o) THEN UNCHANGED tasks
       ELSE Add({Task(IF event = "closed" THEN "Reconnect" ELSE "SaveClose", o, "close")})
    /\ UNCHANGED <<row, creds, reg, sock, delTimer, up, count>>

-----------------------------------------------------------------------------
(* What the handlers have awaited. *)

Mine(t) == row.id = obj[t.who].id

SaveRow(t) ==
    /\ t.do = "SaveRow" /\ row' = IF Mine(t) THEN [row EXCEPT !.status = t.arg] ELSE row
    /\ Replace(t, {}) /\ UNCHANGED <<creds, reg, obj, sock, delTimer, up, count>>

SaveCreds(t) ==
    /\ t.do = "SaveCreds"
    /\ creds' = IF Mine(t) THEN [creds EXCEPT ![obj[t.who].id] = t.arg] ELSE creds
    /\ Replace(t, {}) /\ UNCHANGED <<row, reg, obj, sock, delTimer, up, count>>

\* Status close, the event logout.instance, the end of the client.
SaveClose(t) ==
    /\ t.do = "SaveClose"
    /\ IF Mine(t)
       THEN /\ row' = [row EXCEPT !.status = "close"]
            /\ Replace(t, {Task("LoggedOut", 0, "none")})
            /\ obj' = Ended(obj[t.who].client, "closed") /\ sock' = Closed(obj[t.who].client)
       ELSE Replace(t, {}) /\ UNCHANGED <<row, obj, sock>>
    /\ UNCHANGED <<creds, reg, delTimer, up, count>>

LoggedOut(t) ==
    /\ t.do = "LoggedOut" /\ delTimer' = FALSE /\ Replace(t, {Task("CleanUpFind", 0, "none")})
    /\ UNCHANGED <<row, creds, reg, obj, sock, up, count>>

-----------------------------------------------------------------------------
(* Removing. *)

\* Mutant: the object stays registered.
Remove_KeepsObject(t) ==
    /\ t.do = "Remove" /\ delTimer' = FALSE
    /\ Replace(t, {Task("CleanUpFind", 0, "none"), Task("CleanStoreFind", 0, "none")})
    /\ UNCHANGED <<row, creds, reg, obj, sock, up, count>>

\* remove.instance after its webhook; the two clean-ups are not awaited.
Remove(t) ==
    /\ t.do = "Remove" /\ delTimer' = FALSE /\ reg' = 0
    /\ Replace(t, {Task("CleanUpFind", 0, "none"), Task("CleanStoreFind", 0, "none")})
    /\ UNCHANGED <<row, creds, obj, sock, up, count>>

CleanUpFind(t) ==
    /\ t.do = "CleanUpFind"
    /\ Replace(t, IF row.id = 0 THEN {} ELSE {Task("CleanUpUpdate", 0, "none")})
    /\ UNCHANGED <<row, creds, reg, obj, sock, delTimer, up, count>>

\* By name. It throws if the row is gone.
CleanUpUpdate(t) ==
    /\ t.do = "CleanUpUpdate"
    /\ row' = IF row.id = 0 THEN row ELSE [row EXCEPT !.status = "close"]
    /\ Replace(t, IF row.id = 0 THEN {} ELSE {Task("CleanUpSession", row.id, "none")})
    /\ UNCHANGED <<creds, reg, obj, sock, delTimer, up, count>>

CleanUpSession(t) ==
    /\ t.do = "CleanUpSession" /\ creds' = [creds EXCEPT ![t.who] = "none"]
    /\ Replace(t, {}) /\ UNCHANGED <<row, reg, obj, sock, delTimer, up, count>>

CleanStoreFind(t) ==
    /\ t.do = "CleanStoreFind"
    /\ Replace(t, IF row.id = 0 THEN {} ELSE {Task("CleanStoreRows", row.id, "none")})
    /\ UNCHANGED <<row, creds, reg, obj, sock, delTimer, up, count>>

\* The session and sixteen tables, by the id that was found.
CleanStoreRows(t) ==
    /\ t.do = "CleanStoreRows" /\ creds' = [creds EXCEPT ![t.who] = "none"]
    /\ Replace(t, {Task("CleanStoreRow", 0, "none")})
    /\ UNCHANGED <<row, reg, obj, sock, delTimer, up, count>>

\* By name; what still refers to the row goes with it.
CleanStoreRow(t) ==
    /\ t.do = "CleanStoreRow" /\ row' = NoRow
    /\ creds' = IF row.id = 0 THEN creds ELSE [creds EXCEPT ![row.id] = "none"]
    /\ Replace(t, {}) /\ UNCHANGED <<reg, obj, sock, delTimer, up, count>>

\* The deletion timeout.
Expire ==
    /\ up /\ (Serial => Calm) /\ delTimer /\ delTimer' = FALSE /\ Count("expired")
    /\ LET state == IF reg = 0 THEN "none" ELSE obj[reg].state
       IN CASE state = "open"       -> UNCHANGED tasks
            [] state = "connecting" -> Add({Task("ExpireLogout", reg, "none")})
            [] OTHER                -> Add({Task("Remove", 0, "none")})
    /\ UNCHANGED <<row, creds, reg, obj, sock, up>>

ExpireLogout(t) ==
    /\ t.do = "ExpireLogout"
    /\ LET s == obj[t.who].client
       IN IF LogoutThrows(s)
          THEN Replace(t, {}) /\ UNCHANGED <<creds, obj, sock>>
          ELSE /\ obj' = Ended(s, "out") /\ sock' = Closed(s) /\ creds' = Unlinked(s)
               /\ Replace(t, {Task("Remove", 0, "none")})
    /\ UNCHANGED <<row, reg, delTimer, up, count>>

-----------------------------------------------------------------------------
Crash ==
    /\ up /\ count.crashes < MaxCrashes /\ Count("crashes") /\ up' = FALSE
    /\ reg' = 0 /\ obj' = <<>> /\ sock' = <<>> /\ tasks' = EmptyBag /\ delTimer' = FALSE
    /\ UNCHANGED <<row, creds>>

\* An instance that was open or connecting connects, and is registered when it has.
Load ==
    /\ ~ up /\ up' = TRUE
    /\ obj' = IF row.id = 0 THEN <<>> ELSE <<Fresh(row.id)>>
    /\ IF row.id # 0 /\ row.status # "close"
       THEN Add({Task("ReadCreds", 1, "register")}) /\ UNCHANGED reg
       ELSE reg' = Len(obj') /\ UNCHANGED tasks
    /\ UNCHANGED <<row, creds, sock, delTimer, count>>

Requests == AskCreate \/ Connect \/ Restart \/ Logout \/ Delete

Resumed == BagToSet(tasks)
CreateStep == \E t \in Resumed : CreateGuard(t) \/ CreateSave(t) \/ CreateConfigure(t) \/ CreateFails(t)
ConnectStep == \E t \in Resumed : ReadCreds(t) \/ OpenSocket(t) \/ ConnectFails(t) \/ Reconnect(t)
LogoutStep == \E t \in Resumed : LogoutClient(t) \/ RemoveCreds(t) \/ ExpireLogout(t) \/ LoggedOut(t)
SaveStep == \E t \in Resumed : SaveRow(t) \/ SaveCreds(t) \/ SaveClose(t) \/ Refuse(t)
CleanStep == \E t \in Resumed :
    \/ Remove(t) \/ CleanUpFind(t) \/ CleanUpUpdate(t) \/ CleanUpSession(t)
    \/ CleanStoreFind(t) \/ CleanStoreRows(t) \/ CleanStoreRow(t)

HandleEvent(o) ==
    \/ Dequeue(o) \/ HandleQr(o) \/ HandleCreds(o) \/ HandleConnecting(o) \/ HandleOpen(o)
    \/ HandleClose(o, "closed") \/ HandleClose(o, "out")

Answer(s) == Open(s) \/ Reject(s)
SocketEvent == \E s \in DOMAIN sock : Qr(s) \/ Pair(s) \/ Answer(s) \/ Close(s) \/ LogOutByPhone(s)

Idle == Calm /\ UNCHANGED vars

Next == \/ Requests
        \/ CreateStep \/ ConnectStep \/ LogoutStep
        \/ SaveStep \/ CleanStep
        \/ (\E o \in DOMAIN obj : HandleEvent(o))
        \/ SocketEvent \/ Expire \/ Crash \/ Load \/ Idle

Spec == Init /\ [][Next]_vars

\* Callbacks are resumed, events are handled, WhatsApp answers, the process is restarted.
FairSpec ==
    /\ Spec /\ WF_vars(\E s \in DOMAIN sock : Answer(s)) /\ WF_vars(Load)
    /\ WF_vars(CreateStep) /\ WF_vars(ConnectStep) /\ WF_vars(LogoutStep)
    /\ WF_vars(SaveStep) /\ WF_vars(CleanStep)
    /\ WF_vars(\E o \in DOMAIN obj : HandleEvent(o))

-----------------------------------------------------------------------------
(* Properties. *)

\* What is registered under the name is the instance of the row, and a row is
\* registered unless a load failed: deletion and creation leave none without the other.
RegistryMatchesTable ==
    Calm => /\ reg # 0 => row.id = obj[reg].id
            /\ row.id # 0 /\ count.faults = 0 => reg # 0

\* However creations, deletions, timeouts and crashes overlap, no row stays behind without an
\* object: none is there that the monitor has forgotten, whose name a create refuses and no
\* connect finds, unless an attempt to connect has thrown (instanceLoggedGuard, createInstance,
\* removeInstance, loadInstance).
NoOrphanRow == Calm /\ row.id # 0 /\ count.faults = 0 => reg # 0

\* Nothing but the registered object has a connection: a deleted or replaced instance
\* does not go on as a WhatsApp client that no request can reach. The deletion
\* timeout is left out: it awaits a logout during which the socket may close by itself.
NoZombie ==
    Calm /\ count.expired = 0 =>
        \A s \in DOMAIN sock : Live(s) => sock[s].owner = reg /\ obj[reg].client = s

\* No two connections with the credentials of one instance at the same time, not
\* even while one replaces the other: WhatsApp would end each in turn.
OneSocket == count.expired = 0 => \A s, r \in DOMAIN sock : Live(s) /\ Live(r) => s = r

\* An instance that is open is open in the table, so that a restarted process
\* connects it again.
OpenIsRecorded == Calm /\ reg # 0 => (obj[reg].state = "open" => row.status = "open")

\* A reconnection, three seconds after a close, is made for the registered object only:
\* no deletion in between is undone by it.
ReconnectsRegistered ==
    [][\A t \in Waiting("Reconnect") : ~ BagIn(t, tasks') /\ up' => t.who = reg]_vars

\* A registered instance was connected and still has its credentials, and has no connection.
Lost == /\ reg # 0 /\ obj[reg].wuid /\ ~ obj[reg].deleting /\ ~ obj[reg].ending
        /\ creds[obj[reg].id] = "paired" /\ sock[obj[reg].client].state # "open"

\* A lost connection does not stay lost, if no attempt to connect throws.
ConnectionRestored == []<>(~ Lost \/ count.faults > 0)
=============================================================================
