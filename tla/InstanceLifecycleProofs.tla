------------------------ MODULE InstanceLifecycleProofs ------------------------
(***************************************************************************)
(* InstanceLifecycle, for any number of requests, lost connections,        *)
(* crashes and failed attempts to connect. Whatever overlaps, no row stays *)
(* behind without an object (NoOrphanRowHolds). With requests one at a     *)
(* time, which nothing in the code sees to, the registered object is the   *)
(* instance of the row, it alone has a connection, and never two; and what *)
(* is open is open in the table.                                           *)
(***************************************************************************)
EXTENDS InstanceLifecycle, DataFacts, SequenceTheorems

-----------------------------------------------------------------------------
(* The inductive invariant *)

Events == {"qr", "creds", "connecting", "open", "closed", "out"}
Ends == {"closed", "out"}
States == {"close", "connecting", "open"}

ObjectFields ==
    {"id", "state", "qr", "wuid", "ending", "deleting", "client", "auth", "queue", "busy"}
IsObject(r) ==
    /\ DOMAIN r = ObjectFields
    /\ r.id \in Nat /\ r.id # 0 /\ r.state \in States
    /\ r.ending \in BOOLEAN /\ r.busy \in BOOLEAN /\ r.queue \in Seq(Events)

\* The callbacks whose number is an object's.
OfObject == {"CreateSave", "CreateConfigure", "ReadCreds", "OpenSocket", "Logout", "RemoveCreds",
             "Reconnect", "Refuse", "SaveRow", "SaveCreds", "SaveClose", "ExpireLogout"}

IsSocket(r) == DOMAIN r = {"owner", "state", "creds", "auth"}
IsTask(t) == t = Task(t.do, t.who, t.arg) /\ (t.do \in OfObject => t.who \in DOMAIN obj)

IsRow(r) == r = [id |-> r.id, status |-> r.status] /\ r.id \in Nat

IsCount == DOMAIN count = {"creates", "asks", "closes", "crashes", "faults", "expired"}

\* What is counted and stored. A process that is down has nothing.
TypeInv ==
    /\ IsABag(tasks) /\ \A t \in Resumed : IsTask(t)
    /\ IsList(obj) /\ \A o \in DOMAIN obj : IsObject(obj[o])
    /\ IsList(sock) /\ \A s \in DOMAIN sock : IsSocket(sock[s]) /\ sock[s].owner \in DOMAIN obj
    /\ reg = 0 \/ reg \in DOMAIN obj
    /\ IsRow(row)
    /\ IsCount /\ {count.creates, count.faults, count.expired} \subseteq Nat
    /\ ~ up => tasks = EmptyBag /\ reg = 0 /\ obj = <<>> /\ sock = <<>>

\* The objects are of different instances, and a create under way is of a new one.
IdInv ==
    /\ \A o, p \in DOMAIN obj : obj[o].id = obj[p].id => o = p
    /\ \A o \in DOMAIN obj : obj[o].id <= count.creates
    /\ row.id <= count.creates
    /\ \A t \in Resumed : t.do = "CreateGuard" =>
          t.who = count.creates /\ row.id < t.who /\ \A o \in DOMAIN obj : obj[o].id < t.who

Cleans == {"CleanStoreFind", "CleanStoreRows", "CleanStoreRow"}
Manages == {"CreateGuard", "CreateSave", "CreateConfigure", "Remove", "Logout", "RemoveCreds",
            "ExpireLogout"} \cup Cleans

\* A request or the deletion timeout goes on, or the process loads the instance.
Managing(t) == t.do \in Manages \/ (t.do \in {"ReadCreds", "OpenSocket"} /\ t.arg # "none")
Loading(t) == t.do \in {"ReadCreds", "OpenSocket"} /\ t.arg = "register"

IsLoading(t) == /\ reg = 0 /\ Resumed = {t} /\ DOMAIN sock = {} /\ DOMAIN obj = {t.who}
                /\ row.id = obj[t.who].id
                /\ obj[t.who].queue = <<>> /\ obj[t.who].state = "close" /\ ~ obj[t.who].busy

\* One at a time, each with the registration that it leaves or has left.
ManageInv ==
    /\ \A t, u \in Resumed : Managing(t) /\ Managing(u) => t = u
    /\ \A t \in Resumed : Managing(t) => tasks[t] = 1
    /\ \A t \in Resumed : t.do \in {"CreateGuard", "CreateSave"} \cup Cleans => reg = 0
    /\ \A t \in Resumed : t.do = "CreateSave" => row.id = 0
    /\ \A t \in Resumed : t.do = "CreateConfigure" => reg = t.who
    /\ \A t \in Resumed : Loading(t) => IsLoading(t)
    /\ reg # 0 => row.id = obj[reg].id
    /\ up /\ row.id # 0 /\ count.faults = 0 =>
          reg # 0 \/ \E t \in Resumed : t.do \in Cleans \/ Loading(t)

\* No socket of the object is live.
Mute(o) == \A s \in DOMAIN sock : sock[s].owner = o => ~ Live(s)

\* An object refers to its last socket, the only one of its sockets that can be live.
ClientInv ==
    /\ \A o \in DOMAIN obj : obj[o].client # 0 =>
          obj[o].client \in DOMAIN sock /\ sock[obj[o].client].owner = o
    /\ \A s \in DOMAIN sock : Live(s) => obj[sock[s].owner].client = s

\* What follows the last event of a socket comes from the next, and the phone has accepted the
\* credentials of the one that opens.
QueueInv ==
    \A o \in DOMAIN obj :
        /\ obj[o].busy => obj[o].queue # <<>>
        /\ \A i \in DOMAIN obj[o].queue :
              /\ obj[o].queue[i] \in Ends => i = Len(obj[o].queue) /\ Mute(o)
              /\ obj[o].queue[i] = "open" =>
                    obj[o].client # 0 /\ sock[obj[o].client].creds = "paired"

\* The callbacks that end in a new socket. One of them is an object's only one, and the object
\* has no socket and nothing to handle.
Opening == {"CreateSave", "CreateConfigure", "Reconnect", "ReadCreds", "OpenSocket"}

NoToken(o) == \A t \in Resumed : t.do \in Opening => t.who # o

TokenInv ==
    \A t \in Resumed : t.do \in Opening =>
        /\ tasks[t] = 1 /\ obj[t.who].queue = <<>> /\ Mute(t.who)
        /\ \A u \in Resumed : u.do \in Opening /\ u.who = t.who => u = t

In(e, o) == \E i \in DOMAIN obj[o].queue : obj[o].queue[i] = e

\* The registered object knows of its socket: a request that finds it closed finds no socket.
LiveInv ==
    \A s \in DOMAIN sock : Live(s) /\ sock[s].owner = reg =>
        \/ In("connecting", reg) /\ ~ obj[reg].ending
        \/ obj[reg].state = "connecting"
        \/ obj[reg].state = "open" /\ sock[s].creds = "paired"

\* An object that nothing wakes up.
Asleep(o) == obj[o].queue = <<>> \/ (obj[o].ending /\ ~ obj[o].busy)

\* Before it is removed, an object has no socket, opens none, and handles no event.
LeftTask(t) ==
    /\ t.do \in Opening => t.who = reg \/ Loading(t) \/ t.do = "CreateSave"
    /\ t.do = "Remove" /\ reg # 0 => Mute(reg) /\ NoToken(reg) /\ Asleep(reg)
    /\ t.do \in {"Logout", "RemoveCreds"} =>
          t.who = reg /\ obj[reg].ending /\ ~ obj[reg].busy /\ NoToken(reg)
    /\ t.do = "RemoveCreds" => Mute(reg)
    /\ t.do # "ExpireLogout"

LeftInv == count.expired = 0 =>
    /\ \A s \in DOMAIN sock : Live(s) => sock[s].owner = reg
    /\ \A o \in DOMAIN obj : o # reg => Asleep(o)
    /\ \A t \in Resumed : LeftTask(t)

IInv == /\ TypeInv /\ IdInv /\ ManageInv /\ ClientInv
        /\ QueueInv /\ TokenInv /\ LiveInv /\ LeftInv

-----------------------------------------------------------------------------
(* The callbacks that a step takes out and puts in *)

Once(t) == tasks[t] = 1

Turns(gone, new) ==
    /\ IsABag(tasks')
    /\ Resumed' \subseteq Resumed \cup new
    /\ (Resumed \ gone) \cup new \subseteq Resumed'
    /\ \A u \in gone \ new : Once(u) => u \notin Resumed'
    /\ \A u \in Resumed' \ new : Once(u) => Once(u)'
    /\ \A u \in new \ Resumed : Once(u)'

LEMMA ReplaceTurns ==
    ASSUME IsABag(tasks), NEW t \in Resumed, NEW new, Replace(t, new)
    PROVE  Turns({t}, new)
  <1> DEFINE B == tasks
             C == tasks'
  <1>1. t \in BagToSet(B) /\ IsABag(B)
    BY DEF Resumed
  <1>2. C = With(Without(B, t), new)
    BY DEF Replace, With, Without
  <1> HIDE DEF B, C
  <1>3. Replaced(B, t, new, C)
    BY <1>1, <1>2, ReplaceOne, Zenon
  <1>4. IsABag(C) /\ \A u \in BagToSet(C) : C[u] \in Nat /\ C[u] > 0
    BY <1>3 DEF Replaced, IsABag, BagToSet
  <1>5. \A u \in BagToSet(C) \ new : B[u] = 1 => C[u] = 1
    BY <1>3, <1>4 DEF Replaced
  <1>. QED BY <1>3, <1>5 DEF Replaced, Turns, Once, Resumed, B, C

LEMMA AddTurns ==
    ASSUME IsABag(tasks), NEW new, Add(new)
    PROVE  Turns({}, new)
  <1> DEFINE B == tasks
             C == tasks'
  <1>1. IsABag(B)
    OBVIOUS
  <1>2. C = With(B, new)
    BY DEF Add, With
  <1> HIDE DEF B, C
  <1>3. Added(B, new, C)
    BY <1>1, <1>2, AddTasks, Zenon
  <1>. QED BY <1>3 DEF Added, Turns, Once, Resumed, B, C

LEMMA NothingTurns ==
    ASSUME IsABag(tasks), UNCHANGED tasks
    PROVE  Turns({}, {})
  BY DEF Turns, Once, Resumed

-----------------------------------------------------------------------------
(* What a step does to the objects and the sockets *)

\* The last event of a socket is the last of the queue.
EndsQueue(q, r) ==
    /\ r \in Seq(Events) /\ Len(q) < Len(r)
    /\ \A i \in 1 .. Len(q) : r[i] = q[i]
    /\ \A i \in 1 .. Len(r) : i > Len(q) =>
          r[i] \in {"creds"} \cup Ends /\ (r[i] \in Ends => i = Len(r))

\* Sockets die, objects end their sessions.
DropsObject(o) ==
    /\ IsObject(obj'[o])
    /\ obj'[o].id = obj[o].id /\ obj'[o].client = obj[o].client /\ obj'[o].busy = obj[o].busy
    /\ obj[o].ending => obj'[o].ending
    /\ obj'[o].ending # obj[o].ending /\ o = reg => Mute(o)' \/ obj[o].queue = <<>>
    /\ obj'[o].state # obj[o].state => obj'[o].state = "close" /\ (o = reg => Mute(o)')
    /\ \/ obj'[o].queue = obj[o].queue
       \/ EndsQueue(obj[o].queue, obj'[o].queue) /\ ~ Mute(o) /\ Mute(o)'

DropsSocket(s) ==
    /\ IsSocket(sock'[s]) /\ sock'[s].owner = sock[s].owner
    /\ sock'[s].state # sock[s].state => sock'[s].state = "closed"
    /\ sock'[s].creds # sock[s].creds => sock'[s].creds = "paired" /\ sock'[s].state = "closed"

Drops ==
    /\ IsList(obj') /\ DOMAIN obj' = DOMAIN obj /\ \A o \in DOMAIN obj : DropsObject(o)
    /\ IsList(sock') /\ DOMAIN sock' = DOMAIN sock /\ \A s \in DOMAIN sock : DropsSocket(s)

LEMMA StillDrops ==
    ASSUME TypeInv, UNCHANGED <<obj, sock>>
    PROVE  Drops
  <1>1. obj' = obj /\ sock' = sock
    OBVIOUS
  <1>2. IsList(obj) /\ IsList(sock) /\ (\A o \in DOMAIN obj : IsObject(obj[o]))
        /\ (\A s \in DOMAIN sock : IsSocket(sock[s])) /\ (reg = 0 \/ reg \in DOMAIN obj)
    BY DEF TypeInv
  <1>3. \A o \in DOMAIN obj : DropsObject(o)
    BY <1>1, <1>2 DEF DropsObject
  <1>4. \A s \in DOMAIN sock : DropsSocket(s)
    BY <1>1, <1>2 DEF DropsSocket, IsSocket
  <1>. QED BY <1>1, <1>2, <1>3, <1>4 DEF Drops

\* The objects O and the sockets S after the end of a socket whose object gets the events es.
EndFacts(O, S, s, es) ==
    /\ IsList(O) /\ DOMAIN O = DOMAIN obj
    /\ \A o \in DOMAIN obj :
          /\ DOMAIN O[o] = ObjectFields
          /\ O[o].id = obj[o].id /\ O[o].state = obj[o].state /\ O[o].ending = obj[o].ending
          /\ O[o].client = obj[o].client /\ O[o].busy = obj[o].busy
          /\ O[o].queue = IF s # 0 /\ Live(s) /\ o = sock[s].owner
                          THEN obj[o].queue \o es ELSE obj[o].queue
    /\ IsList(S) /\ DOMAIN S = DOMAIN sock
    /\ \A r \in DOMAIN sock :
          /\ DOMAIN S[r] = DOMAIN sock[r]
          /\ S[r].owner = sock[r].owner /\ S[r].creds = sock[r].creds
          /\ S[r].state = IF s # 0 /\ r = s THEN "closed" ELSE sock[r].state

LEMMA EndedFacts ==
    ASSUME TypeInv, NEW s, s # 0 => s \in DOMAIN sock, NEW e \in Ends
    PROVE  EndFacts(Ended(s, e), Closed(s), s, <<e>>)
  <1> DEFINE O == Ended(s, e)
             S == Closed(s)
             live == s # 0 /\ Live(s)
  <1>1. /\ IsList(obj) /\ IsList(sock) /\ (\A o \in DOMAIN obj : IsObject(obj[o]))
        /\ \A r \in DOMAIN sock : IsSocket(sock[r])
        /\ DOMAIN obj = 1 .. Len(obj) /\ DOMAIN sock = 1 .. Len(sock)
        /\ Len(obj) \in Nat /\ Len(sock) \in Nat
    BY DEF TypeInv, IsList
  <1>2. O = IF live THEN [obj EXCEPT ![sock[s].owner].queue = Append(@, e)] ELSE obj
    BY DEF Ended
  <1>3. S = IF s = 0 THEN sock ELSE [sock EXCEPT ![s].state = "closed", ![s].auth = FALSE]
    BY DEF Closed
  <1> HIDE DEF O, S
  <1>4. DOMAIN O = DOMAIN obj /\ O = [o \in DOMAIN O |-> O[o]]
    BY <1>1, <1>2 DEF IsList
  <1>5. DOMAIN S = DOMAIN sock /\ S = [r \in DOMAIN S |-> S[r]]
    BY <1>1, <1>3 DEF IsList
  <1>6. IsList(O) /\ IsList(S)
    BY <1>1, <1>4, <1>5, FunctionIsList
  <1>7. ASSUME NEW o \in DOMAIN obj
        PROVE  /\ DOMAIN O[o] = ObjectFields
               /\ O[o].id = obj[o].id /\ O[o].state = obj[o].state
               /\ O[o].ending = obj[o].ending
               /\ O[o].client = obj[o].client /\ O[o].busy = obj[o].busy
               /\ O[o].queue = IF s # 0 /\ Live(s) /\ o = sock[s].owner
                               THEN obj[o].queue \o <<e>> ELSE obj[o].queue
    <2>1. DOMAIN obj[o] = ObjectFields /\ obj[o].queue \in Seq(Events) /\ e \in Events
      BY <1>1 DEF IsObject, Ends, Events
    <2>2. Append(obj[o].queue, e) = obj[o].queue \o <<e>>
      BY <2>1
    <2>3. CASE live /\ o = sock[s].owner
      <3>1. O[o] = [obj[o] EXCEPT !.queue = Append(obj[o].queue, e)]
        BY <1>2, <2>3
      <3>. QED BY <2>1, <2>2, <2>3, <3>1 DEF ObjectFields
    <2>4. CASE ~ (live /\ o = sock[s].owner)
      <3>1. O[o] = obj[o]
        BY <1>2, <2>4
      <3>. QED BY <2>1, <2>4, <3>1
    <2>. QED BY <2>3, <2>4
  <1>8. ASSUME NEW r \in DOMAIN sock
        PROVE  /\ DOMAIN S[r] = DOMAIN sock[r]
               /\ S[r].owner = sock[r].owner /\ S[r].creds = sock[r].creds
               /\ S[r].state = IF s # 0 /\ r = s THEN "closed" ELSE sock[r].state
    <2>1. DOMAIN sock[r] = {"owner", "state", "creds", "auth"}
      BY <1>1 DEF IsSocket
    <2>2. CASE s # 0 /\ r = s
      <3>1. S[r] = [[sock[r] EXCEPT !.state = "closed"] EXCEPT !.auth = FALSE]
        BY <1>3, <2>2
      <3>. QED BY <2>1, <2>2, <3>1
    <2>3. CASE ~ (s # 0 /\ r = s)
      <3>1. S[r] = sock[r]
        BY <1>3, <2>3
      <3>. QED BY <2>3, <3>1
    <2>. QED BY <2>2, <2>3
  <1>. QED BY <1>4, <1>5, <1>6, <1>7, <1>8 DEF EndFacts, O, S

\* A socket, live or not, is ended; states and flags of objects change with it.
Ending(s, es) ==
    /\ IsList(obj') /\ DOMAIN obj' = DOMAIN obj
    /\ \A o \in DOMAIN obj :
          /\ DOMAIN obj'[o] = ObjectFields
          /\ obj'[o].id = obj[o].id /\ obj'[o].client = obj[o].client
          /\ obj'[o].busy = obj[o].busy
          /\ obj'[o].state # obj[o].state =>
                obj'[o].state = "close" /\ (o = reg => obj[o].client = s)
          /\ obj'[o].ending # obj[o].ending =>
                obj'[o].ending = TRUE /\ (o = reg => obj[o].client = s)
          /\ obj'[o].queue = IF s # 0 /\ Live(s) /\ o = sock[s].owner
                             THEN obj[o].queue \o es ELSE obj[o].queue
    /\ IsList(sock') /\ DOMAIN sock' = DOMAIN sock
    /\ \A r \in DOMAIN sock :
          /\ DOMAIN sock'[r] = DOMAIN sock[r] /\ sock'[r].owner = sock[r].owner
          /\ sock'[r].creds # sock[r].creds =>
                sock'[r].creds = "paired" /\ sock'[r].state = "closed"
          /\ sock'[r].state = IF s # 0 /\ r = s THEN "closed" ELSE sock[r].state

IsEnd(es) == es = <<"creds", "closed">> \/ \E e \in Ends : es = <<e>>

LEMMA EndsTheQueue ==
    ASSUME NEW q \in Seq(Events), NEW es, IsEnd(es)
    PROVE  EndsQueue(q, q \o es)
  <1>0. ASSUME es \in Seq(Events)
        PROVE  /\ q \o es \in Seq(Events) /\ Len(q) \in Nat /\ Len(es) \in Nat
               /\ Len(q \o es) = Len(q) + Len(es)
               /\ \A i \in 1 .. Len(q) + Len(es) :
                     (q \o es)[i] = IF i <= Len(q) THEN q[i] ELSE es[i - Len(q)]
    BY <1>0
  <1>1. CASE es = <<"creds", "closed">>
    <2>1. es \in Seq(Events) /\ Len(es) = 2 /\ es[1] = "creds" /\ es[2] = "closed"
      BY <1>1 DEF Events
    <2>2. \A i \in 1 .. Len(q \o es) : i > Len(q) =>
              \/ i = Len(q) + 1 /\ (q \o es)[i] = "creds"
              \/ i = Len(q) + 2 /\ (q \o es)[i] = "closed"
      BY <1>0, <2>1
    <2>. QED BY <1>0, <2>1, <2>2 DEF EndsQueue, Ends
  <1>2. ASSUME NEW e \in Ends, es = <<e>>
        PROVE  EndsQueue(q, q \o es)
    <2>1. es \in Seq(Events) /\ Len(es) = 1 /\ es[1] = e
      BY <1>2 DEF Events, Ends
    <2>2. \A i \in 1 .. Len(q \o es) : i > Len(q) => i = Len(q) + 1 /\ (q \o es)[i] = e
      BY <1>0, <2>1
    <2>. QED BY <1>0, <2>1, <2>2 DEF EndsQueue
  <1>. QED BY <1>1, <1>2 DEF IsEnd

LEMMA EndingDrops ==
    ASSUME TypeInv, ClientInv, NEW s, NEW es, IsEnd(es), Ending(s, es),
           s # 0 => s \in DOMAIN sock /\ obj[sock[s].owner].client = s
    PROVE  Drops
  <1>1. /\ \A o \in DOMAIN obj : IsObject(obj[o])
        /\ \A r \in DOMAIN sock : IsSocket(sock[r]) /\ sock[r].owner \in DOMAIN obj
        /\ reg = 0 \/ reg \in DOMAIN obj
    BY DEF TypeInv
  <1>0. ASSUME NEW r \in DOMAIN sock
        PROVE  /\ DOMAIN sock'[r] = DOMAIN sock[r] /\ sock'[r].owner = sock[r].owner
               /\ sock'[r].creds # sock[r].creds =>
                      sock'[r].creds = "paired" /\ sock'[r].state = "closed"
               /\ sock'[r].state = IF s # 0 /\ r = s THEN "closed" ELSE sock[r].state
    BY DEF Ending
  <1>2. ASSUME NEW o \in DOMAIN obj, obj[o].client = s
        PROVE  Mute(o)'
    <2>1. ASSUME NEW r \in DOMAIN sock, sock[r].owner = o
          PROVE  sock'[r].state = "closed"
      <3>1. CASE r = s
        BY <1>0, <1>1, <3>1 DEF TypeInv, IsList
      <3>2. CASE r # s
        BY <1>0, <1>2, <2>1, <3>2 DEF ClientInv, Live
      <3>. QED BY <3>1, <3>2
    <2>2. DOMAIN sock' = DOMAIN sock
      BY DEF Ending
    <2>. QED BY <1>0, <2>1, <2>2 DEF Mute, Live
  <1>3. ASSUME NEW o \in DOMAIN obj
        PROVE  DropsObject(o)
    <2>1. obj[o].queue \in Seq(Events)
      BY <1>1 DEF IsObject
    <2>0. /\ DOMAIN obj'[o] = ObjectFields
          /\ obj'[o].id = obj[o].id /\ obj'[o].client = obj[o].client
          /\ obj'[o].busy = obj[o].busy
          /\ obj'[o].state # obj[o].state => obj'[o].state = "close"
          /\ obj'[o].ending # obj[o].ending => obj'[o].ending = TRUE
          /\ obj'[o].queue = IF s # 0 /\ Live(s) /\ o = sock[s].owner
                             THEN obj[o].queue \o es ELSE obj[o].queue
      BY DEF Ending
    <2>5. IsObject(obj[o])
      BY <1>1
    <2>6. ASSUME obj'[o].queue \in Seq(Events)
          PROVE  IsObject(obj'[o])
      <3>1. obj'[o].state \in States /\ obj'[o].id \in Nat /\ obj'[o].id # 0
        BY <2>0, <2>5 DEF IsObject, States
      <3>2. obj'[o].ending \in BOOLEAN /\ obj'[o].busy \in BOOLEAN
        BY <2>0, <2>5 DEF IsObject
      <3>. QED BY <2>0, <2>6, <3>1, <3>2 DEF IsObject
    <2>7. obj[o].ending => obj'[o].ending
      BY <2>0, <2>5 DEF IsObject
    <2>8. /\ obj'[o].state # obj[o].state /\ o = reg => Mute(o)'
          /\ obj'[o].ending # obj[o].ending /\ o = reg => Mute(o)'
      BY <1>2 DEF Ending
    <2>2. CASE s # 0 /\ Live(s) /\ o = sock[s].owner
      <3>1. EndsQueue(obj[o].queue, obj'[o].queue)
        BY <2>0, <2>1, <2>2, EndsTheQueue
      <3>2. Mute(o)'
        BY <1>2, <2>2
      <3>3. ~ Mute(o)
        BY <2>2 DEF Mute
      <3>4. IsObject(obj'[o])
        BY <2>6, <3>1 DEF EndsQueue
      <3>. QED BY <2>0, <2>7, <2>8, <3>1, <3>2, <3>3, <3>4 DEF DropsObject
    <2>3. CASE ~ (s # 0 /\ Live(s) /\ o = sock[s].owner)
      <3>1. obj'[o].queue = obj[o].queue
        BY <2>0, <2>3
      <3>2. IsObject(obj'[o])
        BY <2>1, <2>6, <3>1
      <3>. QED BY <2>0, <2>7, <2>8, <3>1, <3>2 DEF DropsObject
    <2>. QED BY <2>2, <2>3
  <1>4. ASSUME NEW r \in DOMAIN sock
        PROVE  DropsSocket(r)
    <2>1. DOMAIN sock[r] = {"owner", "state", "creds", "auth"}
      BY <1>1 DEF IsSocket
    <2>. QED BY <1>0, <2>1 DEF DropsSocket, IsSocket
  <1>. QED BY <1>3, <1>4 DEF Drops, Ending

LEMMA EndedDrops ==
    ASSUME TypeInv, ClientInv, NEW s, NEW e \in Ends, obj' = Ended(s, e), sock' = Closed(s),
           s # 0 => s \in DOMAIN sock /\ obj[sock[s].owner].client = s
    PROVE  Drops
  <1>1. EndFacts(obj', sock', s, <<e>>)
    BY EndedFacts
  <1>2. Ending(s, <<e>>)
    BY <1>1 DEF EndFacts, Ending
  <1>. QED BY <1>2, EndingDrops DEF IsEnd

\* The last socket of an object.
LEMMA ClientOf ==
    ASSUME TypeInv, ClientInv, NEW o \in DOMAIN obj
    PROVE  obj[o].client # 0 =>
              obj[o].client \in DOMAIN sock /\ obj[sock[obj[o].client].owner].client = obj[o].client
  BY DEF ClientInv

LEMMA LiveOf ==
    ASSUME TypeInv, ClientInv, NEW s \in DOMAIN sock, Live(s)
    PROVE  s # 0 /\ obj[sock[s].owner].client = s
  BY DEF ClientInv, TypeInv, IsList

\* A live socket that ends by itself.
LEMMA EmitEnded ==
    ASSUME TypeInv, NEW s \in DOMAIN sock, Live(s), NEW e \in Ends, Emit(s, <<e>>)
    PROVE  obj' = Ended(s, e)
  <1>1. s # 0 /\ obj[sock[s].owner].queue \in Seq(Events) /\ e \in Events
    BY DEF TypeInv, IsList, IsObject, Ends, Events
  <1>2. obj[sock[s].owner].queue \o <<e>> = Append(obj[sock[s].owner].queue, e)
    BY <1>1
  <1>3. obj' = [obj EXCEPT ![sock[s].owner].queue = obj[sock[s].owner].queue \o <<e>>]
    BY DEF Emit
  <1>4. Ended(s, e)
            = [obj EXCEPT ![sock[s].owner].queue = Append(obj[sock[s].owner].queue, e)]
    BY <1>1 DEF Ended
  <1>. QED BY <1>2, <1>3, <1>4

\* The requests that find an object: nothing is in flight.
LEMMA RequestsDrop ==
    ASSUME Serial, TypeInv, ClientInv, Requests
    PROVE  Drops
  <1>1. CASE AskCreate \/ Connect
    BY <1>1, StillDrops DEF AskCreate, Connect
  <1>2. CASE Restart
    <2>1. reg \in DOMAIN obj
      BY <1>2 DEF Restart, TypeInv
    <2>. QED BY <1>2, <2>1, ClientOf, EndedDrops DEF Restart, Ends
  <1>3. ASSUME NEW then, Calm, reg # 0, StartLogout(then), UNCHANGED sock
        PROVE  Drops
    <2>1. reg \in DOMAIN obj /\ IsList(obj) /\ IsList(sock)
          /\ (\A o \in DOMAIN obj : IsObject(obj[o]))
          /\ (\A s \in DOMAIN sock : IsSocket(sock[s]))
      BY <1>3 DEF TypeInv
    <2>2. obj' = [obj EXCEPT ![reg].deleting = TRUE, ![reg].ending = TRUE] /\ sock' = sock
      BY <1>3 DEF StartLogout
    <2>3. DOMAIN obj' = DOMAIN obj /\ obj' = [o \in DOMAIN obj' |-> obj'[o]]
      BY <2>1, <2>2 DEF IsList
    <2>4. IsList(obj')
      BY <2>1, <2>3, FunctionIsList DEF IsList
    <2>5. ASSUME NEW o \in DOMAIN obj
          PROVE  DropsObject(o)
      <3>1. obj[o].queue = <<>>
        BY <1>3 DEF Calm
      <3>2. CASE o = reg
        <4>1. obj'[o] = [[obj[o] EXCEPT !.deleting = TRUE] EXCEPT !.ending = TRUE]
          BY <2>2, <3>2
        <4>2. IsObject(obj[o])
          BY <2>1
        <4>. QED BY <3>1, <4>1, <4>2 DEF DropsObject, IsObject, ObjectFields
      <3>3. CASE o # reg
        <4>1. obj'[o] = obj[o]
          BY <2>2, <3>3
        <4>. QED BY <2>1, <4>1 DEF DropsObject
      <3>. QED BY <3>2, <3>3
    <2>6. \A s \in DOMAIN sock : DropsSocket(s)
      BY <2>1, <2>2 DEF DropsSocket
    <2>. QED BY <2>1, <2>2, <2>3, <2>4, <2>5, <2>6 DEF Drops
  <1>4. CASE Logout
    BY <1>3, <1>4 DEF Logout, Asked
  <1>5. CASE Delete
    <2>1. CASE reg # 0 /\ obj[reg].state # "close"
      BY <1>3, <1>5, <2>1 DEF Delete, Asked
    <2>2. CASE ~ (reg # 0 /\ obj[reg].state # "close")
      BY <1>5, <2>2, StillDrops DEF Delete
    <2>. QED BY <2>1, <2>2
  <1>. QED BY <1>1, <1>2, <1>4, <1>5 DEF Requests

LEMMA ReadCredsDrops ==
    ASSUME TypeInv, ClientInv, NEW t \in Resumed, ReadCreds(t)
    PROVE  Drops
  <1>1. t.who \in DOMAIN obj /\ IsList(obj) /\ IsList(sock)
        /\ (\A o \in DOMAIN obj : IsObject(obj[o]))
        /\ (\A s \in DOMAIN sock : IsSocket(sock[s]))
    BY DEF TypeInv, IsTask, OfObject, ReadCreds
  <1>2. PICK c : obj' = [obj EXCEPT ![t.who].auth = c]
    BY DEF ReadCreds
  <1>3. sock' = [s \in DOMAIN sock |-> [sock[s] EXCEPT !.auth = @ /\ sock[s].owner # t.who]]
    BY DEF ReadCreds
  <1>4. DOMAIN obj' = DOMAIN obj /\ obj' = [o \in DOMAIN obj' |-> obj'[o]]
    BY <1>1, <1>2 DEF IsList
  <1>5. DOMAIN sock' = DOMAIN sock /\ sock' = [s \in DOMAIN sock' |-> sock'[s]]
    BY <1>3
  <1>6. IsList(obj') /\ IsList(sock')
    BY <1>1, <1>4, <1>5, FunctionIsList DEF IsList
  <1>7. ASSUME NEW o \in DOMAIN obj
        PROVE  DropsObject(o)
    <2>1. IsObject(obj[o])
      BY <1>1
    <2>2. CASE o = t.who
      <3>1. obj'[o] = [obj[o] EXCEPT !.auth = c]
        BY <1>2, <2>2
      <3>. QED BY <2>1, <3>1 DEF DropsObject, IsObject, ObjectFields
    <2>3. CASE o # t.who
      <3>1. obj'[o] = obj[o]
        BY <1>2, <2>3
      <3>. QED BY <2>1, <3>1 DEF DropsObject
    <2>. QED BY <2>2, <2>3
  <1>8. ASSUME NEW s \in DOMAIN sock
        PROVE  DropsSocket(s)
    <2>1. PICK v : sock'[s] = [sock[s] EXCEPT !.auth = v]
      BY <1>3
    <2>. QED BY <1>1, <2>1 DEF DropsSocket, IsSocket
  <1>. QED BY <1>4, <1>5, <1>6, <1>7, <1>8 DEF Drops

LEMMA RefuseDrops ==
    ASSUME TypeInv, ClientInv, NEW t \in Resumed, Refuse(t)
    PROVE  Drops
  <1>1. t.who \in DOMAIN obj
    BY DEF TypeInv, IsTask, OfObject, Refuse
  <1>2. /\ IsList(obj) /\ IsList(sock)
        /\ (\A o \in DOMAIN obj : IsObject(obj[o]))
        /\ (\A s \in DOMAIN sock : IsSocket(sock[s]))
    BY DEF TypeInv
  <1>3. CASE reg # 0 /\ ~ LogoutThrows(obj[reg].client)
    <2> DEFINE s == obj[reg].client
               O == Ended(s, "out")
    <2>1. reg \in DOMAIN obj
      BY <1>3 DEF TypeInv
    <2>2. s # 0 => s \in DOMAIN sock /\ obj[sock[s].owner].client = s
      BY <2>1, ClientOf
    <2>3. obj' = [[O EXCEPT ![t.who].ending = TRUE] EXCEPT ![reg].qr = 0, ![reg].state = "close"]
          /\ sock' = Closed(s)
      BY <1>3 DEF Refuse
    <2>4. EndFacts(O, Closed(s), s, <<"out">>)
      BY <2>2, EndedFacts DEF Ends
    <2> HIDE DEF O
    <2>5. IsList(O) /\ DOMAIN O = DOMAIN obj
      BY <2>4 DEF EndFacts
    <2>6. DOMAIN obj' = DOMAIN obj /\ obj' = [o \in DOMAIN obj' |-> obj'[o]]
      BY <2>3, <2>5 DEF IsList
    <2>7. IsList(obj')
      BY <1>2, <2>6, FunctionIsList DEF IsList
    <2>8. ASSUME NEW o \in DOMAIN obj
          PROVE  /\ DOMAIN obj'[o] = ObjectFields
                 /\ obj'[o].id = obj[o].id /\ obj'[o].client = obj[o].client
                 /\ obj'[o].busy = obj[o].busy
                 /\ obj'[o].state # obj[o].state => obj'[o].state = "close" /\ o = reg
                 /\ obj'[o].ending # obj[o].ending => obj'[o].ending = TRUE
                 /\ obj'[o].queue = O[o].queue
      <3>1. DOMAIN O[o] = ObjectFields /\ O[o].id = obj[o].id /\ O[o].state = obj[o].state
            /\ O[o].ending = obj[o].ending /\ O[o].client = obj[o].client
            /\ O[o].busy = obj[o].busy
        BY <2>4 DEF EndFacts
      <3> DEFINE E == [O EXCEPT ![t.who].ending = TRUE]
      <3>2. E[o] = IF o = t.who THEN [O[o] EXCEPT !.ending = TRUE] ELSE O[o]
        BY <2>5
      <3>3. DOMAIN E = DOMAIN obj
        BY <2>5
      <3>5. obj' = [E EXCEPT ![reg].qr = 0, ![reg].state = "close"]
        BY <2>3
      <3> HIDE DEF E
      <3>4. DOMAIN E[o] = ObjectFields /\ E[o].id = obj[o].id /\ E[o].state = obj[o].state
            /\ E[o].client = obj[o].client /\ E[o].busy = obj[o].busy /\ E[o].queue = O[o].queue
            /\ (E[o].ending # obj[o].ending => E[o].ending = TRUE)
        BY <3>1, <3>2 DEF ObjectFields
      <3>6. obj'[o] = IF o = reg THEN [[E[o] EXCEPT !.qr = 0] EXCEPT !.state = "close"] ELSE E[o]
        BY <3>3, <3>5
      <3>. QED BY <3>4, <3>6 DEF ObjectFields
    <2>9. Ending(s, <<"out">>)
      <3>1. ASSUME NEW o \in DOMAIN obj
            PROVE /\ DOMAIN obj'[o] = ObjectFields
                  /\ obj'[o].id = obj[o].id /\ obj'[o].client = obj[o].client
                  /\ obj'[o].busy = obj[o].busy
                  /\ obj'[o].state # obj[o].state =>
                        obj'[o].state = "close" /\ (o = reg => obj[o].client = s)
                  /\ obj'[o].ending # obj[o].ending =>
                        obj'[o].ending = TRUE /\ (o = reg => obj[o].client = s)
                  /\ obj'[o].queue = IF s # 0 /\ Live(s) /\ o = sock[s].owner
                                     THEN obj[o].queue \o <<"out">> ELSE obj[o].queue
        <4>1. O[o].queue = IF s # 0 /\ Live(s) /\ o = sock[s].owner
                           THEN obj[o].queue \o <<"out">> ELSE obj[o].queue
          BY <2>4 DEF EndFacts
        <4>. QED BY <2>8, <4>1
      <3>. QED BY <2>3, <2>4, <2>6, <2>7, <3>1 DEF EndFacts, Ending
    <2>. QED BY <2>2, <2>9, EndingDrops DEF IsEnd, Ends
  <1>4. CASE reg = 0 \/ LogoutThrows(obj[reg].client)
    <2>1. obj' = [obj EXCEPT ![t.who].ending = TRUE] /\ sock' = sock
      BY <1>4 DEF Refuse
    <2>2. DOMAIN obj' = DOMAIN obj /\ obj' = [o \in DOMAIN obj' |-> obj'[o]]
      BY <1>2, <2>1 DEF IsList
    <2>3. IsList(obj')
      BY <1>2, <2>2, FunctionIsList DEF IsList
    <2>4. ASSUME NEW o \in DOMAIN obj, o = reg
          PROVE  Mute(o)'
      <3>1. \A r \in DOMAIN sock : sock[r].owner = o => ~ Live(r)
        BY <1>4, <2>4 DEF LogoutThrows, ClientInv, TypeInv, IsList
      <3>. QED BY <2>1, <3>1 DEF Mute, Live
    <2>5. ASSUME NEW o \in DOMAIN obj
          PROVE  DropsObject(o)
      <3>1. IsObject(obj[o])
        BY <1>2
      <3>2. CASE o = t.who
        <4>1. obj'[o] = [obj[o] EXCEPT !.ending = TRUE]
          BY <2>1, <3>2
        <4>. QED BY <2>4, <3>1, <4>1 DEF DropsObject, IsObject, ObjectFields
      <3>3. CASE o # t.who
        <4>1. obj'[o] = obj[o]
          BY <2>1, <3>3
        <4>. QED BY <3>1, <4>1 DEF DropsObject
      <3>. QED BY <3>2, <3>3
    <2>6. \A s \in DOMAIN sock : DropsSocket(s)
      BY <1>2, <2>1 DEF DropsSocket
    <2>. QED BY <1>2, <2>1, <2>2, <2>3, <2>5, <2>6 DEF Drops
  <1>. QED BY <1>3, <1>4

LEMMA PairDrops ==
    ASSUME TypeInv, ClientInv, NEW s \in DOMAIN sock, Pair(s)
    PROVE  Drops
  <1> DEFINE p == sock[s].owner
  <1>1. /\ IsList(obj) /\ IsList(sock) /\ p \in DOMAIN obj
        /\ (\A o \in DOMAIN obj : IsObject(obj[o]))
        /\ (\A r \in DOMAIN sock : IsSocket(sock[r]))
    BY DEF TypeInv
  <1>2. s # 0 /\ Live(s) /\ obj[p].client = s
    BY LiveOf DEF Pair
  <1>3. PICK a : obj' = [obj EXCEPT ![p].queue = @ \o <<"creds", "closed">>, ![p].auth = a]
    <2>1. obj' = [obj EXCEPT ![p].queue = @ \o <<"creds", "closed">>,
                             ![p].auth = IF sock[s].auth THEN "paired" ELSE obj[p].auth]
      BY <1>1 DEF Pair, IsObject, ObjectFields
    <2>. QED BY <2>1
  <1>4. sock' = [Closed(s) EXCEPT ![s].creds = "paired"]
    BY DEF Pair
  <1>5. Closed(s) = [sock EXCEPT ![s].state = "closed", ![s].auth = FALSE]
    BY <1>2 DEF Closed
  <1> HIDE DEF p
  <1>6. DOMAIN obj' = DOMAIN obj /\ obj' = [o \in DOMAIN obj' |-> obj'[o]]
    BY <1>1, <1>3 DEF IsList
  <1>7. DOMAIN sock' = DOMAIN sock /\ sock' = [r \in DOMAIN sock' |-> sock'[r]]
    BY <1>1, <1>4, <1>5 DEF IsList
  <1>8. IsList(obj') /\ IsList(sock')
    BY <1>1, <1>6, <1>7, FunctionIsList DEF IsList
  <1>9. ASSUME NEW o \in DOMAIN obj
        PROVE /\ DOMAIN obj'[o] = ObjectFields
              /\ obj'[o].id = obj[o].id /\ obj'[o].client = obj[o].client
              /\ obj'[o].busy = obj[o].busy /\ obj'[o].state = obj[o].state
              /\ obj'[o].ending = obj[o].ending
              /\ obj'[o].queue = IF o = p THEN obj[o].queue \o <<"creds", "closed">> ELSE obj[o].queue
    <2>1. IsObject(obj[o])
      BY <1>1
    <2>2. obj'[o] = IF o = p THEN [[obj[o] EXCEPT !.queue = @ \o <<"creds", "closed">>] EXCEPT !.auth = a]
                    ELSE obj[o]
      BY <1>3
    <2>. QED BY <2>1, <2>2 DEF IsObject, ObjectFields
  <1>10. ASSUME NEW r \in DOMAIN sock
         PROVE  /\ DOMAIN sock'[r] = DOMAIN sock[r] /\ sock'[r].owner = sock[r].owner
                /\ sock'[r].creds = IF r = s THEN "paired" ELSE sock[r].creds
                /\ sock'[r].state = IF r = s THEN "closed" ELSE sock[r].state
    <2>1. IsSocket(sock[r])
      BY <1>1
    <2>2. sock'[r] = IF r = s
                     THEN [[[sock[r] EXCEPT !.state = "closed"] EXCEPT !.auth = FALSE] EXCEPT !.creds = "paired"]
                     ELSE sock[r]
      BY <1>4, <1>5
    <2>. QED BY <2>1, <2>2 DEF IsSocket
  <1>11. Ending(s, <<"creds", "closed">>)
    BY <1>2, <1>6, <1>7, <1>8, <1>9, <1>10 DEF Ending, p
  <1>. QED BY <1>2, <1>11, EndingDrops DEF IsEnd, p

LEMMA SocketDrops ==
    ASSUME TypeInv, ClientInv, NEW s \in DOMAIN sock, Close(s) \/ LogOutByPhone(s) \/ Reject(s)
    PROVE  Drops
  <1>1. Live(s)
    BY DEF Close, LogOutByPhone, Reject
  <1>2. s # 0 /\ obj[sock[s].owner].client = s
    BY <1>1, LiveOf
  <1>3. PICK e \in Ends : Emit(s, <<e>>) /\ sock' = Closed(s)
    BY DEF Close, LogOutByPhone, Reject, Ends
  <1>4. obj' = Ended(s, e)
    BY <1>1, <1>3, EmitEnded
  <1>. QED BY <1>2, <1>3, <1>4, EndedDrops

LEMMA EndClientDrops ==
    ASSUME TypeInv, ClientInv, NEW t \in Resumed,
           LogoutClient(t) \/ SaveClose(t) \/ ExpireLogout(t)
    PROVE  Drops
  <1>1. t.who \in DOMAIN obj
    BY DEF TypeInv, IsTask, OfObject, LogoutClient, SaveClose, ExpireLogout
  <1>2. CASE UNCHANGED <<obj, sock>>
    BY <1>2, StillDrops
  <1>3. CASE (\E e \in Ends : obj' = Ended(obj[t.who].client, e))
             /\ sock' = Closed(obj[t.who].client)
    BY <1>1, <1>3, ClientOf, EndedDrops
  <1>. QED BY <1>2, <1>3 DEF LogoutClient, SaveClose, ExpireLogout, Ends

\* The steps of callbacks that open no socket and make no object.
Drop(t) ==
    \/ CreateSave(t) \/ CreateConfigure(t) \/ CreateFails(t)
    \/ ReadCreds(t) \/ ConnectFails(t) \/ Reconnect(t)
    \/ LogoutClient(t) \/ RemoveCreds(t) \/ ExpireLogout(t) \/ LoggedOut(t)
    \/ SaveRow(t) \/ SaveCreds(t) \/ SaveClose(t) \/ Refuse(t)
    \/ Remove(t) \/ CleanUpFind(t) \/ CleanUpUpdate(t) \/ CleanUpSession(t)
    \/ CleanStoreFind(t) \/ CleanStoreRows(t) \/ CleanStoreRow(t)
    \/ (CreateGuard(t) /\ row.id # 0)

LEMMA DropDrops ==
    ASSUME TypeInv, ClientInv, NEW t \in Resumed, Drop(t)
    PROVE  Drops
  <1>1. CASE UNCHANGED <<obj, sock>>
    BY <1>1, StillDrops
  <1>2. CASE ReadCreds(t) \/ Refuse(t) \/ LogoutClient(t) \/ SaveClose(t) \/ ExpireLogout(t)
    BY <1>2, ReadCredsDrops, RefuseDrops, EndClientDrops
  <1>3. ASSUME ~ (ReadCreds(t) \/ Refuse(t) \/ LogoutClient(t) \/ SaveClose(t) \/ ExpireLogout(t))
        PROVE  UNCHANGED <<obj, sock>>
    <2>1. CASE CreateSave(t) \/ CreateConfigure(t) \/ CreateFails(t) \/ ConnectFails(t)
               \/ Reconnect(t) \/ RemoveCreds(t) \/ LoggedOut(t) \/ SaveRow(t) \/ SaveCreds(t)
      BY <2>1 DEF CreateSave, CreateConfigure, CreateFails, ConnectFails, Reconnect,
                  RemoveCreds, LoggedOut, SaveRow, SaveCreds
    <2>2. CASE Remove(t) \/ CleanUpFind(t) \/ CleanUpUpdate(t) \/ CleanUpSession(t)
               \/ CleanStoreFind(t) \/ CleanStoreRows(t) \/ CleanStoreRow(t)
      BY <2>2 DEF Remove, CleanUpFind, CleanUpUpdate, CleanUpSession,
                  CleanStoreFind, CleanStoreRows, CleanStoreRow
    <2>3. CASE CreateGuard(t) /\ row.id # 0
      BY <2>3 DEF CreateGuard
    <2>. QED BY <1>3, <2>1, <2>2, <2>3 DEF Drop
  <1>. QED BY <1>1, <1>2, <1>3

-----------------------------------------------------------------------------
(* What a step does to the callbacks, the registration and the row *)

SameCount == /\ IsCount' /\ count'.creates = count.creates
             /\ count'.faults = count.faults /\ count'.expired = count.expired
SameReg == reg' = reg /\ row' = row

\* A process that has a callback or an object runs.
LEMMA Runs ==
    ASSUME TypeInv, Resumed # {} \/ DOMAIN obj # {} \/ reg # 0
    PROVE  up
  <1>1. ~ up => Resumed = {}
    BY NoTasks DEF TypeInv, Resumed
  <1>2. DOMAIN <<>> = {}
    OBVIOUS
  <1>. QED BY <1>1, <1>2 DEF TypeInv

\* What a callback that drops leaves: the callbacks new in its place, the registration, the row.
Outcome(t, new) ==
    \/ t.do = "CreateGuard" /\ row.id # 0 /\ SameReg /\ new = {}
    \/ /\ t.do = "CreateSave" /\ reg' = t.who /\ new = {Task("CreateConfigure", t.who, "none")}
       /\ row' = IF row.id = 0 THEN [id |-> obj[t.who].id, status |-> "close"] ELSE row
    \/ /\ t.do = "CreateConfigure" /\ SameReg
       /\ new = {} \/ new = {Task("ReadCreds", t.who, "create")} \/ new = {Task("Remove", 0, "none")}
    \/ t.do = "ReadCreds" /\ SameReg /\ new = {Task("OpenSocket", t.who, t.arg)}
    \/ t.do = "ReadCreds" /\ t.arg = "create" /\ SameReg /\ new = {Task("Remove", 0, "none")}
    \/ t.do = "ReadCreds" /\ t.arg # "create" /\ SameReg /\ new = {} /\ count'.faults # 0
    \/ /\ t.do = "Reconnect" /\ SameReg /\ new = {Task("ReadCreds", t.who, "none")}
       /\ Prompt => Waiting("SaveRow") = {}
    \/ t.do = "Logout" /\ SameReg /\ new = {Task("RemoveCreds", t.who, t.arg)}
       /\ \A s \in DOMAIN sock : sock[s].owner = t.who => sock'[s].state = "closed"
    \/ t.do = "RemoveCreds" /\ SameReg /\ (new = {} \/ new = {Task("Remove", 0, "none")})
    \/ t.do = "ExpireLogout" /\ SameReg /\ (new = {} \/ new = {Task("Remove", 0, "none")})
    \/ t.do = "LoggedOut" /\ SameReg /\ new = {Task("CleanUpFind", 0, "none")}
    \/ /\ t.do = "SaveRow" /\ reg' = reg /\ new = {}
       /\ row' = IF Mine(t) THEN [row EXCEPT !.status = t.arg] ELSE row
    \/ t.do \in {"SaveCreds", "Refuse", "CleanUpSession"} /\ SameReg /\ new = {}
    \/ /\ t.do = "SaveClose" /\ Mine(t) /\ reg' = reg /\ row' = [row EXCEPT !.status = "close"]
       /\ new = {Task("LoggedOut", 0, "none")}
    \/ t.do = "SaveClose" /\ ~ Mine(t) /\ SameReg /\ new = {}
    \/ /\ t.do = "Remove" /\ reg' = 0 /\ row' = row
       /\ new = {Task("CleanUpFind", 0, "none"), Task("CleanStoreFind", 0, "none")}
    \/ t.do = "CleanUpFind" /\ SameReg /\ (new = {} \/ new = {Task("CleanUpUpdate", 0, "none")})
    \/ t.do = "CleanUpUpdate" /\ row.id = 0 /\ SameReg /\ new = {}
    \/ /\ t.do = "CleanUpUpdate" /\ reg' = reg /\ row' = [row EXCEPT !.status = "close"]
       /\ new = {Task("CleanUpSession", row.id, "none")}
    \/ t.do = "CleanStoreFind" /\ row.id = 0 /\ SameReg /\ new = {}
    \/ t.do = "CleanStoreFind" /\ SameReg /\ new = {Task("CleanStoreRows", row.id, "none")}
    \/ t.do = "CleanStoreRows" /\ SameReg /\ new = {Task("CleanStoreRow", 0, "none")}
    \/ t.do = "CleanStoreRow" /\ reg' = reg /\ row' = NoRow /\ new = {}

LEMMA LogoutMutes ==
    ASSUME TypeInv, ClientInv, NEW t \in Resumed, LogoutClient(t),
           NEW s \in DOMAIN sock, sock[s].owner = t.who
    PROVE  sock'[s].state = "closed"
  <1> DEFINE c == obj[t.who].client
  <1>1. t.who \in DOMAIN obj /\ (c # 0 => c \in DOMAIN sock)
    BY DEF TypeInv, IsTask, OfObject, LogoutClient, ClientInv
  <1>2. sock' = Closed(c)
    BY DEF LogoutClient
  <1>3. PICK O : EndFacts(O, sock', c, <<"out">>)
    BY <1>1, <1>2, EndedFacts DEF Ends
  <1>4. sock'[s].state = IF c # 0 /\ s = c THEN "closed" ELSE sock[s].state
    BY <1>3 DEF EndFacts
  <1>5. Live(s) => s = c /\ s # 0
    BY DEF ClientInv, TypeInv, IsList
  <1>. QED BY <1>4, <1>5 DEF Live

LEMMA DropOutcome ==
    ASSUME TypeInv, ClientInv, NEW t \in Resumed, Drop(t)
    PROVE  \E new : Turns({t}, new) /\ Outcome(t, new)
  <1>1. IsABag(tasks) /\ IsCount /\ count.faults \in Nat
    BY DEF TypeInv
  <1>2. \E new : Replace(t, new) /\ Outcome(t, new)
    <2>1. CASE CreateGuard(t) /\ row.id # 0
      BY <2>1 DEF CreateGuard, Outcome, SameReg
    <2>2. CASE CreateSave(t)
      BY <2>2 DEF CreateSave, Outcome, SameReg
    <2>3. CASE CreateConfigure(t)
      BY <2>3 DEF CreateConfigure, Outcome, SameReg
    <2>4. CASE CreateFails(t)
      BY <2>4 DEF CreateFails, Outcome, SameReg
    <2>5. CASE ReadCreds(t)
      BY <2>5 DEF ReadCreds, Outcome, SameReg
    <2>6. CASE ConnectFails(t)
      <3>0. count'.faults = count.faults + 1
        BY <1>1, <2>6 DEF ConnectFails, Count, IsCount
      <3>1. t.do = "ReadCreds" /\ SameReg /\ count'.faults # 0
        <4>1. count'.faults # 0
          BY <1>1, <3>0
        <4>2. t.do = "ReadCreds" /\ SameReg
          BY <2>6 DEF ConnectFails, SameReg
        <4>. QED BY <4>1, <4>2
      <3>2. Replace(t, IF t.arg = "create" THEN {Task("Remove", 0, "none")} ELSE {})
        BY <2>6 DEF ConnectFails
      <3>. QED BY <3>1, <3>2 DEF Outcome
    <2>7. CASE Reconnect(t)
      BY <2>7 DEF Reconnect, Outcome, SameReg
    <2>8. CASE LogoutClient(t)
      BY <2>8, LogoutMutes DEF LogoutClient, Outcome, SameReg
    <2>9. CASE RemoveCreds(t)
      BY <2>9 DEF RemoveCreds, Outcome, SameReg
    <2>10. CASE ExpireLogout(t)
      BY <2>10 DEF ExpireLogout, Outcome, SameReg
    <2>11. CASE LoggedOut(t)
      BY <2>11 DEF LoggedOut, Outcome, SameReg
    <2>12. CASE SaveRow(t)
      BY <2>12 DEF SaveRow, Outcome, SameReg
    <2>13. CASE SaveCreds(t)
      BY <2>13 DEF SaveCreds, Outcome, SameReg
    <2>14. CASE SaveClose(t)
      BY <2>14 DEF SaveClose, Outcome, SameReg
    <2>15. CASE Refuse(t)
      BY <2>15 DEF Refuse, Outcome, SameReg
    <2>16. CASE Remove(t)
      BY <2>16 DEF Remove, Outcome, SameReg
    <2>17. CASE CleanUpFind(t)
      BY <2>17 DEF CleanUpFind, Outcome, SameReg
    <2>18. CASE CleanUpUpdate(t)
      BY <2>18 DEF CleanUpUpdate, Outcome, SameReg
    <2>19. CASE CleanUpSession(t)
      BY <2>19 DEF CleanUpSession, Outcome, SameReg
    <2>20. CASE CleanStoreFind(t)
      BY <2>20 DEF CleanStoreFind, Outcome, SameReg
    <2>21. CASE CleanStoreRows(t)
      BY <2>21 DEF CleanStoreRows, Outcome, SameReg
    <2>22. CASE CleanStoreRow(t)
      BY <2>22 DEF CleanStoreRow, Outcome, SameReg
    <2>. QED BY <2>1, <2>2, <2>3, <2>4, <2>5, <2>6, <2>7, <2>8, <2>9, <2>10, <2>11, <2>12,
                <2>13, <2>14, <2>15, <2>16, <2>17, <2>18, <2>19, <2>20, <2>21,
                <2>22 DEF Drop
  <1>3. PICK new : Replace(t, new) /\ Outcome(t, new)
    BY <1>2
  <1>. QED BY <1>1, <1>3, ReplaceTurns

LEMMA DropCounts ==
    ASSUME TypeInv, NEW t \in Resumed, Drop(t)
    PROVE  /\ up /\ up' = up /\ IsCount' /\ count'.faults \in Nat
           /\ count'.creates = count.creates /\ count'.expired = count.expired
           /\ count'.faults = 0 => count.faults = 0
  <1>1. up /\ IsCount /\ count.faults \in Nat
    BY Runs DEF TypeInv
  <1>2. CASE ConnectFails(t)
    <2>1. /\ up' = up /\ IsCount' /\ count'.faults = count.faults + 1
          /\ count'.creates = count.creates /\ count'.expired = count.expired
      BY <1>1, <1>2 DEF ConnectFails, Count, IsCount
    <2>2. count'.faults \in Nat /\ count'.faults # 0
      BY <1>1, <2>1
    <2>. QED BY <1>1, <2>1, <2>2
  <1>3. ASSUME ~ ConnectFails(t)
        PROVE  up' = up /\ count' = count
    <2>1. CASE CreateSave(t) \/ CreateConfigure(t) \/ CreateFails(t) \/ CreateGuard(t)
               \/ Reconnect(t) \/ RemoveCreds(t) \/ LoggedOut(t) \/ SaveRow(t) \/ SaveCreds(t)
      BY <2>1 DEF CreateSave, CreateConfigure, CreateFails, CreateGuard,
                  Reconnect, RemoveCreds, LoggedOut, SaveRow, SaveCreds
    <2>2. CASE Remove(t) \/ CleanUpFind(t) \/ CleanUpUpdate(t) \/ CleanUpSession(t)
               \/ CleanStoreFind(t) \/ CleanStoreRows(t) \/ CleanStoreRow(t)
      BY <2>2 DEF Remove, CleanUpFind, CleanUpUpdate, CleanUpSession,
                  CleanStoreFind, CleanStoreRows, CleanStoreRow
    <2>3. CASE ReadCreds(t) \/ Refuse(t) \/ LogoutClient(t) \/ SaveClose(t) \/ ExpireLogout(t)
      BY <2>3 DEF ReadCreds, Refuse, LogoutClient, SaveClose, ExpireLogout
    <2>. QED BY <1>3, <2>1, <2>2, <2>3 DEF Drop
  <1>. QED BY <1>1, <1>2, <1>3 DEF IsCount

\* Requests.
MoreCount == IsCount' /\ count'.faults = count.faults /\ count'.expired = count.expired

LEMMA AskCreateEffect ==
    ASSUME Serial, TypeInv, AskCreate
    PROVE  /\ Calm /\ reg = 0 /\ up' = up /\ SameReg
           /\ MoreCount /\ count'.creates = count.creates + 1
           /\ \E new : Turns({}, new) /\ new = {Task("CreateGuard", count.creates + 1, "none")}
  <1>1. IsABag(tasks) /\ IsCount
    BY DEF TypeInv
  <1>2. PICK new : Add(new) /\ new = {Task("CreateGuard", count.creates + 1, "none")}
    BY DEF AskCreate
  <1>3. Turns({}, new)
    BY <1>1, <1>2, AddTurns
  <1>. QED BY <1>1, <1>2, <1>3 DEF AskCreate, Count, IsCount, MoreCount, SameReg

LEMMA AskedEffect ==
    ASSUME Serial, TypeInv, Asked
    PROVE  Calm /\ SameCount
  BY DEF TypeInv, Asked, Count, IsCount, SameCount

LEMMA ConnectEffect ==
    ASSUME Serial, TypeInv, Connect
    PROVE  /\ Calm /\ reg # 0 /\ obj[reg].state = "close" /\ up' = up /\ SameReg /\ SameCount
           /\ UNCHANGED <<obj, sock>>
           /\ \E new : Turns({}, new) /\ new = {Task("ReadCreds", reg, "none")}
  <1>1. PICK new : Add(new) /\ new = {Task("ReadCreds", reg, "none")}
    BY DEF Connect
  <1>2. Turns({}, new)
    BY <1>1, AddTurns DEF TypeInv
  <1>. QED BY <1>1, <1>2, AskedEffect DEF Connect, SameReg

LEMMA RestartEffect ==
    ASSUME Serial, TypeInv, Restart
    PROVE  Calm /\ up' = up /\ SameReg /\ SameCount /\ Turns({}, {})
  BY AskedEffect, NothingTurns DEF TypeInv, Restart, SameReg

LEMMA LogoutEffect ==
    ASSUME Serial, TypeInv, Logout \/ Delete
    PROVE  /\ Calm /\ up' = up /\ SameReg /\ SameCount /\ sock' = sock
           /\ \E new :
                 /\ Turns({}, new)
                 /\ \/ /\ reg # 0 /\ obj'[reg].ending
                       /\ \E then : new = {Task("Logout", reg, then)}
                    \/ /\ reg # 0 => obj[reg].state = "close"
                       /\ obj' = obj /\ new = {Task("Remove", 0, "none")}
  <1>1. Calm /\ SameCount
    BY AskedEffect DEF Logout, Delete
  <1>2. IsABag(tasks) /\ up' = up /\ SameReg /\ sock' = sock
    BY DEF TypeInv, Logout, Delete, SameReg
  <1>3. ASSUME NEW then, reg # 0, StartLogout(then)
        PROVE  obj'[reg].ending
    <2>1. reg \in DOMAIN obj /\ DOMAIN obj[reg] = ObjectFields
      BY <1>3 DEF TypeInv, IsObject
    <2>2. obj' = [obj EXCEPT ![reg].deleting = TRUE, ![reg].ending = TRUE]
      BY <1>3 DEF StartLogout
    <2>3. obj'[reg] = [[obj[reg] EXCEPT !.deleting = TRUE] EXCEPT !.ending = TRUE]
      BY <2>1, <2>2
    <2>. QED BY <2>1, <2>3 DEF ObjectFields
  <1>4. \E new :
           /\ Add(new)
           /\ \/ reg # 0 /\ obj'[reg].ending /\ \E then : new = {Task("Logout", reg, then)}
              \/ /\ reg # 0 => obj[reg].state = "close"
                 /\ obj' = obj /\ new = {Task("Remove", 0, "none")}
    <2>1. CASE reg # 0 /\ \E then : StartLogout(then)
      BY <1>3, <2>1 DEF StartLogout
    <2>2. CASE /\ reg # 0 => obj[reg].state = "close"
               /\ UNCHANGED obj /\ Add({Task("Remove", 0, "none")})
      BY <2>2
    <2>. QED BY <2>1, <2>2 DEF Logout, Delete
  <1>5. PICK new :
           /\ Add(new)
           /\ \/ reg # 0 /\ obj'[reg].ending /\ \E then : new = {Task("Logout", reg, then)}
              \/ /\ reg # 0 => obj[reg].state = "close"
                 /\ obj' = obj /\ new = {Task("Remove", 0, "none")}
    BY <1>4
  <1>6. Turns({}, new)
    BY <1>2, <1>5, AddTurns
  <1>. QED BY <1>1, <1>2, <1>5, <1>6

LEMMA ExpireEffect ==
    ASSUME Serial, TypeInv, Expire
    PROVE  /\ Calm /\ up' = up /\ SameReg /\ UNCHANGED <<obj, sock>>
           /\ IsCount' /\ count'.creates = count.creates /\ count'.faults = count.faults
           /\ count'.expired = count.expired + 1
           /\ \E new :
                 /\ Turns({}, new)
                 /\ \/ new = {} \/ new = {Task("Remove", 0, "none")}
                    \/ reg # 0 /\ new = {Task("ExpireLogout", reg, "none")}
  <1>1. IsABag(tasks) /\ IsCount
    BY DEF TypeInv
  <1>2. /\ Calm /\ up' = up /\ SameReg /\ UNCHANGED <<obj, sock>>
        /\ IsCount' /\ count'.creates = count.creates /\ count'.faults = count.faults
        /\ count'.expired = count.expired + 1
    BY <1>1 DEF Expire, Count, IsCount, SameReg
  <1> DEFINE state == IF reg = 0 THEN "none" ELSE obj[reg].state
  <1>3. \/ state = "open" /\ UNCHANGED tasks
        \/ state = "connecting" /\ Add({Task("ExpireLogout", reg, "none")})
        \/ Add({Task("Remove", 0, "none")})
    BY DEF Expire
  <1>4. state = "connecting" => reg # 0
    OBVIOUS
  <1>5. PICK new : /\ Add(new) \/ (UNCHANGED tasks /\ new = {})
                   /\ \/ new = {} \/ new = {Task("Remove", 0, "none")}
                      \/ reg # 0 /\ new = {Task("ExpireLogout", reg, "none")}
    BY <1>3, <1>4
  <1>6. Turns({}, new)
    BY <1>1, <1>5, NothingTurns, AddTurns
  <1>. QED BY <1>2, <1>5, <1>6

\* Sockets.
LEMMA SocketEffect ==
    ASSUME TypeInv, NEW s \in DOMAIN sock,
           Qr(s) \/ Pair(s) \/ Open(s) \/ Reject(s) \/ Close(s) \/ LogOutByPhone(s)
    PROVE  up /\ up' = up /\ SameReg /\ SameCount /\ Turns({}, {})
  <1>1. IsABag(tasks) /\ IsCount /\ DOMAIN obj # {}
    BY DEF TypeInv
  <1>2. up /\ Turns({}, {})
    BY <1>1, Runs, NothingTurns DEF Qr, Pair, Open, Reject, Close, LogOutByPhone
  <1>3. up' = up /\ SameReg
    BY DEF Qr, Pair, Open, Reject, Close, LogOutByPhone, SameReg
  <1>4. SameCount
    BY <1>1 DEF Qr, Pair, Open, Reject, Close, LogOutByPhone, SameCount, IsCount, Count
  <1>. QED BY <1>2, <1>3, <1>4

\* A live socket gives its object an event.
Emits(s, e) ==
    /\ Live(s) /\ IsList(obj') /\ DOMAIN obj' = DOMAIN obj
    /\ \A o \in DOMAIN obj :
          /\ IsObject(obj'[o])
          /\ obj'[o].id = obj[o].id /\ obj'[o].state = obj[o].state
          /\ obj'[o].ending = obj[o].ending /\ obj'[o].client = obj[o].client
          /\ obj'[o].busy = obj[o].busy
          /\ obj'[o].queue = IF o = sock[s].owner THEN Append(obj[o].queue, e) ELSE obj[o].queue
    /\ IsList(sock') /\ DOMAIN sock' = DOMAIN sock
    /\ \A r \in DOMAIN sock :
          /\ IsSocket(sock'[r]) /\ sock'[r].owner = sock[r].owner
          /\ sock'[r].creds = sock[r].creds
          /\ sock'[r].state = sock[r].state \/ (sock'[r].state = "open" /\ Live(r))

LEMMA EmitEmits ==
    ASSUME TypeInv, NEW s \in DOMAIN sock, Qr(s) \/ Open(s)
    PROVE  \E e \in {"qr", "open"} :
              /\ Emits(s, e)
              /\ e = "qr" => sock[s].creds = "new" /\ obj[sock[s].owner].queue = <<>>
                             /\ Waiting("SaveRow") = {}
              /\ e = "open" => sock[s].creds = "paired"
  <1> DEFINE p == sock[s].owner
  <1>1. PICK e \in {"qr", "open"} :
              /\ Emit(s, <<e>>)
              /\ e = "qr" => /\ sock[s].creds = "new" /\ obj[p].queue = <<>> /\ Live(s)
                             /\ Waiting("SaveRow") = {} /\ sock' = sock
              /\ e = "open" => /\ sock[s].creds = "paired" /\ sock[s].state = "connecting"
                               /\ sock' = [sock EXCEPT ![s].state = "open"]
    BY DEF Qr, Open
  <1>2. /\ IsList(obj) /\ IsList(sock) /\ p \in DOMAIN obj
        /\ (\A o \in DOMAIN obj : IsObject(obj[o]))
        /\ (\A r \in DOMAIN sock : IsSocket(sock[r]))
    BY DEF TypeInv
  <1>3. Live(s)
    BY <1>1 DEF Live
  <1>4. obj' = [obj EXCEPT ![p].queue = @ \o <<e>>]
    BY <1>1 DEF Emit
  <1>5. DOMAIN obj' = DOMAIN obj /\ obj' = [o \in DOMAIN obj' |-> obj'[o]]
    BY <1>2, <1>4 DEF IsList
  <1>6. DOMAIN sock' = DOMAIN sock /\ sock' = [r \in DOMAIN sock' |-> sock'[r]]
    BY <1>1, <1>2 DEF IsList
  <1>7. IsList(obj') /\ IsList(sock')
    BY <1>2, <1>5, <1>6, FunctionIsList DEF IsList
  <1> HIDE DEF p
  <1>8. ASSUME NEW o \in DOMAIN obj
        PROVE /\ IsObject(obj'[o])
              /\ obj'[o].id = obj[o].id /\ obj'[o].state = obj[o].state
              /\ obj'[o].ending = obj[o].ending /\ obj'[o].client = obj[o].client
              /\ obj'[o].busy = obj[o].busy
              /\ obj'[o].queue = IF o = p THEN Append(obj[o].queue, e) ELSE obj[o].queue
    <2>1. IsObject(obj[o])
      BY <1>2
    <2>2. obj'[o] = IF o = p THEN [obj[o] EXCEPT !.queue = obj[o].queue \o <<e>>] ELSE obj[o]
      BY <1>4
    <2>3. e \in Events /\ obj[o].queue \in Seq(Events)
      BY <2>1 DEF Events, IsObject
    <2>4. obj[o].queue \o <<e>> = Append(obj[o].queue, e) /\ Append(obj[o].queue, e) \in Seq(Events)
      BY <2>3
    <2>. QED BY <2>1, <2>2, <2>4 DEF IsObject, ObjectFields
  <1>9. ASSUME NEW r \in DOMAIN sock
        PROVE /\ IsSocket(sock'[r]) /\ sock'[r].owner = sock[r].owner
              /\ sock'[r].creds = sock[r].creds
              /\ sock'[r].state = sock[r].state \/ (sock'[r].state = "open" /\ Live(r))
    <2>1. IsSocket(sock[r])
      BY <1>2
    <2>2. sock'[r] = sock[r] \/ (r = s /\ sock'[r] = [sock[r] EXCEPT !.state = "open"])
      BY <1>1
    <2>. QED BY <1>3, <2>1, <2>2 DEF IsSocket
  <1>10. Emits(s, e)
    BY <1>3, <1>5, <1>6, <1>7, <1>8, <1>9 DEF Emits, p
  <1>. QED BY <1>1, <1>10 DEF p

\* An event is taken out of the queue; the object may have another state.
Pops(o, state) ==
    /\ IsList(obj') /\ DOMAIN obj' = DOMAIN obj /\ sock' = sock
    /\ \A p \in DOMAIN obj \ {o} : obj'[p] = obj[p]
    /\ obj[o].queue # <<>> /\ IsObject(obj'[o]) /\ obj'[o].state = state
    /\ obj'[o].id = obj[o].id /\ obj'[o].client = obj[o].client
    /\ obj'[o].ending = obj[o].ending
    /\ obj'[o].queue = Tail(obj[o].queue) /\ obj'[o].busy = FALSE

\* An object has read its settings and handles its first event.
Busies(o) ==
    /\ IsList(obj') /\ DOMAIN obj' = DOMAIN obj /\ sock' = sock
    /\ \A p \in DOMAIN obj \ {o} : obj'[p] = obj[p]
    /\ obj[o].queue # <<>> /\ ~ obj[o].ending /\ ~ obj[o].busy
    /\ obj'[o] = [obj[o] EXCEPT !.busy = TRUE] /\ IsObject(obj'[o])

LEMMA HandledPops ==
    ASSUME TypeInv, NEW o \in DOMAIN obj, obj[o].queue # <<>>, NEW O,
           O = Handled(o) \/ (O = [obj EXCEPT ![o].queue = Tail(@)] /\ ~ obj[o].busy),
           NEW state \in States, sock' = sock,
           \/ obj' = O /\ state = obj[o].state
           \/ obj' = [O EXCEPT ![o].state = state]
           \/ \E w : obj' = [O EXCEPT ![o].state = state, ![o].wuid = w]
           \/ \E n : obj' = [O EXCEPT ![o].qr = n] /\ state = obj[o].state
    PROVE  Pops(o, state)
  <1>1. /\ IsList(obj) /\ DOMAIN obj = 1 .. Len(obj) /\ Len(obj) \in Nat
        /\ IsObject(obj[o])
    BY DEF TypeInv, IsList
  <1>2. obj[o].queue \in Seq(Events) /\ Tail(obj[o].queue) \in Seq(Events)
    BY <1>1 DEF IsObject
  <1>3. /\ DOMAIN O = DOMAIN obj /\ O = [p \in DOMAIN O |-> O[p]]
        /\ \A p \in DOMAIN obj \ {o} : O[p] = obj[p]
    BY <1>1 DEF Handled, IsList
  <1>4. /\ DOMAIN O[o] = ObjectFields /\ O[o].id = obj[o].id /\ O[o].state = obj[o].state
        /\ O[o].client = obj[o].client /\ O[o].ending = obj[o].ending
        /\ O[o].queue = Tail(obj[o].queue) /\ O[o].busy = FALSE
    <2>1. CASE O = Handled(o)
      <3>1. O[o] = [[obj[o] EXCEPT !.queue = Tail(@)] EXCEPT !.busy = FALSE]
        BY <1>1, <2>1 DEF Handled
      <3>. QED BY <1>1, <3>1 DEF IsObject, ObjectFields
    <2>2. CASE O = [obj EXCEPT ![o].queue = Tail(@)] /\ ~ obj[o].busy
      <3>1. O[o] = [obj[o] EXCEPT !.queue = Tail(@)]
        BY <1>1, <2>2
      <3>. QED BY <1>1, <2>2, <3>1 DEF IsObject, ObjectFields
    <2>. QED BY <2>1, <2>2
  <1>5. /\ DOMAIN obj' = DOMAIN obj /\ obj' = [p \in DOMAIN obj' |-> obj'[p]]
        /\ \A p \in DOMAIN obj \ {o} : obj'[p] = obj[p]
    BY <1>1, <1>3
  <1>6. IsList(obj')
    BY <1>1, <1>5, FunctionIsList
  <1>7. \/ obj'[o] = O[o] /\ state = obj[o].state
        \/ obj'[o] = [O[o] EXCEPT !.state = state]
        \/ \E w : obj'[o] = [[O[o] EXCEPT !.state = state] EXCEPT !.wuid = w]
        \/ \E n : obj'[o] = [O[o] EXCEPT !.qr = n] /\ state = obj[o].state
    BY <1>3
  <1>8. /\ DOMAIN obj'[o] = ObjectFields /\ obj'[o].state = state
        /\ obj'[o].id = obj[o].id /\ obj'[o].client = obj[o].client
        /\ obj'[o].ending = obj[o].ending
        /\ obj'[o].queue = Tail(obj[o].queue) /\ obj'[o].busy = FALSE
    BY <1>4, <1>7 DEF ObjectFields
  <1>9. IsObject(obj'[o])
    BY <1>1, <1>2, <1>8 DEF IsObject
  <1>. QED BY <1>5, <1>6, <1>8, <1>9 DEF Pops

LEMMA EventPops ==
    ASSUME TypeInv, NEW o \in DOMAIN obj, obj[o].queue # <<>>, NEW state \in States, sock' = sock,
           \/ obj' = Handled(o) /\ state = obj[o].state
           \/ obj' = [Handled(o) EXCEPT ![o].state = state]
           \/ \E w : obj' = [Handled(o) EXCEPT ![o].state = state, ![o].wuid = w]
           \/ \E n : obj' = [Handled(o) EXCEPT ![o].qr = n] /\ state = obj[o].state
    PROVE  Pops(o, state)
  <1> DEFINE O == Handled(o)
  <1>1. O = Handled(o)
    OBVIOUS
  <1>2. \/ obj' = O /\ state = obj[o].state
        \/ obj' = [O EXCEPT ![o].state = state]
        \/ \E w : obj' = [O EXCEPT ![o].state = state, ![o].wuid = w]
        \/ \E n : obj' = [O EXCEPT ![o].qr = n] /\ state = obj[o].state
    OBVIOUS
  <1> HIDE DEF O
  <1>. QED BY <1>1, <1>2, HandledPops

\* What handling an event comes to, and the callbacks it leaves.
Handling(o, new) ==
    \/ Busies(o) /\ new = {}
    \/ obj[o].ending /\ ~ obj[o].busy /\ Pops(o, obj[o].state) /\ new = {}
    \/ /\ obj[o].busy /\ Head(obj[o].queue) = "qr" /\ Pops(o, obj[o].state)
       /\ new = {Task("Refuse", o, "none")} \/ new = {Task("SaveRow", o, "connecting")}
    \/ /\ obj[o].busy /\ Head(obj[o].queue) = "creds" /\ Pops(o, obj[o].state)
       /\ new = {Task("SaveCreds", o, obj[o].auth)}
    \/ obj[o].busy /\ Head(obj[o].queue) = "connecting" /\ Pops(o, "connecting") /\ new = {}
    \/ /\ obj[o].busy /\ Head(obj[o].queue) = "open" /\ Pops(o, "open")
       /\ \/ sock[obj[o].client].creds = "new" /\ new = {}
          \/ new = {Task("SaveRow", o, "open")}
    \/ /\ obj[o].busy /\ Head(obj[o].queue) \in Ends /\ Pops(o, "close")
       /\ \/ new = {}
          \/ /\ Head(obj[o].queue) = "closed" /\ ~ obj[o].ending
             /\ new = {Task("Reconnect", o, "close")}
          \/ Head(obj[o].queue) = "out" /\ new = {Task("SaveClose", o, "close")}

LEMMA HandleEffect ==
    ASSUME TypeInv, QueueInv, NEW o \in DOMAIN obj, HandleEvent(o)
    PROVE  up /\ up' = up /\ SameReg /\ SameCount
           /\ \E new : Turns({}, new) /\ Handling(o, new)
  <1>1. IsABag(tasks) /\ IsCount /\ up /\ IsObject(obj[o]) /\ IsList(obj)
    BY Runs DEF TypeInv
  <1>2. up' = up /\ SameReg /\ SameCount
    BY <1>1 DEF HandleEvent, Dequeue, HandleQr, HandleCreds, HandleConnecting, HandleOpen,
                HandleClose, SameReg, SameCount, IsCount
  <1>3. obj[o].state \in States /\ {"connecting", "open", "close"} \subseteq States
    BY <1>1 DEF IsObject, States
  <1>4. \A event : Handles(o, event) =>
            obj[o].busy /\ obj[o].queue # <<>> /\ Head(obj[o].queue) = event
    BY DEF Handles, QueueInv
  <1>5. \E new : (Add(new) \/ (UNCHANGED tasks /\ new = {})) /\ Handling(o, new)
    <2>1. CASE Dequeue(o)
      <3>1. obj[o].queue # <<>> /\ ~ obj[o].busy /\ sock' = sock /\ UNCHANGED tasks
        BY <2>1 DEF Dequeue
      <3>2. CASE obj[o].ending
        <4>1. obj' = [obj EXCEPT ![o].queue = Tail(@)]
          BY <2>1, <3>2 DEF Dequeue
        <4>2. Pops(o, obj[o].state)
          BY <1>3, <3>1, <4>1, HandledPops
        <4>. QED BY <3>1, <3>2, <4>2 DEF Handling
      <3>3. CASE ~ obj[o].ending
        <4>1. obj' = [obj EXCEPT ![o].busy = TRUE]
          BY <2>1, <3>3 DEF Dequeue
        <4>2. DOMAIN obj' = DOMAIN obj /\ obj' = [p \in DOMAIN obj' |-> obj'[p]]
          BY <1>1, <4>1 DEF IsList
        <4>3. IsList(obj')
          BY <1>1, <4>2, FunctionIsList DEF IsList
        <4>4. /\ obj'[o] = [obj[o] EXCEPT !.busy = TRUE]
              /\ \A p \in DOMAIN obj \ {o} : obj'[p] = obj[p]
          BY <4>1
        <4>5. IsObject(obj'[o])
          BY <1>1, <4>4 DEF IsObject, ObjectFields
        <4>. QED BY <3>1, <3>3, <4>2, <4>3, <4>4, <4>5 DEF Handling, Busies
      <3>. QED BY <3>2, <3>3
    <2>2. CASE HandleQr(o)
      <3>1. /\ obj[o].busy /\ obj[o].queue # <<>> /\ Head(obj[o].queue) = "qr" /\ sock' = sock
            /\ \/ obj' = Handled(o) /\ Add({Task("Refuse", o, "none")})
               \/ /\ \E n : obj' = [Handled(o) EXCEPT ![o].qr = n]
                  /\ Add({Task("SaveRow", o, "connecting")})
        BY <1>4, <2>2 DEF HandleQr
      <3>2. Pops(o, obj[o].state)
        BY <1>3, <3>1, EventPops
      <3>. QED BY <3>1, <3>2 DEF Handling
    <2>3. CASE HandleCreds(o)
      <3>1. /\ obj[o].busy /\ obj[o].queue # <<>> /\ Head(obj[o].queue) = "creds"
            /\ sock' = sock /\ obj' = Handled(o) /\ Add({Task("SaveCreds", o, obj[o].auth)})
        BY <1>4, <2>3 DEF HandleCreds
      <3>2. Pops(o, obj[o].state)
        BY <1>3, <3>1, EventPops
      <3>. QED BY <3>1, <3>2 DEF Handling
    <2>4. CASE HandleConnecting(o)
      <3>1. /\ obj[o].busy /\ obj[o].queue # <<>> /\ Head(obj[o].queue) = "connecting"
            /\ sock' = sock /\ obj' = [Handled(o) EXCEPT ![o].state = "connecting"]
            /\ UNCHANGED tasks
        BY <1>4, <2>4 DEF HandleConnecting
      <3>2. Pops(o, "connecting")
        BY <1>3, <3>1, EventPops
      <3>. QED BY <3>1, <3>2 DEF Handling
    <2>5. CASE HandleOpen(o)
      <3>1. /\ obj[o].busy /\ obj[o].queue # <<>> /\ Head(obj[o].queue) = "open" /\ sock' = sock
            /\ \/ /\ sock[obj[o].client].creds = "new" /\ UNCHANGED tasks
                  /\ obj' = [Handled(o) EXCEPT ![o].state = "open"]
               \/ /\ Add({Task("SaveRow", o, "open")})
                  /\ obj' = [Handled(o) EXCEPT ![o].state = "open", ![o].wuid = TRUE]
        BY <1>4, <2>5 DEF HandleOpen
      <3>2. Pops(o, "open")
        BY <1>3, <3>1, EventPops
      <3>. QED BY <3>1, <3>2 DEF Handling
    <2>6. ASSUME NEW event \in Ends, HandleClose(o, event)
          PROVE  \E new : (Add(new) \/ (UNCHANGED tasks /\ new = {})) /\ Handling(o, new)
      <3>1. /\ obj[o].busy /\ obj[o].queue # <<>> /\ Head(obj[o].queue) = event /\ sock' = sock
            /\ obj' = [Handled(o) EXCEPT ![o].state = "close"]
            /\ \/ UNCHANGED tasks
               \/ event = "closed" /\ ~ obj[o].ending /\ Add({Task("Reconnect", o, "close")})
               \/ event = "out" /\ Add({Task("SaveClose", o, "close")})
        BY <1>4, <2>6 DEF HandleClose, Quiet, Ends
      <3>2. Pops(o, "close")
        BY <1>3, <3>1, EventPops
      <3>. QED BY <3>1, <3>2 DEF Handling
    <2>. QED BY <2>1, <2>2, <2>3, <2>4, <2>5, <2>6 DEF HandleEvent, Ends
  <1>6. PICK new : (Add(new) \/ (UNCHANGED tasks /\ new = {})) /\ Handling(o, new)
    BY <1>5
  <1>7. Turns({}, new)
    BY <1>1, <1>6, NothingTurns, AddTurns
  <1>. QED BY <1>1, <1>2, <1>6, <1>7

\* A number is free, or new.
LEMMA SlotFacts ==
    ASSUME NEW seq, IsList(seq), NEW free, free \subseteq DOMAIN seq, NEW v,
           NEW i, i = Slot(free, seq)
    PROVE  /\ i \in free \/ i \notin DOMAIN seq
           /\ i # 0
           /\ IsList(Put(seq, i, v)) /\ DOMAIN Put(seq, i, v) = DOMAIN seq \cup {i}
           /\ Put(seq, i, v)[i] = v
           /\ \A j \in DOMAIN seq \ {i} : Put(seq, i, v)[j] = seq[j]
  <1>1. DOMAIN seq = 1 .. Len(seq) /\ Len(seq) \in Nat /\ seq = [j \in DOMAIN seq |-> seq[j]]
    BY DEF IsList
  <1>2. CASE free = {}
    <2>1. i = Len(seq) + 1
      BY <1>2 DEF Slot
    <2>2. i > Len(seq) /\ i # 0 /\ i \notin DOMAIN seq
      BY <1>1, <2>1
    <2>3. Put(seq, i, v) = Append(seq, v)
      BY <2>2 DEF Put
    <2> DEFINE r == Put(seq, i, v)
    <2>4. r = Append(seq, v)
      BY <2>3
    <2>5. Extends(seq, v, Append(seq, v))
      BY AppendList
    <2> HIDE DEF r
    <2>6. Extends(seq, v, r)
      BY <2>4, <2>5, Zenon
    <2>. QED BY <2>1, <2>2, <2>6 DEF Extends, r
  <1>3. CASE free # {}
    <2>1. free \in SUBSET Nat
      BY <1>1
    <2>2. \E j \in free : \A k \in free : j <= k
      BY <1>3, <2>1, LeastExists
    <2>3. i = CHOOSE j \in free : \A k \in free : j <= k
      BY <1>3 DEF Slot
    <2>4. i \in free
      BY <2>2, <2>3
    <2>5. i \in DOMAIN seq /\ i # 0 /\ ~ (i > Len(seq))
      BY <1>1, <2>4
    <2>6. Put(seq, i, v) = [seq EXCEPT ![i] = v]
      BY <2>5 DEF Put
    <2> DEFINE r == Put(seq, i, v)
    <2>7. DOMAIN r = DOMAIN seq /\ r = [j \in DOMAIN r |-> r[j]]
          /\ r[i] = v /\ \A j \in DOMAIN seq \ {i} : r[j] = seq[j]
      BY <1>1, <2>5, <2>6
    <2> HIDE DEF r
    <2>8. IsList(r)
      BY <1>1, <2>7, FunctionIsList
    <2>. QED BY <2>4, <2>5, <2>7, <2>8 DEF r
  <1>. QED BY <1>2, <1>3

\* A new socket of an object.
Opens(o, r) ==
    /\ r # 0
    /\ r \in DOMAIN sock => ~ Live(r) /\ \A p \in DOMAIN obj \ {o} : obj[p].client # r
    /\ IsList(sock') /\ DOMAIN sock' = DOMAIN sock \cup {r}
    /\ IsSocket(sock'[r]) /\ sock'[r].owner = o /\ sock'[r].state = "connecting"
    /\ \A q \in DOMAIN sock \ {r} : sock'[q] = sock[q]
    /\ IsList(obj') /\ DOMAIN obj' = DOMAIN obj
    /\ \A p \in DOMAIN obj \ {o} : obj'[p] = obj[p]
    /\ IsObject(obj'[o])
    /\ obj'[o].id = obj[o].id /\ obj'[o].state = obj[o].state /\ obj'[o].busy = obj[o].busy
    /\ obj'[o].ending = FALSE /\ obj'[o].client = r
    /\ obj'[o].queue = Append(obj[o].queue, "connecting")

LEMMA OpenEffect ==
    ASSUME TypeInv, NEW t \in Resumed, OpenSocket(t)
    PROVE  /\ t.do = "OpenSocket" /\ t.who \in DOMAIN obj /\ up /\ up' = up /\ row' = row
           /\ reg' = IF t.arg = "register" THEN t.who ELSE reg
           /\ SameCount /\ Turns({t}, {}) /\ \E r : Opens(t.who, r)
  <1> DEFINE o == t.who
             r == Slot(FreeSocks(o), sock)
             new == [owner |-> o, state |-> "connecting", creds |-> obj[o].auth, auth |-> TRUE]
  <1>1. t.do = "OpenSocket" /\ o \in DOMAIN obj
    BY DEF OpenSocket, TypeInv, IsTask, OfObject
  <1>2. /\ IsABag(tasks) /\ IsCount /\ IsList(obj) /\ IsList(sock)
        /\ (\A p \in DOMAIN obj : IsObject(obj[p])) /\ up
    BY <1>1, Runs DEF TypeInv
  <1>3. sock' = Put(sock, r, new)
    BY DEF OpenSocket
  <1>4. obj' = [obj EXCEPT ![o].ending = FALSE, ![o].client = r,
                           ![o].queue = Append(@, "connecting")]
    BY DEF OpenSocket
  <1>5. FreeSocks(o) \subseteq DOMAIN sock
    BY DEF FreeSocks
  <1>6. /\ r \in FreeSocks(o) \/ r \notin DOMAIN sock
        /\ r # 0 /\ IsList(sock') /\ DOMAIN sock' = DOMAIN sock \cup {r}
        /\ sock'[r] = new /\ \A q \in DOMAIN sock \ {r} : sock'[q] = sock[q]
    <2> DEFINE S == sock'
    <2> DEFINE free == FreeSocks(o)
    <2>1. S = Put(sock, r, new) /\ r = Slot(free, sock) /\ free \subseteq DOMAIN sock
      BY <1>3, <1>5
    <2> HIDE DEF S, new, r, free
    <2>2. /\ r \in free \/ r \notin DOMAIN sock
          /\ r # 0 /\ IsList(Put(sock, r, new)) /\ DOMAIN Put(sock, r, new) = DOMAIN sock \cup {r}
          /\ Put(sock, r, new)[r] = new
          /\ \A q \in DOMAIN sock \ {r} : Put(sock, r, new)[q] = sock[q]
      BY <1>2, <2>1, SlotFacts
    <2>3. IsList(S)
      BY <2>1, <2>2, Zenon
    <2>4. /\ DOMAIN S = DOMAIN sock \cup {r} /\ S[r] = new
          /\ \A q \in DOMAIN sock \ {r} : S[q] = sock[q]
      BY <2>1, <2>2
    <2>. QED BY <2>2, <2>3, <2>4 DEF S, free
  <1>7. r \in DOMAIN sock => ~ Live(r) /\ \A p \in DOMAIN obj \ {o} : obj[p].client # r
    BY <1>6 DEF FreeSocks
  <1>8. IsSocket(new) /\ new.owner = o /\ new.state = "connecting"
    BY DEF IsSocket
  <1> HIDE DEF r, new
  <1>9. DOMAIN obj' = DOMAIN obj /\ obj' = [p \in DOMAIN obj' |-> obj'[p]]
        /\ \A p \in DOMAIN obj \ {o} : obj'[p] = obj[p]
    BY <1>2, <1>4 DEF IsList
  <1>10. IsList(obj')
    BY <1>2, <1>9, FunctionIsList DEF IsList
  <1>11. obj'[o] = [[[obj[o] EXCEPT !.ending = FALSE] EXCEPT !.client = r]
                        EXCEPT !.queue = Append(@, "connecting")]
    BY <1>1, <1>4
  <1>12. IsObject(obj[o]) /\ Append(obj[o].queue, "connecting") \in Seq(Events)
    BY <1>1, <1>2 DEF IsObject, Events
  <1>13. /\ IsObject(obj'[o])
         /\ obj'[o].id = obj[o].id /\ obj'[o].state = obj[o].state
         /\ obj'[o].busy = obj[o].busy
         /\ obj'[o].ending = FALSE /\ obj'[o].client = r
         /\ obj'[o].queue = Append(obj[o].queue, "connecting")
    BY <1>11, <1>12 DEF IsObject, ObjectFields
  <1>14. Opens(o, r)
    BY <1>6, <1>7, <1>8, <1>9, <1>10, <1>13 DEF Opens
  <1>15. /\ up' = up /\ row' = row /\ SameCount /\ Turns({t}, {})
         /\ reg' = IF t.arg = "register" THEN t.who ELSE reg
    BY <1>2, ReplaceTurns DEF OpenSocket, SameCount, IsCount
  <1>. QED BY <1>1, <1>2, <1>14, <1>15

\* A new object.
Builds(t, o) ==
    /\ o # 0
    /\ o \in DOMAIN obj => /\ o # reg /\ obj[o].queue = <<>> /\ Mute(o)
                           /\ \A u \in Resumed : u.who # o
    /\ IsList(obj') /\ DOMAIN obj' = DOMAIN obj \cup {o}
    /\ obj'[o] = Fresh(t.who) /\ \A p \in DOMAIN obj \ {o} : obj'[p] = obj[p]
    /\ sock' = sock

LEMMA GuardEffect ==
    ASSUME TypeInv, NEW t \in Resumed, CreateGuard(t), row.id = 0
    PROVE  /\ t.do = "CreateGuard" /\ up /\ up' = up /\ row' = row /\ reg' = 0 /\ SameCount
           /\ \E o, new : Builds(t, o) /\ Turns({t}, new) /\ new = {Task("CreateSave", o, "none")}
  <1> DEFINE o == Slot(FreeObjects, obj)
             made == Fresh(t.who)
  <1>1. /\ IsABag(tasks) /\ IsCount /\ IsList(obj) /\ up
    BY Runs DEF TypeInv
  <1>2. obj' = Put(obj, o, made) /\ Replace(t, {Task("CreateSave", o, "none")}) /\ sock' = sock
    BY DEF CreateGuard
  <1>3. t.do = "CreateGuard" /\ up' = up /\ row' = row /\ reg' = 0 /\ SameCount
    BY <1>1 DEF CreateGuard, SameCount, IsCount
  <1>4. FreeObjects \subseteq DOMAIN obj
    BY DEF FreeObjects
  <1>5. /\ o \in FreeObjects \/ o \notin DOMAIN obj
        /\ o # 0 /\ IsList(obj') /\ DOMAIN obj' = DOMAIN obj \cup {o}
        /\ obj'[o] = made /\ \A p \in DOMAIN obj \ {o} : obj'[p] = obj[p]
    <2> DEFINE O == obj'
    <2>1. O = Put(obj, o, made)
      BY <1>2
    <2> HIDE DEF O, made
    <2>2. /\ o \in FreeObjects \/ o \notin DOMAIN obj
          /\ o # 0 /\ IsList(Put(obj, o, made)) /\ DOMAIN Put(obj, o, made) = DOMAIN obj \cup {o}
          /\ Put(obj, o, made)[o] = made
          /\ \A p \in DOMAIN obj \ {o} : Put(obj, o, made)[p] = obj[p]
      BY <1>1, <1>4, SlotFacts
    <2>3. IsList(O)
      BY <2>1, <2>2, Zenon
    <2>4. /\ DOMAIN O = DOMAIN obj \cup {o} /\ O[o] = made
          /\ \A p \in DOMAIN obj \ {o} : O[p] = obj[p]
      BY <2>1, <2>2
    <2>. QED BY <2>2, <2>3, <2>4 DEF O
  <1>6. o \in DOMAIN obj => /\ o # reg /\ obj[o].queue = <<>> /\ Mute(o)
                            /\ \A u \in Resumed : u.who # o
    BY <1>5 DEF FreeObjects, Mute, Resumed
  <1>7. Builds(t, o)
    BY <1>2, <1>5, <1>6 DEF Builds
  <1> HIDE DEF o
  <1>8. PICK new : Replace(t, new) /\ new = {Task("CreateSave", o, "none")}
    BY <1>2
  <1>9. Turns({t}, new)
    BY <1>1, <1>8, ReplaceTurns
  <1>. QED BY <1>1, <1>3, <1>7, <1>8, <1>9

\* The end of the process, and its start.
LEMMA CrashEffect ==
    ASSUME TypeInv, Crash
    PROVE  /\ ~ up' /\ reg' = 0 /\ DOMAIN obj' = {} /\ DOMAIN sock' = {} /\ Resumed' = {}
           /\ tasks' = EmptyBag /\ obj' = <<>> /\ sock' = <<>> /\ row' = row /\ SameCount
  <1>1. Resumed' = {}
    BY NoTasks DEF Crash, Resumed
  <1>2. IsCount
    BY DEF TypeInv
  <1>. QED BY <1>1, <1>2 DEF Crash, SameCount, IsCount, Count

LEMMA LoadEffect ==
    ASSUME TypeInv, Load
    PROVE  /\ up' /\ row' = row /\ SameCount /\ sock' = <<>> /\ DOMAIN sock' = {}
           /\ Resumed = {} /\ DOMAIN obj = {} /\ reg = 0
           /\ \/ row.id = 0 /\ obj' = <<>> /\ DOMAIN obj' = {} /\ reg' = 0 /\ Turns({}, {})
              \/ /\ row.id # 0 /\ DOMAIN obj' = {1} /\ obj'[1] = Fresh(row.id) /\ IsList(obj')
                 /\ \E new : /\ Turns({}, new)
                             /\ \/ reg' = 0 /\ new = {Task("ReadCreds", 1, "register")}
                                \/ reg' = 1 /\ row.status = "close" /\ new = {}
  <1>1. /\ ~ up /\ tasks = EmptyBag /\ reg = 0 /\ obj = <<>> /\ sock = <<>> /\ IsABag(tasks)
        /\ IsCount
    BY DEF TypeInv, Load
  <1>2. Resumed = {} /\ DOMAIN <<>> = {} /\ Len(<<>>) = 0
    BY <1>1, NoTasks DEF Resumed
  <1>3. up' /\ row' = row /\ SameCount /\ sock' = <<>>
    BY <1>1 DEF Load, SameCount, IsCount
  <1>4. CASE row.id = 0
    <2>1. obj' = <<>> /\ reg' = 0 /\ Turns({}, {})
      BY <1>1, <1>2, <1>4, NothingTurns DEF Load
    <2>. QED BY <1>1, <1>2, <1>3, <1>4, <2>1
  <1>5. CASE row.id # 0
    <2>1. obj' = <<Fresh(row.id)>>
      BY <1>5 DEF Load
    <2>2. DOMAIN obj' = {1} /\ obj'[1] = Fresh(row.id) /\ Len(obj') = 1
      BY <2>1
    <2>3. IsList(obj')
      BY <2>1 DEF IsList
    <2>4. PICK new : /\ Add(new) \/ (UNCHANGED tasks /\ new = {})
                     /\ \/ reg' = 0 /\ new = {Task("ReadCreds", 1, "register")}
                        \/ reg' = 1 /\ row.status = "close" /\ new = {}
      BY <1>1, <1>5, <2>2 DEF Load
    <2>5. Turns({}, new)
      BY <1>1, <2>4, NothingTurns, AddTurns
    <2>. QED BY <1>1, <1>2, <1>3, <1>5, <2>2, <2>3, <2>4, <2>5
  <1>. QED BY <1>4, <1>5

\* What comes from outside, and the callbacks it leaves.
Arrives(new) ==
    \/ Calm /\ reg = 0 /\ \E id : new = {Task("CreateGuard", id, "none")}
    \/ /\ Calm /\ reg # 0 /\ obj[reg].state = "close" /\ UNCHANGED <<obj, sock>>
       /\ new = {Task("ReadCreds", reg, "none")}
    \/ Calm /\ reg # 0 /\ obj'[reg].ending /\ \E then : new = {Task("Logout", reg, then)}
    \/ /\ Calm
       /\ (reg # 0 => obj[reg].state = "close") \/ count'.expired # 0
       /\ UNCHANGED <<obj, sock>> /\ new = {Task("Remove", 0, "none")}
    \/ Calm /\ reg # 0 /\ count'.expired # 0 /\ new = {Task("ExpireLogout", reg, "none")}
    \/ (Calm \/ DOMAIN sock # {}) /\ new = {}

\* A socket emits a code, or that it is open.
Tells(s, e) ==
    /\ Emits(s, e)
    /\ e = "qr" => sock[s].creds = "new" /\ obj[sock[s].owner].queue = <<>>
                   /\ Waiting("SaveRow") = {}
    /\ e = "open" => sock[s].creds = "paired"

Outside == Requests \/ Expire \/ SocketEvent

Steady == /\ up /\ up' = up /\ SameReg /\ IsCount'
          /\ count'.faults = count.faults
          /\ count'.expired = 0 => count.expired = 0

LEMMA OutsideEffect ==
    ASSUME Serial, TypeInv, ClientInv, Outside
    PROVE  /\ Steady
           /\ \/ Drops /\ \E new : Turns({}, new) /\ Arrives(new)
              \/ Turns({}, {}) /\ \E s \in DOMAIN sock : \E e \in {"qr", "open"} : Tells(s, e)
  <1>1. count.expired \in Nat
    BY DEF TypeInv
  <1>2. count.expired + 1 # 0
    BY <1>1
  <1>3. CASE AskCreate
    <2>1. Drops
      BY <1>3, RequestsDrop DEF Requests
    <2>2. PICK new : Turns({}, new) /\ new = {Task("CreateGuard", count.creates + 1, "none")}
      BY <1>3, AskCreateEffect
    <2>3. Arrives(new)
      BY <1>3, <2>2, AskCreateEffect DEF Arrives
    <2>4. Steady
      BY <1>3, AskCreateEffect DEF Steady, MoreCount, AskCreate
    <2>. QED BY <2>1, <2>2, <2>3, <2>4
  <1>4. CASE Connect
    <2>1. Drops
      BY <1>4, RequestsDrop DEF Requests
    <2>2. PICK new : Turns({}, new) /\ new = {Task("ReadCreds", reg, "none")}
      BY <1>4, ConnectEffect
    <2>3. Arrives(new)
      BY <1>4, <2>2, ConnectEffect DEF Arrives
    <2>4. Steady
      BY <1>4, ConnectEffect DEF Steady, SameCount, Connect, Asked
    <2>. QED BY <2>1, <2>2, <2>3, <2>4
  <1>5. CASE Restart
    <2>1. Drops
      BY <1>5, RequestsDrop DEF Requests
    <2>2. Turns({}, {}) /\ Arrives({})
      BY <1>5, RestartEffect DEF Arrives
    <2>3. Steady
      BY <1>5, RestartEffect DEF Steady, SameCount, Restart, Asked
    <2>. QED BY <2>1, <2>2, <2>3
  <1>6. CASE Logout \/ Delete
    <2>1. Drops
      BY <1>6, RequestsDrop DEF Requests
    <2>2. PICK new : /\ Turns({}, new)
                     /\ \/ /\ reg # 0 /\ obj'[reg].ending
                           /\ \E then : new = {Task("Logout", reg, then)}
                        \/ /\ reg # 0 => obj[reg].state = "close"
                           /\ obj' = obj /\ new = {Task("Remove", 0, "none")}
      BY <1>6, LogoutEffect
    <2>3. Arrives(new)
      BY <1>6, <2>2, LogoutEffect DEF Arrives
    <2>4. Steady
      BY <1>6, LogoutEffect DEF Steady, SameCount, Logout, Delete, Asked
    <2>. QED BY <2>1, <2>2, <2>3, <2>4
  <1>7. CASE Expire
    <2>1. Drops
      BY <1>7, StillDrops DEF Expire
    <2>2. PICK new : /\ Turns({}, new)
                     /\ \/ new = {} \/ new = {Task("Remove", 0, "none")}
                        \/ reg # 0 /\ new = {Task("ExpireLogout", reg, "none")}
      BY <1>7, ExpireEffect
    <2>3. Calm /\ count'.expired # 0 /\ UNCHANGED <<obj, sock>>
      BY <1>2, <1>7, ExpireEffect
    <2>4. Arrives(new)
      BY <2>2, <2>3 DEF Arrives
    <2>5. Steady
      BY <1>7, <2>3, ExpireEffect DEF Steady, Expire
    <2>. QED BY <2>1, <2>2, <2>4, <2>5
  <1>8. CASE SocketEvent
    <2>1. PICK s \in DOMAIN sock :
              Qr(s) \/ Open(s) \/ Pair(s) \/ Close(s) \/ LogOutByPhone(s) \/ Reject(s)
      BY <1>8 DEF SocketEvent, Answer
    <2>2. Steady /\ Turns({}, {})
      BY <2>1, SocketEffect DEF Steady, SameCount
    <2>3. CASE Qr(s) \/ Open(s)
      BY <2>2, <2>3, EmitEmits DEF Tells
    <2>4. CASE Pair(s) \/ Close(s) \/ LogOutByPhone(s) \/ Reject(s)
      <3>1. Drops
        BY <2>4, PairDrops, SocketDrops
      <3>2. Arrives({})
        BY DEF Arrives
      <3>. QED BY <2>2, <3>1, <3>2
    <2>. QED BY <2>1, <2>3, <2>4
  <1>. QED BY <1>3, <1>4, <1>5, <1>6, <1>7, <1>8 DEF Outside, Requests

-----------------------------------------------------------------------------
(* What is counted and stored *)

LEMMA TypeKept ==
    ASSUME TypeInv, NEW gone, NEW new, Turns(gone, new), up',
           DOMAIN obj \subseteq DOMAIN obj', IsList(obj'), \A o \in DOMAIN obj' : IsObject(obj'[o]),
           IsList(sock'),
           \A s \in DOMAIN sock' : IsSocket(sock'[s]) /\ sock'[s].owner \in DOMAIN obj',
           reg' = 0 \/ reg' \in DOMAIN obj', IsRow(row'), IsCount',
           {count'.creates, count'.faults, count'.expired} \subseteq Nat,
           \A u \in new : IsTask(u)'
    PROVE  TypeInv'
  <1>1. ASSUME NEW u \in Resumed'
        PROVE  IsTask(u)'
    <2>1. CASE u \in new
      BY <2>1
    <2>2. CASE u \in Resumed
      BY <2>2 DEF TypeInv, IsTask
    <2>. QED BY <2>1, <2>2 DEF Turns
  <1>2. IsABag(tasks')
    BY DEF Turns
  <1>. QED BY <1>1, <1>2 DEF TypeInv

\* The objects are the same ones.
SameObjects ==
    /\ IsList(obj') /\ DOMAIN obj' = DOMAIN obj
    /\ \A o \in DOMAIN obj : IsObject(obj'[o]) /\ obj'[o].id = obj[o].id
    /\ IsList(sock')
    /\ \A s \in DOMAIN sock' : IsSocket(sock'[s]) /\ sock'[s].owner \in DOMAIN obj

LEMMA SameObjectsKeepType ==
    ASSUME TypeInv, NEW gone, NEW new, Turns(gone, new), up', SameObjects,
           reg' = 0 \/ reg' \in DOMAIN obj, IsRow(row'), IsCount',
           {count'.creates, count'.faults, count'.expired} \subseteq Nat,
           \A u \in new : IsTask(u)
    PROVE  TypeInv'
  <1>1. \A u \in new : IsTask(u)'
    BY DEF IsTask, SameObjects
  <1>. QED BY <1>1, TypeKept DEF SameObjects

LEMMA DropsSame ==
    ASSUME TypeInv, Drops
    PROVE  SameObjects
  <1>1. \A s \in DOMAIN sock : sock[s].owner \in DOMAIN obj
    BY DEF TypeInv
  <1>. QED BY <1>1 DEF Drops, DropsObject, DropsSocket, SameObjects

LEMMA EmitsSame ==
    ASSUME TypeInv, NEW s, NEW e, Emits(s, e)
    PROVE  SameObjects
  <1>1. \A r \in DOMAIN sock : sock[r].owner \in DOMAIN obj
    BY DEF TypeInv
  <1>. QED BY <1>1 DEF Emits, SameObjects

LEMMA HandlingSame ==
    ASSUME TypeInv, NEW o \in DOMAIN obj, NEW new, Handling(o, new)
    PROVE  SameObjects
  <1>1. /\ \A p \in DOMAIN obj : IsObject(obj[p])
        /\ IsList(sock) /\ \A s \in DOMAIN sock : IsSocket(sock[s]) /\ sock[s].owner \in DOMAIN obj
    BY DEF TypeInv
  <1>2. CASE Busies(o)
    BY <1>1, <1>2 DEF Busies, SameObjects, IsObject, ObjectFields
  <1>3. ASSUME NEW state, Pops(o, state)
        PROVE  SameObjects
    BY <1>1, <1>3 DEF Pops, SameObjects
  <1>. QED BY <1>2, <1>3 DEF Handling

LEMMA OpensSame ==
    ASSUME TypeInv, NEW o \in DOMAIN obj, NEW r, Opens(o, r)
    PROVE  SameObjects
  <1>1. /\ \A p \in DOMAIN obj : IsObject(obj[p])
        /\ \A s \in DOMAIN sock : IsSocket(sock[s]) /\ sock[s].owner \in DOMAIN obj
    BY DEF TypeInv
  <1>2. \A p \in DOMAIN obj : IsObject(obj'[p]) /\ obj'[p].id = obj[p].id
    BY <1>1 DEF Opens
  <1>3. \A s \in DOMAIN sock' : IsSocket(sock'[s]) /\ sock'[s].owner \in DOMAIN obj
    BY <1>1 DEF Opens
  <1>. QED BY <1>2, <1>3 DEF Opens, SameObjects

\* A new callback is well-formed.
IsNew(new) ==
    \A u \in new : u = Task(u.do, u.who, u.arg) /\ (u.do \in OfObject => u.who \in DOMAIN obj)

LEMMA NewTasks ==
    ASSUME NEW new, IsNew(new)
    PROVE  \A u \in new : IsTask(u)
  BY DEF IsNew, IsTask

LEMMA DropKeepsType ==
    ASSUME TypeInv, ClientInv, NEW t \in Resumed, Drop(t)
    PROVE  TypeInv'
  <1>1. up' /\ IsTask(t) /\ SameObjects
    BY DropDrops, DropsSame, DropCounts DEF TypeInv
  <1>2. /\ reg = 0 \/ reg \in DOMAIN obj
        /\ IsRow(row) /\ \A o \in DOMAIN obj : obj[o].id \in Nat
    BY DEF TypeInv, IsObject
  <1>3. IsCount' /\ {count'.creates, count'.faults, count'.expired} \subseteq Nat
    BY DropCounts DEF TypeInv
  <1>4. PICK new : Turns({t}, new) /\ Outcome(t, new)
    BY DropOutcome
  <1>5. t.do \in OfObject => t.who \in DOMAIN obj
    BY <1>1 DEF IsTask
  <1>6. reg' = 0 \/ reg' \in DOMAIN obj
    BY <1>2, <1>4, <1>5 DEF Outcome, SameReg, OfObject
  <1>7. IsRow(row')
    <2>1. IsRow(NoRow) /\ \A status : IsRow([row EXCEPT !.status = status])
      BY <1>2 DEF IsRow, NoRow
    <2>2. t.do = "CreateSave" => IsRow([id |-> obj[t.who].id, status |-> "close"])
      BY <1>2, <1>5 DEF IsRow, OfObject
    <2>. QED BY <1>2, <1>4, <2>1, <2>2 DEF Outcome, SameReg
  <1>8. IsNew(new)
    BY <1>4, <1>5 DEF Outcome, OfObject, Task, IsNew
  <1>. QED BY <1>1, <1>3, <1>4, <1>6, <1>7, <1>8, NewTasks, SameObjectsKeepType

\* What comes from outside: requests, the deletion timeout, the network and the phone.
LEMMA OutsideSame ==
    ASSUME Serial, TypeInv, ClientInv, Requests \/ Expire \/ SocketEvent
    PROVE  SameObjects
  <1>1. CASE Requests
    BY <1>1, RequestsDrop, DropsSame
  <1>2. CASE Expire
    BY <1>2, StillDrops, DropsSame DEF Expire
  <1>3. ASSUME NEW s \in DOMAIN sock, Qr(s) \/ Open(s)
        PROVE  SameObjects
    BY <1>3, EmitEmits, EmitsSame
  <1>4. ASSUME NEW s \in DOMAIN sock, Pair(s) \/ Close(s) \/ LogOutByPhone(s) \/ Reject(s)
        PROVE  SameObjects
    BY <1>4, PairDrops, SocketDrops, DropsSame
  <1>. QED BY <1>1, <1>2, <1>3, <1>4 DEF SocketEvent, Answer

LEMMA OutsideKeepsType ==
    ASSUME Serial, TypeInv, ClientInv, Requests \/ Expire \/ SocketEvent
    PROVE  TypeInv'
  <1>1. /\ reg = 0 \/ reg \in DOMAIN obj
        /\ IsRow(row) /\ {count.creates, count.faults, count.expired} \subseteq Nat
    BY DEF TypeInv
  <1>2. /\ SameReg /\ up' /\ IsCount'
        /\ {count'.creates, count'.faults, count'.expired} \subseteq Nat
        /\ \E new : Turns({}, new) /\ IsNew(new)
    <2>1. CASE AskCreate
      <3>1. PICK new : Turns({}, new) /\ new = {Task("CreateGuard", count.creates + 1, "none")}
        BY <2>1, AskCreateEffect
      <3>2. IsNew(new)
        BY <3>1 DEF IsNew, Task, OfObject
      <3>3. SameReg /\ MoreCount /\ count'.creates = count.creates + 1 /\ up'
        BY <2>1, AskCreateEffect DEF AskCreate
      <3>4. {count'.creates, count'.faults, count'.expired} \subseteq Nat
        BY <1>1, <3>3 DEF MoreCount
      <3>. QED BY <3>1, <3>2, <3>3, <3>4 DEF MoreCount
    <2>2. CASE Connect
      <3>1. PICK new : Turns({}, new) /\ new = {Task("ReadCreds", reg, "none")}
        BY <2>2, ConnectEffect
      <3>2. IsNew(new)
        BY <1>1, <2>2, <3>1 DEF IsNew, Task, OfObject, Connect
      <3>3. SameReg /\ SameCount /\ up'
        BY <2>2, ConnectEffect DEF Connect, Asked
      <3>. QED BY <1>1, <3>1, <3>2, <3>3 DEF SameCount
    <2>3. CASE Restart
      <3>1. SameReg /\ SameCount /\ up' /\ Turns({}, {})
        BY <2>3, RestartEffect DEF Restart, Asked
      <3>. QED BY <1>1, <3>1 DEF SameCount, IsNew
    <2>4. CASE Logout \/ Delete
      <3>1. PICK new : /\ Turns({}, new)
                       /\ \/ reg # 0 /\ \E then : new = {Task("Logout", reg, then)}
                          \/ new = {Task("Remove", 0, "none")}
        BY <2>4, LogoutEffect
      <3>2. IsNew(new)
        BY <1>1, <3>1 DEF IsNew, Task, OfObject
      <3>3. SameReg /\ SameCount /\ up'
        BY <2>4, LogoutEffect DEF Logout, Delete, Asked
      <3>. QED BY <1>1, <3>1, <3>2, <3>3 DEF SameCount
    <2>5. CASE Expire
      <3>1. PICK new : /\ Turns({}, new)
                       /\ \/ new = {} \/ new = {Task("Remove", 0, "none")}
                          \/ reg # 0 /\ new = {Task("ExpireLogout", reg, "none")}
        BY <2>5, ExpireEffect
      <3>2. IsNew(new)
        BY <1>1, <3>1 DEF IsNew, Task, OfObject
      <3>3. SameReg /\ IsCount' /\ count'.creates = count.creates
            /\ count'.faults = count.faults /\ count'.expired = count.expired + 1 /\ up'
        BY <2>5, ExpireEffect DEF Expire
      <3>4. count.expired + 1 \in Nat
        BY <1>1
      <3>. QED BY <1>1, <3>1, <3>2, <3>3, <3>4
    <2>6. CASE SocketEvent
      <3>1. PICK s \in DOMAIN sock :
                Qr(s) \/ Pair(s) \/ Open(s) \/ Reject(s) \/ Close(s) \/ LogOutByPhone(s)
        BY <2>6 DEF SocketEvent, Answer
      <3>2. (up /\ up' = up) /\ SameReg /\ SameCount /\ Turns({}, {})
        BY <3>1, SocketEffect
      <3>3. IsNew({})
        BY DEF IsNew
      <3>. QED BY <1>1, <3>2, <3>3 DEF SameCount
    <2>. QED BY <2>1, <2>2, <2>3, <2>4, <2>5, <2>6 DEF Requests
  <1>3. SameObjects
    BY OutsideSame
  <1>. QED BY <1>1, <1>2, <1>3, NewTasks, SameObjectsKeepType DEF SameReg

LEMMA HandleKeepsType ==
    ASSUME TypeInv, QueueInv, NEW o \in DOMAIN obj, HandleEvent(o)
    PROVE  TypeInv'
  <1>1. /\ reg = 0 \/ reg \in DOMAIN obj
        /\ IsRow(row) /\ {count.creates, count.faults, count.expired} \subseteq Nat
    BY DEF TypeInv
  <1>2. PICK new : Turns({}, new) /\ Handling(o, new)
    BY HandleEffect
  <1>3. IsNew(new)
    BY <1>2 DEF Handling, IsNew, Task
  <1>4. SameObjects
    BY <1>2, HandlingSame
  <1>5. up' /\ SameReg /\ SameCount
    BY HandleEffect
  <1>. QED BY <1>1, <1>2, <1>3, <1>4, <1>5, NewTasks, SameObjectsKeepType DEF SameReg, SameCount

LEMMA OpenKeepsType ==
    ASSUME TypeInv, NEW t \in Resumed, OpenSocket(t)
    PROVE  TypeInv'
  <1>1. /\ reg = 0 \/ reg \in DOMAIN obj
        /\ IsRow(row) /\ {count.creates, count.faults, count.expired} \subseteq Nat
    BY DEF TypeInv
  <1>2. SameObjects
    BY OpenEffect, OpensSame
  <1>3. /\ t.who \in DOMAIN obj /\ up' /\ row' = row /\ SameCount /\ Turns({t}, {})
        /\ reg' = reg \/ reg' = t.who
    BY OpenEffect
  <1>4. \A u \in {} : IsTask(u)
    OBVIOUS
  <1>. QED BY <1>1, <1>2, <1>3, <1>4, SameObjectsKeepType DEF SameCount

LEMMA BuildKeepsType ==
    ASSUME TypeInv, IdInv, NEW t \in Resumed, CreateGuard(t), row.id = 0
    PROVE  TypeInv'
  <1>1. /\ IsRow(row) /\ {count.creates, count.faults, count.expired} \subseteq Nat
        /\ (\A p \in DOMAIN obj : IsObject(obj[p])) /\ IsList(sock)
        /\ \A s \in DOMAIN sock : IsSocket(sock[s]) /\ sock[s].owner \in DOMAIN obj
    BY DEF TypeInv
  <1>2. PICK o, new : Builds(t, o) /\ Turns({t}, new) /\ new = {Task("CreateSave", o, "none")}
    BY GuardEffect
  <1>3. t.who \in Nat /\ t.who # 0
    <2>1. t.do = "CreateGuard"
      BY DEF CreateGuard
    <2>2. t.who = count.creates /\ row.id < t.who
      BY <2>1 DEF IdInv
    <2>. QED BY <1>1, <2>2
  <1>4. IsObject(Fresh(t.who))
    BY <1>3 DEF IsObject, Fresh, ObjectFields, States
  <1>5. \A p \in DOMAIN obj' : IsObject(obj'[p])
    BY <1>1, <1>2, <1>4 DEF Builds
  <1>6. o \in DOMAIN obj'
    BY <1>2 DEF Builds
  <1>7. \A u \in new : IsTask(u)'
    <2>1. \A u \in new : u.who = o /\ u = Task(u.do, u.who, u.arg)
      BY <1>2 DEF Task
    <2>. QED BY <1>6, <2>1 DEF IsTask
  <1>8. up' /\ row' = row /\ reg' = 0 /\ SameCount
    <2>1. up /\ up' = up
      BY GuardEffect
    <2>. QED BY <2>1, GuardEffect
  <1>9. /\ DOMAIN obj \subseteq DOMAIN obj' /\ IsList(obj') /\ IsList(sock')
        /\ \A s \in DOMAIN sock' : IsSocket(sock'[s]) /\ sock'[s].owner \in DOMAIN obj'
    BY <1>1, <1>2 DEF Builds
  <1>. QED BY <1>1, <1>2, <1>5, <1>7, <1>8, <1>9, TypeKept DEF SameCount

LEMMA CrashKeepsType ==
    ASSUME TypeInv, Crash
    PROVE  TypeInv'
  <1>1. IsABag(tasks') /\ IsList(obj') /\ IsList(sock')
    BY CrashEffect, NoTasks DEF IsList
  <1>. QED BY <1>1, CrashEffect DEF TypeInv, SameCount, IsRow

LEMMA LoadKeepsType ==
    ASSUME TypeInv, Load
    PROVE  TypeInv'
  <1>1. /\ IsRow(row) /\ {count.creates, count.faults, count.expired} \subseteq Nat
    BY DEF TypeInv
  <1>2. IsList(<<>>) /\ IsList(sock')
    BY LoadEffect DEF IsList
  <1>3. CASE row.id = 0
    BY <1>1, <1>2, <1>3, LoadEffect, TypeKept DEF SameCount
  <1>4. CASE row.id # 0
    <2>1. PICK new : /\ Turns({}, new)
                     /\ \/ reg' = 0 /\ new = {Task("ReadCreds", 1, "register")}
                        \/ reg' = 1 /\ row.status = "close" /\ new = {}
      BY <1>4, LoadEffect
    <2>2. IsObject(Fresh(row.id))
      BY <1>1, <1>4 DEF IsObject, Fresh, ObjectFields, States, IsRow
    <2>3. DOMAIN obj' = {1} /\ obj'[1] = Fresh(row.id) /\ IsList(obj') /\ DOMAIN obj = {}
      BY <1>4, LoadEffect
    <2>4. \A u \in new : IsTask(u)'
      BY <2>1, <2>3 DEF IsTask, Task
    <2>. QED BY <1>1, <1>2, <2>1, <2>2, <2>3, <2>4, LoadEffect, TypeKept DEF SameCount
  <1>. QED BY <1>3, <1>4

-----------------------------------------------------------------------------
(* Whose the objects and the row are *)

LEMMA IdsKept ==
    ASSUME TypeInv, IdInv, SameObjects, NEW gone, NEW new, Turns(gone, new),
           \A u \in new : u.do # "CreateGuard", count'.creates = count.creates,
           row'.id = row.id \/ row'.id = 0 \/ \E o \in DOMAIN obj : row'.id = obj[o].id
    PROVE  IdInv'
  <1>1. count.creates \in Nat /\ row.id \in Nat
    BY DEF TypeInv, IsRow
  <1>2. \A o \in DOMAIN obj : obj'[o].id = obj[o].id /\ obj[o].id \in Nat
    BY DEF TypeInv, IsObject, SameObjects
  <1>3. DOMAIN obj' = DOMAIN obj
    BY DEF SameObjects
  <1>4. row'.id <= count.creates
    BY <1>1 DEF IdInv
  <1>5. ASSUME NEW t \in Resumed', t.do = "CreateGuard"
        PROVE  t.who = count.creates /\ row'.id < t.who /\ \A o \in DOMAIN obj : obj[o].id < t.who
    <2>1. t \in Resumed
      BY <1>5 DEF Turns
    <2>2. t.who = count.creates /\ row.id < t.who /\ \A o \in DOMAIN obj : obj[o].id < t.who
      BY <1>5, <2>1 DEF IdInv
    <2>3. 0 < t.who
      BY <1>1, <2>2
    <2>. QED BY <2>2, <2>3
  <1>. QED BY <1>2, <1>3, <1>4, <1>5 DEF IdInv

LEMMA DropKeepsIds ==
    ASSUME TypeInv, ClientInv, IdInv, NEW t \in Resumed, Drop(t)
    PROVE  IdInv'
  <1>1. PICK new : Turns({t}, new) /\ Outcome(t, new)
    BY DropOutcome
  <1>2. SameObjects /\ count'.creates = count.creates
    BY DropDrops, DropsSame, DropCounts
  <1>3. \A u \in new : u.do # "CreateGuard"
    BY <1>1 DEF Outcome, Task
  <1>4. t.do \in OfObject => t.who \in DOMAIN obj
    BY DEF TypeInv, IsTask
  <1>5. IsRow(row)
    BY DEF TypeInv
  <1>6. row'.id = row.id \/ row'.id = 0 \/ \E o \in DOMAIN obj : row'.id = obj[o].id
    BY <1>1, <1>4, <1>5 DEF Outcome, OfObject, SameReg, NoRow, IsRow
  <1>. QED BY <1>1, <1>2, <1>3, <1>6, IdsKept

\* Nothing is registered and no callback is left when a request comes.
LEMMA CalmFacts ==
    ASSUME Calm
    PROVE  Resumed = {} /\ \A o \in DOMAIN obj : obj[o].queue = <<>> /\ ~ obj[o].busy
  BY NoTasks DEF Calm, Resumed

LEMMA AskCreateKeepsIds ==
    ASSUME Serial, TypeInv, IdInv, AskCreate
    PROVE  IdInv'
  <1>1. PICK new : Turns({}, new) /\ new = {Task("CreateGuard", count.creates + 1, "none")}
    BY AskCreateEffect
  <1>2. /\ Resumed = {} /\ obj' = obj /\ row' = row
        /\ count'.creates = count.creates + 1 /\ count.creates \in Nat
        /\ (\A o \in DOMAIN obj : obj[o].id \in Nat) /\ row.id \in Nat
    BY AskCreateEffect, CalmFacts DEF TypeInv, IsObject, IsRow, AskCreate
  <1>3. \A t \in Resumed' : t.who = count.creates + 1
    <2>1. \A t \in new : t.who = count.creates + 1
      BY <1>1 DEF Task
    <2>. QED BY <1>1, <1>2, <2>1 DEF Turns
  <1>4. /\ \A o \in DOMAIN obj : obj[o].id <= count.creates
        /\ row.id <= count.creates
        /\ \A o, p \in DOMAIN obj : obj[o].id = obj[p].id => o = p
    BY DEF IdInv
  <1>5. row.id < count.creates + 1 /\ row.id <= count.creates + 1
        /\ \A o \in DOMAIN obj : obj[o].id < count.creates + 1 /\ obj[o].id <= count.creates + 1
    BY <1>2, <1>4
  <1>6. /\ \A o, p \in DOMAIN obj' : obj'[o].id = obj'[p].id => o = p
        /\ \A o \in DOMAIN obj' : obj'[o].id <= count'.creates
        /\ row'.id <= count'.creates
    BY <1>2, <1>4, <1>5
  <1>7. \A t \in Resumed' : t.do = "CreateGuard" =>
            t.who = count'.creates /\ row'.id < t.who /\ \A o \in DOMAIN obj' : obj'[o].id < t.who
    BY <1>2, <1>3, <1>5
  <1>. QED BY <1>6, <1>7 DEF IdInv

LEMMA OutsideKeepsIds ==
    ASSUME Serial, TypeInv, ClientInv, IdInv, Requests \/ Expire \/ SocketEvent
    PROVE  IdInv'
  <1>1. CASE AskCreate
    BY <1>1, AskCreateKeepsIds
  <1>2. ASSUME ~ AskCreate
        PROVE  /\ count'.creates = count.creates /\ SameReg
               /\ \E new : Turns({}, new) /\ \A u \in new : u.do # "CreateGuard"
    <2>1. CASE Connect
      BY <2>1, ConnectEffect DEF SameCount, Task
    <2>2. CASE Restart
      BY <2>2, RestartEffect DEF SameCount
    <2>3. CASE Logout \/ Delete
      BY <2>3, LogoutEffect DEF SameCount, Task
    <2>4. CASE Expire
      BY <2>4, ExpireEffect DEF Task
    <2>5. CASE SocketEvent
      BY <2>5, SocketEffect DEF SameCount, SocketEvent, Answer
    <2>. QED BY <1>2, <2>1, <2>2, <2>3, <2>4, <2>5 DEF Requests
  <1>3. SameObjects
    BY OutsideSame
  <1>. QED BY <1>1, <1>2, <1>3, IdsKept DEF SameReg

LEMMA HandleKeepsIds ==
    ASSUME TypeInv, QueueInv, IdInv, NEW o \in DOMAIN obj, HandleEvent(o)
    PROVE  IdInv'
  <1>1. PICK new : Turns({}, new) /\ Handling(o, new)
    BY HandleEffect
  <1>2. \A u \in new : u.do # "CreateGuard"
    BY <1>1 DEF Handling, Task
  <1>3. SameObjects
    BY <1>1, HandlingSame
  <1>4. SameReg /\ SameCount
    BY HandleEffect
  <1>. QED BY <1>1, <1>2, <1>3, <1>4, IdsKept DEF SameCount, SameReg

LEMMA OpenKeepsIds ==
    ASSUME TypeInv, IdInv, NEW t \in Resumed, OpenSocket(t)
    PROVE  IdInv'
  <1>1. SameObjects /\ row' = row /\ SameCount /\ Turns({t}, {})
    BY OpenEffect, OpensSame
  <1>. QED BY <1>1, IdsKept DEF SameCount

LEMMA BuildKeepsIds ==
    ASSUME TypeInv, IdInv, ManageInv, NEW t \in Resumed, CreateGuard(t), row.id = 0
    PROVE  IdInv'
  <1>1. PICK o, new : Builds(t, o) /\ Turns({t}, new) /\ new = {Task("CreateSave", o, "none")}
    BY GuardEffect
  <1>2. row' = row /\ count'.creates = count.creates /\ t.do = "CreateGuard"
    BY GuardEffect DEF SameCount
  <1>3. /\ count.creates \in Nat
        /\ \A p \in DOMAIN obj : obj[p].id \in Nat
    BY DEF TypeInv, IsObject
  <1>4. /\ t.who = count.creates /\ \A p \in DOMAIN obj : obj[p].id < t.who
        /\ row.id <= count.creates
        /\ \A p, q \in DOMAIN obj : obj[p].id = obj[q].id => p = q
    BY <1>2 DEF IdInv
  <1>5. \A u \in Resumed' : u.do # "CreateGuard"
    <2>1. t \notin Resumed' /\ \A u \in new : u.do # "CreateGuard"
      BY <1>1, <1>2 DEF ManageInv, Managing, Manages, Turns, Once, Task
    <2>2. \A u \in Resumed : u.do = "CreateGuard" => u = t
      BY <1>2 DEF ManageInv, Managing, Manages
    <2>. QED BY <1>1, <2>1, <2>2 DEF Turns
  <1>6. DOMAIN obj' = DOMAIN obj \cup {o} /\ obj'[o].id = t.who
        /\ \A p \in DOMAIN obj \ {o} : obj'[p] = obj[p]
    BY <1>1 DEF Builds, Fresh
  <1>7. \A p \in DOMAIN obj' : obj'[p].id <= count.creates /\ (p # o => obj'[p].id < t.who)
    BY <1>3, <1>4, <1>6
  <1>8. ASSUME NEW p \in DOMAIN obj', NEW q \in DOMAIN obj', obj'[p].id = obj'[q].id
        PROVE  p = q
    <2>1. CASE p # o /\ q # o
      BY <1>4, <1>6, <1>8, <2>1
    <2>2. CASE p = o /\ q # o
      BY <1>3, <1>4, <1>6, <1>8, <2>2
    <2>3. CASE p # o /\ q = o
      BY <1>3, <1>4, <1>6, <1>8, <2>3
    <2>. QED BY <2>1, <2>2, <2>3
  <1>. QED BY <1>2, <1>4, <1>5, <1>7, <1>8 DEF IdInv

LEMMA BootKeepsIds ==
    ASSUME TypeInv, IdInv, Crash \/ Load
    PROVE  IdInv'
  <1>1. row' = row /\ count'.creates = count.creates /\ row.id <= count.creates
    BY CrashEffect, LoadEffect DEF SameCount, IdInv
  <1>2. \A o \in DOMAIN obj' : o = 1 /\ obj'[o].id = row.id
    BY CrashEffect, LoadEffect DEF Fresh
  <1>3. \A t \in Resumed' : t.do # "CreateGuard"
    <2>1. CASE Crash
      BY <2>1, CrashEffect
    <2>2. CASE Load
      <3>1. \E new : Turns({}, new) /\ \A u \in new : u.do # "CreateGuard"
        BY <2>2, LoadEffect DEF Task
      <3>. QED BY <2>2, <3>1, LoadEffect DEF Turns
    <2>. QED BY <2>1, <2>2
  <1>. QED BY <1>1, <1>2, <1>3 DEF IdInv

-----------------------------------------------------------------------------
(* One request at a time *)

\* The callback that manages passes it on.
Hands(gone, new) ==
    /\ gone \subseteq Resumed /\ gone \cap new = {}
    /\ \A u \in new : Managing(u) =>
          /\ \A v \in Resumed : Managing(v) => v \in gone
          /\ \A v \in new : Managing(v) => u = v

LEMMA OneManages ==
    ASSUME ManageInv, NEW gone, NEW new, Turns(gone, new), Hands(gone, new)
    PROVE  /\ \A t, u \in Resumed' : Managing(t) /\ Managing(u) => t = u
           /\ \A t \in Resumed' : Managing(t) => tasks'[t] = 1
           /\ \A t \in Resumed' : Managing(t) => t \in new \/ t \in Resumed \ gone
  <1>1. \A t, u \in Resumed : Managing(t) /\ Managing(u) => t = u
    BY DEF ManageInv
  <1>2. \A t \in Resumed : Managing(t) => Once(t)
    BY DEF ManageInv, Once
  <1>3. ASSUME NEW t \in Resumed', Managing(t), t \notin new
        PROVE  t \in Resumed \ gone /\ tasks'[t] = 1
    <2>1. t \in Resumed
      BY <1>3 DEF Turns
    <2>2. t \notin gone
      BY <1>2, <1>3, <2>1 DEF Turns
    <2>. QED BY <1>2, <1>3, <2>1, <2>2 DEF Turns, Once
  <1>4. ASSUME NEW t \in Resumed', Managing(t), t \in new
        PROVE  tasks'[t] = 1 /\ \A u \in Resumed' : Managing(u) => t = u
    <2>1. t \notin Resumed
      BY <1>4 DEF Hands
    <2>2. tasks'[t] = 1
      BY <1>4, <2>1 DEF Turns, Once
    <2>3. ASSUME NEW u \in Resumed', Managing(u)
          PROVE  t = u
      BY <1>3, <1>4, <2>3 DEF Hands
    <2>. QED BY <2>2, <2>3
  <1>5. \A t \in Resumed' : Managing(t) => tasks'[t] = 1
    BY <1>3, <1>4
  <1>6. \A t \in Resumed' : Managing(t) => t \in new \/ t \in Resumed \ gone
    BY <1>3
  <1>7. ASSUME NEW t \in Resumed', NEW u \in Resumed', Managing(t), Managing(u)
        PROVE  t = u
    <2>1. CASE t \in new
      BY <1>4, <1>7, <2>1
    <2>2. CASE u \in new
      BY <1>4, <1>7, <2>2
    <2>3. CASE t \notin new /\ u \notin new
      BY <1>1, <1>3, <1>7, <2>3
    <2>. QED BY <2>1, <2>2, <2>3
  <1>. QED BY <1>5, <1>6, <1>7

LEMMA LoadingManages ==
    ASSUME NEW t, Loading(t) \/ t.do \in Manages
    PROVE  Managing(t)
  BY DEF Loading, Managing

\* The registration and the id in the row stay.
LEMMA SteadyManages ==
    ASSUME TypeInv, ManageInv, SameObjects, NEW gone, NEW new, Turns(gone, new), Hands(gone, new),
           up' = up, reg' = reg, row'.id = row.id, count'.faults = 0 => count.faults = 0,
           \A t \in Resumed : ~ Loading(t),
           \A u \in new : /\ ~ Loading(u)
                          /\ u.do \notin {"CreateSave", "CreateConfigure"}
                          /\ u.do \in {"CreateGuard"} \cup Cleans => reg = 0,
           row.id # 0 => \A t \in gone : t.do \in Cleans => \E u \in new : u.do \in Cleans
    PROVE  ManageInv'
  <1>1. /\ \A t, u \in Resumed' : Managing(t) /\ Managing(u) => t = u
        /\ \A t \in Resumed' : Managing(t) => tasks'[t] = 1
    BY OneManages
  <1>2. /\ new \subseteq Resumed' /\ Resumed' \subseteq Resumed \cup new
        /\ Resumed \ gone \subseteq Resumed'
    BY DEF Turns
  <1>3. /\ \A t \in Resumed' : t.do \in {"CreateGuard", "CreateSave"} \cup Cleans => reg' = 0
        /\ \A t \in Resumed' : t.do = "CreateSave" => row'.id = 0
        /\ \A t \in Resumed' : t.do = "CreateConfigure" => reg' = t.who
    BY <1>2 DEF ManageInv
  <1>4. \A t \in Resumed' : ~ Loading(t)
    BY <1>2
  <1>5. reg' # 0 => row'.id = obj'[reg'].id
    BY DEF ManageInv, TypeInv, SameObjects
  <1>6. up' /\ row'.id # 0 /\ count'.faults = 0 =>
            reg' # 0 \/ \E t \in Resumed' : t.do \in Cleans
    <2>1. up /\ row.id # 0 /\ count.faults = 0 => reg # 0 \/ \E t \in Resumed : t.do \in Cleans
      BY DEF ManageInv
    <2>2. row.id # 0 =>
              \A t \in Resumed : t.do \in Cleans => \E u \in Resumed' : u.do \in Cleans
      BY <1>2
    <2>. QED BY <2>1, <2>2
  <1>. QED BY <1>1, <1>3, <1>4, <1>5, <1>6 DEF ManageInv

\* An instance that is loaded is alone.
LEMMA LoadsAlone ==
    ASSUME ManageInv, NEW t \in Resumed, NEW u \in Resumed, Loading(u)
    PROVE  t = u
  BY DEF ManageInv, IsLoading

\* The callback that a callback leaves.
LEMMA OutcomeFacts ==
    ASSUME NEW t, NEW new, Outcome(t, new)
    PROVE  /\ t \notin new
           /\ \A u \in new :
                 /\ Managing(u) => Managing(t) /\ \A v \in new : Managing(v) => u = v
                 /\ Loading(u) => Loading(t) /\ t.do = "ReadCreds"
                 /\ u.do # "CreateGuard" /\ u.do # "CreateSave"
                 /\ u.do = "CreateConfigure" => t.do = "CreateSave"
                 /\ u.do \in Cleans => t.do \in {"Remove"} \cup Cleans
                 /\ u.do \in Opening => t.do \in Opening /\ u.who = t.who
                                        /\ \A v \in new : u = v
           /\ t.do \in Cleans /\ row.id # 0 /\ t.do # "CleanStoreRow" =>
                 \E u \in new : u.do \in Cleans
  <1>2. t \notin new
    BY DEF Outcome, Task
  <1>3. ASSUME NEW u \in new
        PROVE  /\ Loading(u) => Loading(t) /\ t.do = "ReadCreds"
               /\ u.do # "CreateGuard" /\ u.do # "CreateSave"
               /\ u.do = "CreateConfigure" => t.do = "CreateSave"
               /\ u.do \in Cleans => t.do \in {"Remove"} \cup Cleans
    BY <1>3 DEF Outcome, Task, Loading, Cleans
  <1>4. ASSUME NEW u \in new, Managing(u)
        PROVE  Managing(t) /\ \A v \in new : Managing(v) => u = v
    BY <1>4 DEF Outcome, Task, Managing, Manages, Cleans
  <1>5. ASSUME NEW u \in new, u.do \in Opening
        PROVE  t.do \in Opening /\ u.who = t.who /\ \A v \in new : u = v
    BY <1>5 DEF Outcome, Task, Opening
  <1>6. ASSUME t.do \in Cleans, row.id # 0, t.do # "CleanStoreRow"
        PROVE  \E u \in new : u.do \in Cleans
    <2>1. new = {Task("CleanStoreRows", row.id, "none")} \/ new = {Task("CleanStoreRow", 0, "none")}
      BY <1>6 DEF Outcome, Cleans
    <2>2. PICK u : new = {u} /\ (\/ u = Task("CleanStoreRows", row.id, "none")
                                 \/ u = Task("CleanStoreRow", 0, "none"))
      BY <2>1
    <2>3. u.do = "CleanStoreRows" \/ u.do = "CleanStoreRow"
      BY <2>2 DEF Task
    <2>. QED BY <2>2, <2>3 DEF Cleans
  <1>. QED BY <1>2, <1>3, <1>4, <1>5, <1>6

LEMMA OutcomeHands ==
    ASSUME ManageInv, NEW t \in Resumed, NEW new, Outcome(t, new)
    PROVE  Hands({t}, new)
  BY OutcomeFacts DEF Hands, ManageInv

LEMMA LoadingDropManages ==
    ASSUME TypeInv, ClientInv, ManageInv, NEW t \in Resumed, Drop(t), Loading(t)
    PROVE  ManageInv'
  <1>1. PICK new : Turns({t}, new) /\ Outcome(t, new)
    BY DropOutcome
  <1>2. IsLoading(t) /\ t \in Resumed /\ Managing(t) /\ Once(t)
    BY LoadingManages DEF ManageInv, Once
  <1>3. t.do = "ReadCreds" /\ t.arg = "register"
    BY <1>1 DEF Loading, Outcome
  <1>4. /\ SameReg
        /\ \/ new = {} /\ count'.faults # 0
           \/ new = {Task("OpenSocket", t.who, "register")}
    BY <1>1, <1>3 DEF Outcome
  <1>5. t \notin new
    BY <1>1, OutcomeFacts
  <1>6. Resumed' = new
    BY <1>1, <1>2, <1>5 DEF Turns, IsLoading
  <1>7. reg' = 0 /\ row' = row
    BY <1>2, <1>4 DEF IsLoading, SameReg
  <1>8. CASE new = {}
    BY <1>4, <1>6, <1>7, <1>8 DEF ManageInv
  <1>9. CASE new = {Task("OpenSocket", t.who, "register")}
    <2>1. PICK u : new = {u} /\ u = Task("OpenSocket", t.who, "register")
      BY <1>9
    <2>2. u.do = "OpenSocket" /\ u.who = t.who /\ u.arg = "register" /\ u # t
      BY <1>3, <2>1 DEF Task
    <2>3. tasks'[u] = 1
      BY <1>1, <1>2, <2>1, <2>2 DEF Turns, Once, IsLoading
    <2>4. /\ t.who \in DOMAIN obj /\ DOMAIN obj = {t.who} /\ DOMAIN sock = {}
          /\ row.id = obj[t.who].id
          /\ obj[t.who].queue = <<>> /\ obj[t.who].state = "close" /\ ~ obj[t.who].busy
      BY <1>2 DEF IsLoading
    <2>5. Mute(t.who)
      BY <2>4 DEF Mute
    <2>6. /\ DOMAIN obj' = {t.who} /\ DOMAIN sock' = {} /\ obj'[t.who].id = obj[t.who].id
          /\ obj'[t.who].queue = <<>> /\ obj'[t.who].state = "close" /\ ~ obj'[t.who].busy
      BY <2>4, <2>5, DropDrops DEF Drops, DropsObject
    <2>7. IsLoading(u)'
      BY <1>6, <1>7, <2>1, <2>2, <2>4, <2>6 DEF IsLoading
    <2>8. Loading(u)
      BY <2>2 DEF Loading
    <2>. QED BY <1>6, <1>7, <2>1, <2>2, <2>3, <2>7, <2>8 DEF ManageInv, Cleans
  <1>. QED BY <1>4, <1>8, <1>9

LEMMA DropKeepsManage ==
    ASSUME TypeInv, ClientInv, TokenInv, ManageInv, NEW t \in Resumed, Drop(t)
    PROVE  ManageInv'
  <1>1. PICK new : Turns({t}, new) /\ Outcome(t, new)
    BY DropOutcome
  <1>2. CASE Loading(t)
    BY <1>2, LoadingDropManages
  <1>3. CASE ~ Loading(t)
    <2>1. SameObjects /\ up /\ up' = up /\ (count'.faults = 0 => count.faults = 0)
      BY DropDrops, DropsSame, DropCounts
    <2>2. /\ Hands({t}, new)
          /\ \A u \in Resumed : ~ Loading(u)
          /\ \A u \in new : ~ Loading(u)
      BY <1>1, <1>3, OutcomeHands, OutcomeFacts, LoadsAlone
    <2>3. /\ \A u, v \in Resumed' : Managing(u) /\ Managing(v) => u = v
          /\ \A u \in Resumed' : Managing(u) => tasks'[u] = 1
          /\ \A u \in Resumed' : Managing(u) => u \in new \/ u \in Resumed \ {t}
          /\ \A u \in Resumed' : ~ Loading(u)
      BY <1>1, <2>2, OneManages DEF Turns
    <2>4. new \subseteq Resumed'
      BY <1>1 DEF Turns
    <2>5. CASE t.do \notin {"CreateSave", "Remove", "CleanStoreRow"}
      <3>1. SameObjects /\ up' = up /\ reg' = reg /\ row'.id = row.id
        <4>1. reg' = reg /\ row'.id = row.id
          BY <1>1, <2>5 DEF Outcome, SameReg, TypeInv, IsRow
        <4>. QED BY <2>1, <4>1
      <3>2. \A u \in new : /\ u.do \notin {"CreateSave", "CreateConfigure"}
                           /\ u.do \in {"CreateGuard"} \cup Cleans => reg = 0
        BY <1>1, <2>5, OutcomeFacts DEF ManageInv
      <3>3. row.id # 0 => (t.do \in Cleans => \E u \in new : u.do \in Cleans)
        BY <1>1, <2>5, OutcomeFacts
      <3>. QED BY <1>1, <2>1, <2>2, <3>1, <3>2, <3>3, SteadyManages
    <2>6. ASSUME t.do \in Manages
          PROVE  \A u \in Resumed' : Managing(u) => u \in new
      BY <2>3, <2>6, LoadingManages DEF ManageInv
    <2>7. ASSUME NEW u \in Resumed', t.do \in Manages,
                 u.do \in {"CreateGuard", "CreateSave", "CreateConfigure"} \cup Cleans
          PROVE  u \in new
      BY <2>6, <2>7, LoadingManages DEF Manages
    <2>8. CASE t.do = "CreateSave"
      <3>1. /\ reg' = t.who /\ new = {Task("CreateConfigure", t.who, "none")}
            /\ row' = IF row.id = 0 THEN [id |-> obj[t.who].id, status |-> "close"] ELSE row
        BY <1>1, <2>8 DEF Outcome
      <3>2. row.id = 0 /\ t.who \in DOMAIN obj
        BY <2>8 DEF ManageInv, TypeInv, IsTask, OfObject
      <3>3. row'.id = obj[t.who].id /\ reg' # 0 /\ obj'[t.who].id = obj[t.who].id
        BY <2>1, <3>1, <3>2 DEF SameObjects, TypeInv, IsList
      <3>4. \A u \in new : u.do = "CreateConfigure" /\ u.who = t.who
        BY <3>1 DEF Task
      <3>5. t.do \in Manages
        BY <2>8 DEF Manages
      <3>6. \A u \in Resumed' : u.do \notin {"CreateGuard", "CreateSave"} \cup Cleans
        BY <2>7, <3>4, <3>5 DEF Cleans
      <3>7. \A u \in Resumed' : u.do = "CreateConfigure" => reg' = u.who
        BY <2>7, <3>1, <3>4, <3>5
      <3>. QED BY <2>3, <3>1, <3>3, <3>6, <3>7 DEF ManageInv
    <2>9. CASE t.do = "Remove"
      <3>1. /\ reg' = 0 /\ row' = row
            /\ new = {Task("CleanUpFind", 0, "none"), Task("CleanStoreFind", 0, "none")}
        BY <1>1, <2>9 DEF Outcome
      <3>2. /\ \A u \in new : u.do \in {"CleanUpFind", "CleanStoreFind"}
            /\ \E u \in new : u.do = "CleanStoreFind"
        BY <3>1 DEF Task
      <3>3. t.do \in Manages
        BY <2>9 DEF Manages
      <3>4. \A u \in Resumed' : u.do \notin {"CreateSave", "CreateConfigure"}
        BY <2>7, <3>2, <3>3
      <3>5. \E u \in Resumed' : u.do \in Cleans
        BY <2>4, <3>2 DEF Cleans
      <3>. QED BY <2>3, <3>1, <3>4, <3>5 DEF ManageInv
    <2>10. CASE t.do = "CleanStoreRow"
      <3>1. reg' = 0 /\ row'.id = 0 /\ new = {}
        BY <1>1, <2>10 DEF Outcome, NoRow, ManageInv, Cleans
      <3>2. t.do \in Manages
        BY <2>10 DEF Manages, Cleans
      <3>3. \A u \in Resumed' : u.do # "CreateConfigure"
        BY <2>7, <3>1, <3>2
      <3>. QED BY <2>3, <3>1, <3>3 DEF ManageInv
    <2>. QED BY <2>5, <2>8, <2>9, <2>10
  <1>. QED BY <1>2, <1>3

LEMMA OutsideKeepsManage ==
    ASSUME Serial, TypeInv, ClientInv, ManageInv, Outside
    PROVE  ManageInv'
  <1>1. Steady /\ SameObjects
    BY OutsideEffect, OutsideSame DEF Outside
  <1>2. ASSUME NEW new, Turns({}, new), Arrives(new)
        PROVE  ManageInv'
    <2>1. \A t \in Resumed : ~ Loading(t)
      BY <1>2, CalmFacts DEF Arrives, ManageInv, IsLoading
    <2>2. new = {} \/ Resumed = {}
      BY <1>2, CalmFacts DEF Arrives
    <2>3. \A u, v \in new : u = v
      BY <1>2 DEF Arrives
    <2>4. \A u \in new : /\ ~ Loading(u)
                         /\ u.do \notin {"CreateSave", "CreateConfigure"}
                         /\ u.do \in {"CreateGuard"} \cup Cleans => reg = 0
      BY <1>2 DEF Arrives, Task, Loading, Cleans
    <2>5. Hands({}, new)
      BY <2>2, <2>3 DEF Hands
    <2>. QED BY <1>1, <1>2, <2>1, <2>4, <2>5, SteadyManages DEF Steady, SameReg
  <1>3. ASSUME Turns({}, {}), NEW s \in DOMAIN sock
        PROVE  ManageInv'
    <2>1. Arrives({})
      BY <1>3 DEF Arrives
    <2>. QED BY <1>2, <1>3, <2>1
  <1>. QED BY <1>2, <1>3, OutsideEffect

LEMMA HandleKeepsManage ==
    ASSUME TypeInv, QueueInv, ManageInv, NEW o \in DOMAIN obj, HandleEvent(o)
    PROVE  ManageInv'
  <1>1. PICK new : Turns({}, new) /\ Handling(o, new)
    BY HandleEffect
  <1>2. SameObjects /\ up' = up /\ SameReg /\ SameCount
    BY <1>1, HandlingSame, HandleEffect
  <1>3. obj[o].queue # <<>>
    BY <1>1 DEF Handling, Busies, Pops
  <1>4. \A t \in Resumed : ~ Loading(t)
    BY <1>3 DEF ManageInv, IsLoading
  <1>5. \A u \in new : u.do \in {"Refuse", "SaveRow", "SaveCreds", "Reconnect", "SaveClose"}
    BY <1>1 DEF Handling, Task
  <1>6. \A u \in new : /\ ~ Managing(u) /\ ~ Loading(u)
                       /\ u.do \notin {"CreateGuard", "CreateSave", "CreateConfigure"} \cup Cleans
    BY <1>5 DEF Managing, Manages, Loading, Cleans
  <1>7. Hands({}, new)
    BY <1>6 DEF Hands
  <1>. QED BY <1>1, <1>2, <1>4, <1>6, <1>7, SteadyManages DEF SameReg, SameCount

LEMMA OpenKeepsManage ==
    ASSUME TypeInv, ManageInv, NEW t \in Resumed, OpenSocket(t)
    PROVE  ManageInv'
  <1>1. PICK r : Opens(t.who, r)
    BY OpenEffect
  <1>2. /\ t.do = "OpenSocket" /\ t.who \in DOMAIN obj /\ up' = up /\ row' = row
        /\ reg' = IF t.arg = "register" THEN t.who ELSE reg
        /\ SameCount /\ Turns({t}, {}) /\ SameObjects
    BY <1>1, OpenEffect, OpensSame
  <1>3. Hands({t}, {})
    BY DEF Hands
  <1>4. CASE t.arg # "register"
    <2>1. ~ Loading(t) /\ t.do \notin Cleans
      BY <1>2, <1>4 DEF Loading, Cleans
    <2>2. \A u \in Resumed : ~ Loading(u)
      BY <2>1, LoadsAlone
    <2>. QED BY <1>2, <1>3, <1>4, <2>1, <2>2, SteadyManages DEF SameCount
  <1>5. CASE t.arg = "register"
    <2>1. Loading(t)
      BY <1>2, <1>5 DEF Loading
    <2>2. IsLoading(t) /\ Once(t)
      BY <2>1, LoadingManages DEF ManageInv, Once
    <2>3. Resumed' = {}
      BY <1>2, <2>2 DEF Turns, IsLoading
    <2>4. reg' = t.who /\ row'.id = obj'[reg'].id
      BY <1>2, <1>5, <2>2 DEF IsLoading, SameObjects
    <2>5. reg' # 0
      BY <1>2, <2>4 DEF TypeInv, IsList
    <2>. QED BY <2>3, <2>4, <2>5 DEF ManageInv
  <1>. QED BY <1>4, <1>5

LEMMA BuildKeepsManage ==
    ASSUME TypeInv, ManageInv, NEW t \in Resumed, CreateGuard(t), row.id = 0
    PROVE  ManageInv'
  <1>1. PICK o, new : Builds(t, o) /\ Turns({t}, new) /\ new = {Task("CreateSave", o, "none")}
    BY GuardEffect
  <1>2. row' = row /\ reg' = 0 /\ t.do = "CreateGuard"
    BY GuardEffect
  <1>3. Managing(t) /\ ~ Loading(t)
    BY <1>2 DEF Managing, Manages, Loading
  <1>4. \A u \in new : u.do = "CreateSave" /\ ~ Loading(u)
    BY <1>1 DEF Task, Loading
  <1>5. Hands({t}, new)
    BY <1>1, <1>2, <1>3, <1>4 DEF Hands, ManageInv
  <1>6. /\ \A u, v \in Resumed' : Managing(u) /\ Managing(v) => u = v
        /\ \A u \in Resumed' : Managing(u) => tasks'[u] = 1
        /\ \A u \in Resumed' : Managing(u) => u \in new \/ u \in Resumed \ {t}
    BY <1>1, <1>5, OneManages
  <1>7. \A u \in Resumed' : Managing(u) => u \in new
    BY <1>3, <1>6 DEF ManageInv
  <1>8. \A u \in Resumed' : ~ Loading(u)
    BY <1>4, <1>7, LoadingManages
  <1>9. \A u \in Resumed' : u.do # "CreateConfigure"
    BY <1>4, <1>7, LoadingManages DEF Manages
  <1>. QED BY <1>2, <1>6, <1>8, <1>9 DEF ManageInv

LEMMA BootKeepsManage ==
    ASSUME TypeInv, ManageInv, Crash \/ Load
    PROVE  ManageInv'
  <1>1. CASE Crash
    BY <1>1, CrashEffect DEF ManageInv
  <1>2. ASSUME Load, row.id = 0
        PROVE  ManageInv'
    <2>1. Resumed' = {} /\ reg' = 0 /\ row'.id = 0
      BY <1>2, LoadEffect DEF Turns
    <2>. QED BY <2>1 DEF ManageInv
  <1>3. ASSUME Load, row.id # 0
        PROVE  ManageInv'
    <2>1. PICK new : /\ Turns({}, new)
                     /\ \/ reg' = 0 /\ new = {Task("ReadCreds", 1, "register")}
                        \/ reg' = 1 /\ row.status = "close" /\ new = {}
      BY <1>3, LoadEffect
    <2>2. /\ DOMAIN obj' = {1} /\ obj'[1] = Fresh(row.id) /\ DOMAIN sock' = {} /\ row' = row
          /\ Resumed = {}
      BY <1>3, LoadEffect
    <2>3. Resumed' = new
      BY <2>1, <2>2 DEF Turns
    <2>4. /\ obj'[1].id = row.id /\ obj'[1].queue = <<>> /\ obj'[1].state = "close"
          /\ ~ obj'[1].busy
      BY <2>2 DEF Fresh
    <2>5. CASE reg' = 1 /\ new = {}
      BY <2>2, <2>3, <2>4, <2>5 DEF ManageInv
    <2>6. CASE reg' = 0 /\ new = {Task("ReadCreds", 1, "register")}
      <3>1. PICK u : new = {u} /\ u = Task("ReadCreds", 1, "register")
        BY <2>6
      <3>2. u.do = "ReadCreds" /\ u.who = 1 /\ u.arg = "register"
        BY <3>1 DEF Task
      <3>3. tasks'[u] = 1
        BY <2>1, <2>2, <3>1 DEF Turns, Once
      <3>4. IsLoading(u)'
        BY <2>2, <2>3, <2>4, <2>6, <3>1, <3>2 DEF IsLoading
      <3>5. Loading(u)
        BY <3>2 DEF Loading
      <3>. QED BY <2>3, <2>6, <3>1, <3>2, <3>3, <3>4, <3>5 DEF ManageInv, Cleans
    <2>. QED BY <2>1, <2>5, <2>6
  <1>. QED BY <1>1, <1>2, <1>3

-----------------------------------------------------------------------------
(* Whose the sockets are *)

LEMMA DropsKeepClients ==
    ASSUME TypeInv, ClientInv, Drops
    PROVE  ClientInv'
  <1>1. /\ DOMAIN obj' = DOMAIN obj /\ DOMAIN sock' = DOMAIN sock
        /\ \A o \in DOMAIN obj : obj'[o].client = obj[o].client
        /\ \A s \in DOMAIN sock : /\ sock'[s].owner = sock[s].owner
                                  /\ sock'[s].state # "closed" => sock[s].state # "closed"
    BY DEF Drops, DropsObject, DropsSocket
  <1>. QED BY <1>1 DEF ClientInv, TypeInv, Live

LEMMA OutsideKeepsClients ==
    ASSUME Serial, TypeInv, ClientInv, Outside
    PROVE  ClientInv'
  <1>1. CASE Drops
    BY <1>1, DropsKeepClients
  <1>2. ASSUME NEW s \in DOMAIN sock, NEW e, Tells(s, e)
        PROVE  ClientInv'
    <2>1. /\ DOMAIN obj' = DOMAIN obj /\ DOMAIN sock' = DOMAIN sock
          /\ \A o \in DOMAIN obj : obj'[o].client = obj[o].client
          /\ \A r \in DOMAIN sock : /\ sock'[r].owner = sock[r].owner
                                    /\ sock'[r].state # "closed" => sock[r].state # "closed"
      BY <1>2 DEF Tells, Emits, Live
    <2>. QED BY <2>1 DEF ClientInv, TypeInv, Live
  <1>. QED BY <1>1, <1>2, OutsideEffect

LEMMA HandleKeepsClients ==
    ASSUME TypeInv, QueueInv, ClientInv, NEW o \in DOMAIN obj, HandleEvent(o)
    PROVE  ClientInv'
  <1>1. PICK new : Handling(o, new)
    BY HandleEffect
  <1>2. /\ DOMAIN obj' = DOMAIN obj /\ sock' = sock
        /\ \A p \in DOMAIN obj : obj'[p].client = obj[p].client
    <2>1. CASE Busies(o)
      BY <2>1 DEF Busies, TypeInv, IsObject, ObjectFields
    <2>2. ASSUME NEW state, Pops(o, state)
          PROVE  /\ DOMAIN obj' = DOMAIN obj /\ sock' = sock
                 /\ \A p \in DOMAIN obj : obj'[p].client = obj[p].client
      BY <2>2 DEF Pops
    <2>. QED BY <1>1, <2>1, <2>2 DEF Handling
  <1>. QED BY <1>2 DEF ClientInv, TypeInv, Live

LEMMA OpenKeepsClients ==
    ASSUME TypeInv, ClientInv, TokenInv, NEW t \in Resumed, OpenSocket(t)
    PROVE  ClientInv'
  <1>1. PICK r : Opens(t.who, r)
    BY OpenEffect
  <1>2. t.who \in DOMAIN obj /\ Mute(t.who)
    BY OpenEffect DEF TokenInv, Opening
  <1>3. /\ DOMAIN obj' = DOMAIN obj /\ DOMAIN sock' = DOMAIN sock \cup {r}
        /\ sock'[r].owner = t.who /\ obj'[t.who].client = r
        /\ \A q \in DOMAIN sock \ {r} : sock'[q] = sock[q]
        /\ \A p \in DOMAIN obj \ {t.who} : obj'[p] = obj[p]
        /\ r \in DOMAIN sock => \A p \in DOMAIN obj \ {t.who} : obj[p].client # r
    BY <1>1 DEF Opens
  <1>4. ASSUME NEW p \in DOMAIN obj', obj'[p].client # 0
        PROVE  obj'[p].client \in DOMAIN sock' /\ sock'[obj'[p].client].owner = p
    BY <1>2, <1>3, <1>4 DEF ClientInv
  <1>5. ASSUME NEW q \in DOMAIN sock', sock'[q].state # "closed"
        PROVE  obj'[sock'[q].owner].client = q
    <2>1. CASE q = r
      BY <1>3, <2>1
    <2>2. CASE q # r
      <3>1. sock'[q] = sock[q] /\ Live(q) /\ q \in DOMAIN sock
        BY <1>3, <1>5, <2>2 DEF Live
      <3>2. sock[q].owner # t.who /\ sock[q].owner \in DOMAIN obj
        BY <1>2, <3>1 DEF Mute, TypeInv
      <3>. QED BY <1>3, <3>1, <3>2 DEF ClientInv
    <2>. QED BY <2>1, <2>2
  <1>. QED BY <1>4, <1>5 DEF ClientInv, Live

LEMMA BuildKeepsClients ==
    ASSUME TypeInv, ClientInv, NEW t \in Resumed, CreateGuard(t), row.id = 0
    PROVE  ClientInv'
  <1>1. PICK o : Builds(t, o)
    BY GuardEffect
  <1>2. /\ DOMAIN obj' = DOMAIN obj \cup {o} /\ sock' = sock /\ obj'[o].client = 0
        /\ \A p \in DOMAIN obj \ {o} : obj'[p] = obj[p]
        /\ o \in DOMAIN obj => Mute(o)
    BY <1>1 DEF Builds, Fresh
  <1>3. \A s \in DOMAIN sock : sock[s].owner \in DOMAIN obj /\ (Live(s) => sock[s].owner # o)
    BY <1>2 DEF TypeInv, Mute
  <1>. QED BY <1>2, <1>3 DEF ClientInv, Live

LEMMA BootKeepsClients ==
    ASSUME TypeInv, ClientInv, Crash \/ Load
    PROVE  ClientInv'
  <1>1. DOMAIN sock' = {} /\ \A o \in DOMAIN obj' : obj'[o].client = 0
    BY CrashEffect, LoadEffect DEF Fresh
  <1>. QED BY <1>1 DEF ClientInv

-----------------------------------------------------------------------------
(* What the objects have to handle *)

\* No more than this is asked of the queue of an object.
QueueOf(o) ==
    /\ obj[o].busy => obj[o].queue # <<>>
    /\ \A i \in DOMAIN obj[o].queue :
          /\ obj[o].queue[i] \in Ends => i = Len(obj[o].queue) /\ Mute(o)
          /\ obj[o].queue[i] = "open" =>
                obj[o].client # 0 /\ sock[obj[o].client].creds = "paired"

LEMMA DropsKeepQueues ==
    ASSUME TypeInv, ClientInv, QueueInv, Drops
    PROVE  QueueInv'
  <1>1. /\ DOMAIN obj' = DOMAIN obj /\ DOMAIN sock' = DOMAIN sock
        /\ \A s \in DOMAIN sock : /\ sock'[s].owner = sock[s].owner
                                  /\ sock'[s].state # "closed" => sock[s].state # "closed"
                                  /\ sock[s].creds = "paired" => sock'[s].creds = "paired"
    BY DEF Drops, DropsSocket
  <1>2. ASSUME NEW o \in DOMAIN obj
        PROVE  QueueOf(o)'
    <2>1. /\ obj'[o].client = obj[o].client /\ obj'[o].busy = obj[o].busy
          /\ \/ obj'[o].queue = obj[o].queue
             \/ EndsQueue(obj[o].queue, obj'[o].queue) /\ ~ Mute(o) /\ Mute(o)'
      BY DEF Drops, DropsObject
    <2>2. QueueOf(o) /\ obj[o].queue \in Seq(Events)
      BY DEF QueueInv, QueueOf, TypeInv, IsObject
    <2>3. Mute(o) => Mute(o)'
      BY <1>1 DEF Mute, Live
    <2>4. obj[o].client # 0 /\ sock[obj[o].client].creds = "paired" =>
              sock'[obj[o].client].creds = "paired"
      BY <1>1 DEF ClientInv
    <2>5. CASE obj'[o].queue = obj[o].queue
      BY <2>1, <2>2, <2>3, <2>4, <2>5 DEF QueueOf
    <2>6. CASE EndsQueue(obj[o].queue, obj'[o].queue) /\ ~ Mute(o) /\ Mute(o)'
      <3>1. \A i \in DOMAIN obj[o].queue : obj[o].queue[i] \notin Ends
        BY <2>2, <2>6 DEF QueueOf
      <3>2. /\ DOMAIN obj[o].queue = 1 .. Len(obj[o].queue) /\ Len(obj[o].queue) \in Nat
            /\ DOMAIN obj'[o].queue = 1 .. Len(obj'[o].queue) /\ Len(obj'[o].queue) \in Nat
            /\ obj'[o].queue # <<>>
        BY <2>2, <2>6 DEF EndsQueue
      <3>3. ASSUME NEW i \in DOMAIN obj'[o].queue
            PROVE  /\ obj'[o].queue[i] \in Ends => i = Len(obj'[o].queue)
                   /\ obj'[o].queue[i] = "open" =>
                         obj'[o].client # 0 /\ sock'[obj'[o].client].creds = "paired"
        <4>1. CASE i <= Len(obj[o].queue)
          <5>1. i \in DOMAIN obj[o].queue /\ obj'[o].queue[i] = obj[o].queue[i]
            BY <2>6, <3>2, <3>3, <4>1 DEF EndsQueue
          <5>. QED BY <2>1, <2>2, <2>4, <3>1, <5>1 DEF QueueOf
        <4>2. CASE ~ (i <= Len(obj[o].queue))
          <5>1. i \in 1 .. Len(obj'[o].queue) /\ i > Len(obj[o].queue)
            BY <3>2, <3>3, <4>2
          <5>2. obj'[o].queue[i] \in {"creds"} \cup Ends
                /\ (obj'[o].queue[i] \in Ends => i = Len(obj'[o].queue))
            BY <2>6, <5>1 DEF EndsQueue
          <5>. QED BY <5>2 DEF Ends
        <4>. QED BY <4>1, <4>2
      <3>. QED BY <2>6, <3>2, <3>3 DEF QueueOf
    <2>. QED BY <2>1, <2>5, <2>6
  <1>. QED BY <1>1, <1>2 DEF QueueInv, QueueOf

LEMMA TellsKeepsQueues ==
    ASSUME TypeInv, ClientInv, QueueInv, NEW s \in DOMAIN sock, NEW e \in {"qr", "open"}, Tells(s, e)
    PROVE  QueueInv'
  <1>1. /\ DOMAIN obj' = DOMAIN obj /\ DOMAIN sock' = DOMAIN sock
        /\ \A r \in DOMAIN sock : /\ sock'[r].owner = sock[r].owner
                                  /\ sock'[r].state # "closed" => sock[r].state # "closed"
                                  /\ sock'[r].creds = sock[r].creds
    BY DEF Tells, Emits, Live
  <1>2. Live(s) /\ (e = "open" => sock[s].creds = "paired")
    BY DEF Tells, Emits
  <1>3. ASSUME NEW o \in DOMAIN obj
        PROVE  QueueOf(o)'
    <2>1. /\ obj'[o].client = obj[o].client /\ obj'[o].busy = obj[o].busy
          /\ obj'[o].queue = IF o = sock[s].owner THEN Append(obj[o].queue, e) ELSE obj[o].queue
      BY DEF Tells, Emits
    <2>2. QueueOf(o) /\ obj[o].queue \in Seq(Events) /\ e \in Events
      BY DEF QueueInv, QueueOf, TypeInv, IsObject, Events
    <2>3. Mute(o) => Mute(o)'
      BY <1>1 DEF Mute, Live
    <2>4. obj[o].client # 0 => sock'[obj[o].client].creds = sock[obj[o].client].creds
      BY <1>1 DEF ClientInv
    <2>5. CASE o # sock[s].owner
      BY <2>1, <2>2, <2>3, <2>4, <2>5 DEF QueueOf
    <2>6. CASE o = sock[s].owner
      <3>1. obj[o].client = s /\ s # 0 /\ ~ Mute(o)
        BY <1>2, <2>6 DEF ClientInv, TypeInv, IsList, Mute
      <3>2. \A i \in DOMAIN obj[o].queue : obj[o].queue[i] \notin Ends
        BY <2>2, <3>1 DEF QueueOf
      <3> DEFINE q == obj[o].queue
                 r == obj'[o].queue
      <3>3. /\ DOMAIN q = 1 .. Len(q) /\ Len(q) \in Nat /\ r = Append(q, e)
            /\ Len(r) = Len(q) + 1 /\ DOMAIN r = 1 .. (Len(q) + 1) /\ r[Len(q) + 1] = e
            /\ \A i \in 1 .. Len(q) : r[i] = q[i]
        BY <2>1, <2>2, <2>6
      <3> HIDE DEF q, r
      <3>4. r # <<>>
        <4>1. DOMAIN <<>> = {} /\ Len(q) + 1 \in DOMAIN r
          BY <3>3
        <4>. QED BY <4>1
      <3>5. ASSUME NEW i \in DOMAIN r
            PROVE  r[i] \notin Ends
                   /\ (r[i] = "open" => obj[o].client # 0 /\ sock[obj[o].client].creds = "paired")
        <4>1. CASE i \in DOMAIN q
          BY <2>2, <3>2, <3>3, <4>1 DEF QueueOf, q
        <4>2. CASE i \notin DOMAIN q
          <5>1. i = Len(q) + 1
            BY <3>3, <3>5, <4>2
          <5>. QED BY <1>2, <3>1, <3>3, <5>1 DEF Ends
        <4>. QED BY <4>1, <4>2
      <3>. QED BY <2>1, <2>4, <3>4, <3>5 DEF QueueOf, r
    <2>. QED BY <2>5, <2>6
  <1>. QED BY <1>1, <1>3 DEF QueueInv, QueueOf

LEMMA OutsideKeepsQueues ==
    ASSUME Serial, TypeInv, ClientInv, QueueInv, Outside
    PROVE  QueueInv'
  BY OutsideEffect, DropsKeepQueues, TellsKeepsQueues

LEMMA TailFacts ==
    ASSUME NEW S, NEW q \in Seq(S), q # <<>>
    PROVE  /\ Len(q) \in Nat /\ Len(q) # 0 /\ DOMAIN q = 1 .. Len(q) /\ Head(q) = q[1]
           /\ Tail(q) \in Seq(S) /\ Len(Tail(q)) = Len(q) - 1
           /\ DOMAIN Tail(q) = 1 .. (Len(q) - 1)
           /\ \A i \in 1 .. (Len(q) - 1) : Tail(q)[i] = q[i + 1]
           /\ Len(q) = 1 => Tail(q) = <<>>
  <1>1. /\ Len(q) \in Nat /\ Len(q) # 0 /\ DOMAIN q = 1 .. Len(q) /\ Head(q) = q[1]
        /\ Tail(q) \in Seq(S) /\ Len(Tail(q)) = Len(q) - 1
        /\ \A i \in 1 .. (Len(q) - 1) : Tail(q)[i] = q[i + 1]
    OBVIOUS
  <1>2. DOMAIN Tail(q) = 1 .. (Len(q) - 1)
    BY <1>1
  <1>3. ASSUME Len(q) = 1
        PROVE  Tail(q) = <<>>
    <2>1. Tail(q) \in Seq(S) /\ Len(Tail(q)) = 0
      BY <1>1, <1>3
    <2> DEFINE r == Tail(q)
    <2> HIDE DEF r
    <2>2. r # <<>> => Len(r) \in Nat \ {0}
      BY <2>1, EmptySeq DEF r
    <2>3. Len(r) = 0
      BY <2>1 DEF r
    <2>4. r = <<>>
      BY <2>2, <2>3
    <2>. QED BY <2>4 DEF r
  <1>. QED BY <1>1, <1>2, <1>3

LEMMA HandleKeepsQueues ==
    ASSUME TypeInv, QueueInv, NEW o \in DOMAIN obj, HandleEvent(o)
    PROVE  QueueInv'
  <1>1. PICK new : Handling(o, new)
    BY HandleEffect
  <1>2. \A p \in DOMAIN obj : QueueOf(p)
    BY DEF QueueInv, QueueOf
  <1>3. CASE Busies(o)
    <2>1. /\ DOMAIN obj' = DOMAIN obj /\ sock' = sock /\ obj[o].queue # <<>>
          /\ \A p \in DOMAIN obj \ {o} : obj'[p] = obj[p]
          /\ obj'[o].queue = obj[o].queue /\ obj'[o].client = obj[o].client
      BY <1>3 DEF Busies, TypeInv, IsObject, ObjectFields
    <2>2. \A p \in DOMAIN obj : Mute(p) => Mute(p)'
      BY <2>1 DEF Mute, Live
    <2>3. ASSUME NEW p \in DOMAIN obj
          PROVE  QueueOf(p)'
      BY <1>2, <2>1, <2>2 DEF QueueOf
    <2>. QED BY <2>1, <2>3 DEF QueueInv, QueueOf
  <1>4. ASSUME NEW state, Pops(o, state)
        PROVE  QueueInv'
    <2>1. /\ DOMAIN obj' = DOMAIN obj /\ sock' = sock /\ obj[o].queue # <<>>
          /\ \A p \in DOMAIN obj \ {o} : obj'[p] = obj[p]
          /\ obj'[o].queue = Tail(obj[o].queue) /\ obj'[o].client = obj[o].client
          /\ obj'[o].busy = FALSE
      BY <1>4 DEF Pops
    <2>2. \A p \in DOMAIN obj : Mute(p) => Mute(p)'
      BY <2>1 DEF Mute, Live
    <2> DEFINE q == obj[o].queue
               r == obj'[o].queue
    <2>3. q \in Seq(Events) /\ q # <<>>
      BY <2>1 DEF TypeInv, IsObject
    <2>4. /\ Len(q) \in Nat /\ DOMAIN q = 1 .. Len(q) /\ Len(r) = Len(q) - 1
          /\ DOMAIN r = 1 .. (Len(q) - 1) /\ \A i \in 1 .. (Len(q) - 1) : r[i] = q[i + 1]
      BY <2>1, <2>3, TailFacts
    <2> HIDE DEF q, r
    <2>5. ASSUME NEW i \in DOMAIN r
          PROVE  /\ r[i] \in Ends => i = Len(r) /\ Mute(o)
                 /\ r[i] = "open" => obj[o].client # 0 /\ sock[obj[o].client].creds = "paired"
      <3>1. i + 1 \in DOMAIN q /\ r[i] = q[i + 1]
        BY <2>4, <2>5
      <3>2. /\ q[i + 1] \in Ends => i + 1 = Len(q) /\ Mute(o)
            /\ q[i + 1] = "open" => obj[o].client # 0 /\ sock[obj[o].client].creds = "paired"
        BY <1>2, <3>1 DEF QueueOf, q
      <3>. QED BY <2>4, <2>5, <3>1, <3>2
    <2>6. QueueOf(o)'
      BY <2>1, <2>2, <2>5 DEF QueueOf, r
    <2>7. ASSUME NEW p \in DOMAIN obj \ {o}
          PROVE  QueueOf(p)'
      BY <1>2, <2>1, <2>2 DEF QueueOf
    <2>. QED BY <2>1, <2>6, <2>7 DEF QueueInv, QueueOf
  <1>. QED BY <1>1, <1>3, <1>4 DEF Handling

LEMMA OpenKeepsQueues ==
    ASSUME TypeInv, ClientInv, QueueInv, TokenInv, NEW t \in Resumed, OpenSocket(t)
    PROVE  QueueInv'
  <1>1. PICK r : Opens(t.who, r)
    BY OpenEffect
  <1>2. t.who \in DOMAIN obj /\ obj[t.who].queue = <<>>
    BY OpenEffect DEF TokenInv, Opening
  <1>3. /\ DOMAIN obj' = DOMAIN obj /\ DOMAIN sock' = DOMAIN sock \cup {r}
        /\ sock'[r].owner = t.who
        /\ \A q \in DOMAIN sock \ {r} : sock'[q] = sock[q]
        /\ \A p \in DOMAIN obj \ {t.who} : obj'[p] = obj[p]
        /\ r \in DOMAIN sock => \A p \in DOMAIN obj \ {t.who} : obj[p].client # r
        /\ obj'[t.who].queue = Append(obj[t.who].queue, "connecting")
    BY <1>1 DEF Opens
  <1>4. obj'[t.who].queue = <<"connecting">>
    BY <1>2, <1>3
  <1>5. QueueOf(t.who)'
    <2>1. obj'[t.who].queue # <<>>
      BY <1>4
    <2>2. \A i \in DOMAIN obj'[t.who].queue : obj'[t.who].queue[i] = "connecting"
      BY <1>4
    <2>. QED BY <2>1, <2>2 DEF QueueOf, Ends
  <1>6. ASSUME NEW p \in DOMAIN obj \ {t.who}
        PROVE  QueueOf(p)'
    <2>1. Mute(p) => Mute(p)'
      BY <1>3 DEF Mute, Live
    <2>2. obj[p].client # 0 => sock'[obj[p].client] = sock[obj[p].client]
      BY <1>3 DEF ClientInv
    <2>. QED BY <1>3, <2>1, <2>2 DEF QueueInv, QueueOf
  <1>. QED BY <1>3, <1>5, <1>6 DEF QueueInv, QueueOf

LEMMA BuildKeepsQueues ==
    ASSUME TypeInv, QueueInv, NEW t \in Resumed, CreateGuard(t), row.id = 0
    PROVE  QueueInv'
  <1>1. PICK o : Builds(t, o)
    BY GuardEffect
  <1>2. /\ DOMAIN obj' = DOMAIN obj \cup {o} /\ sock' = sock
        /\ obj'[o].queue = <<>> /\ ~ obj'[o].busy
        /\ \A p \in DOMAIN obj \ {o} : obj'[p] = obj[p]
    BY <1>1 DEF Builds, Fresh
  <1>3. \A p : Mute(p) => Mute(p)'
    BY <1>2 DEF Mute, Live
  <1>4. QueueOf(o)'
    BY <1>2 DEF QueueOf
  <1>5. ASSUME NEW p \in DOMAIN obj \ {o}
        PROVE  QueueOf(p)'
    BY <1>2, <1>3 DEF QueueInv, QueueOf
  <1>. QED BY <1>2, <1>4, <1>5 DEF QueueInv, QueueOf

LEMMA BootKeepsQueues ==
    ASSUME TypeInv, QueueInv, Crash \/ Load
    PROVE  QueueInv'
  <1>1. \A o \in DOMAIN obj' : obj'[o].queue = <<>> /\ ~ obj'[o].busy
    BY CrashEffect, LoadEffect DEF Fresh
  <1>. QED BY <1>1 DEF QueueInv

-----------------------------------------------------------------------------
(* Which callbacks end in a new socket *)

IsToken(t) ==
    /\ tasks[t] = 1 /\ obj[t.who].queue = <<>> /\ Mute(t.who)
    /\ \A u \in Resumed : u.do \in Opening /\ u.who = t.who => u = t

\* What a callback that connects needs of its object is kept.
KeepsRest(o) == obj[o].queue = <<>> /\ Mute(o) => obj'[o].queue = <<>> /\ Mute(o)'

LEMMA TokensKept ==
    ASSUME TypeInv, TokenInv, NEW gone, NEW new, Turns(gone, new),
           \A u \in new : u.do \notin Opening,
           \A t \in Resumed : t.do \in Opening => KeepsRest(t.who)
    PROVE  TokenInv'
  <1>1. ASSUME NEW t \in Resumed', t.do \in Opening
        PROVE  t \in Resumed /\ IsToken(t)
    BY <1>1 DEF Turns, TokenInv, IsToken
  <1>2. ASSUME NEW t \in Resumed', t.do \in Opening
        PROVE  tasks'[t] = 1 /\ obj'[t.who].queue = <<>> /\ Mute(t.who)'
    <2>1. t \in Resumed /\ t \notin new /\ Once(t)
      BY <1>1, <1>2 DEF IsToken, Once
    <2>2. tasks'[t] = 1
      BY <1>2, <2>1 DEF Turns, Once
    <2>3. obj[t.who].queue = <<>> /\ Mute(t.who)
      BY <1>1, <1>2 DEF IsToken
    <2>. QED BY <1>2, <2>1, <2>2, <2>3 DEF KeepsRest
  <1>. QED BY <1>1, <1>2 DEF TokenInv, IsToken

\* A callback goes on to connect, or an object begins to.
LEMMA TokenPasses ==
    ASSUME TypeInv, TokenInv, NEW gone, NEW new, Turns(gone, new), NEW u, new = {u},
           \A t \in Resumed : t.do \in Opening /\ t.who = u.who => t \in gone,
           gone \cap new = {}, u.do \in Opening,
           obj'[u.who].queue = <<>>, Mute(u.who)',
           \A t \in Resumed : t.do \in Opening /\ t.who # u.who => KeepsRest(t.who)
    PROVE  TokenInv'
  <1>1. \A t \in Resumed : t.do \in Opening => IsToken(t) /\ Once(t)
    BY DEF TokenInv, IsToken, Once
  <1>2. u \notin Resumed
    OBVIOUS
  <1>3. tasks'[u] = 1
    BY <1>2 DEF Turns, Once
  <1>4. ASSUME NEW t \in Resumed', t.do \in Opening, t # u
        PROVE  t \in Resumed /\ t.who # u.who
    <2>1. t \in Resumed
      BY <1>4 DEF Turns
    <2>2. t \notin gone
      BY <1>1, <1>4, <2>1 DEF Turns
    <2>. QED BY <1>4, <2>1, <2>2
  <1>5. ASSUME NEW t \in Resumed', t.do \in Opening
        PROVE  IsToken(t)'
    <2>1. CASE t = u
      BY <1>3, <1>4, <2>1 DEF IsToken
    <2>2. CASE t # u
      <3>1. t \in Resumed /\ t.who # u.who /\ IsToken(t) /\ Once(t)
        BY <1>1, <1>4, <1>5, <2>2
      <3>2. tasks'[t] = 1
        BY <1>5, <2>2, <3>1 DEF Turns, Once
      <3>3. obj'[t.who].queue = <<>> /\ Mute(t.who)'
        BY <1>5, <3>1 DEF KeepsRest, IsToken
      <3>4. \A v \in Resumed' : v.do \in Opening /\ v.who = t.who => v = t
        BY <1>4, <3>1 DEF IsToken
      <3>. QED BY <3>2, <3>3, <3>4 DEF IsToken
    <2>. QED BY <2>1, <2>2
  <1>. QED BY <1>5 DEF TokenInv, IsToken

LEMMA DropsKeepRest ==
    ASSUME Drops, NEW o \in DOMAIN obj
    PROVE  KeepsRest(o)
  <1>1. /\ DOMAIN sock' = DOMAIN sock
        /\ \A s \in DOMAIN sock : /\ sock'[s].owner = sock[s].owner
                                  /\ sock'[s].state # "closed" => sock[s].state # "closed"
    BY DEF Drops, DropsSocket
  <1>2. Mute(o) => Mute(o)'
    BY <1>1 DEF Mute, Live
  <1>3. Mute(o) => obj'[o].queue = obj[o].queue
    BY DEF Drops, DropsObject
  <1>. QED BY <1>2, <1>3 DEF KeepsRest

LEMMA TokenOwner ==
    ASSUME TypeInv, NEW t \in Resumed, t.do \in Opening
    PROVE  t.who \in DOMAIN obj
  BY DEF TypeInv, IsTask, OfObject, Opening

LEMMA DropKeepsTokens ==
    ASSUME TypeInv, ClientInv, TokenInv, NEW t \in Resumed, Drop(t)
    PROVE  TokenInv'
  <1>1. PICK new : Turns({t}, new) /\ Outcome(t, new)
    BY DropOutcome
  <1>2. Drops
    BY DropDrops
  <1>3. \A u \in Resumed : u.do \in Opening => KeepsRest(u.who)
    BY <1>2, DropsKeepRest, TokenOwner
  <1>4. CASE \A u \in new : u.do \notin Opening
    BY <1>1, <1>3, <1>4, TokensKept
  <1>5. ASSUME NEW u \in new, u.do \in Opening
        PROVE  TokenInv'
    <2>1. t.do \in Opening /\ u.who = t.who /\ new = {u} /\ t \notin new
      BY <1>1, <1>5, OutcomeFacts
    <2>2. IsToken(t)
      BY <2>1 DEF TokenInv, IsToken
    <2>3. \A v \in Resumed : v.do \in Opening /\ v.who = u.who => v \in {t}
      BY <2>1, <2>2 DEF IsToken
    <2>4. obj'[u.who].queue = <<>> /\ Mute(u.who)'
      BY <1>3, <2>1, <2>2 DEF KeepsRest, IsToken
    <2>. QED BY <1>1, <1>3, <1>5, <2>1, <2>3, <2>4, TokenPasses
  <1>. QED BY <1>4, <1>5

\* A registered object that is closed and has nothing to handle has no socket.
LEMMA ClosedIsMute ==
    ASSUME TypeInv, LiveInv, reg # 0, obj[reg].state = "close", obj[reg].queue = <<>>
    PROVE  Mute(reg)
  BY DEF LiveInv, In, Mute

LEMMA TellsKeepsTokens ==
    ASSUME TypeInv, TokenInv, NEW s \in DOMAIN sock, NEW e, Tells(s, e), Turns({}, {})
    PROVE  TokenInv'
  <1>1. /\ DOMAIN obj' = DOMAIN obj /\ DOMAIN sock' = DOMAIN sock
        /\ \A r \in DOMAIN sock : /\ sock'[r].owner = sock[r].owner
                                  /\ sock'[r].state # "closed" => sock[r].state # "closed"
        /\ \A o \in DOMAIN obj : o # sock[s].owner => obj'[o].queue = obj[o].queue
        /\ Live(s)
    BY DEF Tells, Emits, Live
  <1>2. \A o : Mute(o) => Mute(o)' /\ o # sock[s].owner
    BY <1>1 DEF Mute, Live
  <1>3. \A t \in Resumed : t.do \in Opening => KeepsRest(t.who)
    BY <1>1, <1>2, TokenOwner DEF KeepsRest
  <1>. QED BY <1>3, TokensKept

LEMMA OutsideKeepsTokens ==
    ASSUME Serial, TypeInv, ClientInv, TokenInv, LiveInv, Outside
    PROVE  TokenInv'
  <1>1. CASE \E s \in DOMAIN sock : \E e \in {"qr", "open"} : Turns({}, {}) /\ Tells(s, e)
    BY <1>1, TellsKeepsTokens
  <1>2. ASSUME Drops, NEW new, Turns({}, new), Arrives(new)
        PROVE  TokenInv'
    <2>1. \A u \in Resumed : u.do \in Opening => KeepsRest(u.who)
      BY <1>2, DropsKeepRest, TokenOwner
    <2>2. CASE \A u \in new : u.do \notin Opening
      BY <1>2, <2>1, <2>2, TokensKept
    <2>3. CASE /\ Calm /\ reg # 0 /\ obj[reg].state = "close" /\ UNCHANGED <<obj, sock>>
               /\ new = {Task("ReadCreds", reg, "none")}
      <3>1. PICK u : new = {u} /\ u = Task("ReadCreds", reg, "none")
        BY <2>3
      <3>2. u.do \in Opening /\ u.who = reg
        BY <3>1 DEF Task, Opening
      <3>3. Resumed = {} /\ obj[reg].queue = <<>>
        BY <2>3, CalmFacts DEF TypeInv
      <3>4. Mute(reg)
        BY <2>3, <3>3, ClosedIsMute
      <3>5. obj'[u.who].queue = <<>> /\ Mute(u.who)'
        <4>1. obj' = obj /\ sock' = sock
          BY <2>3
        <4>. QED BY <3>2, <3>3, <3>4, <4>1 DEF Mute, Live
      <3>. QED BY <1>2, <3>1, <3>2, <3>3, <3>5, TokenPasses
    <2>4. \/ \A u \in new : u.do \notin Opening
          \/ /\ Calm /\ reg # 0 /\ obj[reg].state = "close" /\ UNCHANGED <<obj, sock>>
             /\ new = {Task("ReadCreds", reg, "none")}
      BY <1>2 DEF Arrives, Task, Opening
    <2>. QED BY <2>2, <2>3, <2>4
  <1>. QED BY <1>1, <1>2, OutsideEffect

LEMMA HandleKeepsTokens ==
    ASSUME TypeInv, QueueInv, TokenInv, NEW o \in DOMAIN obj, HandleEvent(o)
    PROVE  TokenInv'
  <1>1. PICK new : Turns({}, new) /\ Handling(o, new)
    BY HandleEffect
  <1>2. /\ DOMAIN obj' = DOMAIN obj /\ sock' = sock /\ obj[o].queue # <<>>
        /\ \A p \in DOMAIN obj \ {o} : obj'[p] = obj[p]
    BY <1>1 DEF Handling, Busies, Pops
  <1>3. \A p : Mute(p) => Mute(p)'
    BY <1>2 DEF Mute, Live
  <1>4. \A t \in Resumed : t.do \in Opening => t.who # o /\ KeepsRest(t.who)
    <2>1. \A t \in Resumed : t.do \in Opening => t.who \in DOMAIN obj \ {o}
      BY <1>2, TokenOwner DEF TokenInv
    <2>. QED BY <1>2, <1>3, <2>1 DEF KeepsRest
  <1>5. CASE \A u \in new : u.do \notin Opening
    BY <1>1, <1>4, <1>5, TokensKept
  <1>6. CASE /\ Head(obj[o].queue) = "closed" /\ Pops(o, "close")
             /\ new = {Task("Reconnect", o, "close")}
    <2>1. PICK u : new = {u} /\ u = Task("Reconnect", o, "close")
      BY <1>6
    <2>2. u.do \in Opening /\ u.who = o
      BY <2>1 DEF Task, Opening
    <2> DEFINE q == obj[o].queue
    <2>3. q \in Seq(Events) /\ q # <<>>
      BY <1>2 DEF TypeInv, IsObject
    <2>4. /\ Head(q) = q[1] /\ 1 \in DOMAIN q /\ (Len(q) = 1 => Tail(q) = <<>>)
      BY <2>3, TailFacts
    <2>5. Len(q) = 1 /\ Mute(o)
      BY <1>6, <2>4 DEF QueueInv, Ends
    <2>6. obj'[o].queue = <<>> /\ Mute(o)'
      BY <1>3, <1>6, <2>4, <2>5 DEF Pops
    <2>. QED BY <1>1, <1>4, <2>1, <2>2, <2>6, TokenPasses
  <1>7. \/ \A u \in new : u.do \notin Opening
        \/ /\ Head(obj[o].queue) = "closed" /\ Pops(o, "close")
           /\ new = {Task("Reconnect", o, "close")}
    BY <1>1 DEF Handling, Task, Opening
  <1>. QED BY <1>5, <1>6, <1>7

LEMMA OpenKeepsTokens ==
    ASSUME TypeInv, TokenInv, NEW t \in Resumed, OpenSocket(t)
    PROVE  TokenInv'
  <1>1. PICK r : Opens(t.who, r)
    BY OpenEffect
  <1>2. Turns({t}, {}) /\ t.do \in Opening
    BY OpenEffect DEF Opening
  <1>3. /\ DOMAIN sock' = DOMAIN sock \cup {r} /\ sock'[r].owner = t.who
        /\ \A q \in DOMAIN sock \ {r} : sock'[q] = sock[q]
        /\ \A p \in DOMAIN obj \ {t.who} : obj'[p] = obj[p]
    BY <1>1 DEF Opens
  <1>4. \A p : p # t.who /\ Mute(p) => Mute(p)'
    BY <1>3 DEF Mute, Live
  <1>5. ASSUME NEW u \in Resumed', u.do \in Opening
        PROVE  u \in Resumed /\ u.who # t.who /\ u.who \in DOMAIN obj /\ Once(u) /\ Once(u)'
    <2>1. u \in Resumed /\ Once(u) /\ Once(t)
      BY <1>2, <1>5 DEF Turns, TokenInv, Once
    <2>2. u # t
      BY <1>2, <2>1 DEF Turns
    <2>3. u.who # t.who
      BY <1>2, <1>5, <2>1, <2>2 DEF TokenInv
    <2>. QED BY <1>2, <1>5, <2>1, <2>3, TokenOwner DEF Turns
  <1>6. ASSUME NEW u \in Resumed', u.do \in Opening
        PROVE  /\ tasks'[u] = 1 /\ obj'[u.who].queue = <<>> /\ Mute(u.who)'
               /\ \A v \in Resumed' : v.do \in Opening /\ v.who = u.who => v = u
    <2>1. u \in Resumed /\ u.who \in DOMAIN obj \ {t.who} /\ tasks'[u] = 1
      BY <1>5, <1>6 DEF Once
    <2>2. obj'[u.who].queue = <<>> /\ Mute(u.who)'
      BY <1>3, <1>4, <1>6, <2>1 DEF TokenInv
    <2>. QED BY <1>5, <1>6, <2>1, <2>2 DEF TokenInv
  <1>. QED BY <1>6 DEF TokenInv

LEMMA BuildKeepsTokens ==
    ASSUME TypeInv, TokenInv, NEW t \in Resumed, CreateGuard(t), row.id = 0
    PROVE  TokenInv'
  <1>1. PICK o, new : Builds(t, o) /\ Turns({t}, new) /\ new = {Task("CreateSave", o, "none")}
    BY GuardEffect
  <1>2. PICK u : new = {u} /\ u = Task("CreateSave", o, "none")
    BY <1>1
  <1>3. u.do = "CreateSave" /\ u.do \in Opening /\ u.who = o /\ t.do = "CreateGuard"
    BY <1>2, GuardEffect DEF Task, Opening
  <1>4. /\ sock' = sock /\ obj'[o].queue = <<>>
        /\ \A p \in DOMAIN obj \ {o} : obj'[p] = obj[p]
        /\ o \in DOMAIN obj => Mute(o) /\ \A v \in Resumed : v.who # o
    BY <1>1 DEF Builds, Fresh
  <1>5. Mute(o)
    BY <1>4 DEF Mute, TypeInv
  <1>6. \A p : Mute(p) => Mute(p)'
    BY <1>4 DEF Mute, Live
  <1>7. \A v \in Resumed : v.do \in Opening => v.who \in DOMAIN obj \ {o}
    BY <1>4, TokenOwner
  <1>8. \A v \in Resumed : v.do \in Opening => KeepsRest(v.who)
    BY <1>4, <1>6, <1>7 DEF KeepsRest
  <1>. QED BY <1>1, <1>2, <1>3, <1>4, <1>5, <1>6, <1>7, <1>8, TokenPasses

LEMMA BootKeepsTokens ==
    ASSUME TypeInv, TokenInv, Crash \/ Load
    PROVE  TokenInv'
  <1>1. CASE Resumed' = {}
    BY <1>1 DEF TokenInv
  <1>2. CASE Load /\ row.id # 0
    <2>1. PICK new : /\ Turns({}, new)
                     /\ new = {Task("ReadCreds", 1, "register")} \/ new = {}
      BY <1>2, LoadEffect
    <2>2. /\ DOMAIN obj' = {1} /\ obj'[1] = Fresh(row.id) /\ DOMAIN sock' = {} /\ Resumed = {}
      BY <1>2, LoadEffect
    <2>3. \A u, v \in new : u = v
      BY <2>1
    <2>4. ASSUME NEW u \in Resumed'
          PROVE  /\ tasks'[u] = 1 /\ obj'[u.who].queue = <<>> /\ Mute(u.who)'
                 /\ \A v \in Resumed' : v = u
      <3>1. u \in new /\ Resumed' = new
        BY <2>1, <2>2 DEF Turns
      <3>2. u.who = 1
        BY <2>1, <3>1 DEF Task
      <3>3. tasks'[u] = 1
        BY <2>1, <2>2, <3>1 DEF Turns, Once
      <3>. QED BY <2>2, <2>3, <3>1, <3>2, <3>3 DEF Fresh, Mute
    <2>. QED BY <2>4 DEF TokenInv
  <1>3. Resumed' = {} \/ (Load /\ row.id # 0)
    BY CrashEffect, LoadEffect DEF Turns
  <1>. QED BY <1>1, <1>2, <1>3

-----------------------------------------------------------------------------
(* The registered object knows of its socket *)

Seen(s, o) ==
    \/ In("connecting", o) /\ ~ obj[o].ending
    \/ obj[o].state = "connecting"
    \/ obj[o].state = "open" /\ sock[s].creds = "paired"

LEMMA NoOwnerIsZero ==
    ASSUME TypeInv, NEW s \in DOMAIN sock
    PROVE  sock[s].owner # 0
  BY DEF TypeInv, IsList

LEMMA DropsKeepLive ==
    ASSUME TypeInv, LiveInv, Drops, reg' = reg
    PROVE  LiveInv'
  <1>1. /\ DOMAIN sock' = DOMAIN sock /\ DOMAIN obj' = DOMAIN obj
        /\ \A s \in DOMAIN sock : DropsSocket(s)
        /\ \A o \in DOMAIN obj : DropsObject(o)
    BY DEF Drops
  <1>2. ASSUME NEW s \in DOMAIN sock, NEW o, o = reg, Live(s)', sock'[s].owner = o
        PROVE  Seen(s, o)'
    <2>1. /\ sock[s].owner = o /\ Live(s) /\ sock'[s].creds = sock[s].creds
      BY <1>1, <1>2 DEF DropsSocket, Live
    <2>2. o \in DOMAIN obj /\ Seen(s, o)
      BY <1>2, <2>1 DEF LiveInv, Seen, TypeInv
    <2>3. ~ Mute(o)'
      BY <1>1, <1>2 DEF Mute
    <2>4. /\ obj'[o].state = obj[o].state /\ obj'[o].queue = obj[o].queue
          /\ obj'[o].ending = obj[o].ending \/ obj[o].queue = <<>>
      BY <1>1, <1>2, <2>2, <2>3 DEF DropsObject
    <2>. QED BY <2>1, <2>2, <2>4 DEF Seen, In
  <1>3. ASSUME NEW o, o = reg'
        PROVE  \A s \in DOMAIN sock' : Live(s)' /\ sock'[s].owner = o => Seen(s, o)'
    BY <1>1, <1>2, <1>3
  <1>. QED BY <1>3 DEF LiveInv, Seen, In

LEMMA DropKeepsLive ==
    ASSUME TypeInv, ClientInv, TokenInv, LiveInv, NEW t \in Resumed, Drop(t)
    PROVE  LiveInv'
  <1>1. PICK new : Outcome(t, new)
    BY DropOutcome
  <1>2. Drops /\ TypeInv'
    BY DropDrops, DropKeepsType
  <1>3. CASE reg' = reg
    BY <1>2, <1>3, DropsKeepLive
  <1>4. CASE t.do = "CreateSave" /\ reg' = t.who
    <2>1. Mute(t.who) /\ obj[t.who].queue = <<>> /\ t.who \in DOMAIN obj
      BY <1>4, TokenOwner DEF TokenInv, Opening
    <2>2. Mute(t.who)'
      BY <1>2, <2>1, DropsKeepRest DEF KeepsRest
    <2>. QED BY <1>4, <2>2 DEF Mute, LiveInv
  <1>5. CASE reg' = 0
    <2>1. \A s \in DOMAIN sock' : sock'[s].owner # 0
      BY <1>2 DEF TypeInv, IsList
    <2>. QED BY <1>5, <2>1 DEF LiveInv
  <1>6. reg' = reg \/ (t.do = "CreateSave" /\ reg' = t.who) \/ reg' = 0
    BY <1>1 DEF Outcome, SameReg
  <1>. QED BY <1>3, <1>4, <1>5, <1>6

LEMMA TellsKeepsLive ==
    ASSUME TypeInv, LiveInv, reg' = reg, NEW s \in DOMAIN sock, NEW e, Tells(s, e)
    PROVE  LiveInv'
  <1>1. Emits(s, e)
    BY DEF Tells
  <1>2. ASSUME NEW r \in DOMAIN sock', NEW o, o = reg, Live(r)', sock'[r].owner = o
        PROVE  Seen(r, o)'
    <2>1. /\ r \in DOMAIN sock /\ sock[r].owner = o /\ sock'[r].creds = sock[r].creds /\ Live(r)
      BY <1>1, <1>2 DEF Emits, Live
    <2>2. o \in DOMAIN obj /\ Seen(r, o)
      BY <1>2, <2>1 DEF LiveInv, Seen, TypeInv
    <2>3. /\ obj'[o].state = obj[o].state /\ obj'[o].ending = obj[o].ending
          /\ obj'[o].queue = Append(obj[o].queue, e) \/ obj'[o].queue = obj[o].queue
          /\ obj[o].queue \in Seq(Events)
      BY <1>1, <2>2 DEF Emits, TypeInv, IsObject
    <2>4. In("connecting", o) => In("connecting", o)'
      <3>1. \A i \in DOMAIN obj[o].queue :
                i \in DOMAIN obj'[o].queue /\ obj'[o].queue[i] = obj[o].queue[i]
        BY <2>3
      <3>. QED BY <3>1 DEF In
    <2>. QED BY <2>1, <2>2, <2>3, <2>4 DEF Seen
  <1>3. ASSUME NEW o, o = reg'
        PROVE  \A r \in DOMAIN sock' : Live(r)' /\ sock'[r].owner = o => Seen(r, o)'
    BY <1>2, <1>3
  <1>. QED BY <1>3 DEF LiveInv, Seen, In

LEMMA OutsideKeepsLive ==
    ASSUME Serial, TypeInv, ClientInv, LiveInv, Outside
    PROVE  LiveInv'
  BY OutsideEffect, DropsKeepLive, TellsKeepsLive DEF Steady, SameReg

LEMMA HandlingKeepsSeen ==
    ASSUME TypeInv, ClientInv, QueueInv, NEW o \in DOMAIN obj, NEW new, Handling(o, new),
           NEW s \in DOMAIN sock, sock[s].owner = o, Live(s), Seen(s, o)
    PROVE  Seen(s, o)'
  <1> DEFINE q == obj[o].queue
  <1>1. sock' = sock /\ q # <<>> /\ q \in Seq(Events)
    BY DEF Handling, Busies, Pops, TypeInv, IsObject
  <1>2. ~ Mute(o) /\ obj[o].client = s
    BY DEF Mute, ClientInv
  <1>3. CASE Busies(o)
    <2>1. /\ obj'[o].state = obj[o].state /\ obj'[o].ending = obj[o].ending
          /\ obj'[o].queue = obj[o].queue
      BY <1>3 DEF Busies, TypeInv, IsObject, ObjectFields
    <2>. QED BY <1>1, <2>1 DEF Seen, In
  <1>4. CASE obj[o].ending /\ Pops(o, obj[o].state)
    BY <1>1, <1>4 DEF Seen, Pops
  <1>5. CASE Head(q) \in {"qr", "creds"} /\ Pops(o, obj[o].state)
    <2>1. Head(q) = q[1] /\ Head(q) # "connecting" /\ DOMAIN q = 1 .. Len(q) /\ Len(q) \in Nat
      BY <1>1, <1>5, TailFacts
    <2>2. ASSUME NEW i \in DOMAIN q, q[i] = "connecting"
          PROVE  (i - 1) \in DOMAIN Tail(q) /\ Tail(q)[i - 1] = "connecting"
      <3>1. i \in Nat /\ i # 1 /\ i <= Len(q) /\ i >= 1
        BY <2>1, <2>2
      <3>2. (i - 1) \in 1 .. (Len(q) - 1) /\ (i - 1) + 1 = i
        BY <2>1, <3>1
      <3>3. DOMAIN Tail(q) = 1 .. (Len(q) - 1) /\ \A j \in 1 .. (Len(q) - 1) : Tail(q)[j] = q[j + 1]
        BY <1>1, TailFacts
      <3>. QED BY <2>2, <3>2, <3>3
    <2>3. obj'[o].queue = Tail(q)
      BY <1>5 DEF Pops
    <2>4. In("connecting", o) => In("connecting", o)'
      BY <2>2, <2>3 DEF In
    <2>. QED BY <1>1, <1>5, <2>4 DEF Seen, Pops
  <1>6. CASE Pops(o, "connecting")
    BY <1>6 DEF Seen, Pops
  <1>7. CASE Head(q) = "open" /\ Pops(o, "open")
    <2>1. 1 \in DOMAIN q /\ q[1] = "open"
      BY <1>1, <1>7, TailFacts
    <2>2. sock[obj[o].client].creds = "paired"
      BY <2>1 DEF QueueInv
    <2>. QED BY <1>1, <1>2, <1>7, <2>2 DEF Seen, Pops
  <1>8. CASE Head(q) \in Ends
    <2>1. 1 \in DOMAIN q /\ q[1] \in Ends
      BY <1>1, <1>8, TailFacts
    <2>. QED BY <1>2, <2>1 DEF QueueInv
  <1>. QED BY <1>3, <1>4, <1>5, <1>6, <1>7, <1>8 DEF Handling

LEMMA HandleKeepsLive ==
    ASSUME TypeInv, ClientInv, QueueInv, LiveInv, NEW o \in DOMAIN obj, HandleEvent(o)
    PROVE  LiveInv'
  <1>1. PICK new : Handling(o, new)
    BY HandleEffect
  <1>2. /\ reg' = reg /\ sock' = sock /\ \A p \in DOMAIN obj \ {o} : obj'[p] = obj[p]
    BY <1>1, HandleEffect DEF Handling, Busies, Pops, SameReg
  <1>3. ASSUME NEW s \in DOMAIN sock, NEW p, p = reg, Live(s), sock[s].owner = p
        PROVE  Seen(s, p)'
    <2>1. p \in DOMAIN obj /\ Seen(s, p)
      BY <1>3 DEF LiveInv, Seen, TypeInv
    <2>2. CASE p = o
      BY <1>1, <1>3, <2>1, <2>2, HandlingKeepsSeen
    <2>3. CASE p # o
      BY <1>2, <2>1, <2>3 DEF Seen, In
    <2>. QED BY <2>2, <2>3
  <1>4. ASSUME NEW p, p = reg'
        PROVE  \A s \in DOMAIN sock' : Live(s)' /\ sock'[s].owner = p => Seen(s, p)'
    BY <1>2, <1>3, <1>4 DEF Live
  <1>. QED BY <1>4 DEF LiveInv, Seen, In

LEMMA OpenKeepsLive ==
    ASSUME TypeInv, TokenInv, LiveInv, NEW t \in Resumed, OpenSocket(t)
    PROVE  LiveInv'
  <1> DEFINE o == t.who
  <1>1. PICK r : Opens(o, r)
    BY OpenEffect
  <1>2. o \in DOMAIN obj /\ (reg' = o \/ reg' = reg) /\ t.do \in Opening
    BY OpenEffect DEF Opening
  <1>3. Mute(o) /\ obj[o].queue \in Seq(Events)
    BY <1>2 DEF TokenInv, TypeInv, IsObject
  <1> HIDE DEF o
  <1>4. /\ DOMAIN sock' = DOMAIN sock \cup {r} /\ sock'[r].owner = o
        /\ \A q \in DOMAIN sock \ {r} : sock'[q] = sock[q]
        /\ \A p \in DOMAIN obj \ {o} : obj'[p] = obj[p]
        /\ obj'[o].ending = FALSE /\ obj'[o].queue = Append(obj[o].queue, "connecting")
    BY <1>1 DEF Opens
  <1>5. In("connecting", o)'
    <2>1. /\ Len(obj[o].queue) + 1 \in DOMAIN obj'[o].queue
          /\ obj'[o].queue[Len(obj[o].queue) + 1] = "connecting"
      BY <1>3, <1>4
    <2>. QED BY <2>1 DEF In
  <1>6. ASSUME NEW p, p = reg', NEW s \in DOMAIN sock', Live(s)', sock'[s].owner = p
        PROVE  Seen(s, p)'
    <2>1. CASE p = o
      BY <1>4, <1>5, <2>1 DEF Seen
    <2>2. CASE p # o
      <3>1. s \in DOMAIN sock \ {r} /\ p = reg
        BY <1>2, <1>4, <1>6, <2>2
      <3>2. sock'[s] = sock[s] /\ p \in DOMAIN obj \ {o}
        BY <1>4, <1>6, <2>2, <3>1 DEF TypeInv
      <3>3. Seen(s, p)
        BY <1>6, <3>1, <3>2 DEF LiveInv, Seen, Live
      <3>. QED BY <1>4, <3>2, <3>3 DEF Seen, In
    <2>. QED BY <2>1, <2>2
  <1>7. ASSUME NEW p, p = reg'
        PROVE  \A s \in DOMAIN sock' : Live(s)' /\ sock'[s].owner = p => Seen(s, p)'
    BY <1>6, <1>7
  <1>. QED BY <1>7 DEF LiveInv, Seen, In

LEMMA BuildKeepsLive ==
    ASSUME TypeInv, NEW t \in Resumed, CreateGuard(t), row.id = 0
    PROVE  LiveInv'
  <1>1. reg' = 0 /\ sock' = sock
    BY GuardEffect DEF Builds
  <1>. QED BY <1>1, NoOwnerIsZero DEF LiveInv

LEMMA BootKeepsLive ==
    ASSUME TypeInv, Crash \/ Load
    PROVE  LiveInv'
  <1>1. DOMAIN sock' = {}
    BY CrashEffect, LoadEffect
  <1>. QED BY <1>1 DEF LiveInv

-----------------------------------------------------------------------------
(* What is not registered has no connection *)

\* LeftTask(t) with the object o registered.
LeftTaskOf(t, o) ==
    /\ t.do \in Opening => t.who = o \/ Loading(t) \/ t.do = "CreateSave"
    /\ t.do = "Remove" /\ o # 0 => Mute(o) /\ NoToken(o) /\ Asleep(o)
    /\ t.do \in {"Logout", "RemoveCreds"} =>
          t.who = o /\ obj[o].ending /\ ~ obj[o].busy /\ NoToken(o)
    /\ t.do = "RemoveCreds" => Mute(o)
    /\ t.do # "ExpireLogout"

LEMMA LeftKept ==
    ASSUME count'.expired = 0 =>
              \A p : p = reg' =>
                  /\ \A s \in DOMAIN sock' : Live(s)' => sock'[s].owner = p
                  /\ \A o \in DOMAIN obj' : o # p => Asleep(o)'
                  /\ \A t \in Resumed' : LeftTaskOf(t, p)'
    PROVE  LeftInv'
  BY DEF LeftInv, LeftTask, LeftTaskOf, Mute, NoToken, Asleep

LEMMA LeftFacts ==
    ASSUME LeftInv, count.expired = 0, NEW p, p = reg
    PROVE  /\ \A s \in DOMAIN sock : Live(s) => sock[s].owner = p
           /\ \A o \in DOMAIN obj : o # p => Asleep(o)
           /\ \A t \in Resumed : LeftTaskOf(t, p)
  BY DEF LeftInv, LeftTask, LeftTaskOf, Mute, NoToken, Asleep

\* An object without a socket stays without one, and asleep.
LEMMA DropsKeepAsleep ==
    ASSUME Drops, NEW o \in DOMAIN obj, Mute(o)
    PROVE  Mute(o)' /\ (Asleep(o) => Asleep(o)')
  <1>1. /\ DOMAIN sock' = DOMAIN sock
        /\ \A s \in DOMAIN sock : /\ sock'[s].owner = sock[s].owner
                                  /\ sock'[s].state # "closed" => sock[s].state # "closed"
    BY DEF Drops, DropsSocket
  <1>2. Mute(o)'
    BY <1>1 DEF Mute, Live
  <1>. QED BY <1>2 DEF Drops, DropsObject, Asleep

LEMMA DropsKeepLeft ==
    ASSUME TypeInv, Drops, NEW p, \A s \in DOMAIN sock : Live(s) => sock[s].owner = p,
           \A o \in DOMAIN obj : o # p => Asleep(o)
    PROVE  /\ \A s \in DOMAIN sock' : Live(s)' => sock'[s].owner = p
           /\ \A o \in DOMAIN obj' : o # p => Asleep(o)'
  <1>1. /\ DOMAIN sock' = DOMAIN sock /\ DOMAIN obj' = DOMAIN obj
        /\ \A s \in DOMAIN sock : /\ sock'[s].owner = sock[s].owner
                                  /\ Live(s)' => Live(s)
    BY DEF Drops, DropsSocket, Live
  <1>2. \A o \in DOMAIN obj : o # p => Mute(o)
    BY DEF Mute
  <1>3. \A o \in DOMAIN obj : o # p => Asleep(o)'
    BY <1>2, DropsKeepAsleep
  <1>. QED BY <1>1, <1>3

LEMMA LeftTaskStays ==
    ASSUME TypeInv, Drops, NEW p, p = 0 \/ p \in DOMAIN obj, NEW t \in Resumed, LeftTaskOf(t, p),
           t.do \in {"Remove", "Logout", "RemoveCreds"} /\ p # 0 /\ NoToken(p) => NoToken(p)'
    PROVE  LeftTaskOf(t, p)'
  <1>1. CASE t.do \notin {"Remove", "Logout", "RemoveCreds"}
    BY <1>1 DEF LeftTaskOf
  <1>2. CASE t.do = "Remove"
    BY <1>2, DropsKeepAsleep DEF LeftTaskOf, Opening
  <1>3. CASE t.do \in {"Logout", "RemoveCreds"}
    <2>1. t.who = p /\ p \in DOMAIN obj /\ p # 0
      BY <1>3 DEF LeftTaskOf, TypeInv, IsTask, OfObject, IsList
    <2>2. obj'[p].ending = TRUE /\ ~ obj'[p].busy
      BY <1>3, <2>1 DEF LeftTaskOf, Drops, DropsObject, IsObject
    <2>3. t.do = "RemoveCreds" => Mute(p)'
      BY <1>3, <2>1, DropsKeepAsleep DEF LeftTaskOf
    <2>. QED BY <1>3, <2>1, <2>2, <2>3 DEF LeftTaskOf, Opening
  <1>. QED BY <1>1, <1>2, <1>3

LEMMA OutcomeLeft ==
    ASSUME NEW t, NEW new, Outcome(t, new), NEW u \in new
    PROVE  /\ u.do # "Logout" /\ u.do # "ExpireLogout"
           /\ u.do = "Remove" =>
                 /\ \A v \in new : v.do \notin Opening
                 /\ \/ t.do \in {"CreateConfigure", "RemoveCreds", "ExpireLogout"}
                    \/ t.do = "ReadCreds" /\ t.arg = "create"
           /\ u.do = "RemoveCreds" =>
                 /\ t.do = "Logout" /\ u.who = t.who /\ \A v \in new : v.do \notin Opening
                 /\ \A s \in DOMAIN sock : sock[s].owner = t.who => sock'[s].state = "closed"
           /\ u.do \in Opening /\ Loading(t) => Loading(u)
           /\ u.do \in Opening /\ t.do = "CreateSave" => u.do = "CreateConfigure"
  <1>1. u.do # "Logout" /\ u.do # "ExpireLogout"
    BY DEF Outcome, Task
  <1>2. ASSUME u.do = "Remove"
        PROVE  /\ \A v \in new : v.do \notin Opening
               /\ \/ t.do \in {"CreateConfigure", "RemoveCreds", "ExpireLogout"}
                  \/ t.do = "ReadCreds" /\ t.arg = "create"
    BY <1>2 DEF Outcome, Task, Opening
  <1>3. ASSUME u.do = "RemoveCreds"
        PROVE  /\ t.do = "Logout" /\ u.who = t.who /\ \A v \in new : v.do \notin Opening
               /\ \A s \in DOMAIN sock : sock[s].owner = t.who => sock'[s].state = "closed"
    BY <1>3 DEF Outcome, Task, Opening
  <1>4. ASSUME u.do \in Opening
        PROVE  /\ Loading(t) => Loading(u)
               /\ t.do = "CreateSave" => u.do = "CreateConfigure"
    BY <1>4 DEF Outcome, Task, Opening, Loading
  <1>. QED BY <1>1, <1>2, <1>3, <1>4

\* The registration stays.
LEMMA StayingDropLeaves ==
    ASSUME TypeInv, ClientInv, ManageInv, TokenInv, NEW t \in Resumed, Drop(t),
           NEW p, p = 0 \/ p \in DOMAIN obj, p = reg, reg' = reg, \A u \in Resumed : LeftTaskOf(u, p),
           NEW u \in Resumed'
    PROVE  LeftTaskOf(u, p)'
  <1>1. PICK new : Turns({t}, new) /\ Outcome(t, new)
    BY DropOutcome
  <1>2. Drops
    BY DropDrops
  <1>3. Resumed' \subseteq Resumed \cup new
    BY <1>1 DEF Turns
  <1>4. NoToken(p) => NoToken(p)'
    BY <1>1, <1>3, OutcomeFacts DEF NoToken
  <1>5. CASE u \in Resumed
    BY <1>2, <1>4, <1>5, LeftTaskStays
  <1>6. ASSUME t.who = p, t.do \in Opening, \A v \in new : v.do \notin Opening
        PROVE  p # 0 => Mute(p)' /\ NoToken(p)' /\ Asleep(p)'
    <2>1. Mute(p) /\ Asleep(p) /\ Once(t) /\ \A v \in Resumed : v.do \in Opening /\ v.who = p => v = t
      BY <1>6 DEF TokenInv, Asleep, Once
    <2>2. t \notin Resumed'
      BY <1>1, <2>1, OutcomeFacts DEF Turns
    <2>3. NoToken(p)'
      BY <1>3, <1>6, <2>1, <2>2 DEF NoToken
    <2>. QED BY <1>2, <2>1, <2>3, DropsKeepAsleep
  <1>7. CASE u \in new /\ u.do = "Remove"
    <2>1. \A v \in new : v.do \notin Opening
      BY <1>1, <1>7, OutcomeLeft
    <2>2. CASE t.do = "CreateConfigure" \/ (t.do = "ReadCreds" /\ t.arg = "create")
      <3>1. t.do \in Opening /\ t.who = p
        BY <2>2 DEF LeftTaskOf, Opening, Loading, ManageInv
      <3>. QED BY <1>6, <1>7, <2>1, <3>1 DEF LeftTaskOf, Opening
    <2>3. CASE t.do = "RemoveCreds"
      <3>1. Mute(p) /\ Asleep(p) /\ NoToken(p)
        BY <2>3 DEF LeftTaskOf, Asleep
      <3>2. p # 0 => Mute(p)' /\ Asleep(p)' /\ NoToken(p)'
        BY <1>2, <1>4, <3>1, DropsKeepAsleep
      <3>. QED BY <1>7, <3>2 DEF LeftTaskOf, Opening
    <2>4. t.do # "ExpireLogout"
      BY DEF LeftTaskOf
    <2>. QED BY <1>1, <1>7, <2>2, <2>3, <2>4, OutcomeLeft
  <1>8. CASE u \in new /\ u.do = "RemoveCreds"
    <2>1. t.do = "Logout" /\ u.who = t.who
      BY <1>1, <1>8, OutcomeLeft
    <2>2. LeftTaskOf(t, p)'
      BY <1>2, <1>4, LeftTaskStays
    <2>3. Mute(p)'
      <3>1. \A s \in DOMAIN sock : sock[s].owner = p => sock'[s].state = "closed"
        BY <1>1, <1>8, <2>1, OutcomeLeft DEF LeftTaskOf
      <3>2. DOMAIN sock' = DOMAIN sock /\ \A s \in DOMAIN sock : sock'[s].owner = sock[s].owner
        BY <1>2 DEF Drops, DropsSocket
      <3>. QED BY <3>1, <3>2 DEF Mute, Live
    <2>. QED BY <1>8, <2>1, <2>2, <2>3 DEF LeftTaskOf, Opening
  <1>9. CASE u \in new /\ u.do \in Opening
    <2>1. t.do \in Opening /\ u.who = t.who /\ (Loading(t) => Loading(u))
          /\ (t.do = "CreateSave" => u.do = "CreateConfigure")
      BY <1>1, <1>9, OutcomeFacts, OutcomeLeft
    <2>2. t.do # "CreateSave"
      <3>1. t.do = "CreateSave" => reg' = t.who /\ reg = 0 /\ t.who # 0
        BY <1>1, TokenOwner DEF Outcome, ManageInv, TypeInv, IsList, Opening
      <3>. QED BY <3>1
    <2>3. u.who = p \/ Loading(u)
      BY <2>1, <2>2 DEF LeftTaskOf
    <2>. QED BY <1>9, <2>3 DEF LeftTaskOf, Opening
  <1>10. CASE u \in new /\ u.do \notin {"Remove", "RemoveCreds"} \cup Opening
    BY <1>1, <1>10, OutcomeLeft DEF LeftTaskOf
  <1>. QED BY <1>3, <1>5, <1>7, <1>8, <1>9, <1>10

LEMMA DropKeepsLeft ==
    ASSUME TypeInv, ClientInv, ManageInv, TokenInv, LeftInv, NEW t \in Resumed, Drop(t)
    PROVE  LeftInv'
  <1>1. PICK new : Turns({t}, new) /\ Outcome(t, new)
    BY DropOutcome
  <1>2. Drops
    BY DropDrops
  <1>3. SUFFICES ASSUME count.expired = 0, NEW q, q = reg'
                 PROVE  /\ \A s \in DOMAIN sock' : Live(s)' => sock'[s].owner = q
                        /\ \A o \in DOMAIN obj' : o # q => Asleep(o)'
                        /\ \A u \in Resumed' : LeftTaskOf(u, q)'
    BY DropCounts, LeftKept
  <1>4. PICK p : p = reg
    OBVIOUS
  <1>5. /\ p = 0 \/ p \in DOMAIN obj
        /\ \A s \in DOMAIN sock : Live(s) => sock[s].owner = p
        /\ \A o \in DOMAIN obj : o # p => Asleep(o)
        /\ \A u \in Resumed : LeftTaskOf(u, p)
    BY <1>3, <1>4, LeftFacts DEF TypeInv
  <1>6. CASE q = p
    BY <1>2, <1>3, <1>4, <1>5, <1>6, DropsKeepLeft, StayingDropLeaves
  <1>7. CASE t.do = "CreateSave" /\ new = {Task("CreateConfigure", t.who, "none")} /\ q = t.who
    <2>1. p = 0 /\ t.who \in DOMAIN obj /\ t.do \in Opening /\ Managing(t) /\ ~ Loading(t)
      BY <1>4, <1>7, TokenOwner DEF ManageInv, Opening, Managing, Manages, Loading
    <2>2. \A s \in DOMAIN sock : ~ Live(s)
      BY <1>5, <2>1, NoOwnerIsZero
    <2>3. \A o \in DOMAIN obj : Asleep(o)
      BY <1>5, <2>1 DEF TypeInv, IsList
    <2>4. ASSUME NEW u \in Resumed'
          PROVE  LeftTaskOf(u, q)'
      <3>1. CASE u \in new
        <4>1. u.do = "CreateConfigure" /\ u.who = t.who
          BY <1>7, <3>1 DEF Task
        <4>. QED BY <1>7, <4>1 DEF LeftTaskOf
      <3>2. CASE u \in Resumed /\ u = t
        BY <1>7, <3>2 DEF LeftTaskOf
      <3>3. CASE u \in Resumed /\ u # t
        <4>1. ~ Managing(u) /\ ~ Loading(u)
          BY <2>1, <3>3, LoadsAlone DEF ManageInv
        <4>2. u.do \notin {"Remove", "Logout", "RemoveCreds", "ExpireLogout", "CreateSave"}
          BY <4>1 DEF Managing, Manages
        <4>3. u.do \in Opening => u.who \in DOMAIN obj
          BY <3>3, TokenOwner
        <4>4. u.do \notin Opening
          BY <1>5, <2>1, <3>3, <4>1, <4>2, <4>3 DEF LeftTaskOf, TypeInv, IsList
        <4>. QED BY <4>2, <4>4 DEF LeftTaskOf
      <3>. QED BY <1>1, <3>1, <3>2, <3>3 DEF Turns
    <2>. QED BY <1>2, <2>2, <2>3, <2>4, DropsKeepLeft
  <1>8. CASE t.do = "Remove" /\ q = 0
            /\ new = {Task("CleanUpFind", 0, "none"), Task("CleanStoreFind", 0, "none")}
    <2>1. Managing(t) /\ LeftTaskOf(t, p)
      BY <1>5, <1>8 DEF Managing, Manages
    <2>2. \A s \in DOMAIN sock : ~ Live(s)
      BY <1>5, <1>8, <2>1, NoOwnerIsZero DEF LeftTaskOf, Mute
    <2>3. \A o \in DOMAIN obj : Asleep(o)
      BY <1>5, <1>8, <2>1 DEF TypeInv, IsList, LeftTaskOf
    <2>4. ASSUME NEW u \in Resumed'
          PROVE  LeftTaskOf(u, q)'
      <3>1. CASE u \in new
        <4>1. u.do \in {"CleanUpFind", "CleanStoreFind"}
          BY <1>8, <3>1 DEF Task
        <4>. QED BY <4>1 DEF LeftTaskOf, Opening
      <3>2. CASE u \in Resumed /\ u.do = "Remove"
        BY <1>8, <3>2 DEF LeftTaskOf, Opening
      <3>3. CASE u \in Resumed /\ u.do # "Remove"
        <4>1. u.do \notin {"Logout", "RemoveCreds", "ExpireLogout"}
          BY <1>8, <2>1, <3>3 DEF ManageInv, Managing, Manages
        <4>2. u.do \in Opening => Loading(u) \/ u.do = "CreateSave"
          <5>1. u.do \in Opening => u.who \in DOMAIN obj /\ u.who # 0
            BY <3>3, TokenOwner DEF TypeInv, IsList
          <5>. QED BY <1>5, <1>8, <2>1, <3>3, <5>1 DEF LeftTaskOf, NoToken
        <4>. QED BY <1>8, <3>3, <4>1, <4>2 DEF LeftTaskOf, Opening
      <3>. QED BY <1>1, <3>1, <3>2, <3>3 DEF Turns
    <2>. QED BY <1>2, <2>2, <2>3, <2>4, DropsKeepLeft
  <1>9. \/ q = p
        \/ t.do = "CreateSave" /\ new = {Task("CreateConfigure", t.who, "none")} /\ q = t.who
        \/ t.do = "Remove" /\ q = 0
           /\ new = {Task("CleanUpFind", 0, "none"), Task("CleanStoreFind", 0, "none")}
    BY <1>1, <1>3, <1>4 DEF Outcome, SameReg
  <1>. QED BY <1>6, <1>7, <1>8, <1>9

LEMMA TellsKeepsLeft ==
    ASSUME TypeInv, LeftInv, Steady, NEW s \in DOMAIN sock, NEW e, Tells(s, e), Turns({}, {})
    PROVE  LeftInv'
  <1>1. Emits(s, e) /\ reg' = reg /\ Resumed' = Resumed
    BY DEF Tells, Steady, SameReg, Turns
  <1>2. SUFFICES ASSUME count.expired = 0, NEW p, p = reg
                 PROVE  /\ \A r \in DOMAIN sock' : Live(r)' => sock'[r].owner = p
                        /\ \A o \in DOMAIN obj' : o # p => Asleep(o)'
                        /\ \A t \in Resumed' : LeftTaskOf(t, p)'
    BY <1>1, LeftKept DEF Steady
  <1>3. /\ p = 0 \/ p \in DOMAIN obj
        /\ \A r \in DOMAIN sock : Live(r) => sock[r].owner = p
        /\ \A o \in DOMAIN obj : o # p => Asleep(o)
        /\ \A t \in Resumed : LeftTaskOf(t, p)
    BY <1>2, LeftFacts DEF TypeInv
  <1>4. /\ DOMAIN sock' = DOMAIN sock /\ DOMAIN obj' = DOMAIN obj /\ sock[s].owner = p /\ Live(s)
        /\ \A r \in DOMAIN sock : sock'[r].owner = sock[r].owner /\ (Live(r)' => Live(r))
        /\ \A o \in DOMAIN obj :
              /\ obj'[o].ending = obj[o].ending /\ obj'[o].busy = obj[o].busy
              /\ o # sock[s].owner => obj'[o].queue = obj[o].queue
    BY <1>1, <1>3 DEF Emits, Live
  <1>5. p # 0 /\ p \in DOMAIN obj /\ ~ Mute(p)
    BY <1>3, <1>4, NoOwnerIsZero DEF Mute
  <1>6. \A r \in DOMAIN sock' : Live(r)' => sock'[r].owner = p
    BY <1>3, <1>4
  <1>7. \A o \in DOMAIN obj' : o # p => Asleep(o)'
    BY <1>3, <1>4 DEF Asleep
  <1>8. NoToken(p) => NoToken(p)'
    BY <1>1 DEF NoToken
  <1>9. \A t \in Resumed' : LeftTaskOf(t, p)'
    BY <1>1, <1>3, <1>4, <1>5, <1>8 DEF LeftTaskOf
  <1>. QED BY <1>6, <1>7, <1>9

LEMMA OutsideKeepsLeft ==
    ASSUME Serial, TypeInv, ClientInv, LiveInv, LeftInv, Outside
    PROVE  LeftInv'
  <1>1. CASE Turns({}, {}) /\ \E s \in DOMAIN sock : \E e \in {"qr", "open"} : Tells(s, e)
    BY <1>1, OutsideEffect, TellsKeepsLeft
  <1>2. ASSUME Drops, NEW new, Turns({}, new), Arrives(new)
        PROVE  LeftInv'
    <2>1. /\ reg' = reg /\ Resumed' = Resumed \cup new
          /\ count'.expired = 0 => count.expired = 0
      BY <1>2, OutsideEffect DEF Steady, SameReg, Turns
    <2>2. SUFFICES ASSUME count'.expired = 0, count.expired = 0, NEW p, p = reg
                   PROVE  /\ \A r \in DOMAIN sock' : Live(r)' => sock'[r].owner = p
                          /\ \A o \in DOMAIN obj' : o # p => Asleep(o)'
                          /\ \A t \in Resumed' : LeftTaskOf(t, p)'
      BY <2>1, LeftKept
    <2>3. /\ p = 0 \/ p \in DOMAIN obj
          /\ \A r \in DOMAIN sock : Live(r) => sock[r].owner = p
          /\ \A o \in DOMAIN obj : o # p => Asleep(o)
          /\ \A t \in Resumed : LeftTaskOf(t, p)
      BY <2>2, LeftFacts DEF TypeInv
    <2>4. CASE new = {}
      <3>1. Resumed' = Resumed
        BY <2>1, <2>4
      <3>2. NoToken(p) => NoToken(p)'
        BY <3>1 DEF NoToken
      <3>3. \A t \in Resumed' : LeftTaskOf(t, p)'
        BY <1>2, <2>3, <3>1, <3>2, LeftTaskStays
      <3>. QED BY <1>2, <2>3, <3>3, DropsKeepLeft
    <2>5. ASSUME Calm, NEW u, new = {u}, LeftTaskOf(u, p)'
          PROVE  \A t \in Resumed' : LeftTaskOf(t, p)'
      BY <2>1, <2>5, CalmFacts
    <2>6. CASE Calm /\ new # {}
      <3>1. Resumed = {} /\ Resumed' = new /\ \A o \in DOMAIN obj : obj[o].queue = <<>> /\ ~ obj[o].busy
        BY <2>1, <2>6, CalmFacts
      <3>2. ASSUME NEW id, new = {Task("CreateGuard", id, "none")}
            PROVE  \A t \in Resumed' : LeftTaskOf(t, p)'
        <4>1. PICK u : new = {u} /\ u = Task("CreateGuard", id, "none")
          BY <3>2
        <4>2. u.do = "CreateGuard"
          BY <4>1 DEF Task
        <4>. QED BY <2>5, <2>6, <4>1, <4>2 DEF LeftTaskOf, Opening
      <3>3. ASSUME new = {Task("ReadCreds", reg, "none")}
            PROVE  \A t \in Resumed' : LeftTaskOf(t, p)'
        <4>1. PICK u : new = {u} /\ u = Task("ReadCreds", reg, "none")
          BY <3>3
        <4>2. u.do = "ReadCreds" /\ u.who = p
          BY <2>2, <4>1 DEF Task
        <4>3. LeftTaskOf(u, p)'
          BY <4>2 DEF LeftTaskOf
        <4>. QED BY <2>5, <2>6, <4>1, <4>3
      <3>4. ASSUME NEW then, new = {Task("Logout", reg, then)}, reg # 0, obj'[reg].ending
            PROVE  \A t \in Resumed' : LeftTaskOf(t, p)'
        <4>1. PICK u : new = {u} /\ u = Task("Logout", reg, then)
          BY <3>4
        <4>2. u.do = "Logout" /\ u.who = p
          BY <2>2, <4>1 DEF Task
        <4>3. p \in DOMAIN obj /\ ~ obj'[p].busy
          BY <1>2, <2>2, <2>3, <3>1, <3>4 DEF Drops, DropsObject
        <4>4. obj'[p].ending
          BY <2>2, <3>4
        <4>5. NoToken(p)'
          BY <3>1, <4>1, <4>2 DEF NoToken, Opening
        <4>. QED BY <2>5, <2>6, <4>1, <4>2, <4>3, <4>4, <4>5 DEF LeftTaskOf, Opening
      <3>5. ASSUME new = {Task("Remove", 0, "none")}, reg # 0 => obj[reg].state = "close",
                   UNCHANGED <<obj, sock>>
            PROVE  \A t \in Resumed' : LeftTaskOf(t, p)'
        <4>1. PICK u : new = {u} /\ u = Task("Remove", 0, "none")
          BY <3>5
        <4>2. u.do = "Remove"
          BY <4>1 DEF Task
        <4>3. p # 0 => Mute(p) /\ Asleep(p)
          BY <2>2, <2>3, <3>1, <3>5, ClosedIsMute DEF Asleep
        <4>4. obj' = obj /\ sock' = sock
          BY <3>5
        <4>5. p # 0 => Mute(p)' /\ Asleep(p)'
          BY <4>3, <4>4 DEF Mute, Live, Asleep
        <4>6. NoToken(p)'
          BY <3>1, <4>1, <4>2 DEF NoToken, Opening
        <4>7. LeftTaskOf(u, p)'
          BY <4>2, <4>5, <4>6 DEF LeftTaskOf, Opening
        <4>. QED BY <2>5, <2>6, <4>1, <4>7
      <3>6. \A t \in Resumed' : LeftTaskOf(t, p)'
        BY <1>2, <2>2, <2>6, <3>2, <3>3, <3>4, <3>5 DEF Arrives
      <3>. QED BY <1>2, <2>3, <3>6, DropsKeepLeft
    <2>7. new = {} \/ Calm
      BY <1>2 DEF Arrives
    <2>. QED BY <2>4, <2>6, <2>7
  <1>. QED BY <1>1, <1>2, OutsideEffect

\* An object that sleeps only drops events.
LEMMA SleepsOn ==
    ASSUME TypeInv, NEW o \in DOMAIN obj, NEW new, Handling(o, new), Asleep(o)
    PROVE  /\ new = {} /\ obj'[o].ending = obj[o].ending /\ obj'[o].busy = FALSE /\ obj[o].ending
  BY DEF Handling, Busies, Pops, Asleep

LEMMA HandleKeepsLeft ==
    ASSUME TypeInv, QueueInv, LeftInv, NEW o \in DOMAIN obj, HandleEvent(o)
    PROVE  LeftInv'
  <1>1. PICK new : Turns({}, new) /\ Handling(o, new)
    BY HandleEffect
  <1>2. /\ reg' = reg /\ sock' = sock /\ DOMAIN obj' = DOMAIN obj /\ count'.expired = count.expired
        /\ \A q \in DOMAIN obj \ {o} : obj'[q] = obj[q]
        /\ Resumed' = Resumed \cup new
    BY <1>1, HandleEffect DEF Handling, Busies, Pops, SameReg, SameCount, Turns
  <1>3. SUFFICES ASSUME count.expired = 0, NEW p, p = reg
                 PROVE  /\ \A r \in DOMAIN sock' : Live(r)' => sock'[r].owner = p
                        /\ \A q \in DOMAIN obj' : q # p => Asleep(q)'
                        /\ \A t \in Resumed' : LeftTaskOf(t, p)'
    BY <1>2, LeftKept
  <1>4. /\ p = 0 \/ p \in DOMAIN obj
        /\ \A r \in DOMAIN sock : Live(r) => sock[r].owner = p
        /\ \A q \in DOMAIN obj : q # p => Asleep(q)
        /\ \A t \in Resumed : LeftTaskOf(t, p)
    BY <1>3, LeftFacts DEF TypeInv
  <1>5. \A r \in DOMAIN sock' : Live(r)' => sock'[r].owner = p
    BY <1>2, <1>4 DEF Live
  <1>6. \A q : Mute(q) => Mute(q)'
    BY <1>2 DEF Mute, Live
  <1>7. \A q \in DOMAIN obj : Asleep(q) => Asleep(q)'
    BY <1>1, <1>2, SleepsOn DEF Asleep
  <1>8. CASE Asleep(o)
    <2>1. new = {} /\ obj'[o].ending = obj[o].ending /\ obj'[o].busy = FALSE
      BY <1>1, <1>8, SleepsOn
    <2>2. NoToken(p) => NoToken(p)'
      BY <1>2, <2>1 DEF NoToken
    <2>3. p \in DOMAIN obj /\ obj[p].ending /\ ~ obj[p].busy => obj'[p].ending /\ ~ obj'[p].busy
      BY <1>2, <2>1
    <2>4. ASSUME NEW t \in Resumed
          PROVE  LeftTaskOf(t, p)'
      <3>1. t.do \in OfObject => t.who \in DOMAIN obj
        BY <2>4 DEF TypeInv, IsTask
      <3>2. p # 0 => p \in DOMAIN obj
        BY <1>4
      <3>3. t.do \in {"Logout", "RemoveCreds"} => obj'[p].ending /\ ~ obj'[p].busy /\ NoToken(p)'
        BY <1>4, <2>2, <2>3, <2>4, <3>1 DEF LeftTaskOf, OfObject
      <3>. QED BY <1>4, <1>6, <1>7, <2>2, <2>4, <3>2, <3>3 DEF LeftTaskOf
    <2>. QED BY <1>2, <1>4, <1>5, <1>7, <2>1, <2>4
  <1>9. CASE ~ Asleep(o)
    <2>1. o = p /\ p # 0
      BY <1>4, <1>9 DEF TypeInv, IsList
    <2>2. ASSUME NEW t \in Resumed
          PROVE  LeftTaskOf(t, p)'
      <3>1. t.do \notin {"Remove", "Logout", "RemoveCreds"}
        BY <1>4, <1>9, <2>1, <2>2 DEF LeftTaskOf, Asleep
      <3>. QED BY <1>4, <2>2, <3>1 DEF LeftTaskOf
    <2>3. ASSUME NEW t \in new
          PROVE  LeftTaskOf(t, p)'
      <3>1. /\ t.do \in {"Refuse", "SaveRow", "SaveCreds", "Reconnect", "SaveClose"}
            /\ t.who = o
        BY <1>1, <2>3 DEF Handling, Task
      <3>. QED BY <2>1, <3>1 DEF LeftTaskOf
    <2>. QED BY <1>2, <1>4, <1>5, <1>7, <2>2, <2>3
  <1>. QED BY <1>8, <1>9

LEMMA OpenKeepsLeft ==
    ASSUME TypeInv, ManageInv, TokenInv, LeftInv, NEW t \in Resumed, OpenSocket(t)
    PROVE  LeftInv'
  <1> DEFINE o == t.who
  <1>1. PICK r : Opens(o, r)
    BY OpenEffect
  <1>2. /\ o \in DOMAIN obj /\ t.do = "OpenSocket" /\ t.do \in Opening /\ Turns({t}, {})
        /\ reg' = (IF t.arg = "register" THEN o ELSE reg) /\ count'.expired = count.expired
    BY OpenEffect DEF Opening, SameCount
  <1>3. Once(t)
    BY <1>2 DEF TokenInv, Once
  <1>4. Resumed' = Resumed \ {t}
    BY <1>2, <1>3 DEF Turns
  <1> HIDE DEF o
  <1>5. /\ DOMAIN sock' = DOMAIN sock \cup {r} /\ sock'[r].owner = o
        /\ \A q \in DOMAIN sock \ {r} : sock'[q] = sock[q]
        /\ DOMAIN obj' = DOMAIN obj /\ \A q \in DOMAIN obj \ {o} : obj'[q] = obj[q]
    BY <1>1 DEF Opens
  <1>6. SUFFICES ASSUME count.expired = 0, NEW q, q = reg'
                 PROVE  /\ \A s \in DOMAIN sock' : Live(s)' => sock'[s].owner = q
                        /\ \A p \in DOMAIN obj' : p # q => Asleep(p)'
                        /\ \A u \in Resumed' : LeftTaskOf(u, q)'
    BY <1>2, LeftKept
  <1>7. PICK p : p = reg
    OBVIOUS
  <1>8. /\ p = 0 \/ p \in DOMAIN obj
        /\ \A s \in DOMAIN sock : Live(s) => sock[s].owner = p
        /\ \A x \in DOMAIN obj : x # p => Asleep(x)
        /\ \A u \in Resumed : LeftTaskOf(u, p)
    BY <1>6, <1>7, LeftFacts DEF TypeInv
  <1>9. q = o
    BY <1>2, <1>6, <1>7, <1>8 DEF LeftTaskOf, Loading, o
  <1>10. CASE Loading(t)
    <2>1. DOMAIN sock = {} /\ DOMAIN obj = {o} /\ Resumed = {t}
      BY <1>10 DEF ManageInv, IsLoading, o
    <2>. QED BY <1>4, <1>5, <1>9, <2>1
  <1>11. CASE ~ Loading(t)
    <2>1. o = p
      BY <1>2, <1>8, <1>11 DEF LeftTaskOf, o
    <2>2. \A s \in DOMAIN sock' : Live(s)' => sock'[s].owner = q
      BY <1>5, <1>8, <1>9, <2>1 DEF Live
    <2>3. \A x \in DOMAIN obj' : x # q => Asleep(x)'
      BY <1>5, <1>8, <1>9, <2>1 DEF Asleep
    <2>4. ~ NoToken(p) /\ p # 0
      BY <1>2, <2>1 DEF NoToken, TypeInv, IsList, o
    <2>5. \A u \in Resumed' : LeftTaskOf(u, q)'
      BY <1>4, <1>8, <1>9, <2>1, <2>4 DEF LeftTaskOf, Opening
    <2>. QED BY <2>2, <2>3, <2>5
  <1>. QED BY <1>10, <1>11

LEMMA BuildKeepsLeft ==
    ASSUME TypeInv, ManageInv, LeftInv, NEW t \in Resumed, CreateGuard(t), row.id = 0
    PROVE  LeftInv'
  <1>1. PICK o, new : Builds(t, o) /\ Turns({t}, new) /\ new = {Task("CreateSave", o, "none")}
    BY GuardEffect
  <1>2. /\ t.do = "CreateGuard" /\ reg' = 0 /\ reg = 0 /\ count'.expired = count.expired
        /\ Managing(t) /\ ~ Loading(t)
    BY GuardEffect DEF ManageInv, SameCount, Managing, Manages, Loading
  <1>3. /\ DOMAIN obj' = DOMAIN obj \cup {o} /\ obj'[o].queue = <<>> /\ sock' = sock
        /\ \A q \in DOMAIN obj \ {o} : obj'[q] = obj[q]
    BY <1>1 DEF Builds, Fresh
  <1>4. SUFFICES ASSUME count.expired = 0, NEW p, p = reg
                 PROVE  /\ \A s \in DOMAIN sock' : Live(s)' => sock'[s].owner = p
                        /\ \A q \in DOMAIN obj' : q # p => Asleep(q)'
                        /\ \A u \in Resumed' : LeftTaskOf(u, p)'
    BY <1>2, LeftKept
  <1>5. /\ \A s \in DOMAIN sock : Live(s) => sock[s].owner = p
        /\ \A x \in DOMAIN obj : x # p => Asleep(x)
        /\ \A u \in Resumed : LeftTaskOf(u, p)
    BY <1>4, LeftFacts
  <1>6. \A s \in DOMAIN sock' : Live(s)' => sock'[s].owner = p
    BY <1>3, <1>5 DEF Live
  <1>7. \A q \in DOMAIN obj' : q # p => Asleep(q)'
    BY <1>3, <1>5 DEF Asleep
  <1>8. ASSUME NEW u \in Resumed
        PROVE  LeftTaskOf(u, p)'
    <2>1. CASE u = t
      BY <1>2, <2>1 DEF LeftTaskOf, Opening
    <2>2. CASE u # t
      <3>1. ~ Managing(u) /\ ~ Loading(u)
        BY <1>2, <1>8, <2>2, LoadsAlone DEF ManageInv
      <3>2. u.do \notin {"Remove", "Logout", "RemoveCreds", "ExpireLogout", "CreateSave"}
        BY <3>1 DEF Managing, Manages
      <3>3. u.do \in Opening => u.who # 0
        BY <1>8, TokenOwner DEF TypeInv, IsList
      <3>. QED BY <1>2, <1>4, <1>5, <1>8, <3>1, <3>2, <3>3 DEF LeftTaskOf
    <2>. QED BY <2>1, <2>2
  <1>9. ASSUME NEW u \in new
        PROVE  LeftTaskOf(u, p)'
    <2>1. u.do = "CreateSave"
      BY <1>1, <1>9 DEF Task
    <2>. QED BY <2>1 DEF LeftTaskOf
  <1>. QED BY <1>1, <1>6, <1>7, <1>8, <1>9 DEF Turns

LEMMA BootKeepsLeft ==
    ASSUME TypeInv, Crash \/ Load
    PROVE  LeftInv'
  <1>1. SUFFICES ASSUME NEW p, p = reg'
                 PROVE  /\ \A s \in DOMAIN sock' : Live(s)' => sock'[s].owner = p
                        /\ \A o \in DOMAIN obj' : o # p => Asleep(o)'
                        /\ \A t \in Resumed' : LeftTaskOf(t, p)'
    BY LeftKept
  <1>2. DOMAIN sock' = {} /\ (DOMAIN obj' = {} \/ (DOMAIN obj' = {1} /\ obj'[1] = Fresh(row.id)))
    BY CrashEffect, LoadEffect
  <1>3. ASSUME NEW t \in Resumed'
        PROVE  LeftTaskOf(t, p)'
    <2>1. CASE Crash
      BY <1>3, <2>1, CrashEffect
    <2>2. CASE Load
      <3>1. PICK new : Turns({}, new) /\ (new = {} \/ new = {Task("ReadCreds", 1, "register")})
        BY <2>2, LoadEffect
      <3>2. t \in new
        BY <1>3, <2>2, <3>1, LoadEffect DEF Turns
      <3>3. t.do = "ReadCreds" /\ t.arg = "register"
        BY <3>1, <3>2 DEF Task
      <3>. QED BY <3>3 DEF LeftTaskOf, Loading
    <2>. QED BY <2>1, <2>2
  <1>. QED BY <1>2, <1>3 DEF Asleep, Fresh

-----------------------------------------------------------------------------
(* Every step keeps the invariant *)

LEMMA InitIInv ==
    ASSUME Init
    PROVE  IInv
  <1>1. IsABag(tasks) /\ Resumed = {} /\ obj = <<>> /\ sock = <<>> /\ reg = 0 /\ row = NoRow /\ up
    BY NoTasks, Zenon DEF Init, Resumed
  <1>2. IsList(obj) /\ IsList(sock) /\ DOMAIN obj = {} /\ DOMAIN sock = {}
    <2>1. << >> \in Seq(Nat) /\ DOMAIN << >> = {}
      BY EmptySeq
    <2>. QED BY <1>1, <2>1, ListIsSeq DEF IsList
  <1>3. IsRow(row) /\ row.id = 0
    BY <1>1 DEF NoRow, IsRow
  <1>4. IsCount /\ count.creates = 0 /\ count.faults = 0 /\ count.expired = 0
    BY DEF Init, IsCount
  <1>5. TypeInv /\ IdInv
    BY <1>1, <1>2, <1>3, <1>4 DEF TypeInv, IdInv
  <1>6. ManageInv /\ ClientInv /\ QueueInv
    BY <1>1, <1>2, <1>3 DEF ManageInv, ClientInv, QueueInv
  <1>7. TokenInv /\ LiveInv /\ LeftInv
    BY <1>1, <1>2 DEF TokenInv, LiveInv, LeftInv
  <1>. QED BY <1>5, <1>6, <1>7 DEF IInv

\* What a step is.
Step(t) == Drop(t) \/ OpenSocket(t) \/ (CreateGuard(t) /\ row.id = 0)

LEMMA NextIsStep ==
    ASSUME [Next]_vars
    PROVE  \/ UNCHANGED vars \/ Outside \/ Crash \/ Load
           \/ \E t \in Resumed : Step(t)
           \/ \E o \in DOMAIN obj : HandleEvent(o)
  <1>1. CreateStep => \E t \in Resumed : Step(t)
    BY DEF CreateStep, Step, Drop
  <1>2. ConnectStep => \E t \in Resumed : Step(t)
    BY DEF ConnectStep, Step, Drop
  <1>3. LogoutStep \/ SaveStep => \E t \in Resumed : Step(t)
    BY DEF LogoutStep, SaveStep, Step, Drop
  <1>4. CleanStep => \E t \in Resumed : Step(t)
    BY DEF CleanStep, Step, Drop
  <1>. QED BY <1>1, <1>2, <1>3, <1>4 DEF Next, Outside, Idle

LEMMA StutterKeeps ==
    ASSUME IInv, UNCHANGED vars
    PROVE  IInv'
  <1>1. /\ row' = row /\ reg' = reg /\ obj' = obj /\ sock' = sock /\ tasks' = tasks
        /\ up' = up /\ count' = count
    BY DEF vars
  <1>2. TypeInv'
    BY <1>1 DEF IInv, TypeInv, IsTask, IsCount, Resumed
  <1>3. IdInv' /\ ManageInv'
    BY <1>1 DEF IInv, IdInv, ManageInv, IsLoading, Resumed
  <1>4. ClientInv' /\ QueueInv'
    BY <1>1 DEF IInv, ClientInv, QueueInv, Mute, Live
  <1>5. TokenInv' /\ LiveInv'
    BY <1>1 DEF IInv, TokenInv, LiveInv, Mute, Live, In, Resumed
  <1>6. LeftInv'
    BY <1>1 DEF IInv, LeftInv, LeftTask, Asleep, NoToken, Mute, Live, Resumed
  <1>. QED BY <1>2, <1>3, <1>4, <1>5, <1>6 DEF IInv

LEMMA NextKeeps ==
    ASSUME Serial, IInv, [Next]_vars
    PROVE  IInv'
  <1>1. TypeInv /\ IdInv /\ ManageInv /\ ClientInv /\ QueueInv /\ TokenInv /\ LiveInv /\ LeftInv
    BY DEF IInv
  <1>2. ASSUME Outside
        PROVE  IInv'
    <2>1. Requests \/ Expire \/ SocketEvent
      BY <1>2 DEF Outside
    <2>2. TypeInv' /\ IdInv'
      BY <1>1, <2>1, OutsideKeepsType, OutsideKeepsIds
    <2>. QED BY <1>1, <1>2, <2>2, OutsideKeepsManage, OutsideKeepsClients, OutsideKeepsQueues,
                OutsideKeepsTokens, OutsideKeepsLive, OutsideKeepsLeft DEF IInv
  <1>3. ASSUME Crash \/ Load
        PROVE  IInv'
    BY <1>1, <1>3, CrashKeepsType, LoadKeepsType, BootKeepsIds, BootKeepsManage, BootKeepsClients,
       BootKeepsQueues, BootKeepsTokens, BootKeepsLive, BootKeepsLeft DEF IInv
  <1>4. ASSUME NEW t \in Resumed, Drop(t)
        PROVE  IInv'
    BY <1>1, <1>4, DropDrops, DropKeepsType, DropKeepsIds, DropKeepsManage, DropsKeepClients,
       DropsKeepQueues, DropKeepsTokens, DropKeepsLive, DropKeepsLeft DEF IInv
  <1>5. ASSUME NEW t \in Resumed, OpenSocket(t)
        PROVE  IInv'
    BY <1>1, <1>5, OpenKeepsType, OpenKeepsIds, OpenKeepsManage, OpenKeepsClients,
       OpenKeepsQueues, OpenKeepsTokens, OpenKeepsLive, OpenKeepsLeft DEF IInv
  <1>6. ASSUME NEW t \in Resumed, CreateGuard(t), row.id = 0
        PROVE  IInv'
    BY <1>1, <1>6, BuildKeepsType, BuildKeepsIds, BuildKeepsManage, BuildKeepsClients,
       BuildKeepsQueues, BuildKeepsTokens, BuildKeepsLive, BuildKeepsLeft DEF IInv
  <1>7. ASSUME NEW o \in DOMAIN obj, HandleEvent(o)
        PROVE  IInv'
    BY <1>1, <1>7, HandleKeepsType, HandleKeepsIds, HandleKeepsManage, HandleKeepsClients,
       HandleKeepsQueues, HandleKeepsTokens, HandleKeepsLive, HandleKeepsLeft DEF IInv
  <1>. QED BY <1>2, <1>3, <1>4, <1>5, <1>6, <1>7, NextIsStep, StutterKeeps DEF Step

-----------------------------------------------------------------------------
(* Theorems *)

\* With requests one at a time, what is registered under the name is the instance of the row, and
\* a row is registered unless an attempt to connect has thrown (createInstance, the listeners of
\* remove and logout, loadInstance): what has left one and not the other has a callback that
\* waits, of which there is never more than one.
PROPOSITION RegistryMatchesTableHolds ==
    ASSUME Serial
    PROVE  Spec => []RegistryMatchesTable
  <1>1. Init => IInv
    BY InitIInv
  <1>2. IInv /\ [Next]_vars => IInv'
    BY NextKeeps
  <1>3. IInv => RegistryMatchesTable
    BY CalmFacts DEF IInv, ManageInv, RegistryMatchesTable, Calm
  <1>. QED BY <1>1, <1>2, <1>3, PTL DEF Spec

\* With requests one at a time and without the deletion timeout, nothing but the registered
\* object has a connection (cleaningUp and remove.instance, connectToWhatsapp): an object is
\* removed when it has no socket, no callback that opens one, and no event that leads to one.
PROPOSITION NoZombieHolds ==
    ASSUME Serial
    PROVE  Spec => []NoZombie
  <1>1. Init => IInv
    BY InitIInv
  <1>2. IInv /\ [Next]_vars => IInv'
    BY NextKeeps
  <1>3. IInv => NoZombie
    BY DEF IInv, LeftInv, ClientInv, NoZombie
  <1>. QED BY <1>1, <1>2, <1>3, PTL DEF Spec

\* Nor are there two connections at any time, not even while one replaces the other
\* (createClient after connection.update closed): a callback that opens a socket is its object's
\* only one, and its object has no socket that is live.
PROPOSITION OneSocketHolds ==
    ASSUME Serial
    PROVE  Spec => []OneSocket
  <1>1. Init => IInv
    BY InitIInv
  <1>2. IInv /\ [Next]_vars => IInv'
    BY NextKeeps
  <1>3. IInv => OneSocket
    BY DEF IInv, LeftInv, ClientInv, OneSocket
  <1>. QED BY <1>1, <1>2, <1>3, PTL DEF Spec

-----------------------------------------------------------------------------
(* What is open is open in the table *)

Saves(o, status) == \E t \in Resumed : t.do = "SaveRow" /\ t.who = o /\ t.arg = status

\* The object has shown a code, and the row will be connecting.
Scanned(o) == In("qr", o) \/ Saves(o, "connecting")

\* Until the row is, it is not open, and nothing opens.
ScanOf(o) == o # 0 /\ Scanned(o) =>
    /\ obj[o].state # "open" /\ ~ In("open", o)
    /\ \A s \in DOMAIN sock : Live(s) /\ sock[s].owner = o => sock[s].creds # "paired"
    /\ \A t \in Resumed : t.do \in Opening /\ t.who = o => t.do = "Reconnect"

Closes == {"LoggedOut", "CleanUpFind", "CleanUpUpdate"}
Down(o) == obj[o].state = "close" /\ obj[o].queue = <<>> /\ Mute(o) /\ NoToken(o)
ClosesIt(t, o) == t.do \in Closes \/ (t.do = "SaveClose" /\ t.who = o)

\* What closes the row of a registered object finds the object closed.
CloseOf(o) == o # 0 /\ (\E t \in Resumed : ClosesIt(t, o)) => Down(o)

OpenOf(o) == o # 0 /\ obj[o].state = "open" => row.status = "open" \/ Saves(o, "open")

\* A create has no row to close, and an object that is new nothing to save.
StartInv ==
    \A t \in Resumed :
        /\ t.do = "CreateSave" \/ (t.do = "CreateGuard" /\ row.id = 0) =>
              \A u \in Resumed : u.do \notin Closes
        /\ t.do = "CreateSave" =>
              /\ obj[t.who].state = "close"
              /\ \A u \in Resumed : u.do \in {"SaveRow", "SaveClose"} => u.who # t.who
        /\ t.do = "SaveRow" => t.arg \in {"open", "connecting"}

RecordInv == StartInv /\ ScanOf(reg) /\ CloseOf(reg) /\ OpenOf(reg)

LEMMA RecordKept ==
    ASSUME StartInv', \A o : o = reg' /\ o # 0 => ScanOf(o)' /\ CloseOf(o)' /\ OpenOf(o)'
    PROVE  RecordInv'
  BY DEF RecordInv, ScanOf, CloseOf, OpenOf, Scanned, Saves, Down, ClosesIt, In, Mute, NoToken

LEMMA RecordFacts ==
    ASSUME RecordInv, NEW o, o = reg
    PROVE  ScanOf(o) /\ CloseOf(o) /\ OpenOf(o)
  BY DEF RecordInv, ScanOf, CloseOf, OpenOf, Scanned, Saves, Down, ClosesIt, In, Mute, NoToken

\* Codes, openings and openness do not come from sockets that die.
LEMMA DropsFacts ==
    ASSUME TypeInv, Drops, NEW o \in DOMAIN obj
    PROVE  /\ In("qr", o)' => In("qr", o)
           /\ In("open", o)' => In("open", o)
           /\ obj'[o].state = obj[o].state \/ obj'[o].state = "close"
           /\ \A s \in DOMAIN sock' : Live(s)' /\ sock'[s].owner = o =>
                 /\ s \in DOMAIN sock /\ Live(s) /\ sock[s].owner = o
                 /\ sock'[s].creds = sock[s].creds
  <1>1. DropsObject(o) /\ DOMAIN sock' = DOMAIN sock /\ \A s \in DOMAIN sock : DropsSocket(s)
    BY DEF Drops
  <1>2. ASSUME NEW e \in {"qr", "open"}, In(e, o)'
        PROVE  In(e, o)
    <2>1. CASE obj'[o].queue = obj[o].queue
      BY <1>2, <2>1 DEF In
    <2>2. CASE EndsQueue(obj[o].queue, obj'[o].queue)
      <3> DEFINE q == obj[o].queue
                 r == obj'[o].queue
      <3>1. PICK i \in DOMAIN r : r[i] = e
        BY <1>2 DEF In
      <3>2. /\ q \in Seq(Events) /\ r \in Seq(Events)
            /\ \A j \in 1 .. Len(q) : r[j] = q[j]
            /\ \A j \in 1 .. Len(r) : j > Len(q) => r[j] \in {"creds", "closed", "out"}
        BY <2>2 DEF EndsQueue, TypeInv, IsObject, Ends
      <3> HIDE DEF q, r
      <3>3. i \in 1 .. Len(r) /\ Len(q) \in Nat /\ DOMAIN q = 1 .. Len(q)
        BY <3>1, <3>2
      <3>4. i \in DOMAIN q /\ q[i] = e
        BY <1>2, <3>1, <3>2, <3>3
      <3>. QED BY <3>4 DEF In, q
    <2>. QED BY <1>1, <2>1, <2>2 DEF DropsObject
  <1>. QED BY <1>1, <1>2 DEF DropsObject, DropsSocket, Live

LEMMA DownStays ==
    ASSUME TypeInv, Drops, NEW o \in DOMAIN obj, Down(o), NoToken(o)'
    PROVE  Down(o)'
  <1>1. KeepsRest(o)
    BY DropsKeepRest
  <1>2. obj'[o].state = "close"
    BY DropsFacts DEF Down
  <1>. QED BY <1>1, <1>2 DEF Down, KeepsRest

\* What a callback saves.
LEMMA OutcomeSaves ==
    ASSUME IsRow(row), NEW t, NEW new, Outcome(t, new)
    PROVE  /\ \A u \in new :
                 /\ u.do \notin {"SaveRow", "SaveClose", "CreateSave", "CreateGuard"}
                 /\ u.do \in Closes =>
                       \/ t.do \in Closes \/ t.do = "Remove"
                       \/ t.do = "SaveClose" /\ Mine(t)
           /\ reg' = reg \/ (t.do = "CreateSave" /\ reg' = t.who) \/ (t.do = "Remove" /\ reg' = 0)
           /\ t.do = "Reconnect" /\ Prompt => Waiting("SaveRow") = {}
           /\ row'.id = 0 /\ row.id # 0 => t.do = "CleanStoreRow"
  <1>1. ASSUME NEW u \in new
        PROVE  u.do \notin {"SaveRow", "SaveClose", "CreateSave", "CreateGuard"}
    BY <1>1 DEF Outcome, Task
  <1>2. ASSUME NEW u \in new, u.do \in Closes
        PROVE  \/ t.do \in Closes \/ t.do = "Remove"
               \/ t.do = "SaveClose" /\ Mine(t)
    BY <1>2 DEF Outcome, Task, Closes
  <1>3. reg' = reg \/ (t.do = "CreateSave" /\ reg' = t.who) \/ (t.do = "Remove" /\ reg' = 0)
    BY DEF Outcome, SameReg
  <1>4. t.do = "Reconnect" /\ Prompt => Waiting("SaveRow") = {}
    BY DEF Outcome
  <1>5. ASSUME row'.id = 0, row.id # 0
        PROVE  t.do = "CleanStoreRow"
    <2>1. \A status : [row EXCEPT !.status = status].id = row.id
      BY DEF IsRow
    <2>. QED BY <1>5, <2>1 DEF Outcome, SameReg
  <1>. QED BY <1>1, <1>2, <1>3, <1>4, <1>5

\* A create that goes on: no other callback leaves one that closes the row.
LEMMA DropKeepsStart ==
    ASSUME TypeInv, ClientInv, IdInv, ManageInv, RecordInv, NEW t \in Resumed, Drop(t)
    PROVE  StartInv'
  <1>1. PICK new : Turns({t}, new) /\ Outcome(t, new)
    BY DropOutcome
  <1>2. Drops /\ IsRow(row)
    BY DropDrops DEF TypeInv
  <1>3. /\ \A u \in new : u.do \notin {"SaveRow", "SaveClose", "CreateSave", "CreateGuard"}
        /\ Resumed' \subseteq Resumed \cup new
    BY <1>1, <1>2, OutcomeSaves DEF Turns
  <1>4. StartInv
    BY DEF RecordInv
  <1>5. ASSUME NEW v \in Resumed', v.do = "SaveRow"
        PROVE  v.arg \in {"open", "connecting"}
    BY <1>3, <1>4, <1>5 DEF StartInv
  <1>6. ASSUME NEW v \in Resumed', v.do \in {"CreateSave", "CreateGuard"}
        PROVE  v \in Resumed /\ Managing(v) /\ v # t /\ ~ Managing(t)
    <2>1. v \in Resumed /\ v \notin new /\ Managing(v)
      BY <1>3, <1>6 DEF Managing, Manages
    <2>2. Once(v)
      BY <2>1 DEF ManageInv, Once
    <2>3. v # t
      BY <1>1, <2>1, <2>2 DEF Turns
    <2>. QED BY <2>1, <2>3 DEF ManageInv
  <1>7. ASSUME NEW v \in Resumed', v.do = "CreateSave" \/ (v.do = "CreateGuard" /\ row'.id = 0),
               NEW u \in Resumed', u.do \in Closes
        PROVE  FALSE
    <2>1. v \in Resumed /\ ~ Managing(t)
      BY <1>6, <1>7
    <2>2. t.do # "Remove" /\ t.do # "CleanStoreRow"
      BY <2>1 DEF Managing, Manages, Cleans
    <2>3. row.id = 0
      <3>1. v.do = "CreateSave" => row.id = 0
        BY <2>1 DEF ManageInv
      <3>. QED BY <1>1, <1>2, <1>7, <2>2, <3>1, OutcomeSaves
    <2>4. \A w \in Resumed : w.do \notin Closes
      BY <1>4, <1>7, <2>1, <2>3 DEF StartInv
    <2>5. t.do = "SaveClose" /\ Mine(t)
      BY <1>1, <1>2, <1>3, <1>7, <2>2, <2>4, OutcomeSaves
    <2>6. t.who \in DOMAIN obj /\ obj[t.who].id # 0
      BY <2>5 DEF TypeInv, IsTask, OfObject, IsObject
    <2>. QED BY <2>3, <2>5, <2>6 DEF Mine
  <1>8. ASSUME NEW v \in Resumed', v.do = "CreateSave"
        PROVE  /\ obj'[v.who].state = "close"
               /\ \A u \in Resumed' : u.do \in {"SaveRow", "SaveClose"} => u.who # v.who
    <2>1. v \in Resumed /\ v.who \in DOMAIN obj
      BY <1>6, <1>8, TokenOwner DEF Opening
    <2>2. obj'[v.who].state = "close"
      BY <1>2, <1>4, <1>8, <2>1, DropsFacts DEF StartInv
    <2>. QED BY <1>3, <1>4, <1>8, <2>1, <2>2 DEF StartInv
  <1>. QED BY <1>5, <1>7, <1>8 DEF StartInv

LEMMA MineIsReg ==
    ASSUME TypeInv, IdInv, ManageInv, reg # 0, NEW o \in DOMAIN obj, row.id = obj[o].id
    PROVE  o = reg
  BY DEF TypeInv, IdInv, ManageInv

\* The registration stays.
LEMMA DropKeepsRecord ==
    ASSUME Prompt, TypeInv, ClientInv, IdInv, ManageInv, TokenInv, RecordInv,
           NEW t \in Resumed, Drop(t), reg' = reg, NEW o \in DOMAIN obj, o = reg, o # 0
    PROVE  ScanOf(o)' /\ CloseOf(o)' /\ OpenOf(o)'
  <1>1. PICK new : Turns({t}, new) /\ Outcome(t, new)
    BY DropOutcome
  <1>2. Drops /\ IsRow(row)
    BY DropDrops DEF TypeInv
  <1>3. /\ \A u \in new : u.do \notin {"SaveRow", "SaveClose", "CreateSave", "CreateGuard"}
        /\ Resumed' \subseteq Resumed \cup new
    BY <1>1, <1>2, OutcomeSaves DEF Turns
  <1>4. ScanOf(o) /\ CloseOf(o) /\ OpenOf(o)
    BY RecordFacts
  <1>5. \A status : Saves(o, status)' => Saves(o, status)
    BY <1>3 DEF Saves
  <1>6. ScanOf(o)'
    <2>1. SUFFICES ASSUME Scanned(o)'
                   PROVE  /\ obj'[o].state # "open" /\ ~ In("open", o)'
                          /\ \A s \in DOMAIN sock' :
                                Live(s)' /\ sock'[s].owner = o => sock'[s].creds # "paired"
                          /\ \A u \in Resumed' : u.do \in Opening /\ u.who = o => u.do = "Reconnect"
      BY DEF ScanOf
    <2>2. Scanned(o)
      BY <1>2, <1>5, <2>1, DropsFacts DEF Scanned
    <2>3. /\ obj[o].state # "open" /\ ~ In("open", o)
          /\ \A s \in DOMAIN sock : Live(s) /\ sock[s].owner = o => sock[s].creds # "paired"
          /\ \A u \in Resumed : u.do \in Opening /\ u.who = o => u.do = "Reconnect"
      BY <1>4, <2>2 DEF ScanOf
    <2>4. ASSUME NEW u \in Resumed', u.do \in Opening, u.who = o
          PROVE  u.do = "Reconnect"
      <3>1. CASE u \in Resumed
        BY <2>3, <2>4, <3>1
      <3>2. CASE u \in new
        <4>1. t.do \in Opening /\ t.who = o
          BY <1>1, <2>4, <3>2, OutcomeFacts
        <4>2. t.do = "Reconnect" /\ obj[o].queue = <<>>
          BY <2>3, <4>1 DEF TokenInv
        <4>3. Waiting("SaveRow") = {}
          BY <1>1, <1>2, <4>2, OutcomeSaves
        <4>4. ~ Saves(o, "connecting") /\ ~ In("qr", o)
          BY <4>2, <4>3 DEF Saves, In, Waiting, Resumed
        <4>. QED BY <2>2, <4>4 DEF Scanned
      <3>. QED BY <1>3, <3>1, <3>2
    <2>5. /\ obj'[o].state # "open" /\ ~ In("open", o)'
          /\ \A s \in DOMAIN sock' :
                Live(s)' /\ sock'[s].owner = o => sock'[s].creds # "paired"
      BY <1>2, <2>3, DropsFacts
    <2>. QED BY <2>4, <2>5
  <1>7. t.do = "SaveClose" /\ Mine(t) => ClosesIt(t, o)
    <2>1. t.do = "SaveClose" => t.who \in DOMAIN obj
      BY DEF TypeInv, IsTask, OfObject
    <2>. QED BY <2>1, MineIsReg DEF Mine, ClosesIt
  <1>8. CloseOf(o)'
    <2>1. SUFFICES ASSUME NEW u \in Resumed', ClosesIt(u, o)'
                   PROVE  Down(o)'
      BY DEF CloseOf, ClosesIt
    <2>2. \E v \in Resumed : ClosesIt(v, o)
      <3>1. CASE u \in Resumed
        BY <2>1, <3>1 DEF ClosesIt
      <3>2. CASE u \in new
        <4>1. u.do \in Closes
          BY <1>3, <2>1, <3>2 DEF ClosesIt
        <4>2. t.do # "Remove"
          BY <1>1 DEF Outcome, SameReg
        <4>3. t.do \in Closes \/ (t.do = "SaveClose" /\ Mine(t))
          BY <1>1, <1>2, <3>2, <4>1, <4>2, OutcomeSaves
        <4>. QED BY <1>7, <4>3 DEF ClosesIt
      <3>. QED BY <1>3, <3>1, <3>2
    <2>3. Down(o)
      BY <1>4, <2>2 DEF CloseOf
    <2>4. NoToken(o)'
      BY <1>1, <1>3, <2>3, OutcomeFacts DEF Down, NoToken
    <2>. QED BY <1>2, <2>3, <2>4, DownStays
  <1>9. OpenOf(o)'
    <2>1. SUFFICES ASSUME obj'[o].state = "open"
                   PROVE  row'.status = "open" \/ Saves(o, "open")'
      BY DEF OpenOf
    <2>2. obj[o].state = "open" /\ (row.status = "open" \/ Saves(o, "open"))
      BY <1>2, <1>4, <2>1, DropsFacts DEF OpenOf
    <2>3. ~ ClosesIt(t, o)
      BY <1>4, <2>2 DEF CloseOf, Down
    <2>4. \A status : row' = [row EXCEPT !.status = status] => row'.status = status
      BY <1>2 DEF IsRow
    <2>5. CASE t.do = "SaveRow" /\ Mine(t)
      <3>1. t.who = o
        BY <2>5, MineIsReg DEF Mine, TypeInv, IsTask, OfObject
      <3>2. t.arg = "open" \/ t.arg = "connecting"
        BY <2>5 DEF RecordInv, StartInv
      <3>3. t.arg # "connecting"
        BY <1>4, <2>2, <2>5, <3>1 DEF ScanOf, Scanned, Saves
      <3>4. row' = [row EXCEPT !.status = t.arg]
        BY <1>1, <2>5 DEF Outcome
      <3>. QED BY <2>4, <3>2, <3>3, <3>4
    <2>6. CASE ~ (t.do = "SaveRow" /\ Mine(t))
      <3>1. t.do # "CleanStoreRow" /\ t.do # "CreateSave" /\ t.do # "CleanUpUpdate"
        <4>1. t.do = "CleanStoreRow" => reg = 0
          BY DEF ManageInv, Cleans
        <4>2. t.do = "CreateSave" => reg = 0
          BY DEF ManageInv
        <4>. QED BY <2>3, <4>1, <4>2 DEF ClosesIt, Closes
      <3>2. row' = row
        BY <1>1, <1>7, <2>3, <2>6, <3>1 DEF Outcome, SameReg
      <3>3. Saves(o, "open") => t.do # "SaveRow" \/ t.who # o
        BY <2>6 DEF Mine, ManageInv
      <3>4. Saves(o, "open") => Saves(o, "open")'
        <4>1. \A u \in Resumed : u # t => u \in Resumed'
          BY <1>1 DEF Turns
        <4>. QED BY <3>3, <4>1 DEF Saves
      <3>. QED BY <2>2, <3>2, <3>4
    <2>. QED BY <2>5, <2>6
  <1>. QED BY <1>6, <1>8, <1>9

LEMMA DropRecords ==
    ASSUME Prompt, TypeInv, ClientInv, IdInv, ManageInv, TokenInv, RecordInv,
           NEW t \in Resumed, Drop(t)
    PROVE  RecordInv'
  <1>1. StartInv'
    BY DropKeepsStart
  <1>2. PICK new : Turns({t}, new) /\ Outcome(t, new)
    BY DropOutcome
  <1>3. Drops /\ IsRow(row)
    BY DropDrops DEF TypeInv
  <1>4. ASSUME NEW o, o = reg', o # 0
        PROVE  ScanOf(o)' /\ CloseOf(o)' /\ OpenOf(o)'
    <2>1. CASE reg' = reg
      BY <1>4, <2>1, DropKeepsRecord DEF TypeInv
    <2>2. CASE t.do = "CreateSave" /\ o = t.who
      <3>1. /\ o \in DOMAIN obj /\ obj[o].queue = <<>> /\ obj[o].state = "close"
            /\ \A u \in Resumed : u.do \in {"SaveRow", "SaveClose"} => u.who # o
            /\ \A u \in Resumed : u.do \notin Closes
        BY <2>2, TokenOwner DEF TokenInv, Opening, RecordInv, StartInv
      <3>2. /\ \A u \in new : u.do \notin {"SaveRow", "SaveClose"} /\ u.do \notin Closes
            /\ Resumed' \subseteq Resumed \cup new
        BY <1>2, <1>3, <2>2, OutcomeSaves DEF Turns, Closes
      <3>3. ~ In("qr", o)' /\ obj'[o].state = "close"
        BY <1>3, <3>1, DropsFacts DEF In
      <3>4. ~ Scanned(o)'
        BY <3>1, <3>2, <3>3 DEF Scanned, Saves
      <3>5. \A u \in Resumed' : ~ ClosesIt(u, o)
        BY <3>1, <3>2 DEF ClosesIt
      <3>6. ScanOf(o)'
        BY <3>4 DEF ScanOf
      <3>7. CloseOf(o)'
        BY <3>5 DEF CloseOf, ClosesIt
      <3>8. OpenOf(o)'
        BY <3>3 DEF OpenOf
      <3>. QED BY <3>6, <3>7, <3>8
    <2>. QED BY <1>2, <1>3, <1>4, <2>1, <2>2, OutcomeSaves
  <1>. QED BY <1>1, <1>4, RecordKept

LEMMA ArrivesFacts ==
    ASSUME NEW new, Arrives(new)
    PROVE  /\ new = {} \/ Calm
           /\ \A u \in new : /\ u.do \notin {"SaveRow", "SaveClose", "CreateSave"} \cup Closes
                             /\ \A v \in new : u = v
  BY DEF Arrives, Task, Closes

LEMMA ArrivalRecords ==
    ASSUME TypeInv, RecordInv, Drops, NEW new, Turns({}, new), Arrives(new), reg' = reg, row' = row
    PROVE  RecordInv'
  <1>1. /\ Resumed' = Resumed \cup new /\ (new = {} \/ Calm)
        /\ \A u \in new : u.do \notin {"SaveRow", "SaveClose", "CreateSave"} \cup Closes
    BY ArrivesFacts DEF Turns
  <1>2. Calm => Resumed = {} /\ \A o \in DOMAIN obj : obj[o].queue = <<>>
    BY CalmFacts
  <1>3. StartInv
    BY DEF RecordInv
  <1>4. \A o, status : Saves(o, status)' <=> Saves(o, status)
    BY <1>1 DEF Saves
  <1>5. ASSUME NEW v \in Resumed', v.do = "CreateSave"
        PROVE  v \in Resumed /\ obj'[v.who].state = "close"
    <2>1. v \in Resumed /\ v.who \in DOMAIN obj /\ obj[v.who].state = "close"
      BY <1>1, <1>3, <1>5, TokenOwner DEF StartInv, Opening
    <2>. QED BY <2>1, DropsFacts
  <1>6. StartInv'
    <2>1. \A v \in Resumed' : v.do = "SaveRow" => v.arg \in {"open", "connecting"}
      BY <1>1, <1>3 DEF StartInv
    <2>2. ASSUME NEW v \in Resumed', v.do = "CreateSave" \/ (v.do = "CreateGuard" /\ row'.id = 0),
                 NEW u \in Resumed', u.do \in Closes
          PROVE  FALSE
      <3>1. u \in Resumed /\ new = {}
        BY <1>1, <1>2, <2>2
      <3>. QED BY <1>1, <1>3, <2>2, <3>1 DEF StartInv
    <2>3. \A v \in Resumed' : v.do = "CreateSave" =>
              \A u \in Resumed' : u.do \in {"SaveRow", "SaveClose"} => u.who # v.who
      BY <1>1, <1>3, <1>5 DEF StartInv
    <2>. QED BY <1>5, <2>1, <2>2, <2>3 DEF StartInv
  <1>7. ASSUME NEW o, o = reg', o # 0
        PROVE  ScanOf(o)' /\ CloseOf(o)' /\ OpenOf(o)'
    <2>1. o \in DOMAIN obj /\ ScanOf(o) /\ CloseOf(o) /\ OpenOf(o)
      BY <1>7, RecordFacts DEF TypeInv
    <2>2. Scanned(o)' => Scanned(o) /\ new = {}
      <3>1. Scanned(o)' => Scanned(o)
        BY <1>4, <2>1, DropsFacts DEF Scanned
      <3>2. Scanned(o) => ~ Calm
        BY <1>2, <2>1 DEF Scanned, Saves, In
      <3>. QED BY <1>1, <3>1, <3>2
    <2>3. ScanOf(o)'
      BY <1>1, <2>1, <2>2, DropsFacts DEF ScanOf
    <2>4. CloseOf(o)'
      <3>1. ASSUME NEW u \in Resumed', ClosesIt(u, o)
            PROVE  Down(o)'
        <4>1. u \in Resumed /\ new = {}
          BY <1>1, <1>2, <3>1 DEF ClosesIt
        <4>2. Down(o) /\ NoToken(o)'
          BY <1>1, <2>1, <3>1, <4>1 DEF CloseOf, Down, NoToken
        <4>. QED BY <2>1, <4>2, DownStays
      <3>. QED BY <3>1 DEF CloseOf, ClosesIt
    <2>5. OpenOf(o)'
      BY <1>4, <2>1, DropsFacts DEF OpenOf
    <2>. QED BY <2>3, <2>4, <2>5
  <1>. QED BY <1>6, <1>7, RecordKept

LEMMA TellsRecords ==
    ASSUME TypeInv, ClientInv, TokenInv, LiveInv, RecordInv,
           NEW s \in DOMAIN sock, NEW e \in {"qr", "open"},
           Tells(s, e), Turns({}, {}), reg' = reg, row' = row
    PROVE  RecordInv'
  <1>1. Emits(s, e) /\ Resumed' = Resumed
    BY DEF Tells, Turns
  <1>2. /\ Live(s) /\ DOMAIN obj' = DOMAIN obj /\ DOMAIN sock' = DOMAIN sock
        /\ \A o \in DOMAIN obj :
              /\ obj'[o].state = obj[o].state
              /\ obj'[o].queue = IF o = sock[s].owner THEN Append(obj[o].queue, e) ELSE obj[o].queue
        /\ \A r \in DOMAIN sock : /\ sock'[r].owner = sock[r].owner
                                  /\ sock'[r].creds = sock[r].creds /\ (Live(r)' => Live(r))
    BY <1>1 DEF Emits, Live
  <1>3. StartInv'
    <2>1. \A v \in Resumed : v.do = "CreateSave" => v.who \in DOMAIN obj
      BY TokenOwner DEF Opening
    <2>. QED BY <1>1, <1>2, <2>1 DEF RecordInv, StartInv
  <1>4. \A o, status : Saves(o, status)' <=> Saves(o, status)
    BY <1>1 DEF Saves
  <1>5. ASSUME NEW o, o = reg', o # 0
        PROVE  ScanOf(o)' /\ CloseOf(o)' /\ OpenOf(o)'
    <2>1. o \in DOMAIN obj /\ ScanOf(o) /\ CloseOf(o) /\ OpenOf(o)
      BY <1>5, RecordFacts DEF TypeInv
    <2>2. OpenOf(o)'
      BY <1>2, <1>4, <2>1 DEF OpenOf
    <2>3. CASE o # sock[s].owner
      <3>1. obj'[o].queue = obj[o].queue /\ obj'[o].state = obj[o].state
        BY <1>2, <2>1, <2>3
      <3>2. ScanOf(o)'
        BY <1>1, <1>2, <1>4, <2>1, <3>1 DEF ScanOf, Scanned, In
      <3>3. CloseOf(o)'
        BY <1>1, <1>2, <2>1, <3>1 DEF CloseOf, ClosesIt, Down, Mute, NoToken
      <3>. QED BY <2>2, <3>2, <3>3
    <2>4. CASE o = sock[s].owner
      <3>1. ~ Mute(o) /\ obj'[o].queue = Append(obj[o].queue, e) /\ obj[o].queue \in Seq(Events)
        BY <1>2, <2>1, <2>4 DEF Mute, TypeInv, IsObject
      <3>2. CloseOf(o)'
        BY <1>1, <2>1, <3>1 DEF CloseOf, ClosesIt, Down
      <3>3. ScanOf(o)'
        <4>1. CASE e = "qr"
          <5>1. sock[s].creds = "new" /\ obj[o].queue = <<>>
            BY <2>4, <4>1 DEF Tells
          <5>2. obj'[o].queue = <<"qr">>
            BY <3>1, <4>1, <5>1
          <5>3. ~ In("open", o)'
            BY <5>2 DEF In
          <5>4. obj[o].state = "connecting"
            BY <1>2, <1>5, <2>4, <5>1 DEF LiveInv, In
          <5>5. \A r \in DOMAIN sock : Live(r) /\ sock[r].owner = o => r = s
            BY <1>2, <2>4 DEF ClientInv
          <5>6. \A r \in DOMAIN sock' : Live(r)' /\ sock'[r].owner = o => sock'[r].creds # "paired"
            BY <1>2, <5>1, <5>5
          <5>7. \A t \in Resumed' : t.do \in Opening => t.who # o
            BY <1>1, <3>1 DEF TokenInv
          <5>8. obj'[o].state # "open"
            BY <1>2, <2>1, <5>4
          <5>. QED BY <5>3, <5>6, <5>7, <5>8 DEF ScanOf
        <4>2. CASE e = "open"
          <5>1. sock[s].creds = "paired"
            BY <4>2 DEF Tells
          <5>2. ~ Scanned(o)
            BY <1>2, <2>1, <1>5, <2>4, <5>1 DEF ScanOf
          <5>3. In("qr", o)' => In("qr", o)
            <6>1. \A i \in DOMAIN obj'[o].queue : obj'[o].queue[i] = "qr" =>
                      i \in DOMAIN obj[o].queue /\ obj[o].queue[i] = "qr"
              BY <3>1, <4>2
            <6>. QED BY <6>1 DEF In
          <5>. QED BY <1>4, <5>2, <5>3 DEF ScanOf, Scanned
        <4>. QED BY <4>1, <4>2
      <3>. QED BY <2>2, <3>2, <3>3
    <2>. QED BY <2>3, <2>4
  <1>. QED BY <1>3, <1>5, RecordKept

LEMMA OutsideRecords ==
    ASSUME Serial, TypeInv, ClientInv, TokenInv, LiveInv, RecordInv, Outside
    PROVE  RecordInv'
  BY OutsideEffect, ArrivalRecords, TellsRecords DEF Steady, SameReg

LEMMA TailKeepsNone ==
    ASSUME NEW q \in Seq(Events), q # <<>>, NEW e, NEW i \in DOMAIN Tail(q), Tail(q)[i] = e
    PROVE  \E j \in DOMAIN q : q[j] = e
  <1>1. /\ Len(q) \in Nat /\ DOMAIN q = 1 .. Len(q) /\ DOMAIN Tail(q) = 1 .. (Len(q) - 1)
        /\ \A j \in 1 .. (Len(q) - 1) : Tail(q)[j] = q[j + 1]
    BY TailFacts
  <1>2. i + 1 \in DOMAIN q /\ q[i + 1] = e
    BY <1>1
  <1>. QED BY <1>2

LEMMA HandlingRecords ==
    ASSUME TypeInv, QueueInv, TokenInv, RecordInv, NEW o \in DOMAIN obj, o = reg, o # 0,
           NEW new, Turns({}, new), Handling(o, new), row' = row
    PROVE  ScanOf(o)' /\ CloseOf(o)' /\ OpenOf(o)'
  <1> DEFINE q == obj[o].queue
  <1>1. q # <<>> /\ q \in Seq(Events) /\ sock' = sock
    BY DEF Handling, Busies, Pops, TypeInv, IsObject
  <1>2. Head(q) = q[1] /\ 1 \in DOMAIN q
    BY <1>1, TailFacts
  <1>3. ScanOf(o) /\ CloseOf(o) /\ OpenOf(o) /\ NoToken(o)
    BY <1>1, RecordFacts DEF NoToken, TokenInv
  <1>4. Resumed' = Resumed \cup new
    BY DEF Turns
  <1>5. \A e : In(e, o)' => In(e, o)
    <2>1. obj'[o].queue = q \/ obj'[o].queue = Tail(q)
      BY DEF Handling, Busies, Pops, TypeInv, IsObject, ObjectFields
    <2>. QED BY <1>1, <2>1, TailKeepsNone DEF In
  <1>6. \A u \in new :
            /\ u.do \notin Closes
            /\ u.do \in Opening => u.do = "Reconnect"
            /\ u.do = "SaveRow" /\ u.arg = "connecting" => Head(q) = "qr"
            /\ u.do = "SaveClose" => Head(q) = "out" /\ Pops(o, "close") /\ new = {u}
    BY DEF Handling, Task, Closes, Opening
  <1>7. obj'[o].state # "open" \/ obj'[o].state = obj[o].state \/ Head(q) = "open"
    BY DEF Handling, Busies, Pops, TypeInv, IsObject, ObjectFields
  <1>8. ScanOf(o)'
    <2>1. Scanned(o)' => Scanned(o)
      <3>1. Head(q) = "qr" => In("qr", o)
        BY <1>2 DEF In
      <3>. QED BY <1>4, <1>5, <1>6, <3>1 DEF Scanned, Saves
    <2>2. Scanned(o) => Head(q) # "open"
      BY <1>2, <1>3 DEF ScanOf, In
    <2>3. Scanned(o) => obj'[o].state # "open" /\ ~ In("open", o)'
      BY <1>3, <1>5, <1>7, <2>2 DEF ScanOf
    <2>4. \A s \in DOMAIN sock' : (Live(s)' <=> Live(s)) /\ sock'[s] = sock[s] /\ s \in DOMAIN sock
      BY <1>1 DEF Live
    <2>. QED BY <1>3, <1>4, <1>6, <2>1, <2>3, <2>4 DEF ScanOf, NoToken
  <1>9. CloseOf(o)'
    <2>1. ASSUME NEW u \in Resumed', ClosesIt(u, o)
          PROVE  Down(o)'
      <3>1. u \notin Resumed
        BY <1>1, <1>3, <2>1 DEF CloseOf, Down
      <3>2. u \in new /\ u.do = "SaveClose"
        BY <1>4, <1>6, <2>1, <3>1 DEF ClosesIt
      <3>3. Head(q) = "out" /\ Pops(o, "close") /\ new = {u}
        BY <1>6, <3>2
      <3>4. q[1] \in Ends
        BY <1>2, <3>3 DEF Ends
      <3>5. Len(q) = 1 /\ Mute(o)
        BY <1>2, <3>4 DEF QueueInv
      <3>6. obj'[o].queue = <<>> /\ obj'[o].state = "close"
        BY <1>1, <3>3, <3>5, TailFacts DEF Pops
      <3>7. Mute(o)'
        BY <1>1, <3>5 DEF Mute, Live
      <3>8. NoToken(o)'
        BY <1>3, <1>4, <3>2, <3>3 DEF NoToken, Opening
      <3>. QED BY <3>6, <3>7, <3>8 DEF Down
    <2>. QED BY <2>1 DEF CloseOf, ClosesIt
  <1>10. OpenOf(o)'
    <2>1. \A status : Saves(o, status) => Saves(o, status)'
      BY <1>4 DEF Saves
    <2>2. CASE obj'[o].state = obj[o].state
      BY <1>3, <2>1, <2>2 DEF OpenOf
    <2>3. CASE Head(q) = "open" /\ obj'[o].state # obj[o].state
      <3>1. sock[obj[o].client].creds # "new"
        BY <1>2, <2>3 DEF QueueInv
      <3>2. obj[o].busy /\ new = {Task("SaveRow", o, "open")}
        BY <2>3, <3>1 DEF Handling, Busies, Pops, TypeInv, IsObject, ObjectFields, Ends
      <3>3. PICK u : new = {u} /\ u = Task("SaveRow", o, "open")
        BY <3>2
      <3>4. u.do = "SaveRow" /\ u.who = o /\ u.arg = "open"
        BY <3>3 DEF Task
      <3>5. Saves(o, "open")'
        BY <1>4, <3>3, <3>4 DEF Saves
      <3>. QED BY <3>5 DEF OpenOf
    <2>. QED BY <1>7, <2>2, <2>3 DEF OpenOf
  <1>. QED BY <1>8, <1>9, <1>10

LEMMA HandleRecords ==
    ASSUME TypeInv, QueueInv, TokenInv, RecordInv, NEW h \in DOMAIN obj, HandleEvent(h)
    PROVE  RecordInv'
  <1>1. PICK new : Turns({}, new) /\ Handling(h, new)
    BY HandleEffect
  <1>2. /\ reg' = reg /\ row' = row /\ sock' = sock /\ obj[h].queue # <<>>
        /\ Resumed' = Resumed \cup new
        /\ \A p \in DOMAIN obj \ {h} : obj'[p] = obj[p]
    BY <1>1, HandleEffect DEF Handling, Busies, Pops, SameReg, Turns
  <1>3. \A u \in new : /\ u.do \notin {"CreateSave", "CreateGuard"} \cup Closes /\ u.who = h
                       /\ u.do = "SaveRow" => u.arg \in {"open", "connecting"}
    BY <1>1 DEF Handling, Task, Closes
  <1>4. StartInv'
    <2>1. StartInv
      BY DEF RecordInv
    <2>2. ASSUME NEW v \in Resumed', v.do = "CreateSave"
          PROVE  v \in Resumed /\ v.who \in DOMAIN obj \ {h}
      BY <1>2, <1>3, <2>2, TokenOwner DEF TokenInv, Opening
    <2>3. \A v \in Resumed' : v.do = "SaveRow" => v.arg \in {"open", "connecting"}
      BY <1>2, <1>3, <2>1 DEF StartInv
    <2>4. \A v \in Resumed' : v.do = "CreateSave" \/ (v.do = "CreateGuard" /\ row'.id = 0) =>
              \A u \in Resumed' : u.do \notin Closes
      BY <1>2, <1>3, <2>1 DEF StartInv
    <2>5. \A v \in Resumed' : v.do = "CreateSave" =>
              /\ obj'[v.who].state = "close"
              /\ \A u \in Resumed' : u.do \in {"SaveRow", "SaveClose"} => u.who # v.who
      BY <1>2, <1>3, <2>1, <2>2 DEF StartInv
    <2>. QED BY <2>3, <2>4, <2>5 DEF StartInv
  <1>5. ASSUME NEW o, o = reg', o # 0
        PROVE  ScanOf(o)' /\ CloseOf(o)' /\ OpenOf(o)'
    <2>1. o \in DOMAIN obj /\ ScanOf(o) /\ CloseOf(o) /\ OpenOf(o)
      BY <1>2, <1>5, RecordFacts DEF TypeInv
    <2>2. CASE o = h
      BY <1>1, <1>2, <1>5, <2>2, HandlingRecords
    <2>3. CASE o # h
      <3>1. obj'[o] = obj[o] /\ \A status : Saves(o, status)' <=> Saves(o, status)
        BY <1>2, <1>3, <2>1, <2>3 DEF Saves
      <3>2. \A s \in DOMAIN sock' : (Live(s)' <=> Live(s)) /\ sock'[s] = sock[s] /\ s \in DOMAIN sock
        BY <1>2 DEF Live
      <3>3. \A u \in Resumed' : u \in Resumed \/ (u.who # o /\ u.do \notin Closes)
        BY <1>2, <1>3, <2>3
      <3>4. ScanOf(o)'
        BY <2>1, <3>1, <3>2, <3>3 DEF ScanOf, Scanned, In
      <3>5. CloseOf(o)'
        BY <1>2, <2>1, <3>1, <3>2, <3>3 DEF CloseOf, ClosesIt, Down, Mute, NoToken
      <3>6. OpenOf(o)'
        BY <1>2, <2>1, <3>1 DEF OpenOf
      <3>. QED BY <3>4, <3>5, <3>6
    <2>. QED BY <2>2, <2>3
  <1>. QED BY <1>4, <1>5, RecordKept

LEMMA OpenRecords ==
    ASSUME TypeInv, ManageInv, TokenInv, RecordInv, NEW t \in Resumed, OpenSocket(t)
    PROVE  RecordInv'
  <1> DEFINE w == t.who
  <1>1. PICK r : Opens(w, r)
    BY OpenEffect
  <1>2. /\ w \in DOMAIN obj /\ t.do = "OpenSocket" /\ t.do \in Opening /\ Turns({t}, {})
        /\ reg' = (IF t.arg = "register" THEN w ELSE reg) /\ row' = row
    BY OpenEffect DEF Opening
  <1>3. Resumed' = Resumed \ {t} /\ \A u \in Resumed : u.do \in Opening /\ u.who = w => u = t
    BY <1>2 DEF TokenInv, Once, Turns
  <1>4. obj[w].queue = <<>> /\ StartInv
    BY <1>2 DEF TokenInv, RecordInv
  <1>5. Loading(t) => Resumed = {t} /\ obj[w].state = "close"
    BY DEF ManageInv, IsLoading
  <1>6. Loading(t) \/ reg' = reg
    BY <1>2 DEF Loading
  <1> HIDE DEF w
  <1>7. /\ DOMAIN sock' = DOMAIN sock \cup {r} /\ sock'[r].owner = w
        /\ \A q \in DOMAIN sock \ {r} : sock'[q] = sock[q]
        /\ \A p \in DOMAIN obj \ {w} : obj'[p] = obj[p]
        /\ obj'[w].state = obj[w].state /\ obj'[w].queue = Append(obj[w].queue, "connecting")
    BY <1>1 DEF Opens
  <1>8. obj'[w].queue = <<"connecting">>
    BY <1>4, <1>7
  <1>9. StartInv'
    <2>1. \A v \in Resumed' : v.do = "CreateSave" => v.who \in DOMAIN obj
      BY <1>3, TokenOwner DEF Opening
    <2>2. \A v \in Resumed' : v.do = "CreateSave" => obj'[v.who].state = obj[v.who].state
      BY <1>7, <2>1
    <2>. QED BY <1>2, <1>3, <1>4, <2>2 DEF StartInv
  <1>10. \A status, o : Saves(o, status)' <=> Saves(o, status)
    BY <1>2, <1>3 DEF Saves
  <1>11. ASSUME NEW o, o = reg', o # 0
         PROVE  ScanOf(o)' /\ CloseOf(o)' /\ OpenOf(o)'
    <2>1. CASE Loading(t)
      <3>1. o = w /\ Resumed' = {} /\ obj'[o].state = "close"
        BY <1>2, <1>3, <1>5, <1>7, <1>11, <2>1 DEF Loading
      <3>2. ~ Scanned(o)'
        BY <1>8, <3>1 DEF Scanned, Saves, In
      <3>. QED BY <3>1, <3>2 DEF ScanOf, CloseOf, OpenOf
    <2>2. CASE ~ Loading(t)
      <3>1. o = reg /\ o \in DOMAIN obj /\ ScanOf(o) /\ CloseOf(o) /\ OpenOf(o)
        BY <1>6, <1>11, <2>2, RecordFacts DEF TypeInv
      <3>2. obj'[o].state = obj[o].state
        BY <1>7, <3>1
      <3>3. OpenOf(o)'
        BY <1>2, <1>10, <3>1, <3>2 DEF OpenOf
      <3>4. CASE o = w
        <4>1. ~ NoToken(o)
          BY <1>2, <3>4 DEF NoToken, w
        <4>2. CloseOf(o)'
          BY <1>3, <3>1, <4>1 DEF CloseOf, ClosesIt, Down
        <4>3. ~ Saves(o, "connecting")
          BY <1>2, <1>11, <3>1, <3>4 DEF ScanOf, Scanned, w
        <4>4. ~ Scanned(o)'
          BY <1>8, <1>10, <3>4, <4>3 DEF Scanned, In
        <4>. QED BY <3>3, <4>2, <4>4 DEF ScanOf
      <3>5. CASE o # w
        <4>1. obj'[o] = obj[o]
          BY <1>7, <3>1, <3>5
        <4>2. \A s \in DOMAIN sock' : sock'[s].owner = o =>
                  s \in DOMAIN sock /\ sock'[s] = sock[s] /\ (Live(s)' <=> Live(s))
          BY <1>7, <3>5 DEF Live
        <4>3. ScanOf(o)'
          BY <1>3, <1>10, <3>1, <4>1, <4>2 DEF ScanOf, Scanned, In
        <4>4. CloseOf(o)'
          BY <1>3, <3>1, <4>1, <4>2 DEF CloseOf, ClosesIt, Down, Mute, NoToken
        <4>. QED BY <3>3, <4>3, <4>4
      <3>. QED BY <3>4, <3>5
    <2>. QED BY <2>1, <2>2
  <1>. QED BY <1>9, <1>11, RecordKept

LEMMA BuildRecords ==
    ASSUME TypeInv, ManageInv, RecordInv, NEW t \in Resumed, CreateGuard(t), row.id = 0
    PROVE  RecordInv'
  <1>1. PICK o, new : Builds(t, o) /\ Turns({t}, new) /\ new = {Task("CreateSave", o, "none")}
    BY GuardEffect
  <1>2. t.do = "CreateGuard" /\ reg' = 0 /\ Managing(t)
    BY GuardEffect DEF Managing, Manages
  <1>3. \A u \in new : u.do = "CreateSave" /\ u.who = o
    BY <1>1 DEF Task
  <1>4. obj'[o].state = "close" /\ (o \in DOMAIN obj => \A u \in Resumed : u.who # o)
    BY <1>1 DEF Builds, Fresh
  <1>5. Resumed' \subseteq Resumed \cup new /\ t \notin Resumed'
    BY <1>1, <1>2, <1>3 DEF ManageInv, Once, Turns
  <1>6. \A u \in Resumed : u.do \notin Closes
    BY <1>2 DEF RecordInv, StartInv
  <1>7. \A u \in Resumed' : u.do \notin Closes
    BY <1>3, <1>5, <1>6 DEF Closes
  <1>8. \A v \in Resumed' : v.do = "CreateSave" => v \in new
    BY <1>2, <1>5 DEF ManageInv, Managing, Manages
  <1>9. \A u \in Resumed' : u.do \in {"SaveRow", "SaveClose"} => u.who # o
    <2>1. \A u \in Resumed : u.do \in {"SaveRow", "SaveClose"} => u.who \in DOMAIN obj
      BY DEF TypeInv, IsTask, OfObject
    <2>. QED BY <1>3, <1>4, <1>5, <2>1
  <1>10. \A v \in Resumed' : v.do = "SaveRow" => v.arg \in {"open", "connecting"}
    BY <1>3, <1>5 DEF RecordInv, StartInv
  <1>11. StartInv'
    BY <1>3, <1>4, <1>7, <1>8, <1>9, <1>10 DEF StartInv
  <1>. QED BY <1>2, <1>11, RecordKept

LEMMA BootRecords ==
    ASSUME TypeInv, Crash \/ Load
    PROVE  RecordInv'
  <1>1. \A t \in Resumed' : t.do = "ReadCreds"
    <2>1. CASE Load
      <3>1. PICK new : Turns({}, new) /\ (new = {} \/ new = {Task("ReadCreds", 1, "register")})
        BY <2>1, LoadEffect
      <3>2. \A t \in new : t.do = "ReadCreds"
        BY <3>1 DEF Task
      <3>. QED BY <2>1, <3>1, <3>2, LoadEffect DEF Turns
    <2>. QED BY <2>1, CrashEffect
  <1>2. StartInv' /\ \A o, status : ~ Saves(o, status)'
    BY <1>1 DEF StartInv, Saves
  <1>3. reg' = 0 \/ (reg' = 1 /\ obj'[1].state = "close" /\ obj'[1].queue = <<>>)
    BY CrashEffect, LoadEffect DEF Fresh
  <1>4. ASSUME NEW o, o = reg', o # 0
        PROVE  ScanOf(o)' /\ CloseOf(o)' /\ OpenOf(o)'
    <2>1. obj'[o].state = "close" /\ obj'[o].queue = <<>>
      BY <1>3, <1>4
    <2>2. ~ Scanned(o)'
      BY <1>2, <2>1 DEF Scanned, In
    <2>3. \A t \in Resumed' : ~ ClosesIt(t, o)
      BY <1>1 DEF ClosesIt, Closes
    <2>4. CloseOf(o)'
      BY <2>3 DEF CloseOf, ClosesIt
    <2>. QED BY <2>1, <2>2, <2>4 DEF ScanOf, OpenOf
  <1>. QED BY <1>2, <1>4, RecordKept

LEMMA StutterRecords ==
    ASSUME RecordInv, UNCHANGED vars
    PROVE  RecordInv'
  <1>1. /\ row' = row /\ reg' = reg /\ obj' = obj /\ sock' = sock /\ tasks' = tasks
    BY DEF vars
  <1>2. StartInv'
    BY <1>1 DEF RecordInv, StartInv, Resumed
  <1>3. ScanOf(reg)'
    BY <1>1 DEF RecordInv, ScanOf, Scanned, Saves, In, Live, Resumed
  <1>4. CloseOf(reg)' /\ OpenOf(reg)'
    BY <1>1 DEF RecordInv, CloseOf, OpenOf, ClosesIt, Down, Mute, NoToken, Saves, Live, Resumed
  <1>. QED BY <1>2, <1>3, <1>4 DEF RecordInv

LEMMA NextRecords ==
    ASSUME Serial, Prompt, IInv, RecordInv, [Next]_vars
    PROVE  RecordInv'
  <1>1. TypeInv /\ IdInv /\ ManageInv /\ ClientInv /\ QueueInv /\ TokenInv /\ LiveInv
    BY DEF IInv
  <1>2. ASSUME NEW t \in Resumed, Step(t)
        PROVE  RecordInv'
    BY <1>1, <1>2, DropRecords, OpenRecords, BuildRecords DEF Step
  <1>. QED BY <1>1, <1>2, NextIsStep, StutterRecords, OutsideRecords, BootRecords, HandleRecords

\* With requests one at a time, and database calls that are shorter than the delay of a
\* reconnection, an instance that is open is open in the table (connectionUpdate, qrcode): no
\* other status is written after that of the opening, since a socket that opens has shown no
\* code, and what closes the row finds the object closed.
PROPOSITION OpenIsRecordedHolds ==
    ASSUME Serial, Prompt
    PROVE  Spec => []OpenIsRecorded
  <1>1. Init => IInv /\ RecordInv
    <2>1. Init => IInv
      BY InitIInv
    <2>2. Init => reg = 0 /\ Resumed = {}
      BY NoTasks DEF Init, Resumed
    <2>3. Init => RecordInv
      BY <2>2 DEF RecordInv, StartInv, ScanOf, CloseOf, OpenOf
    <2>. QED BY <2>1, <2>3
  <1>2. IInv /\ RecordInv /\ [Next]_vars => (IInv /\ RecordInv)'
    BY NextKeeps, NextRecords
  <1>3. RecordInv => OpenIsRecorded
    BY CalmFacts DEF RecordInv, OpenOf, Saves, OpenIsRecorded
  <1>. QED BY <1>1, <1>2, <1>3, PTL DEF Spec
-----------------------------------------------------------------------------
(* No row stays behind without an object, whatever overlaps *)

ToRegister(t) == t.do \in {"ReadCreds", "OpenSocket"} /\ t.arg = "register"

\* A callback that will delete the row, or register what it loads.
Keeps(t) == t.do \in Cleans \/ ToRegister(t)

\* A callback that registers its object.
Registers(t) == t.do = "CreateSave" \/ ToRegister(t)

OrphanInv ==
    /\ IsABag(tasks) /\ IsList(obj)
    /\ DOMAIN row = {"id", "status"}
    /\ DOMAIN count = {"creates", "asks", "closes", "crashes", "faults", "expired"}
    /\ count.faults \in Nat
    /\ \A t \in Resumed : Registers(t) => t.who # 0
    /\ up /\ row.id # 0 /\ count.faults = 0 => reg # 0 \/ \E t \in Resumed : Keeps(t)

\* The sequence of the objects keeps its length.
ObjectsStay == DOMAIN obj' = DOMAIN obj /\ obj' = [o \in DOMAIN obj' |-> obj'[o]]

LEMMA ObjectsStayList ==
    ASSUME IsList(obj), ObjectsStay
    PROVE  IsList(obj')
  BY FunctionIsList DEF ObjectsStay, IsList

SameFaults == DOMAIN count' = DOMAIN count /\ count'.faults = count.faults
SameRow == DOMAIN row' = DOMAIN row /\ row'.id = row.id

\* What a step must do.
Forgets(gone, new) ==
    /\ Turns(gone, new) /\ up' = up
    /\ ObjectsStay \/ IsList(obj')
    /\ DOMAIN row' = {"id", "status"}
    /\ SameFaults
    /\ \A u \in new : Registers(u) => u.who # 0
    /\ \/ reg' # 0 \/ row'.id = 0 \/ \E u \in new : Keeps(u)
       \/ SameRow /\ reg' = reg /\ \A u \in gone : ~ Keeps(u)

LEMMA ForgetsNone ==
    ASSUME OrphanInv, NEW gone, NEW new, Forgets(gone, new)
    PROVE  OrphanInv'
  <1>1. IsABag(tasks') /\ IsList(obj') /\ DOMAIN row' = {"id", "status"}
    BY ObjectsStayList DEF OrphanInv, Forgets, Turns
  <1>2. DOMAIN count' = DOMAIN count /\ count'.faults = count.faults
    BY DEF Forgets, SameFaults
  <1>3. \A t \in Resumed' : Registers(t) => t.who # 0
    BY DEF OrphanInv, Forgets, Turns
  <1>4. new \subseteq Resumed' /\ Resumed \ gone \subseteq Resumed'
    BY DEF Forgets, Turns
  <1>5. up' /\ row'.id # 0 /\ count'.faults = 0 => reg' # 0 \/ \E t \in Resumed' : Keeps(t)
    BY <1>2, <1>4 DEF OrphanInv, Forgets, SameRow
  <1>. QED BY <1>1, <1>2, <1>3, <1>5 DEF OrphanInv

\* The callbacks that neither register nor clean are told by what they do.
Plainly == {"CreateGuard", "CreateConfigure", "Logout", "RemoveCreds", "Remove", "Refuse",
            "SaveRow", "SaveCreds", "SaveClose", "LoggedOut", "CleanUpFind", "CleanUpUpdate",
            "CleanUpSession", "Reconnect", "ExpireLogout"}

LEMMA PlainTask ==
    ASSUME NEW do, NEW who, NEW arg, do \in Plainly \/ (do \in {"ReadCreds", "OpenSocket"} /\ arg # "register")
    PROVE  ~ Keeps(Task(do, who, arg)) /\ ~ Registers(Task(do, who, arg))
  BY DEF Task, Keeps, Registers, ToRegister, Plainly, Cleans

LEMMA Grows ==
    ASSUME OrphanInv, NEW new, Add(new) \/ (UNCHANGED tasks /\ new = {})
    PROVE  Turns({}, new)
  BY AddTurns, NothingTurns DEF OrphanInv

LEMMA Goes ==
    ASSUME OrphanInv, NEW t \in Resumed, NEW new, Replace(t, new)
    PROVE  Turns({t}, new)
  BY ReplaceTurns DEF OrphanInv

LEMMA EndedSame ==
    ASSUME IsList(obj), NEW s, NEW e, obj' = Ended(s, e)
    PROVE  ObjectsStay
  <1>1. obj = [o \in DOMAIN obj |-> obj[o]]
    BY DEF IsList
  <1>. QED BY <1>1 DEF Ended, ObjectsStay

LEMMA ExceptStays ==
    ASSUME IsList(obj), NEW o, NEW v, NEW p, NEW w,
           \/ obj' = [obj EXCEPT ![o] = v]
           \/ obj' = [[obj EXCEPT ![o] = v] EXCEPT ![p] = w]
    PROVE  ObjectsStay
  <1>1. obj = [i \in DOMAIN obj |-> obj[i]]
    BY DEF IsList
  <1>. QED BY <1>1 DEF ObjectsStay

LEMMA EndedList ==
    ASSUME IsList(obj), NEW s, NEW e, NEW objs, objs = Ended(s, e)
    PROVE  DOMAIN objs = DOMAIN obj /\ objs = [o \in DOMAIN obj |-> objs[o]]
  <1>1. obj = [o \in DOMAIN obj |-> obj[o]]
    BY DEF IsList
  <1>. QED BY <1>1 DEF Ended

LEMMA TupleIsList ==
    /\ IsList(<<>>)
    /\ \A e : IsList(<<e>>) /\ Len(<<e>>) = 1
  <1>1. <<>> \in Seq({}) /\ \A e : <<e>> \in Seq({e}) /\ Len(<<e>>) = 1
    OBVIOUS
  <1>. QED BY <1>1, SeqIsList

\* Rows keep their id, whatever their status.
LEMMA StatusOnly ==
    ASSUME OrphanInv, NEW s, row' = [row EXCEPT !.status = s] \/ row' = row
    PROVE  SameRow
  BY DEF OrphanInv, SameRow

\* What comes from outside, or from a socket: nothing begins that registers.
LEMMA BeginForgetsNone ==
    ASSUME OrphanInv, SameFaults, ObjectsStay, UNCHANGED <<row, reg, up>>,
           \/ UNCHANGED tasks
           \/ \E new : Add(new) /\ \A u \in new : ~ Registers(u)
    PROVE  OrphanInv'
  <1>1. CASE UNCHANGED tasks
    <2>1. Turns({}, {})
      BY <1>1, Grows
    <2>2. Forgets({}, {})
      BY <2>1 DEF Forgets, OrphanInv, SameRow
    <2>. QED BY <2>2, ForgetsNone
  <1>2. ASSUME NEW new, Add(new), \A u \in new : ~ Registers(u)
        PROVE  OrphanInv'
    <2>1. Turns({}, new)
      BY <1>2, Grows
    <2>2. Forgets({}, new)
      BY <1>2, <2>1 DEF Forgets, OrphanInv, SameRow
    <2>. QED BY <2>2, ForgetsNone
  <1>. QED BY <1>1, <1>2

LEMMA RequestsForgetNone ==
    ASSUME OrphanInv, Requests \/ Expire
    PROVE  OrphanInv'
  <1>1. ASSUME Asked
        PROVE  SameFaults
    BY <1>1 DEF OrphanInv, Asked, Count, SameFaults
  <1>3. UNCHANGED obj => ObjectsStay
    BY DEF OrphanInv, IsList, ObjectsStay
  <1>4. CASE AskCreate
    <2>1. SameFaults
      BY <1>4 DEF OrphanInv, AskCreate, Count, SameFaults
    <2>2. ~ Registers(Task("CreateGuard", count.creates + 1, "none"))
      BY PlainTask DEF Plainly
    <2>. QED BY BeginForgetsNone, <1>3, <1>4, <2>1, <2>2 DEF AskCreate
  <1>5. CASE Connect
    <2>1. ~ Registers(Task("ReadCreds", reg, "none"))
      BY PlainTask
    <2>. QED BY <1>1, BeginForgetsNone, <1>3, <1>5, <2>1 DEF Connect
  <1>6. CASE Restart
    <2>1. ObjectsStay
      BY <1>6, EndedSame DEF Restart, OrphanInv
    <2>. QED BY <1>1, BeginForgetsNone, <1>6, <2>1 DEF Restart
  <1>7. ASSUME NEW then, StartLogout(then)
        PROVE  ObjectsStay /\ \E new : Add(new) /\ \A u \in new : ~ Registers(u)
    <2>1. ObjectsStay
      BY <1>7 DEF StartLogout, ObjectsStay, OrphanInv, IsList
    <2>2. ~ Registers(Task("Logout", reg, then))
      BY PlainTask DEF Plainly
    <2>. QED BY <1>7, <2>1, <2>2 DEF StartLogout
  <1>8. ~ Registers(Task("Remove", 0, "none")) /\ ~ Registers(Task("ExpireLogout", reg, "none"))
    BY PlainTask DEF Plainly
  <1>9. CASE Logout \/ Delete
    <2>1. SameFaults /\ UNCHANGED <<row, reg, up>>
      BY <1>1, <1>9 DEF Logout, Delete
    <2>2. \/ \E then : StartLogout(then)
          \/ Add({Task("Remove", 0, "none")}) /\ UNCHANGED obj
      BY <1>9 DEF Logout, Delete
    <2>. QED BY BeginForgetsNone, <1>3, <1>7, <1>8, <2>1, <2>2
  <1>10. CASE Expire
    <2>1. SameFaults
      BY <1>10 DEF OrphanInv, Expire, Count, SameFaults
    <2>2. \/ UNCHANGED tasks \/ Add({Task("ExpireLogout", reg, "none")})
          \/ Add({Task("Remove", 0, "none")})
      BY <1>10 DEF Expire
    <2>. QED BY BeginForgetsNone, <1>3, <1>8, <1>10, <2>1, <2>2 DEF Expire
  <1>. QED BY <1>4, <1>5, <1>6, <1>9, <1>10 DEF Requests

LEMMA EventsForgetNone ==
    ASSUME OrphanInv, SocketEvent \/ \E o \in DOMAIN obj : HandleEvent(o)
    PROVE  OrphanInv'
  <1>1. IsList(obj)
    BY DEF OrphanInv
  <1>2. UNCHANGED count => SameFaults
    BY DEF SameFaults
  <1>3. ASSUME NEW s, NEW e, Emit(s, e)
        PROVE  ObjectsStay
    <2>1. PICK v : obj' = [obj EXCEPT ![sock[s].owner] = v]
      BY <1>3 DEF Emit
    <2>. QED BY <1>1, <2>1, ExceptStays
  <1>4. ASSUME NEW s, Qr(s) \/ Pair(s) \/ Answer(s) \/ Close(s) \/ LogOutByPhone(s)
        PROVE  OrphanInv'
    <2>1. SameFaults
      BY <1>2, <1>4 DEF Qr, Pair, Answer, Open, Reject, Close, LogOutByPhone, Count, SameFaults, OrphanInv
    <2>2. UNCHANGED <<row, reg, tasks, up>>
      BY <1>4 DEF Qr, Pair, Answer, Open, Reject, Close, LogOutByPhone
    <2>3. ASSUME Pair(s)
          PROVE  ObjectsStay
      <3>1. PICK v, w : obj' = [[obj EXCEPT ![sock[s].owner] = v] EXCEPT ![sock[s].owner] = w]
        BY <2>3 DEF Pair
      <3>. QED BY ONLY <1>1, <3>1, ExceptStays
    <2>4. ASSUME Qr(s) \/ Answer(s) \/ Close(s) \/ LogOutByPhone(s)
          PROVE  ObjectsStay
      BY <1>3, <2>4 DEF Qr, Answer, Open, Reject, Close, LogOutByPhone
    <2>5. ObjectsStay
      BY <1>4, <2>3, <2>4
    <2>6. UNCHANGED <<row, reg, up>> /\ UNCHANGED tasks
      BY <2>2
    <2>. QED BY ONLY OrphanInv, <2>1, <2>5, <2>6, BeginForgetsNone
  <1>5. ASSUME NEW o, HandleEvent(o)
        PROVE  OrphanInv'
    <2>1. UNCHANGED <<row, reg, up, count>>
      BY <1>5 DEF HandleEvent, Dequeue, HandleQr, HandleCreds, HandleConnecting, HandleOpen, HandleClose
    <2>2. ObjectsStay
      <3>1. ASSUME NEW q, obj' = Handled(o) \/ obj' = [Handled(o) EXCEPT ![o].qr = q]
                         \/ obj' = [Handled(o) EXCEPT ![o].state = q]
                         \/ obj' = [Handled(o) EXCEPT ![o].state = q, ![o].wuid = TRUE]
            PROVE  ObjectsStay
        BY <3>1 DEF Handled, ObjectsStay, OrphanInv, IsList
      <3>2. CASE Dequeue(o)
        BY <3>2 DEF Dequeue, ObjectsStay, OrphanInv, IsList
      <3>3. CASE HandleQr(o)
        <4>1. PICK q : q = Handled(o)[o].qr + 1
          OBVIOUS
        <4>. QED BY <3>1, <3>3, <4>1 DEF HandleQr
      <3>4. CASE HandleCreds(o) \/ HandleConnecting(o)
        BY <3>1, <3>4 DEF HandleCreds, HandleConnecting
      <3>5. CASE HandleOpen(o)
        BY <3>1, <3>5 DEF HandleOpen
      <3>6. CASE HandleClose(o, "closed") \/ HandleClose(o, "out")
        BY <3>1, <3>6 DEF HandleClose
      <3>. QED BY <1>5, <3>2, <3>3, <3>4, <3>5, <3>6 DEF HandleEvent
    <2>3. UNCHANGED tasks \/ \E new : Add(new) /\ \A u \in new : ~ Registers(u)
      <3>1. \A who, arg : /\ ~ Registers(Task("Refuse", who, arg)) /\ ~ Registers(Task("SaveRow", who, arg))
                          /\ ~ Registers(Task("SaveCreds", who, arg))
                          /\ ~ Registers(Task("Reconnect", who, arg))
                          /\ ~ Registers(Task("SaveClose", who, arg))
        BY PlainTask DEF Plainly
      <3>2. CASE UNCHANGED tasks
        BY <3>2
      <3>3. CASE Add({Task("Refuse", o, "none")})
        BY <3>1, <3>3
      <3>4. ASSUME NEW s, Add({Task("SaveRow", o, s)})
            PROVE  \E new : Add(new) /\ \A u \in new : ~ Registers(u)
        BY <3>1, <3>4
      <3>5. CASE Add({Task("SaveCreds", o, obj[o].auth)})
        BY <3>1, <3>5
      <3>6. CASE Add({Task("Reconnect", o, "close")}) \/ Add({Task("SaveClose", o, "close")})
        BY <3>1, <3>6
      <3>7. \/ UNCHANGED tasks \/ Add({Task("Refuse", o, "none")})
            \/ Add({Task("SaveRow", o, "connecting")}) \/ Add({Task("SaveRow", o, "open")})
            \/ Add({Task("SaveCreds", o, obj[o].auth)})
            \/ Add({Task("Reconnect", o, "close")}) \/ Add({Task("SaveClose", o, "close")})
        BY <1>5 DEF HandleEvent, Dequeue, HandleQr, HandleCreds, HandleConnecting, HandleOpen, HandleClose
      <3>. QED BY <3>2, <3>3, <3>4, <3>5, <3>6, <3>7
    <2>. QED BY <1>2, <2>1, <2>2, <2>3, BeginForgetsNone
  <1>. QED BY <1>4, <1>5 DEF SocketEvent

\* The callbacks of a creation, of a deletion, and of a connection.
LEMMA CallbacksForgetNone ==
    ASSUME OrphanInv, NEW t \in Resumed,
           \/ CreateGuard(t) \/ CreateSave(t) \/ CreateConfigure(t) \/ CreateFails(t)
           \/ ReadCreds(t) \/ OpenSocket(t) \/ ConnectFails(t) \/ Reconnect(t)
           \/ LogoutClient(t) \/ RemoveCreds(t) \/ ExpireLogout(t) \/ LoggedOut(t)
           \/ SaveRow(t) \/ SaveCreds(t) \/ SaveClose(t) \/ Refuse(t)
           \/ Remove(t) \/ CleanUpFind(t) \/ CleanUpUpdate(t) \/ CleanUpSession(t)
           \/ CleanStoreFind(t) \/ CleanStoreRows(t) \/ CleanStoreRow(t)
    PROVE  OrphanInv'
  <1>1. ASSUME NEW new, Replace(t, new), \A u \in new : Registers(u) => u.who # 0,
               UNCHANGED <<up, count>>, ObjectsStay \/ IsList(obj'), DOMAIN row' = {"id", "status"},
               \/ reg' # 0 \/ row'.id = 0 \/ \E u \in new : Keeps(u)
               \/ SameRow /\ reg' = reg /\ ~ Keeps(t)
        PROVE  OrphanInv'
    <2>1. Turns({t}, new)
      BY <1>1, Goes
    <2>2. Forgets({t}, new)
      BY <1>1, <2>1 DEF Forgets, SameFaults
    <2>. QED BY <2>2, ForgetsNone
  <1>2. UNCHANGED obj => ObjectsStay
    BY DEF OrphanInv, IsList, ObjectsStay
  <1>3. UNCHANGED row => SameRow /\ DOMAIN row' = {"id", "status"}
    BY DEF OrphanInv, SameRow
  <1>4. \A do, who, arg : do \in Plainly => ~ Keeps(Task(do, who, arg)) /\ ~ Registers(Task(do, who, arg))
    BY PlainTask
  <1>5. t.do \in Plainly => ~ Keeps(t)
    BY DEF Keeps, ToRegister, Plainly, Cleans
  \* What leaves row and registry alone, and begins nothing that registers.
  <1>6. ASSUME NEW new, Replace(t, new), \A u \in new : ~ Registers(u), ~ Keeps(t),
               UNCHANGED <<row, reg, up, count>>, ObjectsStay
        PROVE  OrphanInv'
    BY <1>1, <1>3, <1>6
  <1>7. CASE CreateGuard(t)
    <2>1. ~ Keeps(t)
      BY <1>5, <1>7 DEF CreateGuard, Plainly
    <2>2. CASE row.id = 0
      <3>1. PICK o : o = Slot(FreeObjects, obj)
        OBVIOUS
      <3>2. reg' = 0 /\ obj' = Put(obj, o, Fresh(t.who)) /\ Replace(t, {Task("CreateSave", o, "none")})
        BY <1>7, <2>2, <3>1 DEF CreateGuard
      <3>3. FreeObjects \subseteq DOMAIN obj /\ IsList(obj)
        BY DEF FreeObjects, OrphanInv
      <3>4. o # 0 /\ IsList(obj')
        BY <3>1, <3>2, <3>3, SlotFacts
      <3>5. \A u \in {Task("CreateSave", o, "none")} : u.who # 0
        BY <3>4 DEF Task
      <3>6. row'.id = 0 /\ UNCHANGED <<row, up, count>>
        BY <1>7, <2>2 DEF CreateGuard
      <3>. QED BY <1>1, <1>3, <3>2, <3>4, <3>5, <3>6
    <2>3. CASE row.id # 0
      BY <1>2, <1>6, <1>7, <2>1, <2>3 DEF CreateGuard
    <2>. QED BY <2>2, <2>3
  <1>8. CASE CreateSave(t)
    <2>1. t.who # 0
      BY <1>8 DEF OrphanInv, CreateSave, Registers
    <2>2. ~ Registers(Task("CreateConfigure", t.who, "none"))
      BY <1>4 DEF Plainly
    <2>3. DOMAIN row' = {"id", "status"}
      BY <1>8 DEF CreateSave, OrphanInv
    <2>. QED BY <1>1, <1>2, <1>8, <2>1, <2>2, <2>3 DEF CreateSave
  <1>9. CASE CreateConfigure(t) \/ CreateFails(t)
    <2>1. ~ Keeps(t)
      BY <1>5, <1>9 DEF CreateConfigure, CreateFails, Plainly
    <2>2. ~ Registers(Task("ReadCreds", t.who, "create")) /\ ~ Registers(Task("Remove", 0, "none"))
      BY <1>4, PlainTask DEF Plainly
    <2>3. \E new : Replace(t, new) /\ \A u \in new : ~ Registers(u)
      BY <1>9, <2>2 DEF CreateConfigure, CreateFails
    <2>4. UNCHANGED <<row, reg, up, count, obj>>
      BY <1>9 DEF CreateConfigure, CreateFails
    <2>. QED BY <1>2, <1>6, <2>1, <2>3, <2>4
  <1>10. CASE ReadCreds(t)
    <2>1. ObjectsStay
      BY <1>10 DEF ReadCreds, ObjectsStay, OrphanInv, IsList
    <2>2. Replace(t, {Task("OpenSocket", t.who, t.arg)}) /\ UNCHANGED <<row, reg, up, count>>
          /\ t.do = "ReadCreds"
      BY <1>10 DEF ReadCreds
    <2>3. CASE t.arg = "register"
      <3>1. t.who # 0
        BY <2>2, <2>3 DEF OrphanInv, Registers, ToRegister
      <3>2. PICK u : u = Task("OpenSocket", t.who, t.arg)
        OBVIOUS
      <3>3. u.who # 0 /\ Keeps(u)
        BY <2>3, <3>1, <3>2 DEF Task, Keeps, ToRegister
      <3>. QED BY <1>1, <1>3, <2>1, <2>2, <3>2, <3>3
    <2>4. CASE t.arg # "register"
      <3>1. ~ Registers(Task("OpenSocket", t.who, t.arg)) /\ ~ Keeps(t)
        BY <2>2, <2>4, PlainTask DEF Keeps, ToRegister, Cleans
      <3>. QED BY <1>6, <2>1, <2>2, <3>1
    <2>. QED BY <2>3, <2>4
  <1>11. CASE OpenSocket(t)
    <2>1. ObjectsStay
      BY <1>11 DEF OpenSocket, ObjectsStay, OrphanInv, IsList
    <2>2. /\ Replace(t, {}) /\ UNCHANGED <<row, up, count>> /\ t.do = "OpenSocket"
          /\ reg' = IF t.arg = "register" THEN t.who ELSE reg
      BY <1>11 DEF OpenSocket
    <2>3. CASE t.arg = "register"
      <3>1. t.who # 0
        BY <2>2, <2>3 DEF OrphanInv, Registers, ToRegister
      <3>. QED BY <1>1, <1>3, <2>1, <2>2, <2>3, <3>1
    <2>4. CASE t.arg # "register"
      <3>1. ~ Keeps(t)
        BY <2>2, <2>4 DEF Keeps, ToRegister, Cleans
      <3>. QED BY <1>6, <2>1, <2>2, <2>4, <3>1
    <2>. QED BY <2>3, <2>4
  <1>12. CASE ConnectFails(t)
    <2>1. PICK new : Replace(t, new) /\ (new = {} \/ new = {Task("Remove", 0, "none")})
      BY <1>12 DEF ConnectFails
    <2>2. \A u \in new : ~ Registers(u)
      BY <1>4, <2>1 DEF Plainly
    <2>3. Turns({t}, new)
      BY <2>1, Goes
    <2>4. /\ DOMAIN count' = DOMAIN count /\ count'.faults = count.faults + 1
          /\ UNCHANGED <<row, obj>>
      BY <1>12 DEF ConnectFails, Count, OrphanInv
    <2>5. \A u \in Resumed' : Registers(u) => u.who # 0
      BY <2>2, <2>3 DEF Turns, OrphanInv
    <2>6. count'.faults \in Nat /\ count'.faults # 0
      BY <2>4 DEF OrphanInv
    <2>. QED BY <2>3, <2>4, <2>5, <2>6 DEF OrphanInv, Turns
  <1>13. CASE LogoutClient(t) \/ ExpireLogout(t)
    <2>1. ~ Keeps(t) /\ UNCHANGED <<row, reg, up, count>>
      BY <1>5, <1>13 DEF LogoutClient, ExpireLogout, Plainly
    <2>2. ObjectsStay
      BY <1>2, <1>13, EndedSame DEF LogoutClient, ExpireLogout, OrphanInv
    <2>3. ~ Registers(Task("RemoveCreds", t.who, t.arg)) /\ ~ Registers(Task("Remove", 0, "none"))
      BY <1>4 DEF Plainly
    <2>4. \/ Replace(t, {}) \/ Replace(t, {Task("RemoveCreds", t.who, t.arg)})
          \/ Replace(t, {Task("Remove", 0, "none")})
      BY <1>13 DEF LogoutClient, ExpireLogout
    <2>. QED BY <1>6, <2>1, <2>2, <2>3, <2>4
  <1>14. CASE RemoveCreds(t) \/ Reconnect(t) \/ LoggedOut(t)
    <2>1. ~ Keeps(t) /\ UNCHANGED <<row, reg, up, count, obj>>
      BY <1>5, <1>14 DEF RemoveCreds, Reconnect, LoggedOut, Plainly
    <2>2. /\ ~ Registers(Task("Remove", 0, "none")) /\ ~ Registers(Task("CleanUpFind", 0, "none"))
          /\ ~ Registers(Task("ReadCreds", t.who, "none"))
      BY <1>4, PlainTask DEF Plainly
    <2>3. \/ Replace(t, {}) \/ Replace(t, {Task("Remove", 0, "none")})
          \/ Replace(t, {Task("CleanUpFind", 0, "none")}) \/ Replace(t, {Task("ReadCreds", t.who, "none")})
      BY <1>14 DEF RemoveCreds, Reconnect, LoggedOut
    <2>. QED BY <1>2, <1>6, <2>1, <2>2, <2>3
  <1>15. CASE Refuse(t)
    <2>a. obj = [o \in DOMAIN obj |-> obj[o]]
      BY DEF OrphanInv, IsList
    <2>b. PICK objs : /\ objs = obj \/ objs = Ended(obj[reg].client, "out")
                      /\ \/ obj' = [objs EXCEPT ![t.who].ending = TRUE]
                         \/ obj' = [[objs EXCEPT ![t.who].ending = TRUE]
                                     EXCEPT ![reg].qr = 0, ![reg].state = "close"]
      BY <1>15, ZenonT(60) DEF Refuse
    <2>c. DOMAIN objs = DOMAIN obj /\ objs = [o \in DOMAIN obj |-> objs[o]]
      <3>1. CASE objs = obj
        BY <2>a, <3>1
      <3>2. CASE objs = Ended(obj[reg].client, "out")
        <4>1. IsList(obj)
          BY DEF OrphanInv
        <4>. QED BY <3>2, <4>1, EndedList
      <3>. QED BY <2>b, <3>1, <3>2
    <2>1. ObjectsStay
      BY <2>b, <2>c DEF ObjectsStay
    <2>2. t.do = "Refuse" /\ Replace(t, {}) /\ UNCHANGED <<row, reg, up, count>>
      BY <1>15, ZenonT(60) DEF Refuse
    <2>3. ~ Keeps(t)
      BY <1>5, <2>2 DEF Plainly
    <2>. QED BY <1>6, <2>1, <2>2, <2>3
  <1>16. CASE SaveRow(t) \/ SaveCreds(t) \/ SaveClose(t)
    <2>1. ~ Keeps(t) /\ UNCHANGED <<reg, up, count>>
      BY <1>5, <1>16 DEF SaveRow, SaveCreds, SaveClose, Plainly
    <2>2. SameRow
      BY <1>16, StatusOnly DEF SaveRow, SaveCreds, SaveClose
    <2>3. ObjectsStay
      BY <1>2, <1>16, EndedSame DEF SaveRow, SaveCreds, SaveClose, OrphanInv
    <2>4. ~ Registers(Task("LoggedOut", 0, "none"))
      BY <1>4 DEF Plainly
    <2>5. Replace(t, {}) \/ Replace(t, {Task("LoggedOut", 0, "none")})
      BY <1>16 DEF SaveRow, SaveCreds, SaveClose
    <2>6. DOMAIN row' = {"id", "status"}
      BY <2>2 DEF SameRow, OrphanInv
    <2>. QED BY <1>1, <2>1, <2>2, <2>3, <2>4, <2>5, <2>6
  <1>17. CASE Remove(t)
    <2>1. PICK u : u = Task("CleanStoreFind", 0, "none")
      OBVIOUS
    <2>2. Keeps(u) /\ ~ Registers(u)
      BY <2>1 DEF Task, Keeps, Cleans, Registers, ToRegister
    <2>3. ~ Registers(Task("CleanUpFind", 0, "none"))
      BY <1>4 DEF Plainly
    <2>. QED BY <1>1, <1>2, <1>3, <1>17, <2>1, <2>2, <2>3 DEF Remove
  <1>18. CASE CleanUpFind(t) \/ CleanUpSession(t)
    <2>1. ~ Registers(Task("CleanUpUpdate", 0, "none")) /\ ~ Keeps(t)
      BY <1>4, <1>5, <1>18 DEF CleanUpFind, CleanUpSession, Plainly
    <2>. QED BY <1>2, <1>6, <1>18, <2>1 DEF CleanUpFind, CleanUpSession
  <1>19. CASE CleanUpUpdate(t)
    <2>1. ~ Keeps(t) /\ ~ Registers(Task("CleanUpSession", row.id, "none"))
      BY <1>4, <1>5, <1>19 DEF CleanUpUpdate, Plainly
    <2>2. SameRow
      BY <1>19, StatusOnly DEF CleanUpUpdate
    <2>3. DOMAIN row' = {"id", "status"}
      BY <2>2 DEF SameRow, OrphanInv
    <2>. QED BY <1>1, <1>2, <1>19, <2>1, <2>2, <2>3 DEF CleanUpUpdate
  <1>20. CASE CleanStoreFind(t) \/ CleanStoreRows(t)
    <2>1. \A who : Keeps(Task("CleanStoreRows", who, "none")) /\ ~ Registers(Task("CleanStoreRows", who, "none"))
                   /\ Keeps(Task("CleanStoreRow", who, "none")) /\ ~ Registers(Task("CleanStoreRow", who, "none"))
      BY DEF Task, Keeps, Cleans, Registers, ToRegister
    <2>2. UNCHANGED <<row, reg, up, count, obj>>
      BY <1>20 DEF CleanStoreFind, CleanStoreRows
    <2>3. CASE CleanStoreFind(t) /\ row.id = 0
      BY <1>1, <1>2, <1>3, <2>2, <2>3 DEF CleanStoreFind
    <2>4. CASE CleanStoreFind(t) /\ row.id # 0
      BY <1>1, <1>2, <1>3, <2>1, <2>2, <2>4 DEF CleanStoreFind
    <2>5. CASE CleanStoreRows(t)
      BY <1>1, <1>2, <1>3, <2>1, <2>2, <2>5 DEF CleanStoreRows
    <2>. QED BY <1>20, <2>3, <2>4, <2>5
  <1>21. CASE CleanStoreRow(t)
    <2>1. row'.id = 0 /\ DOMAIN row' = {"id", "status"}
      BY <1>21 DEF CleanStoreRow, NoRow
    <2>. QED BY <1>1, <1>2, <1>21, <2>1 DEF CleanStoreRow
  <1>. QED BY <1>7, <1>8, <1>9, <1>10, <1>11, <1>12, <1>13, <1>14, <1>15, <1>16, <1>17, <1>18,
              <1>19, <1>20, <1>21

LEMMA BootForgetsNone ==
    ASSUME OrphanInv, Crash \/ Load
    PROVE  OrphanInv'
  <1>1. DOMAIN count' = DOMAIN count /\ count'.faults = count.faults /\ UNCHANGED row
    BY DEF OrphanInv, Crash, Load, Count
  <1>2. IsList(<<>>) /\ \A e : IsList(<<e>>) /\ Len(<<e>>) = 1
    BY TupleIsList
  <1>3. CASE Crash
    <2>1. IsABag(tasks') /\ Resumed' = {} /\ ~ up' /\ obj' = <<>>
      BY <1>3, NoTasks DEF Crash, Resumed
    <2>2. IsList(obj')
      BY <1>2, <2>1, Zenon
    <2>. QED BY <1>1, <2>1, <2>2 DEF OrphanInv
  <1>4. CASE Load
    <2>1. IsList(obj')
      BY <1>2, <1>4 DEF Load
    <2>2. CASE row.id = 0
      <3>1. Turns({}, {})
        BY <1>4, <2>2, Grows DEF Load
      <3>. QED BY <1>1, <2>1, <2>2, <3>1 DEF OrphanInv, Turns
    <2>3. CASE row.id # 0 /\ Add({Task("ReadCreds", 1, "register")})
      <3>1. PICK u : u = Task("ReadCreds", 1, "register")
        OBVIOUS
      <3>2. Keeps(u) /\ u.who # 0
        BY <3>1 DEF Task, Keeps, ToRegister
      <3>3. Turns({}, {u})
        BY <2>3, <3>1, Grows
      <3>. QED BY <1>1, <2>1, <3>2, <3>3 DEF OrphanInv, Turns
    <2>4. CASE row.id # 0 /\ UNCHANGED tasks /\ reg' = Len(obj')
      <3>1. reg' # 0
        BY <1>2, <1>4, <2>4 DEF Load
      <3>2. Turns({}, {})
        BY <2>4, Grows
      <3>. QED BY <1>1, <2>1, <3>1, <3>2 DEF OrphanInv, Turns
    <2>. QED BY <1>4, <2>2, <2>3, <2>4 DEF Load
  <1>. QED BY <1>3, <1>4

\* However creations, requests, the deletion timeout, events and crashes overlap, and for any number
\* of them: when nothing is in flight every row has its object, unless an attempt to connect has
\* thrown (createInstance, the listener of remove.instance, loadInstance). A row without an object
\* has a callback that will delete it, or one that will register what it loads.
THEOREM NoOrphanRowHolds == Spec => []NoOrphanRow
  <1>1. Init => OrphanInv
    <2> SUFFICES ASSUME Init PROVE OrphanInv
      OBVIOUS
    <2>1. IsABag(tasks) /\ Resumed = {}
      BY NoTasks DEF Init, Resumed
    <2>2. IsList(obj)
      BY TupleIsList DEF Init
    <2>. QED BY <2>1, <2>2 DEF Init, OrphanInv, NoRow
  <1>2. OrphanInv /\ [Next]_vars => OrphanInv'
    <2> SUFFICES ASSUME OrphanInv, [Next]_vars PROVE OrphanInv'
      OBVIOUS
    <2>1. CASE UNCHANGED vars
      BY <2>1 DEF vars, OrphanInv, Resumed, Keeps, Registers, ToRegister
    <2>2. CASE Next
      <3>1. \/ Requests \/ Expire \/ SocketEvent \/ \E o \in DOMAIN obj : HandleEvent(o)
            \/ Crash \/ Load \/ UNCHANGED vars
            \/ CreateStep \/ ConnectStep \/ LogoutStep \/ SaveStep \/ CleanStep
        BY <2>2 DEF Next, Idle
      <3>2. CASE CreateStep \/ ConnectStep
        BY <3>2, CallbacksForgetNone DEF CreateStep, ConnectStep
      <3>3. CASE LogoutStep \/ SaveStep
        BY <3>3, CallbacksForgetNone DEF LogoutStep, SaveStep
      <3>4. CASE CleanStep
        BY <3>4, CallbacksForgetNone DEF CleanStep
      <3>. QED BY <2>1, <3>1, <3>2, <3>3, <3>4, RequestsForgetNone, EventsForgetNone, BootForgetsNone
    <2>. QED BY <2>1, <2>2
  <1>3. OrphanInv => NoOrphanRow
    <2> SUFFICES ASSUME OrphanInv, Calm, row.id # 0, count.faults = 0 PROVE reg # 0
      BY DEF NoOrphanRow
    <2>1. Resumed = {} /\ up
      BY NoTasks DEF Calm, Resumed
    <2>. QED BY <2>1 DEF OrphanInv
  <1>. QED BY <1>1, <1>2, <1>3, PTL DEF Spec
=============================================================================
