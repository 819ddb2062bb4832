---------------------------- MODULE BotPipeline ----------------------------
(***************************************************************************)
(* The message pipeline of evo-bot-runtime for ONE contact+conversation    *)
(* pair: every Redis key and every in-memory entry carries the pair, so    *)
(* two pairs share nothing but the order in which a poller visits them.    *)
(*                                                                         *)
(* One action is one call on Redis, on the sync.Map of entries, on the AI  *)
(* backend or on the postback URL; between two of them any other           *)
(* goroutine, of the same replica or of another one, may run.  The actors: *)
(*   - an event: the HTTP handler and the Process goroutine it starts;     *)
(*   - an instance (replica): its Start recovery and its poller;           *)
(*   - a run: the goroutines of the AI stage and of the dispatch stage of  *)
(*     one launch.                                                         *)
(* MaxStops, MaxFaults, MaxCancels, MaxParts and MaxRuns are bounds.       *)
(***************************************************************************)
EXTENDS Naturals, Sequences

CONSTANTS
    Events,      \* the messages the CRM posts for the pair
    Instances,   \* the replicas that share the Redis
    Skip,        \* the events whose DebounceTime is 0
    None,        \* no event, no entry, no holder
    MaxRuns,     \* launches of the AI stage
    MaxParts,    \* most parts an answer is segmented into
    MaxStops,    \* how often each replica may stop
    MaxFaults,   \* Redis calls that may return an error
    MaxCancels,  \* calls of Cancel
    Serial,      \* TRUE: an event is posted only while nothing is in flight
    Prompt       \* TRUE: a lock is released before its TTL of 8 s, which
                 \* nothing renews, has passed

Actors == Events \cup Instances

ASSUME ActorsAssumption ==
    /\ Skip \subseteq Events
    /\ Events \cap Instances = {}
    /\ None \notin Actors
ASSUME BoundsAssumption ==
    /\ MaxParts \in Nat \ {0}
    /\ {MaxRuns, MaxFaults, MaxCancels} \subseteq Nat
    /\ MaxStops \in [Instances -> Nat]
    /\ {Serial, Prompt} \subseteq BOOLEAN

VARIABLES
    state,       \* Redis bot_runtime:state: the stage, and the event whose
                 \* configuration is persisted with the debounce stage
    buffer,      \* Redis bot_runtime:buffer
    timer,       \* does Redis bot_runtime:timer exist
    lock,        \* Redis bot_runtime:lock: its holder
    up,          \* is the replica serving
    boots,       \* how often the replica has stopped
    entries,     \* per replica: the pipelineEntry of the pair
    cancelled,   \* the pipeline contexts whose cancel func was called
    pc, at,      \* where each actor is; the replica an event was posted to
    job,         \* what an actor is about to hand to the AI stage
    run,         \* the launched AI/dispatch goroutines
    cancelling,  \* replicas inside Cancel
    cancels, faults

redis == <<state, buffer, timer, lock>>
memory == <<up, boots, entries, cancelled>>
procs == <<pc, at, job>>
env == <<cancelling, cancels, faults>>
vars == <<redis, memory, procs, run, env>>
----------------------------------------------------------------------------
Stages == {"none", "incoming", "debounce", "ai", "dispatch", "done"}
State == [stage : Stages, cfg : Events \cup {None}]
NoState == [stage |-> "none", cfg |-> None]
In(stage) == [stage |-> stage, cfg |-> None]

(* A context.Context: who made it, where, and in which life of the replica *)
Context == [ev : Events, inst : Instances, boot : Nat]

(* What AcquireLock .. Unlock encloses, in Process and in advanceToAI *)
Inside == {"locked", "fresh", "interrupt", "clear", "store", "append",
           "timer", "debounce", "reset", "resetTimer", "recheck", "retimer",
           "snapshot", "ai", "launch", "unlock"}
Final == {"refused", "dropped", "finished", "killed"}
ActorPcs == Inside \cup Final
              \cup {"unsent", "accepted", "idle", "peek", "expired"}

RunPcs == {"unborn", "load", "call", "callNoURL", "setDispatch", "clear",
           "check", "send", "setDone", "clearDone", "delete",
           "interrupted", "failed", "completed", "dead"}
RunOver == {"unborn", "interrupted", "failed", "completed", "dead"}
Run == [pc : RunPcs, ctx : Context, by : Events, buf : Seq(Events),
        sent : 0 .. MaxParts]
Job == [by : Events \cup {None}, buf : Seq(Events)]

Inst(h) == IF h \in Events THEN at[h] ELSE h
Live(i) == entries[i] # None /\ entries[i] \notin cancelled
CtxOf(e) == [ev |-> e, inst |-> at[e], boot |-> boots[at[e]]]

(* Nothing is in flight: no goroutine of the pair holds a step to take *)
Calm ==
    /\ \A e \in Events : pc[e] \in Final \cup {"unsent"}
    /\ \A i \in Instances : pc[i] = "idle" /\ up[i] = "up"
    /\ \A n \in DOMAIN run : run[n].pc \in RunOver
    /\ cancelling = {}

Goto(h, label) == pc' = [pc EXCEPT ![h] = label]
RunGoto(n, label) == run' = [run EXCEPT ![n].pc = label]
Fault == faults < MaxFaults /\ faults' = faults + 1

(* The bug of a DEL that forgets a key *)
ClearState_KeepsBuffer == state' = NoState /\ timer' = FALSE /\ UNCHANGED buffer

(* ClearState: one DEL of the three keys *)
ClearState == state' = NoState /\ buffer' = <<>> /\ timer' = FALSE

(* cancelPair on replica i: LoadAndDelete, then cancel *)
CancelPair(i) ==
    /\ entries' = [entries EXCEPT ![i] = None]
    /\ cancelled' = cancelled \cup ({entries[i]} \ {None})
----------------------------------------------------------------------------
Init ==
    /\ state = NoState /\ buffer = <<>> /\ timer = FALSE /\ lock = None
    /\ up = [i \in Instances |-> "up"]
    /\ boots = [i \in Instances |-> 0]
    /\ entries = [i \in Instances |-> None]
    /\ cancelled = {}
    /\ pc = [h \in Actors |-> IF h \in Events THEN "unsent" ELSE "idle"]
    /\ at \in [Events -> Instances]
    /\ job = [h \in Actors |-> [by |-> None, buf |-> <<>>]]
    /\ run = <<>>
    /\ cancelling = {} /\ cancels = 0 /\ faults = 0
----------------------------------------------------------------------------
(* The HTTP handler: StageIncoming is written whatever the stage is, the   *)
(* Process goroutine is started, 202 is answered.                          *)
Accept(e) ==
    /\ pc[e] = "unsent" /\ up[at[e]] = "up"
    /\ Serial => Calm /\ lock = None
    /\ state' = In("incoming")
    /\ Goto(e, "accepted")
    /\ UNCHANGED <<buffer, timer, lock, memory, at, job, run, env>>

(* SetState failed: 500, nothing is started *)
Refuse(e) ==
    /\ pc[e] = "unsent" /\ up[at[e]] = "up"
    /\ Fault
    /\ Goto(e, "refused")
    /\ UNCHANGED <<redis, memory, at, job, run, cancelling, cancels>>

(* The bug of a SET without NX *)
AcquireLock_NoNX(h) ==
    /\ pc[h] \in {"accepted", "expired"}
    /\ lock' = h
    /\ Goto(h, IF h \in Events THEN "locked" ELSE "recheck")
    /\ UNCHANGED <<state, buffer, timer, memory, at, job, run, env>>

AcquireLock(h) ==
    /\ pc[h] \in {"accepted", "expired"}
    /\ lock = None
    /\ lock' = h
    /\ Goto(h, IF h \in Events THEN "locked" ELSE "recheck")
    /\ UNCHANGED <<state, buffer, timer, memory, at, job, run, env>>

(* WithTries(1): one attempt, then Process returns ErrLockFailed and       *)
(* advanceToAI leaves it to the next tick                                  *)
LockFailed(h) ==
    /\ pc[h] \in {"accepted", "expired"}
    /\ \/ lock # None /\ UNCHANGED faults
       \/ Fault
    /\ Goto(h, IF h \in Events THEN "dropped" ELSE "idle")
    /\ UNCHANGED <<redis, memory, at, job, run, cancelling, cancels>>

(* redsync deletes the key only if it still holds the holder's value *)
Unlock(h) ==
    /\ pc[h] = "unlock"
    /\ \/ lock' = (IF lock = h THEN None ELSE lock) /\ UNCHANGED faults
       \/ Fault /\ UNCHANGED lock
    /\ Goto(h, IF h \in Events THEN "finished" ELSE "idle")
    /\ UNCHANGED <<state, buffer, timer, memory, at, job, run,
                   cancelling, cancels>>

(* The bug of a TTL shorter than every holder's work *)
LockExpires_Early ==
    /\ lock # None
    /\ lock' = None
    /\ UNCHANGED <<state, buffer, timer, memory, procs, run, env>>

(* The TTL of a lock, whose holder is gone or slow *)
LockExpires ==
    /\ lock # None /\ (Prompt => pc[lock] \notin Inside)
    /\ lock' = None
    /\ UNCHANGED <<state, buffer, timer, memory, procs, run, env>>

TimerExpires ==
    /\ timer
    /\ timer' = FALSE
    /\ UNCHANGED <<state, buffer, lock, memory, procs, run, env>>
----------------------------------------------------------------------------
(* Process: the switch on the stage that GetState returned *)
GetState(e) ==
    /\ pc[e] = "locked"
    /\ Goto(e, CASE state.stage \in {"none", "incoming"} -> "fresh"
                 [] state.stage = "debounce" -> "reset"
                 [] state.stage \in {"ai", "dispatch"} -> "interrupt"
                 [] state.stage = "done" -> "unlock")
    /\ UNCHANGED <<redis, memory, at, job, run, env>>

CancelPrevious(e) ==
    /\ pc[e] \in {"fresh", "interrupt"}
    /\ CancelPair(at[e])
    /\ Goto(e, IF pc[e] = "fresh" THEN "store" ELSE "clear")
    /\ UNCHANGED <<redis, up, boots, at, job, run, env>>

ClearPrevious(e) ==
    /\ pc[e] = "clear"
    /\ ClearState
    /\ Goto(e, "store")
    /\ UNCHANGED <<lock, memory, at, job, run, env>>

(* The bug of a pipeline whose entry is not stored *)
StoreEntry_NoEntry(e) ==
    /\ pc[e] = "store"
    /\ Goto(e, "append")
    /\ UNCHANGED <<redis, memory, at, job, run, env>>

(* startDebounce and skipDebounce: a new pipeline context *)
StoreEntry(e) ==
    /\ pc[e] = "store"
    /\ entries' = [entries EXCEPT ![at[e]] = CtxOf(e)]
    /\ Goto(e, "append")
    /\ UNCHANGED <<redis, up, boots, cancelled, at, job, run, env>>

(* debounce.Start, and debounce.Reset, which changes neither the entry nor *)
(* the persisted configuration; a DebounceTime of 0 sets no timer          *)
AppendToBuffer(e) ==
    /\ pc[e] \in {"append", "reset"}
    /\ buffer' = Append(buffer, e)
    /\ Goto(e, IF pc[e] = "append"
                 THEN IF e \in Skip THEN "snapshot" ELSE "timer"
                 ELSE IF e \in Skip THEN "unlock" ELSE "resetTimer")
    /\ UNCHANGED <<state, timer, lock, memory, at, job, run, env>>

StartTimer(e) ==
    /\ pc[e] \in {"timer", "resetTimer"}
    /\ timer' = TRUE
    /\ Goto(e, IF pc[e] = "timer" THEN "debounce" ELSE "unlock")
    /\ UNCHANGED <<state, buffer, lock, memory, at, job, run, env>>

SetDebounce(e) ==
    /\ pc[e] = "debounce"
    /\ state' = [stage |-> "debounce", cfg |-> e]
    /\ Goto(e, "unlock")
    /\ UNCHANGED <<buffer, timer, lock, memory, at, job, run, env>>

(* An error of a Redis call of Process: the pipeline made so far, if any,  *)
(* is cancelled and its entry deleted                                      *)
ProcessFails(e) ==
    /\ pc[e] \in {"locked", "clear", "append", "timer", "debounce", "reset",
                  "resetTimer", "snapshot", "ai"}
    /\ Fault
    /\ IF pc[e] \in {"append", "timer", "debounce", "snapshot", "ai"}
         THEN /\ cancelled' = cancelled \cup {CtxOf(e)}
              /\ entries' = [entries EXCEPT ![at[e]] = None]
         ELSE UNCHANGED <<cancelled, entries>>
    /\ Goto(e, "unlock")
    /\ UNCHANGED <<redis, up, boots, at, job, run, cancelling, cancels>>
----------------------------------------------------------------------------
(* A tick of the poller: a live entry whose pair is in debounce .. *)
SeeDebounce(i) ==
    /\ pc[i] = "idle" /\ up[i] \in {"up", "stopping"}
    /\ Live(i) /\ state.stage = "debounce"
    /\ Goto(i, "peek")
    /\ UNCHANGED <<redis, memory, at, job, run, env>>

(* .. and whose timer is gone; the call fails if the entry was cancelled *)
SeeExpired(i) ==
    /\ pc[i] = "peek"
    /\ \/ ~timer /\ Goto(i, "expired")
       \/ (timer \/ ~Live(i)) /\ Goto(i, "idle")
    /\ UNCHANGED <<redis, memory, at, job, run, env>>

(* The bug of an advance that trusts the poller's unlocked read of the stage *)
RecheckState_Skipped(i) ==
    /\ pc[i] = "recheck"
    /\ Goto(i, "retimer") /\ job' = [job EXCEPT ![i].by = state.cfg]
    /\ UNCHANGED <<redis, memory, at, run, env>>

(* advanceToAI: the stage, under the lock *)
RecheckState(i) ==
    /\ pc[i] = "recheck"
    /\ IF state.stage = "debounce"
         THEN Goto(i, "retimer") /\ job' = [job EXCEPT ![i].by = state.cfg]
         ELSE Goto(i, "unlock") /\ UNCHANGED job
    /\ UNCHANGED <<redis, memory, at, run, env>>

(* The bug of an advance that trusts the poller's unlocked read of the timer *)
RecheckTimer_Skipped(i) ==
    /\ pc[i] = "retimer"
    /\ Goto(i, "snapshot")
    /\ UNCHANGED <<redis, memory, at, job, run, env>>

(* advanceToAI: the timer, under the lock *)
RecheckTimer(i) ==
    /\ pc[i] = "retimer"
    /\ Goto(i, IF timer THEN "unlock" ELSE "snapshot")
    /\ UNCHANGED <<redis, memory, at, job, run, env>>

(* GetBuffer, in skipDebounce and in advanceToAI *)
GetBuffer(h) ==
    /\ pc[h] = "snapshot"
    /\ job' = [job EXCEPT ![h] = [by |-> IF h \in Events THEN h ELSE job[h].by,
                                  buf |-> buffer]]
    /\ Goto(h, "ai")
    /\ UNCHANGED <<redis, memory, at, run, env>>

(* The bug of an advance that leaves the stage as it is *)
SetAI_Forgotten(h) ==
    /\ pc[h] = "ai"
    /\ Goto(h, "launch")
    /\ UNCHANGED <<redis, memory, at, job, run, env>>

SetAI(h) ==
    /\ pc[h] = "ai"
    /\ state' = In("ai")
    /\ Goto(h, "launch")
    /\ UNCHANGED <<buffer, timer, lock, memory, at, job, run, env>>

(* launchAIStage: the goroutine gets the context of whatever entry is      *)
(* stored; without an entry the failure is logged and nothing is started   *)
Launch(h) ==
    /\ pc[h] = "launch"
    /\ IF entries[Inst(h)] = None
         THEN UNCHANGED run
         ELSE /\ Len(run) < MaxRuns
              /\ run' = Append(run, [pc |-> "load", ctx |-> entries[Inst(h)],
                                     by |-> job[h].by, buf |-> job[h].buf,
                                     sent |-> 0])
    /\ Goto(h, "unlock")
    /\ UNCHANGED <<redis, memory, at, job, env>>

AdvanceFails(i) ==
    /\ pc[i] \in {"recheck", "retimer", "snapshot", "ai"}
    /\ Fault
    /\ Goto(i, "unlock")
    /\ UNCHANGED <<redis, memory, at, job, run, cancelling, cancels>>
----------------------------------------------------------------------------
Here(n) == run[n].ctx.inst
Aborted(n) == run[n].ctx \in cancelled

(* runAIStage reads URL and key from the entry stored NOW *)
LoadEntry(n) ==
    /\ run[n].pc = "load"
    /\ RunGoto(n, IF entries[Here(n)] = None THEN "callNoURL" ELSE "call")
    /\ UNCHANGED <<redis, memory, procs, env>>

AIReplies(n) ==
    /\ run[n].pc = "call"
    /\ RunGoto(n, "setDispatch")
    /\ UNCHANGED <<redis, memory, procs, env>>

(* client.Do failed under a cancelled context: ErrPipelineCancelled *)
AICancelled(n) ==
    /\ run[n].pc \in {"call", "callNoURL"} /\ Aborted(n)
    /\ RunGoto(n, "interrupted")
    /\ UNCHANGED <<redis, memory, procs, env>>

(* Timeout, HTTP status, or a body that cannot be read; the latter two are *)
(* reported as such even if the context is cancelled by now                *)
AIFails(n) ==
    /\ \/ run[n].pc = "call"
       \/ run[n].pc = "callNoURL" /\ ~Aborted(n)
    /\ RunGoto(n, "clear")
    /\ UNCHANGED <<redis, memory, procs, env>>

SetDispatch(n) ==
    /\ run[n].pc = "setDispatch"
    /\ \/ state' = In("dispatch") /\ RunGoto(n, "check") /\ UNCHANGED faults
       \/ Fault /\ RunGoto(n, "clear") /\ UNCHANGED state
    /\ UNCHANGED <<buffer, timer, lock, memory, procs,
                   cancelling, cancels>>

(* clearStateWithLog on the error paths of both stages; the entry stays *)
ClearFailed(n) ==
    /\ run[n].pc = "clear"
    /\ \/ ClearState /\ UNCHANGED faults
       \/ Fault /\ UNCHANGED <<state, buffer, timer>>
    /\ RunGoto(n, "failed")
    /\ UNCHANGED <<lock, memory, procs, cancelling, cancels>>

(* Dispatch looks at the context before each part, and while it waits      *)
(* between two of them                                                     *)
CheckContext(n) ==
    /\ run[n].pc = "check"
    /\ RunGoto(n, IF Aborted(n) THEN "interrupted" ELSE "send")
    /\ UNCHANGED <<redis, memory, procs, env>>

(* sendPart delivered a part: the last one, or not *)
SendPart(n) ==
    /\ run[n].pc = "send"
    /\ \E next \in {"check", "setDone"} :
         /\ next = "check" => run[n].sent + 1 < MaxParts
         /\ run' = [run EXCEPT ![n].pc = next, ![n].sent = @ + 1]
    /\ UNCHANGED <<redis, memory, procs, env>>

(* sendPart failed, the part having been delivered or not: an error of the *)
(* receiver, or the context cancelled in the middle of the request, which  *)
(* is not reported as ErrDispatchInterrupted                               *)
SendFails(n) ==
    /\ run[n].pc = "send"
    /\ \E d \in {0, 1} :
         run' = [run EXCEPT ![n].pc = "clear", ![n].sent = @ + d]
    /\ UNCHANGED <<redis, memory, procs, env>>

SetDone(n) ==
    /\ run[n].pc = "setDone"
    /\ \/ state' = In("done") /\ UNCHANGED faults
       \/ Fault /\ UNCHANGED state
    /\ RunGoto(n, "clearDone")
    /\ UNCHANGED <<buffer, timer, lock, memory, procs,
                   cancelling, cancels>>

ClearDone(n) ==
    /\ run[n].pc = "clearDone"
    /\ \/ ClearState /\ UNCHANGED faults
       \/ Fault /\ UNCHANGED <<state, buffer, timer>>
    /\ RunGoto(n, "delete")
    /\ UNCHANGED <<lock, memory, procs, cancelling, cancels>>

(* entries.Delete(key): whichever entry is stored by now *)
DeleteEntry(n) ==
    /\ run[n].pc = "delete"
    /\ entries' = [entries EXCEPT ![Here(n)] = None]
    /\ RunGoto(n, "completed")
    /\ UNCHANGED <<redis, up, boots, cancelled, procs, env>>
----------------------------------------------------------------------------
(* Cancel(contact, conversation): cancelPair, then ClearState, no lock *)
Cancel(i) ==
    /\ up[i] = "up" /\ i \notin cancelling /\ cancels < MaxCancels
    /\ CancelPair(i)
    /\ cancelling' = cancelling \cup {i} /\ cancels' = cancels + 1
    /\ UNCHANGED <<redis, up, boots, procs, run, faults>>

CancelClear(i) ==
    /\ i \in cancelling
    /\ \/ ClearState /\ UNCHANGED faults
       \/ Fault /\ UNCHANGED <<state, buffer, timer>>
    /\ cancelling' = cancelling \ {i}
    /\ UNCHANGED <<lock, memory, procs, run, cancels>>

(* SIGTERM: the contexts are cancelled (the entries stay) and the poller   *)
(* stops after the pair it is at; the Process goroutines go on             *)
Shutdown(i) ==
    /\ up[i] = "up" /\ boots[i] < MaxStops[i]
    /\ up' = [up EXCEPT ![i] = "stopping"]
    /\ cancelled' = cancelled \cup ({entries[i]} \ {None})
    /\ UNCHANGED <<redis, boots, entries, procs, run, env>>

(* The process ends, by a crash or after Shutdown: every goroutine is gone *)
(* and so is its memory; Redis keeps what it has, the lock included        *)
Crash(i) ==
    /\ up[i] # "down" /\ boots[i] < MaxStops[i]
    /\ up' = [up EXCEPT ![i] = "down"]
    /\ boots' = [boots EXCEPT ![i] = @ + 1]
    /\ entries' = [entries EXCEPT ![i] = None]
    /\ pc' = [h \in Actors |->
                IF h = i THEN "idle"
                ELSE IF h \in Events /\ at[h] = i
                          /\ pc[h] \notin Final \cup {"unsent"} THEN "killed"
                ELSE pc[h]]
    /\ run' = [n \in DOMAIN run |->
                IF run[n].ctx.inst = i /\ run[n].pc \notin RunOver
                THEN [run[n] EXCEPT !.pc = "dead"] ELSE run[n]]
    /\ cancelling' = cancelling \ {i}
    /\ UNCHANGED <<redis, cancelled, at, job, cancels, faults>>

(* The bug of a Start that recovers nothing *)
Restart_RecoversNothing(i) ==
    /\ up[i] = "down"
    /\ up' = [up EXCEPT ![i] = "starting"]
    /\ UNCHANGED <<redis, boots, entries, cancelled, procs, run, env>>

(* Start: only a pair in the debounce stage is recovered, its entry made   *)
(* from the persisted configuration; with the timer gone it is advanced    *)
(* before the poller and the HTTP server start.  An error of GetState      *)
(* skips the pair, one of TimerExists leaves it to the poller.             *)
Restart(i) ==
    /\ up[i] = "down"
    /\ up' = [up EXCEPT ![i] = "starting"]
    /\ \/ /\ state.stage = "debounce"
          /\ entries' = [entries EXCEPT ![i] =
                            [ev |-> state.cfg, inst |-> i, boot |-> boots[i]]]
          /\ \/ Goto(i, IF timer THEN "idle" ELSE "expired") /\ UNCHANGED faults
             \/ Fault /\ UNCHANGED pc
       \/ state.stage # "debounce" /\ UNCHANGED <<entries, pc, faults>>
       \/ Fault /\ UNCHANGED <<entries, pc>>
    /\ UNCHANGED <<redis, boots, cancelled, at, job, run, cancelling, cancels>>

Serve(i) ==
    /\ up[i] = "starting" /\ pc[i] = "idle"
    /\ up' = [up EXCEPT ![i] = "up"]
    /\ UNCHANGED <<redis, boots, entries, cancelled, procs, run, env>>
----------------------------------------------------------------------------
ProcessStep(e) ==
    \/ GetState(e) \/ CancelPrevious(e) \/ ClearPrevious(e)
    \/ StoreEntry(e) \/ AppendToBuffer(e) \/ StartTimer(e) \/ SetDebounce(e)
    \/ ProcessFails(e)
PollStep(i) == SeeDebounce(i) \/ SeeExpired(i)
AdvanceStep(i) == RecheckState(i) \/ RecheckTimer(i) \/ AdvanceFails(i)
LockStep(h) == AcquireLock(h) \/ LockFailed(h) \/ Unlock(h)
LaunchStep(h) == GetBuffer(h) \/ SetAI(h) \/ Launch(h)
AIStep(n) ==
    \/ LoadEntry(n) \/ AIReplies(n) \/ AICancelled(n) \/ AIFails(n)
    \/ SetDispatch(n)
DispatchStep(n) ==
    \/ CheckContext(n) \/ SendPart(n) \/ SendFails(n) \/ ClearFailed(n)
    \/ SetDone(n) \/ ClearDone(n) \/ DeleteEntry(n)

(* All messages have been handled and nothing moves any more *)
Quiet ==
    /\ Calm /\ ~timer
    /\ \A e \in Events : pc[e] # "unsent"
    /\ \A i \in Instances : ~(Live(i) /\ state.stage = "debounce")
Rest == Quiet /\ UNCHANGED vars

Next ==
    \/ \E e \in Events : Accept(e) \/ Refuse(e) \/ ProcessStep(e)
    \/ \E i \in Instances :
         \/ PollStep(i) \/ AdvanceStep(i)
         \/ Cancel(i) \/ CancelClear(i)
         \/ Shutdown(i) \/ Crash(i) \/ Restart(i) \/ Serve(i)
    \/ \E h \in Actors : LockStep(h) \/ LaunchStep(h)
    \/ \E n \in DOMAIN run : AIStep(n) \/ DispatchStep(n)
    \/ LockExpires \/ TimerExpires
    \/ Rest

Spec == Init /\ [][Next]_vars

(* A goroutine that can go on does; the AI client and the postback client  *)
(* time out; Redis removes expired keys; a stopping process exits and the  *)
(* orchestrator restarts it.  No fairness for messages, faults or crashes. *)
Fairness ==
    /\ \A e \in Events : WF_vars(ProcessStep(e))
    /\ \A h \in Actors : WF_vars(LockStep(h)) /\ WF_vars(LaunchStep(h))
    /\ \A i \in Instances :
         /\ WF_vars(PollStep(i)) /\ WF_vars(AdvanceStep(i))
         /\ WF_vars(CancelClear(i))
         /\ WF_vars(up[i] = "stopping" /\ Crash(i))
         /\ WF_vars(Restart(i)) /\ WF_vars(Serve(i))
    /\ \A n \in 1 .. MaxRuns :
         WF_vars(n \in DOMAIN run /\ (AIStep(n) \/ DispatchStep(n)))
    /\ WF_vars(LockExpires) /\ WF_vars(TimerExpires)
FairSpec == Spec /\ Fairness
----------------------------------------------------------------------------
(* Every variable has its type. *)
TypeOK ==
    /\ state \in State /\ buffer \in Seq(Events) /\ timer \in BOOLEAN
    /\ lock \in Actors \cup {None}
    /\ up \in [Instances -> {"up", "stopping", "down", "starting"}]
    /\ boots \in [Instances -> Nat]
    /\ entries \in [Instances -> Context \cup {None}]
    /\ cancelled \subseteq Context
    /\ pc \in [Actors -> ActorPcs] /\ at \in [Events -> Instances]
    /\ job \in [Actors -> Job]
    /\ run \in Seq(Run) /\ Len(run) \in 0 .. MaxRuns
    /\ cancelling \subseteq Instances
    /\ cancels \in 0 .. MaxCancels /\ faults \in 0 .. MaxFaults

(* AcquireLock .. Unlock of Process and of advanceToAI exclude each other  *)
(* over all replicas, also when a holder has crashed and its lock lapsed.  *)
MutualExclusion ==
    \A h, g \in Actors : pc[h] \in Inside /\ pc[g] \in Inside => h = g

(* advanceToAI: "exactly-once guarantee holds".  A debounce period (or an  *)
(* event that skips it) is handed to the AI stage by at most one launch,   *)
(* whatever pollers of other replicas, restarts and new messages do.       *)
AdvancedOnce ==
    \A n, m \in DOMAIN run : run[n].by = run[m].by => n = m

(* The buffer read by advanceToAI or skipDebounce is complete when the     *)
(* stage becomes AI: no message was appended after it was read.            *)
SnapshotComplete ==
    \A h \in Actors : pc[h] \in {"ai", "launch"} =>
        \A k \in DOMAIN buffer :
            \E j \in DOMAIN job[h].buf : job[h].buf[j] = buffer[k]

(* No poller takes a pair out of debounce while the timer of a message     *)
(* runs: a message that restarted the timer postpones the answer.          *)
QuietPeriodKept ==
    \A i \in Instances : pc[i] \in {"snapshot", "ai", "launch"} => ~timer

Holds(buf, e) == \E k \in DOMAIN buf : buf[k] = e

(* No message is part of two questions that were both answered in full. *)
AnsweredOnce ==
    \A n, m \in DOMAIN run : \A e \in Events :
        /\ run[n].pc = "completed" /\ Holds(run[n].buf, e)
        /\ run[m].pc = "completed" /\ Holds(run[m].buf, e)
        => n = m

(* Every accepted message ends in a run that was dispatched, or that failed *)
(* at the AI backend or at the postback URL.                                *)
MessageAnswered ==
    \A e \in Events : pc[e] = "accepted" ~>
        \E n \in 1 .. MaxRuns : /\ n \in DOMAIN run
                                /\ Holds(run[n].buf, e)
                                /\ run[n].pc \in {"completed", "failed"}

(* A pair does not stay in debounce, whichever replica stops or restarts,   *)
(* unless Cancel takes its entry away before the stage is written.          *)
DebounceEnds == state.stage = "debounce" ~> state.stage # "debounce" \/ cancels > 0
=============================================================================
