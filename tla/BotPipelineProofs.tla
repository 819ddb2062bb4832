------------------------- MODULE BotPipelineProofs -------------------------
(***************************************************************************)
(* Proofs about BotPipeline, for any number of messages, replicas, stops   *)
(* and faults.                                                             *)
(***************************************************************************)
EXTENDS BotPipeline, SequenceTheorems, TLAPS

(* What the types rest on: a debounce stage names the event that set it,   *)
(* an actor about to launch knows the event it launches for, and an        *)
(* unfinished run has parts left to send.                                  *)
Proper ==
    /\ state.stage = "debounce" => state.cfg \in Events
    /\ \A h \in Actors : pc[h] \in {"ai", "launch"} => job[h].by \in Events
    /\ \A i \in Instances :
         pc[i] \in {"retimer", "snapshot"} => job[i].by \in Events
    /\ \A n \in DOMAIN run :
         run[n].pc \in {"load", "call", "callNoURL", "setDispatch", "check",
                        "send"} => run[n].sent < MaxParts

TypeInv == TypeOK /\ Proper

LEMMA InitTypeInv == Init => TypeInv
  <1> SUFFICES ASSUME Init PROVE TypeInv
    OBVIOUS
  <1>1. TypeOK
    <2>1. state \in State /\ timer \in BOOLEAN /\ lock \in Actors \cup {None}
      BY DEF Init, NoState, State, Stages
    <2>2. buffer \in Seq(Events) /\ run \in Seq(Run) /\ Len(run) \in 0 .. MaxRuns
      BY BoundsAssumption DEF Init
    <2>3. /\ up \in [Instances -> {"up", "stopping", "down", "starting"}]
          /\ boots \in [Instances -> Nat]
          /\ entries \in [Instances -> Context \cup {None}]
          /\ cancelled \subseteq Context
      BY DEF Init
    <2>4. pc \in [Actors -> ActorPcs] /\ at \in [Events -> Instances]
      BY DEF Init, ActorPcs
    <2>5. job \in [Actors -> Job]
      <3>1. [by |-> None, buf |-> <<>>] \in Job
        BY DEF Job
      <3> QED
        BY <3>1 DEF Init
    <2>6. /\ cancelling \subseteq Instances
          /\ cancels \in 0 .. MaxCancels /\ faults \in 0 .. MaxFaults
      BY BoundsAssumption DEF Init
    <2> QED
      BY <2>1, <2>2, <2>3, <2>4, <2>5, <2>6 DEF TypeOK
  <1>2. Proper
    <2>1. \A h \in Actors : pc[h] \in {"unsent", "idle"}
      BY DEF Init
    <2>2. DOMAIN run = {}
      BY DEF Init
    <2>3. state.stage = "none"
      BY DEF Init, NoState
    <2> QED
      BY <2>1, <2>2, <2>3 DEF Proper, Actors
  <1> QED
    BY <1>1, <1>2 DEF TypeInv

(* A step of run n to another label keeps the sequence of runs typed *)
LEMMA RunGotoFacts ==
    ASSUME TypeInv, NEW n \in DOMAIN run, NEW label \in RunPcs,
           RunGoto(n, label),
           label \in {"load", "call", "callNoURL", "setDispatch", "check", "send"}
             => run[n].sent < MaxParts
    PROVE  /\ run' \in Seq(Run) /\ Len(run') = Len(run)
           /\ DOMAIN run' = DOMAIN run
           /\ \A m \in DOMAIN run :
                run'[m] = IF m = n THEN [run[n] EXCEPT !.pc = label] ELSE run[m]
           /\ \A m \in DOMAIN run' :
                run'[m].pc \in {"load", "call", "callNoURL", "setDispatch",
                                "check", "send"} => run'[m].sent < MaxParts
  <1>1. run \in Seq(Run) /\ n \in 1 .. Len(run) /\ DOMAIN run = 1 .. Len(run)
    BY DEF TypeInv, TypeOK
  <1>2. run[n] \in Run
    BY <1>1
  <1>3. [run[n] EXCEPT !.pc = label] \in Run
    BY <1>2 DEF Run
  <1>4. run' = [run EXCEPT ![n] = [run[n] EXCEPT !.pc = label]]
    BY DEF RunGoto
  <1>5. /\ run' \in Seq(Run) /\ Len(run') = Len(run)
        /\ \A m \in 1 .. Len(run) :
             run'[m] = IF m = n THEN [run[n] EXCEPT !.pc = label] ELSE run[m]
    BY <1>1, <1>3, <1>4, ExceptSeq
  <1>6. DOMAIN run' = DOMAIN run
    BY <1>1, <1>5
  <1>7. ASSUME NEW m \in DOMAIN run',
               run'[m].pc \in {"load", "call", "callNoURL", "setDispatch",
                               "check", "send"}
        PROVE  run'[m].sent < MaxParts
    <2>1. CASE m = n
      <3>1. run'[m].pc = label /\ run'[m].sent = run[n].sent
        BY <1>1, <1>2, <1>5, <2>1 DEF Run
      <3> QED
        BY <3>1, <1>7
    <2>2. CASE m # n
      BY <1>1, <1>5, <1>6, <1>7, <2>2 DEF TypeInv, Proper
    <2> QED
      BY <2>1, <2>2
  <1> QED
    BY <1>1, <1>5, <1>6, <1>7

LEMMA ClearStateFacts ==
    ASSUME ClearState
    PROVE  /\ state' \in State /\ state'.stage = "none"
           /\ buffer' \in Seq(Events) /\ timer' \in BOOLEAN
  <1>1. state' = NoState /\ buffer' = <<>> /\ timer' = FALSE
    BY DEF ClearState
  <1>2. NoState \in State /\ NoState.stage = "none"
    BY DEF NoState, State, Stages
  <1>3. <<>> \in Seq(Events)
    OBVIOUS
  <1> QED
    BY <1>1, <1>2, <1>3

LEMMA CtxOfType ==
    ASSUME TypeOK, NEW e \in Events PROVE CtxOf(e) \in Context
  BY DEF TypeOK, CtxOf, Context

LEMMA AcceptType ==
    ASSUME TypeInv, NEW e \in Events, Accept(e) PROVE TypeInv'
  BY ActorsAssumption, BoundsAssumption
  DEF Accept, TypeInv, TypeOK, Proper, redis, memory, procs, env, Actors, ActorPcs, Inside, Final, In, State, Stages, Goto

LEMMA RefuseType ==
    ASSUME TypeInv, NEW e \in Events, Refuse(e) PROVE TypeInv'
  BY ActorsAssumption, BoundsAssumption
  DEF Refuse, TypeInv, TypeOK, Proper, redis, memory, procs, env, Actors, ActorPcs, Inside, Final, Goto, Fault

LEMMA GetStateType ==
    ASSUME TypeInv, NEW e \in Events, GetState(e) PROVE TypeInv'
  BY ActorsAssumption, BoundsAssumption
  DEF GetState, TypeInv, TypeOK, Proper, redis, memory, procs, env, Actors, ActorPcs, Inside, Final, Goto, State, Stages

LEMMA CancelPreviousType ==
    ASSUME TypeInv, NEW e \in Events, CancelPrevious(e) PROVE TypeInv'
  BY ActorsAssumption, BoundsAssumption
  DEF CancelPrevious, TypeInv, TypeOK, Proper, redis, memory, procs, env, Actors, ActorPcs, Inside, Final, Goto, CancelPair

LEMMA ClearPreviousType ==
    ASSUME TypeInv, NEW e \in Events, ClearPrevious(e) PROVE TypeInv'
  BY ClearStateFacts, ActorsAssumption, BoundsAssumption
  DEF ClearPrevious, TypeInv, TypeOK, Proper, redis, memory, procs, env, Actors, ActorPcs, Inside, Final, Goto

LEMMA StoreEntryType ==
    ASSUME TypeInv, NEW e \in Events, StoreEntry(e) PROVE TypeInv'
  BY CtxOfType, ActorsAssumption, BoundsAssumption
  DEF StoreEntry, TypeInv, TypeOK, Proper, redis, memory, procs, env, Actors, ActorPcs, Inside, Final, Goto

LEMMA StartTimerType ==
    ASSUME TypeInv, NEW e \in Events, StartTimer(e) PROVE TypeInv'
  BY ActorsAssumption, BoundsAssumption
  DEF StartTimer, TypeInv, TypeOK, Proper, redis, memory, procs, env, Actors, ActorPcs, Inside, Final, Goto

LEMMA SetDebounceType ==
    ASSUME TypeInv, NEW e \in Events, SetDebounce(e) PROVE TypeInv'
  BY ActorsAssumption, BoundsAssumption
  DEF SetDebounce, TypeInv, TypeOK, Proper, redis, memory, procs, env, Actors, ActorPcs, Inside, Final, Goto, State, Stages

LEMMA AppendToBufferType ==
    ASSUME TypeInv, NEW e \in Events, AppendToBuffer(e) PROVE TypeInv'
  BY ActorsAssumption, BoundsAssumption
  DEF AppendToBuffer, TypeInv, TypeOK, Proper, redis, memory, procs, env, Actors, ActorPcs, Inside, Final, Goto

LEMMA ProcessFailsType ==
    ASSUME TypeInv, NEW e \in Events, ProcessFails(e) PROVE TypeInv'
  <1> DEFINE Made == pc[e] \in {"append", "timer", "debounce", "snapshot", "ai"}
  <1>1. CtxOf(e) \in Context
    BY CtxOfType DEF TypeInv
  <1>2. CASE Made
    <2>1. /\ cancelled' = cancelled \cup {CtxOf(e)}
          /\ entries' = [entries EXCEPT ![at[e]] = None]
      BY <1>2 DEF ProcessFails
    <2> HIDE DEF Made
    <2> QED
      BY <1>1, <2>1, ActorsAssumption, BoundsAssumption DEF ProcessFails, Goto, Fault, TypeInv, TypeOK, Proper, redis, memory, procs, env, Actors, ActorPcs, Inside, Final
  <1>3. CASE ~Made
    <2>1. UNCHANGED <<cancelled, entries>>
      BY <1>3 DEF ProcessFails
    <2> HIDE DEF Made
    <2> QED
      BY <2>1, ActorsAssumption, BoundsAssumption DEF ProcessFails, Goto, Fault, TypeInv, TypeOK, Proper, redis, memory, procs, env, Actors, ActorPcs, Inside, Final
  <1> QED
    BY <1>2, <1>3

LEMMA AcquireLockType ==
    ASSUME TypeInv, NEW h \in Actors, AcquireLock(h) PROVE TypeInv'
  BY ActorsAssumption, BoundsAssumption
  DEF AcquireLock, TypeInv, TypeOK, Proper, redis, memory, procs, env, Actors, ActorPcs, Inside, Final, Goto

LEMMA LockFailedType ==
    ASSUME TypeInv, NEW h \in Actors, LockFailed(h) PROVE TypeInv'
  BY ActorsAssumption, BoundsAssumption
  DEF LockFailed, TypeInv, TypeOK, Proper, redis, memory, procs, env, Actors, ActorPcs, Inside, Final, Goto, Fault

LEMMA UnlockType ==
    ASSUME TypeInv, NEW h \in Actors, Unlock(h) PROVE TypeInv'
  BY ActorsAssumption, BoundsAssumption
  DEF Unlock, TypeInv, TypeOK, Proper, redis, memory, procs, env, Actors, ActorPcs, Inside, Final, Goto, Fault

LEMMA PollStepFacts ==
    ASSUME TypeInv, NEW i \in Instances, PollStep(i)
    PROVE  /\ UNCHANGED <<redis, memory, at, job, run, env>>
           /\ \E l \in {"peek", "expired", "idle"} : pc' = [pc EXCEPT ![i] = l]
  BY DEF PollStep, SeeDebounce, SeeExpired, Goto

LEMMA PollStepType ==
    ASSUME TypeInv, NEW i \in Instances, PollStep(i) PROVE TypeInv'
  <1>1. UNCHANGED <<redis, memory, at, job, run, env>>
    BY PollStepFacts
  <1>2. PICK l \in {"peek", "expired", "idle"} : pc' = [pc EXCEPT ![i] = l]
    BY PollStepFacts
  <1>3. /\ pc' \in [Actors -> ActorPcs]
        /\ \A g \in Actors : pc'[g] = IF g = i THEN l ELSE pc[g]
    BY <1>2 DEF TypeInv, TypeOK, ActorPcs
  <1>4. TypeOK'
    BY <1>1, <1>3 DEF TypeInv, TypeOK, redis, memory, env
  <1>5. Proper'
    BY <1>1, <1>3 DEF TypeInv, Proper, redis, Actors
  <1> QED
    BY <1>4, <1>5 DEF TypeInv

LEMMA RecheckStateType ==
    ASSUME TypeInv, NEW i \in Instances, RecheckState(i) PROVE TypeInv'
  <1>1. CASE state.stage = "debounce"
    <2>1. state.cfg \in Events /\ job[i] \in Job
      BY <1>1 DEF TypeInv, TypeOK, Proper, Actors
    <2>2. /\ job' \in [Actors -> Job] /\ job'[i].by = state.cfg
          /\ \A h \in Actors \ {i} : job'[h] = job[h]
      <3> DEFINE new == [job[i] EXCEPT !.by = state.cfg]
      <3>1. new \in Job /\ new.by = state.cfg
        BY <2>1 DEF Job
      <3>2. job' = [job EXCEPT ![i] = new]
        BY <1>1 DEF RecheckState
      <3> HIDE DEF new
      <3> QED
        BY <3>1, <3>2 DEF TypeInv, TypeOK, Actors
    <2>3. /\ pc' = [pc EXCEPT ![i] = "retimer"]
          /\ UNCHANGED <<redis, memory, at, run, env>>
      BY <1>1 DEF RecheckState, Goto
    <2> QED
      BY <2>1, <2>2, <2>3, ActorsAssumption DEF TypeInv, TypeOK, Proper, redis, memory, procs, env, Actors, ActorPcs, Inside, Final
  <1>2. CASE state.stage # "debounce"
    BY <1>2, ActorsAssumption DEF RecheckState, Goto, TypeInv, TypeOK, Proper, redis, memory, procs, env, Actors, ActorPcs, Inside, Final
  <1> QED
    BY <1>1, <1>2

LEMMA RecheckTimerType ==
    ASSUME TypeInv, NEW i \in Instances, RecheckTimer(i) PROVE TypeInv'
  BY ActorsAssumption, BoundsAssumption
  DEF RecheckTimer, TypeInv, TypeOK, Proper, redis, memory, procs, env, Actors, ActorPcs, Inside, Final, Goto

LEMMA GetBufferType ==
    ASSUME TypeInv, NEW h \in Actors, GetBuffer(h) PROVE TypeInv'
  BY ActorsAssumption, BoundsAssumption
  DEF GetBuffer, TypeInv, TypeOK, Proper, redis, memory, procs, env, Actors, ActorPcs, Inside, Final, Goto, Job

LEMMA SetAIType ==
    ASSUME TypeInv, NEW h \in Actors, SetAI(h) PROVE TypeInv'
  BY ActorsAssumption, BoundsAssumption
  DEF SetAI, TypeInv, TypeOK, Proper, redis, memory, procs, env, Actors, ActorPcs, Inside, Final, Goto, In, State, Stages

LEMMA LaunchType ==
    ASSUME TypeInv, NEW h \in Actors, Launch(h) PROVE TypeInv'
  <1> DEFINE new == [pc |-> "load", ctx |-> entries[Inst(h)],
                     by |-> job[h].by, buf |-> job[h].buf, sent |-> 0]
  <1>1. CASE entries[Inst(h)] = None
    BY <1>1, ActorsAssumption DEF Launch, Goto, TypeInv, TypeOK, Proper, redis, memory, procs, env, Actors, ActorPcs, Inside, Final
  <1>2. CASE entries[Inst(h)] # None
    <2>1. Inst(h) \in Instances
      BY DEF Inst, TypeInv, TypeOK, Actors
    <2>2. job[h].by \in Events /\ job[h] \in Job
      BY DEF Launch, TypeInv, TypeOK, Proper
    <2>3. new \in Run
      BY <1>2, <2>1, <2>2, BoundsAssumption DEF TypeInv, TypeOK, Run, RunPcs, Job
    <2>4. run' = Append(run, new) /\ Len(run) < MaxRuns
      BY <1>2 DEF Launch
    <2>5. run \in Seq(Run) /\ Len(run) \in Nat /\ DOMAIN run = 1 .. Len(run)
      BY DEF TypeInv, TypeOK
    <2> HIDE DEF new
    <2>6. /\ run' \in Seq(Run) /\ Len(run') = Len(run) + 1
          /\ DOMAIN run' = 1 .. Len(run) + 1
          /\ \A n \in 1 .. Len(run) : run'[n] = run[n]
          /\ run'[Len(run) + 1] = new
      BY <2>3, <2>4, <2>5
    <2>7. Len(run') \in 0 .. MaxRuns
      BY <2>4, <2>5, <2>6, BoundsAssumption
    <2>8. new.sent < MaxParts
      BY BoundsAssumption DEF new
    <2>9. \A n \in DOMAIN run' :
            run'[n].pc \in {"load", "call", "callNoURL", "setDispatch",
                            "check", "send"} => run'[n].sent < MaxParts
      BY <2>5, <2>6, <2>8 DEF TypeInv, Proper
    <2>10. /\ pc' = [pc EXCEPT ![h] = "unlock"]
           /\ UNCHANGED <<redis, memory, at, job, env>>
      BY DEF Launch, Goto
    <2>11. TypeOK'
      BY <2>6, <2>7, <2>10 DEF TypeInv, TypeOK, redis, memory, env, ActorPcs, Inside
    <2>12. Proper'
      BY <2>9, <2>10 DEF TypeInv, TypeOK, Proper, redis, Actors
    <2> QED
      BY <2>11, <2>12 DEF TypeInv
  <1> QED
    BY <1>1, <1>2

LEMMA AdvanceFailsType ==
    ASSUME TypeInv, NEW i \in Instances, AdvanceFails(i) PROVE TypeInv'
  BY ActorsAssumption, BoundsAssumption
  DEF AdvanceFails, TypeInv, TypeOK, Proper, redis, memory, procs, env, Actors, ActorPcs, Inside, Final, Goto, Fault

LEMMA CancelType ==
    ASSUME TypeInv, NEW i \in Instances, Cancel(i) PROVE TypeInv'
  BY ActorsAssumption, BoundsAssumption
  DEF Cancel, TypeInv, TypeOK, Proper, redis, memory, procs, env, Actors, ActorPcs, Inside, Final, CancelPair

LEMMA CancelClearType ==
    ASSUME TypeInv, NEW i \in Instances, CancelClear(i) PROVE TypeInv'
  <1>1. CASE ClearState /\ UNCHANGED faults
    BY <1>1, ClearStateFacts DEF CancelClear, TypeInv, TypeOK, Proper, redis, memory, procs, env, Actors, ActorPcs, Inside, Final
  <1>2. CASE Fault /\ UNCHANGED <<state, buffer, timer>>
    BY <1>2, BoundsAssumption DEF CancelClear, Fault, TypeInv, TypeOK, Proper, redis, memory, procs, env, Actors, ActorPcs, Inside, Final
  <1> QED
    BY <1>1, <1>2 DEF CancelClear

LEMMA ShutdownType ==
    ASSUME TypeInv, NEW i \in Instances, Shutdown(i) PROVE TypeInv'
  BY ActorsAssumption, BoundsAssumption
  DEF Shutdown, TypeInv, TypeOK, Proper, redis, memory, procs, env, Actors, ActorPcs, Inside, Final

LEMMA CrashType ==
    ASSUME TypeInv, NEW i \in Instances, Crash(i) PROVE TypeInv'
  <1>1. pc' \in [Actors -> ActorPcs] /\ \A h \in Actors :
           pc'[h] \in {pc[h], "idle", "killed"}
    BY DEF Crash, TypeInv, TypeOK, ActorPcs, Final
  <1>2. /\ run' \in Seq(Run) /\ Len(run') = Len(run) /\ DOMAIN run' = DOMAIN run
        /\ \A n \in DOMAIN run :
             run'[n].pc \in {run[n].pc, "dead"} /\ run'[n].sent = run[n].sent
    <2> DEFINE f(n) == IF run[n].ctx.inst = i /\ run[n].pc \notin RunOver
                       THEN [run[n] EXCEPT !.pc = "dead"] ELSE run[n]
    <2>1. run \in Seq(Run) /\ Len(run) \in Nat /\ DOMAIN run = 1 .. Len(run)
      BY DEF TypeInv, TypeOK
    <2>2. \A n \in 1 .. Len(run) :
            f(n) \in Run /\ f(n).pc \in {run[n].pc, "dead"} /\ f(n).sent = run[n].sent
      <3> TAKE n \in 1 .. Len(run)
      <3>1. run[n] \in Run
        BY <2>1
      <3> QED
        BY <3>1 DEF Run, RunPcs
    <2>3. run' = [n \in 1 .. Len(run) |-> f(n)]
      BY <2>1 DEF Crash
    <2> HIDE DEF f
    <2>4. run' \in [1 .. Len(run) -> Run]
      BY <2>2, <2>3
    <2>5. run' \in Seq(Run) /\ Len(run') = Len(run)
      BY <2>1, <2>4
    <2> QED
      BY <2>1, <2>2, <2>3, <2>5
  <1>3. UNCHANGED <<redis, cancelled, at, job, cancels, faults>>
    BY DEF Crash
  <1>4. /\ up' \in [Instances -> {"up", "stopping", "down", "starting"}]
        /\ boots' \in [Instances -> Nat]
        /\ entries' \in [Instances -> Context \cup {None}]
        /\ cancelling' \subseteq Instances
    BY DEF Crash, TypeInv, TypeOK
  <1>5. TypeOK'
    BY <1>1, <1>2, <1>3, <1>4 DEF TypeInv, TypeOK, redis
  <1>6. Proper'
    BY <1>1, <1>2, <1>3 DEF TypeInv, Proper, redis, Actors
  <1> QED
    BY <1>5, <1>6 DEF TypeInv

LEMMA RestartFacts ==
    ASSUME TypeInv, NEW i \in Instances, Restart(i)
    PROVE  /\ UNCHANGED <<state, buffer, timer, lock, boots, cancelled, at, job,
                          run, cancelling, cancels>>
           /\ up' = [up EXCEPT ![i] = "starting"]
           /\ entries' \in [Instances -> Context \cup {None}]
           /\ pc' \in [Actors -> ActorPcs]
           /\ \A g \in Actors :
                \/ pc'[g] = pc[g]
                \/ (g = i /\ pc'[g] \in {"idle", "expired"})
           /\ faults' \in 0 .. MaxFaults
  <1>1. /\ UNCHANGED <<state, buffer, timer, lock, boots, cancelled, at, job,
                       run, cancelling, cancels>>
        /\ up' = [up EXCEPT ![i] = "starting"]
    BY DEF Restart, redis
  <1>2. \/ UNCHANGED entries
        \/ /\ state.stage = "debounce"
           /\ entries' = [entries EXCEPT ![i] =
                            [ev |-> state.cfg, inst |-> i, boot |-> boots[i]]]
    BY DEF Restart
  <1>3. entries' \in [Instances -> Context \cup {None}]
    <2>1. CASE UNCHANGED entries
      BY <2>1 DEF TypeInv, TypeOK
    <2>2. CASE state.stage = "debounce"
      <3>1. [ev |-> state.cfg, inst |-> i, boot |-> boots[i]] \in Context
        BY <2>2 DEF TypeInv, TypeOK, Proper, Context
      <3> QED
        BY <1>2, <3>1 DEF TypeInv, TypeOK
    <2> QED
      BY <1>2, <2>1, <2>2
  <1>4. \/ UNCHANGED pc
        \/ pc' = [pc EXCEPT ![i] = "idle"]
        \/ pc' = [pc EXCEPT ![i] = "expired"]
    BY DEF Restart, Goto
  <1>5. /\ pc' \in [Actors -> ActorPcs]
        /\ \A g \in Actors :
             \/ pc'[g] = pc[g]
             \/ (g = i /\ pc'[g] \in {"idle", "expired"})
    BY <1>4 DEF TypeInv, TypeOK, Actors, ActorPcs
  <1>6. faults' \in 0 .. MaxFaults
    <2>1. faults' = faults \/ (faults < MaxFaults /\ faults' = faults + 1)
      BY DEF Restart, Fault
    <2> QED
      BY <2>1, BoundsAssumption DEF TypeInv, TypeOK
  <1> QED
    BY <1>1, <1>3, <1>5, <1>6

LEMMA RestartType ==
    ASSUME TypeInv, NEW i \in Instances, Restart(i) PROVE TypeInv'
  <1>1. TypeOK'
    BY RestartFacts DEF TypeInv, TypeOK
  <1>2. \A g \in Actors : pc'[g] \in {pc[g], "idle", "expired"}
    BY RestartFacts
  <1>3. Proper'
    BY <1>2, RestartFacts DEF TypeInv, Proper, Actors
  <1> QED
    BY <1>1, <1>3 DEF TypeInv

LEMMA ServeType ==
    ASSUME TypeInv, NEW i \in Instances, Serve(i) PROVE TypeInv'
  BY ActorsAssumption, BoundsAssumption
  DEF Serve, TypeInv, TypeOK, Proper, redis, memory, procs, env, Actors, ActorPcs, Inside, Final

LEMMA LoadEntryType ==
    ASSUME TypeInv, NEW n \in DOMAIN run, LoadEntry(n) PROVE TypeInv'
  <1> DEFINE label == IF entries[Here(n)] = None THEN "callNoURL" ELSE "call"
  <1>1. RunGoto(n, label) /\ label \in RunPcs
    BY DEF LoadEntry, RunPcs
  <1>2. /\ run' \in Seq(Run) /\ Len(run') = Len(run)
        /\ \A m \in DOMAIN run' :
             run'[m].pc \in {"load", "call", "callNoURL", "setDispatch",
                             "check", "send"} => run'[m].sent < MaxParts
    BY <1>1, RunGotoFacts DEF LoadEntry, RunPcs, TypeInv, Proper
  <1>3. UNCHANGED <<redis, memory, procs, env>>
    BY DEF LoadEntry
  <1> QED
    BY <1>2, <1>3 DEF TypeInv, TypeOK, Proper, redis, memory, procs, env

LEMMA AIRepliesType ==
    ASSUME TypeInv, NEW n \in DOMAIN run, AIReplies(n) PROVE TypeInv'
  <1> DEFINE label == "setDispatch"
  <1>1. RunGoto(n, label) /\ label \in RunPcs
    BY DEF AIReplies, RunPcs
  <1>2. /\ run' \in Seq(Run) /\ Len(run') = Len(run)
        /\ \A m \in DOMAIN run' :
             run'[m].pc \in {"load", "call", "callNoURL", "setDispatch",
                             "check", "send"} => run'[m].sent < MaxParts
    BY <1>1, RunGotoFacts DEF AIReplies, RunPcs, TypeInv, Proper
  <1>3. UNCHANGED <<redis, memory, procs, env>>
    BY DEF AIReplies
  <1> QED
    BY <1>2, <1>3 DEF TypeInv, TypeOK, Proper, redis, memory, procs, env

LEMMA AICancelledType ==
    ASSUME TypeInv, NEW n \in DOMAIN run, AICancelled(n) PROVE TypeInv'
  <1> DEFINE label == "interrupted"
  <1>1. RunGoto(n, label) /\ label \in RunPcs
    BY DEF AICancelled, RunPcs
  <1>2. /\ run' \in Seq(Run) /\ Len(run') = Len(run)
        /\ \A m \in DOMAIN run' :
             run'[m].pc \in {"load", "call", "callNoURL", "setDispatch",
                             "check", "send"} => run'[m].sent < MaxParts
    BY <1>1, RunGotoFacts DEF AICancelled, RunPcs, TypeInv, Proper
  <1>3. UNCHANGED <<redis, memory, procs, env>>
    BY DEF AICancelled
  <1> QED
    BY <1>2, <1>3 DEF TypeInv, TypeOK, Proper, redis, memory, procs, env

LEMMA AIFailsType ==
    ASSUME TypeInv, NEW n \in DOMAIN run, AIFails(n) PROVE TypeInv'
  <1> DEFINE label == "clear"
  <1>1. RunGoto(n, label) /\ label \in RunPcs
    BY DEF AIFails, RunPcs
  <1>2. /\ run' \in Seq(Run) /\ Len(run') = Len(run)
        /\ \A m \in DOMAIN run' :
             run'[m].pc \in {"load", "call", "callNoURL", "setDispatch",
                             "check", "send"} => run'[m].sent < MaxParts
    BY <1>1, RunGotoFacts DEF AIFails, RunPcs, TypeInv, Proper
  <1>3. UNCHANGED <<redis, memory, procs, env>>
    BY DEF AIFails
  <1> QED
    BY <1>2, <1>3 DEF TypeInv, TypeOK, Proper, redis, memory, procs, env

LEMMA SetDispatchType ==
    ASSUME TypeInv, NEW n \in DOMAIN run, SetDispatch(n) PROVE TypeInv'
  <1>1. PICK label \in {"check", "clear"} : RunGoto(n, label)
    BY DEF SetDispatch
  <1>2. /\ run' \in Seq(Run) /\ Len(run') = Len(run)
        /\ \A m \in DOMAIN run' :
             run'[m].pc \in {"load", "call", "callNoURL", "setDispatch",
                             "check", "send"} => run'[m].sent < MaxParts
    BY <1>1, RunGotoFacts DEF SetDispatch, RunPcs, TypeInv, Proper
  <1>3. state' = In("dispatch") \/ UNCHANGED state
    BY DEF SetDispatch
  <1>4. faults' \in 0 .. MaxFaults
    BY BoundsAssumption DEF SetDispatch, Fault, TypeInv, TypeOK
  <1>5. UNCHANGED <<buffer, timer, lock, memory, procs, cancelling, cancels>>
    BY DEF SetDispatch
  <1>6. state' \in State /\ (state'.stage = "debounce" => state'.cfg \in Events)
    BY <1>3 DEF In, State, Stages, TypeInv, TypeOK, Proper
  <1> QED
    BY <1>2, <1>4, <1>5, <1>6 DEF TypeInv, TypeOK, Proper, memory, procs

LEMMA ClearFailedType ==
    ASSUME TypeInv, NEW n \in DOMAIN run, ClearFailed(n) PROVE TypeInv'
  <1> DEFINE label == "failed"
  <1>1. RunGoto(n, label) /\ label \in RunPcs
    BY DEF ClearFailed, RunPcs
  <1>2. /\ run' \in Seq(Run) /\ Len(run') = Len(run)
        /\ \A m \in DOMAIN run' :
             run'[m].pc \in {"load", "call", "callNoURL", "setDispatch",
                             "check", "send"} => run'[m].sent < MaxParts
    BY <1>1, RunGotoFacts DEF ClearFailed, RunPcs, TypeInv, Proper
  <1>3. ClearState \/ UNCHANGED <<state, buffer, timer>>
    BY DEF ClearFailed
  <1>4. faults' \in 0 .. MaxFaults
    BY BoundsAssumption DEF ClearFailed, Fault, TypeInv, TypeOK
  <1>5. UNCHANGED <<lock, memory, procs, cancelling, cancels>>
    BY DEF ClearFailed
  <1>6. /\ state' \in State /\ (state'.stage = "debounce" => state'.cfg \in Events)
        /\ buffer' \in Seq(Events) /\ timer' \in BOOLEAN
    BY <1>3, ClearStateFacts DEF TypeInv, TypeOK, Proper
  <1> QED
    BY <1>2, <1>4, <1>5, <1>6 DEF TypeInv, TypeOK, Proper, memory, procs

LEMMA CheckContextType ==
    ASSUME TypeInv, NEW n \in DOMAIN run, CheckContext(n) PROVE TypeInv'
  <1> DEFINE label == IF Aborted(n) THEN "interrupted" ELSE "send"
  <1>1. RunGoto(n, label) /\ label \in RunPcs
    BY DEF CheckContext, RunPcs
  <1>2. /\ run' \in Seq(Run) /\ Len(run') = Len(run)
        /\ \A m \in DOMAIN run' :
             run'[m].pc \in {"load", "call", "callNoURL", "setDispatch",
                             "check", "send"} => run'[m].sent < MaxParts
    BY <1>1, RunGotoFacts DEF CheckContext, RunPcs, TypeInv, Proper
  <1>3. UNCHANGED <<redis, memory, procs, env>>
    BY DEF CheckContext
  <1> QED
    BY <1>2, <1>3 DEF TypeInv, TypeOK, Proper, redis, memory, procs, env

LEMMA SendPartType ==
    ASSUME TypeInv, NEW n \in DOMAIN run, SendPart(n) PROVE TypeInv'
  <1>1. /\ run \in Seq(Run) /\ n \in 1 .. Len(run) /\ DOMAIN run = 1 .. Len(run)
        /\ Len(run) \in Nat
    BY DEF TypeInv, TypeOK
  <1>2. run[n] \in Run /\ run[n].sent \in Nat /\ run[n].sent + 1 \in 0 .. MaxParts
    <2>1. run[n] \in Run
      BY <1>1
    <2>2. run[n].sent \in 0 .. MaxParts
      BY <2>1 DEF Run
    <2>3. run[n].sent < MaxParts
      BY <1>1 DEF SendPart, TypeInv, Proper
    <2> QED
      BY <2>1, <2>2, <2>3, BoundsAssumption
  <1>3. PICK new \in Run :
          /\ run' = [run EXCEPT ![n] = new]
          /\ new.pc \in {"load", "call", "callNoURL", "setDispatch", "check", "send"}
               => new.sent < MaxParts
    <2>1. PICK next \in {"check", "setDone"} :
            /\ next = "check" => run[n].sent + 1 < MaxParts
            /\ run' = [run EXCEPT ![n].pc = next, ![n].sent = @ + 1]
      BY DEF SendPart
    <2> DEFINE r == [run[n] EXCEPT !.pc = next, !.sent = @ + 1]
    <2>2. r \in Run
      BY <1>2 DEF Run, RunPcs
    <2>3. r.pc = next /\ r.sent = run[n].sent + 1
      BY <1>2 DEF Run
    <2>4. run' = [run EXCEPT ![n] = r]
      BY <1>1, <1>2, <2>1
    <2> QED
      BY <2>1, <2>2, <2>3, <2>4
  <1>4. /\ run' \in Seq(Run) /\ Len(run') = Len(run)
        /\ \A m \in 1 .. Len(run) : run'[m] = IF m = n THEN new ELSE run[m]
    BY <1>1, <1>3, ExceptSeq
  <1>5. DOMAIN run' = DOMAIN run
    BY <1>1, <1>4
  <1>6. \A m \in DOMAIN run' :
          run'[m].pc \in {"load", "call", "callNoURL", "setDispatch",
                          "check", "send"} => run'[m].sent < MaxParts
    BY <1>1, <1>3, <1>4, <1>5 DEF TypeInv, Proper
  <1>7. UNCHANGED <<redis, memory, procs, env>>
    BY DEF SendPart
  <1> QED
    BY <1>4, <1>6, <1>7 DEF TypeInv, TypeOK, Proper, redis, memory, procs, env

LEMMA SendFailsType ==
    ASSUME TypeInv, NEW n \in DOMAIN run, SendFails(n) PROVE TypeInv'
  <1>1. /\ run \in Seq(Run) /\ n \in 1 .. Len(run) /\ DOMAIN run = 1 .. Len(run)
        /\ Len(run) \in Nat
    BY DEF TypeInv, TypeOK
  <1>2. run[n] \in Run /\ run[n].sent \in Nat /\ run[n].sent + 1 \in 0 .. MaxParts
    <2>1. run[n] \in Run
      BY <1>1
    <2>2. run[n].sent \in 0 .. MaxParts
      BY <2>1 DEF Run
    <2>3. run[n].sent < MaxParts
      BY <1>1 DEF SendFails, TypeInv, Proper
    <2> QED
      BY <2>1, <2>2, <2>3, BoundsAssumption
  <1>3. PICK new \in Run :
          /\ run' = [run EXCEPT ![n] = new]
          /\ new.pc \in {"load", "call", "callNoURL", "setDispatch", "check", "send"}
               => new.sent < MaxParts
    <2>1. PICK d \in {0, 1} :
            run' = [run EXCEPT ![n].pc = "clear", ![n].sent = @ + d]
      BY DEF SendFails
    <2> DEFINE r == [run[n] EXCEPT !.pc = "clear", !.sent = @ + d]
    <2>2. r \in Run
      <3>1. run[n].sent + d \in 0 .. MaxParts
        BY <1>2, BoundsAssumption
      <3> QED
        BY <1>2, <3>1 DEF Run, RunPcs
    <2>3. r.pc = "clear"
      BY <1>2 DEF Run
    <2>4. run' = [run EXCEPT ![n] = r]
      BY <1>1, <1>2, <2>1
    <2> QED
      BY <2>2, <2>3, <2>4
  <1>4. /\ run' \in Seq(Run) /\ Len(run') = Len(run)
        /\ \A m \in 1 .. Len(run) : run'[m] = IF m = n THEN new ELSE run[m]
    BY <1>1, <1>3, ExceptSeq
  <1>5. DOMAIN run' = DOMAIN run
    BY <1>1, <1>4
  <1>6. \A m \in DOMAIN run' :
          run'[m].pc \in {"load", "call", "callNoURL", "setDispatch",
                          "check", "send"} => run'[m].sent < MaxParts
    BY <1>1, <1>3, <1>4, <1>5 DEF TypeInv, Proper
  <1>7. UNCHANGED <<redis, memory, procs, env>>
    BY DEF SendFails
  <1> QED
    BY <1>4, <1>6, <1>7 DEF TypeInv, TypeOK, Proper, redis, memory, procs, env

LEMMA SetDoneType ==
    ASSUME TypeInv, NEW n \in DOMAIN run, SetDone(n) PROVE TypeInv'
  <1> DEFINE label == "clearDone"
  <1>1. RunGoto(n, label) /\ label \in RunPcs
    BY DEF SetDone, RunPcs
  <1>2. /\ run' \in Seq(Run) /\ Len(run') = Len(run)
        /\ \A m \in DOMAIN run' :
             run'[m].pc \in {"load", "call", "callNoURL", "setDispatch",
                             "check", "send"} => run'[m].sent < MaxParts
    BY <1>1, RunGotoFacts DEF SetDone, RunPcs, TypeInv, Proper
  <1>3. state' = In("done") \/ UNCHANGED state
    BY DEF SetDone
  <1>4. faults' \in 0 .. MaxFaults
    BY BoundsAssumption DEF SetDone, Fault, TypeInv, TypeOK
  <1>5. UNCHANGED <<buffer, timer, lock, memory, procs, cancelling, cancels>>
    BY DEF SetDone
  <1>6. state' \in State /\ (state'.stage = "debounce" => state'.cfg \in Events)
    BY <1>3 DEF In, State, Stages, TypeInv, TypeOK, Proper
  <1> QED
    BY <1>2, <1>4, <1>5, <1>6 DEF TypeInv, TypeOK, Proper, memory, procs

LEMMA ClearDoneType ==
    ASSUME TypeInv, NEW n \in DOMAIN run, ClearDone(n) PROVE TypeInv'
  <1> DEFINE label == "delete"
  <1>1. RunGoto(n, label) /\ label \in RunPcs
    BY DEF ClearDone, RunPcs
  <1>2. /\ run' \in Seq(Run) /\ Len(run') = Len(run)
        /\ \A m \in DOMAIN run' :
             run'[m].pc \in {"load", "call", "callNoURL", "setDispatch",
                             "check", "send"} => run'[m].sent < MaxParts
    BY <1>1, RunGotoFacts DEF ClearDone, RunPcs, TypeInv, Proper
  <1>3. ClearState \/ UNCHANGED <<state, buffer, timer>>
    BY DEF ClearDone
  <1>4. faults' \in 0 .. MaxFaults
    BY BoundsAssumption DEF ClearDone, Fault, TypeInv, TypeOK
  <1>5. UNCHANGED <<lock, memory, procs, cancelling, cancels>>
    BY DEF ClearDone
  <1>6. /\ state' \in State /\ (state'.stage = "debounce" => state'.cfg \in Events)
        /\ buffer' \in Seq(Events) /\ timer' \in BOOLEAN
    BY <1>3, ClearStateFacts DEF TypeInv, TypeOK, Proper
  <1> QED
    BY <1>2, <1>4, <1>5, <1>6 DEF TypeInv, TypeOK, Proper, memory, procs

LEMMA DeleteEntryType ==
    ASSUME TypeInv, NEW n \in DOMAIN run, DeleteEntry(n) PROVE TypeInv'
  <1> DEFINE label == "completed"
  <1>1. RunGoto(n, label) /\ label \in RunPcs
    BY DEF DeleteEntry, RunPcs
  <1>2. /\ run' \in Seq(Run) /\ Len(run') = Len(run)
        /\ \A m \in DOMAIN run' :
             run'[m].pc \in {"load", "call", "callNoURL", "setDispatch",
                             "check", "send"} => run'[m].sent < MaxParts
    BY <1>1, RunGotoFacts DEF DeleteEntry, RunPcs, TypeInv, Proper
  <1>3. entries' \in [Instances -> Context \cup {None}]
    BY DEF DeleteEntry, TypeInv, TypeOK
  <1>4. UNCHANGED <<redis, up, boots, cancelled, procs, env>>
    BY DEF DeleteEntry
  <1> QED
    BY <1>2, <1>3, <1>4 DEF TypeInv, TypeOK, Proper, redis, procs, env

LEMMA LockExpiresType ==
    ASSUME TypeInv, LockExpires PROVE TypeInv'
  BY ActorsAssumption, BoundsAssumption
  DEF LockExpires, TypeInv, TypeOK, Proper, redis, memory, procs, env, Actors, ActorPcs, Inside, Final

LEMMA TimerExpiresType ==
    ASSUME TypeInv, TimerExpires PROVE TypeInv'
  BY ActorsAssumption, BoundsAssumption
  DEF TimerExpires, TypeInv, TypeOK, Proper, redis, memory, procs, env, Actors, ActorPcs, Inside, Final

LEMMA TypeInvNext == TypeInv /\ [Next]_vars => TypeInv'
  <1> SUFFICES ASSUME TypeInv, [Next]_vars PROVE TypeInv'
    OBVIOUS
  <1>1. ASSUME NEW e \in Events,
               Accept(e) \/ Refuse(e) \/ ProcessStep(e)
        PROVE  TypeInv'
    BY <1>1, AcceptType, RefuseType, GetStateType, CancelPreviousType,
       ClearPreviousType, StoreEntryType, StartTimerType,
       SetDebounceType, AppendToBufferType, ProcessFailsType
    DEF ProcessStep
  <1>2. ASSUME NEW i \in Instances,
               PollStep(i) \/ AdvanceStep(i) \/ Cancel(i) \/
               CancelClear(i) \/ Shutdown(i) \/ Crash(i) \/ Restart(i) \/
               Serve(i)
        PROVE  TypeInv'
    BY <1>2, PollStepType, RecheckStateType, RecheckTimerType,
       AdvanceFailsType, CancelType, CancelClearType, ShutdownType,
       CrashType, RestartType, ServeType
    DEF AdvanceStep
  <1>3. ASSUME NEW h \in Actors,
               LockStep(h) \/ LaunchStep(h)
        PROVE  TypeInv'
    BY <1>3, AcquireLockType, LockFailedType, UnlockType, GetBufferType,
       SetAIType, LaunchType
    DEF LockStep, LaunchStep
  <1>4. ASSUME NEW n \in DOMAIN run,
               AIStep(n) \/ DispatchStep(n)
        PROVE  TypeInv'
    BY <1>4, LoadEntryType, AIRepliesType, AICancelledType, AIFailsType,
       SetDispatchType, CheckContextType, SendPartType,
       SendFailsType, ClearFailedType, SetDoneType, ClearDoneType,
       DeleteEntryType
    DEF AIStep, DispatchStep
  <1>5. CASE LockExpires \/ TimerExpires
    BY <1>5, LockExpiresType, TimerExpiresType
  <1>6. CASE UNCHANGED vars
    BY <1>6 DEF vars, redis, memory, procs, env, TypeInv, TypeOK, Proper
  <1> QED
    BY <1>1, <1>2, <1>3, <1>4, <1>5, <1>6 DEF Next, Rest

(* Every variable has its type in every reachable state, for any number of *)
(* messages, replicas, crashes and failing Redis calls.                    *)
THEOREM TypeCorrect == Spec => []TypeOK
  <1>1. Init => TypeInv
    BY InitTypeInv
  <1>2. TypeInv /\ [Next]_vars => TypeInv'
    BY TypeInvNext
  <1>3. TypeInv => TypeOK
    BY DEF TypeInv
  <1> QED
    BY <1>1, <1>2, <1>3, PTL DEF Spec
----------------------------------------------------------------------------
(* Whoever is between AcquireLock and Unlock holds the lock.  The timer is  *)
(* set and the buffer appended to only in between, which is why what the   *)
(* poller has checked stays true until it launches.                        *)
LockInv == \A h \in Actors : pc[h] \in Inside => lock = h
HolderInv == LockInv /\ QuietPeriodKept /\ SnapshotComplete

(* What the goroutines of a run may do to what HolderInv is about *)
RunEffect ==
    /\ UNCHANGED <<lock, pc, job>>
    /\ UNCHANGED buffer \/ buffer' = <<>>
    /\ UNCHANGED timer \/ timer' = FALSE
    /\ DOMAIN run' = DOMAIN run
    /\ \A n \in DOMAIN run : run'[n].by = run[n].by
    /\ UNCHANGED state \/ (state'.stage # "debounce")

LEMMA RunStepEffect ==
    ASSUME TypeInv, NEW n \in DOMAIN run, AIStep(n) \/ DispatchStep(n)
    PROVE  RunEffect
  <1>1. /\ UNCHANGED <<lock, pc, job>>
        /\ UNCHANGED buffer \/ buffer' = <<>>
        /\ UNCHANGED timer \/ timer' = FALSE
    BY DEF AIStep, DispatchStep, LoadEntry, AIReplies, AICancelled, AIFails,
       SetDispatch, CheckContext, SendPart, SendFails, ClearFailed, SetDone,
       ClearDone, DeleteEntry, redis, memory, procs, env, ClearState
  <1>2. UNCHANGED state \/ state' = In("dispatch") \/ state' = In("done") \/ state' = NoState
    BY DEF AIStep, DispatchStep, LoadEntry, AIReplies, AICancelled, AIFails,
       SetDispatch, CheckContext, SendPart, SendFails, ClearFailed, SetDone,
       ClearDone, DeleteEntry, redis, memory, procs, env, ClearState
  <1>3. UNCHANGED state \/ (state'.stage # "debounce")
    BY <1>2 DEF In, NoState
  <1>4. run \in Seq(Run) /\ n \in 1 .. Len(run) /\ DOMAIN run = 1 .. Len(run)
    BY DEF TypeInv, TypeOK
  <1>5. run[n] \in Run
    BY <1>4
  <1>6. PICK l, d : run' = [run EXCEPT ![n] = [run[n] EXCEPT !.pc = l, !.sent = d]]
    <2>1. CASE \E l : RunGoto(n, l)
      <3>1. PICK l : run' = [run EXCEPT ![n] = [run[n] EXCEPT !.pc = l]]
        BY <2>1 DEF RunGoto
      <3>2. [run[n] EXCEPT !.pc = l] = [run[n] EXCEPT !.pc = l, !.sent = run[n].sent]
        BY <1>5 DEF Run
      <3> QED
        BY <3>1, <3>2
    <2>2. CASE SendPart(n)
      BY <2>2 DEF SendPart
    <2>3. CASE SendFails(n)
      BY <2>3 DEF SendFails
    <2> QED
      BY <2>1, <2>2, <2>3 DEF AIStep, DispatchStep, LoadEntry, AIReplies,
         AICancelled, AIFails, SetDispatch, CheckContext, ClearFailed, SetDone,
         ClearDone, DeleteEntry
  <1>7. [run[n] EXCEPT !.pc = l, !.sent = d].by = run[n].by
    BY <1>5 DEF Run
  <1>8. DOMAIN run' = DOMAIN run /\ \A m \in DOMAIN run : run'[m].by = run[m].by
    BY <1>4, <1>6, <1>7
  <1> QED
    BY <1>1, <1>3, <1>8 DEF RunEffect

(* A step that takes nobody into the lock or nearer to a launch *)
LEMMA NoAdvance ==
    ASSUME HolderInv, UNCHANGED <<buffer, timer, lock>>,
           \A g \in Actors :
             /\ pc'[g] \in Inside => pc[g] \in Inside
             /\ pc'[g] \in {"snapshot", "ai", "launch"}
                  => pc[g] \in {"snapshot", "ai", "launch"}
             /\ pc'[g] \in {"ai", "launch"}
                  => pc[g] \in {"ai", "launch"} /\ job'[g] = job[g]
    PROVE  HolderInv'
  BY DEF HolderInv, LockInv, QuietPeriodKept, SnapshotComplete, Actors

LEMMA NoAdvanceGoto ==
    ASSUME TypeInv, HolderInv, UNCHANGED <<buffer, timer, lock, job>>,
           NEW h \in Actors, NEW l, pc' = [pc EXCEPT ![h] = l],
           l \in Inside => pc[h] \in Inside,
           l \in {"snapshot", "ai", "launch"} => l = "launch" /\ pc[h] = "ai"
    PROVE  HolderInv'
  <1>1. \A g \in Actors : pc'[g] = IF g = h THEN l ELSE pc[g]
    BY DEF TypeInv, TypeOK
  <1> QED
    BY <1>1, NoAdvance

LEMMA HolderInvNext == Prompt /\ TypeInv /\ HolderInv /\ [Next]_vars => HolderInv'
  <1> SUFFICES ASSUME Prompt, TypeInv, HolderInv, [Next]_vars PROVE HolderInv'
    OBVIOUS
  <1>1. ASSUME NEW e \in Events, Accept(e) PROVE HolderInv'
    <2>1. UNCHANGED <<buffer, timer, lock, job>>
      BY <1>1 DEF Accept
    <2>2. PICK l \in {"accepted"} : pc' = [pc EXCEPT ![e] = l]
      BY <1>1 DEF Accept, Goto
    <2> QED
      BY <2>1, <2>2, NoAdvanceGoto DEF Actors, Inside
  <1>2. ASSUME NEW e \in Events, Refuse(e) PROVE HolderInv'
    <2>1. UNCHANGED <<buffer, timer, lock, job>>
      BY <1>2 DEF Refuse, redis
    <2>2. PICK l \in {"refused"} : pc' = [pc EXCEPT ![e] = l]
      BY <1>2 DEF Refuse, Goto
    <2> QED
      BY <2>1, <2>2, NoAdvanceGoto DEF Actors, Inside
  <1>3. ASSUME NEW e \in Events, GetState(e) PROVE HolderInv'
    <2>1. UNCHANGED <<buffer, timer, lock, job>> /\ pc[e] = "locked"
      BY <1>3 DEF GetState, redis
    <2>2. PICK l \in {"fresh", "reset", "interrupt", "unlock"} : pc' = [pc EXCEPT ![e] = l]
      <3>1. state.stage \in Stages
        BY DEF TypeInv, TypeOK, State
      <3> QED
        BY <1>3, <3>1, Zenon DEF GetState, Goto, Stages
    <2> QED
      BY <2>1, <2>2, NoAdvanceGoto DEF Actors, Inside
  <1>4. ASSUME NEW e \in Events, CancelPrevious(e) PROVE HolderInv'
    BY <1>4, ActorsAssumption
    DEF CancelPrevious, HolderInv, LockInv, QuietPeriodKept,
        SnapshotComplete, TypeInv, TypeOK, redis, memory, procs, env,
        Actors, Inside, Final, ActorPcs, Goto
  <1>5. ASSUME NEW e \in Events, ClearPrevious(e) PROVE HolderInv'
    BY <1>5, ActorsAssumption
    DEF ClearPrevious, HolderInv, LockInv, QuietPeriodKept,
        SnapshotComplete, TypeInv, TypeOK, redis, memory, procs, env,
        Actors, Inside, Final, ActorPcs, Goto, ClearState
  <1>6. ASSUME NEW e \in Events, StoreEntry(e) PROVE HolderInv'
    BY <1>6, ActorsAssumption
    DEF StoreEntry, HolderInv, LockInv, QuietPeriodKept,
        SnapshotComplete, TypeInv, TypeOK, redis, memory, procs, env,
        Actors, Inside, Final, ActorPcs, Goto
  <1>7. ASSUME NEW e \in Events, StartTimer(e) PROVE HolderInv'
    BY <1>7, ActorsAssumption
    DEF StartTimer, HolderInv, LockInv, QuietPeriodKept,
        SnapshotComplete, TypeInv, TypeOK, redis, memory, procs, env,
        Actors, Inside, Final, ActorPcs, Goto
  <1>8. ASSUME NEW e \in Events, SetDebounce(e) PROVE HolderInv'
    BY <1>8, ActorsAssumption
    DEF SetDebounce, HolderInv, LockInv, QuietPeriodKept,
        SnapshotComplete, TypeInv, TypeOK, redis, memory, procs, env,
        Actors, Inside, Final, ActorPcs, Goto
  <1>9. ASSUME NEW e \in Events, AppendToBuffer(e) PROVE HolderInv'
    BY <1>9, ActorsAssumption
    DEF AppendToBuffer, HolderInv, LockInv, QuietPeriodKept,
        SnapshotComplete, TypeInv, TypeOK, redis, memory, procs, env,
        Actors, Inside, Final, ActorPcs, Goto
  <1>10. ASSUME NEW e \in Events, ProcessFails(e) PROVE HolderInv'
    BY <1>10, ActorsAssumption
    DEF ProcessFails, HolderInv, LockInv, QuietPeriodKept,
        SnapshotComplete, TypeInv, TypeOK, redis, memory, procs, env,
        Actors, Inside, Final, ActorPcs, Goto
  <1>11. ASSUME NEW h \in Actors, AcquireLock(h) PROVE HolderInv'
    BY <1>11, ActorsAssumption
    DEF AcquireLock, HolderInv, LockInv, QuietPeriodKept,
        SnapshotComplete, TypeInv, TypeOK, redis, memory, procs, env,
        Actors, Inside, Final, ActorPcs, Goto
  <1>12. ASSUME NEW h \in Actors, LockFailed(h) PROVE HolderInv'
    <2>1. UNCHANGED <<buffer, timer, lock, job>>
      BY <1>12 DEF LockFailed, redis
    <2>2. PICK l \in {"dropped", "idle"} : pc' = [pc EXCEPT ![h] = l]
      BY <1>12 DEF LockFailed, Goto
    <2> QED
      BY <2>1, <2>2, NoAdvanceGoto DEF Actors, Inside
  <1>13. ASSUME NEW h \in Actors, Unlock(h) PROVE HolderInv'
    BY <1>13, ActorsAssumption
    DEF Unlock, HolderInv, LockInv, QuietPeriodKept, SnapshotComplete,
        TypeInv, TypeOK, redis, memory, procs, env, Actors, Inside, Final,
        ActorPcs, Goto
  <1>14. ASSUME NEW i \in Instances, PollStep(i) PROVE HolderInv'
    <2>1. UNCHANGED <<buffer, timer, lock, job>>
      BY <1>14, PollStepFacts DEF redis
    <2>2. PICK l \in {"peek", "expired", "idle"} : pc' = [pc EXCEPT ![i] = l]
      BY <1>14, PollStepFacts
    <2> QED
      BY <2>1, <2>2, NoAdvanceGoto DEF Actors, Inside
  <1>15. ASSUME NEW i \in Instances, RecheckState(i) PROVE HolderInv'
    <2>1. UNCHANGED <<buffer, timer, lock>>
      BY <1>15 DEF RecheckState, redis
    <2>2. /\ pc[i] = "recheck" /\ pc'[i] \in {"retimer", "unlock"}
          /\ \A g \in Actors \ {i} : pc'[g] = pc[g] /\ job'[g] = job[g]
      BY <1>15 DEF RecheckState, Goto, TypeInv, TypeOK, Actors
    <2> QED
      BY <2>1, <2>2, NoAdvance DEF Inside, Actors
  <1>16. ASSUME NEW i \in Instances, RecheckTimer(i) PROVE HolderInv'
    BY <1>16, ActorsAssumption
    DEF RecheckTimer, HolderInv, LockInv, QuietPeriodKept,
        SnapshotComplete, TypeInv, TypeOK, redis, memory, procs, env,
        Actors, Inside, Final, ActorPcs, Goto
  <1>17. ASSUME NEW h \in Actors, GetBuffer(h) PROVE HolderInv'
    BY <1>17, ActorsAssumption
    DEF GetBuffer, HolderInv, LockInv, QuietPeriodKept,
        SnapshotComplete, TypeInv, TypeOK, redis, memory, procs, env,
        Actors, Inside, Final, ActorPcs, Goto
  <1>18. ASSUME NEW h \in Actors, SetAI(h) PROVE HolderInv'
    <2>1. UNCHANGED <<buffer, timer, lock, job>> /\ pc[h] = "ai"
      BY <1>18 DEF SetAI, redis
    <2>2. PICK l \in {"launch"} : pc' = [pc EXCEPT ![h] = l]
      BY <1>18 DEF SetAI, Goto
    <2> QED
      BY <2>1, <2>2, NoAdvanceGoto DEF Actors, Inside
  <1>19. ASSUME NEW h \in Actors, Launch(h) PROVE HolderInv'
    BY <1>19, ActorsAssumption
    DEF Launch, HolderInv, LockInv, QuietPeriodKept, SnapshotComplete,
        TypeInv, TypeOK, redis, memory, procs, env, Actors, Inside, Final,
        ActorPcs, Goto
  <1>20. ASSUME NEW i \in Instances, AdvanceFails(i) PROVE HolderInv'
    BY <1>20, ActorsAssumption
    DEF AdvanceFails, HolderInv, LockInv, QuietPeriodKept,
        SnapshotComplete, TypeInv, TypeOK, redis, memory, procs, env,
        Actors, Inside, Final, ActorPcs, Goto
  <1>21. ASSUME NEW i \in Instances, Cancel(i) PROVE HolderInv'
    BY <1>21, ActorsAssumption
    DEF Cancel, HolderInv, LockInv, QuietPeriodKept, SnapshotComplete,
        TypeInv, TypeOK, redis, memory, procs, env, Actors, Inside, Final,
        ActorPcs
  <1>22. ASSUME NEW i \in Instances, CancelClear(i) PROVE HolderInv'
    BY <1>22, ActorsAssumption
    DEF CancelClear, HolderInv, LockInv, QuietPeriodKept,
        SnapshotComplete, TypeInv, TypeOK, redis, memory, procs, env,
        Actors, Inside, Final, ActorPcs, ClearState
  <1>23. ASSUME NEW i \in Instances, Shutdown(i) PROVE HolderInv'
    BY <1>23, ActorsAssumption
    DEF Shutdown, HolderInv, LockInv, QuietPeriodKept, SnapshotComplete,
        TypeInv, TypeOK, redis, memory, procs, env, Actors, Inside, Final,
        ActorPcs
  <1>24. ASSUME NEW i \in Instances, Crash(i) PROVE HolderInv'
    <2>1. UNCHANGED <<buffer, timer, lock, job>>
      BY <1>24 DEF Crash, redis
    <2>2. \A g \in Actors : pc'[g] \in {pc[g], "idle", "killed"}
      BY <1>24 DEF Crash
    <2> QED
      BY <2>1, <2>2, NoAdvance DEF Inside
  <1>25. ASSUME NEW i \in Instances, Restart(i) PROVE HolderInv'
    <2>1. UNCHANGED <<buffer, timer, lock, job>>
      BY <1>25, RestartFacts
    <2>2. \A g \in Actors : pc'[g] \in {pc[g], "idle", "expired"}
      BY <1>25, RestartFacts
    <2> QED
      BY <2>1, <2>2, NoAdvance DEF Inside
  <1>26. ASSUME NEW i \in Instances, Serve(i) PROVE HolderInv'
    BY <1>26, ActorsAssumption
    DEF Serve, HolderInv, LockInv, QuietPeriodKept, SnapshotComplete,
        TypeInv, TypeOK, redis, memory, procs, env, Actors, Inside, Final,
        ActorPcs
  <1>27. ASSUME LockExpires PROVE HolderInv'
    BY <1>27, ActorsAssumption
    DEF LockExpires, HolderInv, LockInv, QuietPeriodKept,
        SnapshotComplete, TypeInv, TypeOK, redis, memory, procs, env,
        Actors, Inside, Final, ActorPcs
  <1>28. ASSUME TimerExpires PROVE HolderInv'
    BY <1>28, ActorsAssumption
    DEF TimerExpires, HolderInv, LockInv, QuietPeriodKept,
        SnapshotComplete, TypeInv, TypeOK, redis, memory, procs, env,
        Actors, Inside, Final, ActorPcs
  <1>29. ASSUME NEW n \in DOMAIN run, AIStep(n) \/ DispatchStep(n)
        PROVE  HolderInv'
    <2>1. RunEffect
      BY <1>29, RunStepEffect
    <2> QED
      BY <2>1 DEF RunEffect, HolderInv, LockInv, QuietPeriodKept, SnapshotComplete
  <1>30. CASE UNCHANGED vars
    BY <1>30 DEF vars, redis, memory, procs, env, HolderInv, LockInv, QuietPeriodKept, SnapshotComplete
  <1> QED
    BY <1>1, <1>2, <1>3, <1>4, <1>5, <1>6, <1>7, <1>8, <1>9, <1>10,
       <1>11, <1>12, <1>13, <1>14, <1>15, <1>16, <1>17, <1>18, <1>19,
       <1>20, <1>21, <1>22, <1>23, <1>24, <1>25, <1>26, <1>27, <1>28,
       <1>29, <1>30
    DEF Next, Rest, ProcessStep, AdvanceStep, LockStep, LaunchStep

LEMMA InitHolderInv == Init => HolderInv
  <1> SUFFICES ASSUME Init PROVE HolderInv
    OBVIOUS
  <1>1. \A h \in Actors : pc[h] \in {"unsent", "idle"}
    BY DEF Init
  <1> QED
    BY <1>1 DEF HolderInv, LockInv, QuietPeriodKept, SnapshotComplete, Inside, Actors

(* Process and advanceToAI never work on the pair at the same time, for any *)
(* number of messages and replicas, with crashes and failing Redis calls,   *)
(* provided that no holder outlives the TTL of its lock (Prompt).           *)
PROPOSITION MutualExclusionHolds ==
    ASSUME Prompt PROVE Spec => []MutualExclusion
  <1>1. Init => TypeInv /\ HolderInv
    BY InitTypeInv, InitHolderInv
  <1>2. TypeInv /\ HolderInv /\ [Next]_vars => (TypeInv /\ HolderInv)'
    BY TypeInvNext, HolderInvNext
  <1>3. TypeInv /\ HolderInv => MutualExclusion
    BY DEF HolderInv, LockInv, MutualExclusion
  <1> QED
    BY <1>1, <1>2, <1>3, PTL DEF Spec

(* No poller launches the AI stage while the debounce timer of the pair runs. *)
THEOREM QuietPeriodHolds ==
    ASSUME Prompt PROVE Spec => []QuietPeriodKept
  <1>1. Init => TypeInv /\ HolderInv
    BY InitTypeInv, InitHolderInv
  <1>2. TypeInv /\ HolderInv /\ [Next]_vars => (TypeInv /\ HolderInv)'
    BY TypeInvNext, HolderInvNext
  <1>3. TypeInv /\ HolderInv => QuietPeriodKept
    BY DEF HolderInv
  <1> QED
    BY <1>1, <1>2, <1>3, PTL DEF Spec

(* What is handed to the AI stage holds every message in the buffer. *)
THEOREM SnapshotHolds ==
    ASSUME Prompt PROVE Spec => []SnapshotComplete
  <1>1. Init => TypeInv /\ HolderInv
    BY InitTypeInv, InitHolderInv
  <1>2. TypeInv /\ HolderInv /\ [Next]_vars => (TypeInv /\ HolderInv)'
    BY TypeInvNext, HolderInvNext
  <1>3. TypeInv /\ HolderInv => SnapshotComplete
    BY DEF HolderInv
  <1> QED
    BY <1>1, <1>2, <1>3, PTL DEF Spec
----------------------------------------------------------------------------
(* A launch leaves the runs there are alone and adds at most one, for what *)
(* the actor has read.                                                      *)
LEMMA LaunchFacts ==
    ASSUME TypeInv, NEW h \in Actors, Launch(h)
    PROVE  \/ UNCHANGED run
           \/ /\ DOMAIN run' = DOMAIN run \cup {Len(run) + 1}
              /\ Len(run) + 1 \notin DOMAIN run
              /\ \A n \in DOMAIN run : run'[n] = run[n]
              /\ run'[Len(run) + 1].by = job[h].by
              /\ run'[Len(run) + 1].buf = job[h].buf
              /\ run'[Len(run) + 1].pc = "load"
  <1>1. run \in Seq(Run) /\ Len(run) \in Nat /\ DOMAIN run = 1 .. Len(run)
    BY DEF TypeInv, TypeOK
  <1>2. CASE entries[Inst(h)] = None
    BY <1>2 DEF Launch
  <1>3. CASE entries[Inst(h)] # None
    <2> DEFINE new == [pc |-> "load", ctx |-> entries[Inst(h)],
                       by |-> job[h].by, buf |-> job[h].buf, sent |-> 0]
    <2>1. /\ run' = Append(run, new)
          /\ new.by = job[h].by /\ new.buf = job[h].buf /\ new.pc = "load"
      BY <1>3 DEF Launch
    <2>2. Inst(h) \in Instances /\ job[h].by \in Events /\ job[h] \in Job
      BY DEF Launch, Inst, TypeInv, TypeOK, Proper, Actors
    <2>3. new \in Run
      BY <1>3, <2>2, BoundsAssumption DEF TypeInv, TypeOK, Run, RunPcs, Job
    <2> HIDE DEF new
    <2>4. /\ DOMAIN run' = 1 .. Len(run) + 1
          /\ \A n \in 1 .. Len(run) : run'[n] = run[n]
          /\ run'[Len(run) + 1] = new
      BY <1>1, <2>1, <2>3
    <2>5. DOMAIN run' = DOMAIN run \cup {Len(run) + 1}
      <3> DEFINE L == Len(run)
      <3>1. L \in Nat => 1 .. L + 1 = (1 .. L) \cup {L + 1}
        <4> HIDE DEF L
        <4> QED
          OBVIOUS
      <3> QED
        BY <1>1, <2>4, <3>1
    <2>6. Len(run) + 1 \notin DOMAIN run
      BY <1>1
    <2>7. \A n \in DOMAIN run : run'[n] = run[n]
      BY <1>1, <2>4
    <2> QED
      BY <2>1, <2>4, <2>5, <2>6, <2>7
  <1> QED
    BY <1>2, <1>3

(* The event e has made its debounce, or left Process some other way *)
Past(e) == pc[e] \in {"unlock"} \cup Final
Unlaunched(e) == \A n \in DOMAIN run : run[n].by # e

(* Why a debounce is launched once: while the stage is debounce, or a      *)
(* poller that has read it holds the lock, its event has no run; an event  *)
(* sets the stage once; and a launch is made with the stage no longer      *)
(* debounce.                                                               *)
OnceInv ==
    /\ state.stage = "debounce" => Past(state.cfg) /\ Unlaunched(state.cfg)
    /\ \A i \in Instances :
         pc[i] \in {"retimer", "snapshot", "ai", "launch"}
           => Past(job[i].by) /\ Unlaunched(job[i].by)
    /\ \A e \in Events : ~Past(e) => Unlaunched(e)
    /\ \A e \in Events : pc[e] \in {"ai", "launch"} => job[e].by = e
    /\ \A h \in Actors : pc[h] = "launch" => state.stage # "debounce"
    /\ AdvancedOnce

LEMMA OnceInvNext == TypeInv /\ HolderInv /\ OnceInv /\ [Next]_vars => OnceInv'
  <1> SUFFICES ASSUME TypeInv, HolderInv, OnceInv, [Next]_vars PROVE OnceInv'
    OBVIOUS
  <1>1. ASSUME NEW e \in Events, Accept(e) PROVE OnceInv'
    BY <1>1, ActorsAssumption
    DEF Accept, OnceInv, Past, Unlaunched, AdvancedOnce, HolderInv,
        LockInv, TypeInv, TypeOK, Proper, redis, memory, procs, env, Actors,
        Inside, Final, ActorPcs, Goto, In
  <1>2. ASSUME NEW e \in Events, Refuse(e) PROVE OnceInv'
    BY <1>2, ActorsAssumption
    DEF Refuse, OnceInv, Past, Unlaunched, AdvancedOnce, HolderInv,
        LockInv, TypeInv, TypeOK, Proper, redis, memory, procs, env, Actors,
        Inside, Final, ActorPcs, Goto
  <1>3. ASSUME NEW e \in Events, GetState(e) PROVE OnceInv'
    <2>1. UNCHANGED <<state, job, run>> /\ pc[e] = "locked"
      BY <1>3 DEF GetState, redis
    <2>2. PICK l \in {"fresh", "reset", "interrupt", "unlock"} : pc' = [pc EXCEPT ![e] = l]
      <3>1. state.stage \in Stages
        BY DEF TypeInv, TypeOK, State
      <3> QED
        BY <1>3, <3>1, Zenon DEF GetState, Goto, Stages
    <2>3. \A g \in Actors : pc'[g] = IF g = e THEN l ELSE pc[g]
      BY <2>2 DEF TypeInv, TypeOK
    <2>4. state.stage = "debounce" => state.cfg \in Events
      BY DEF TypeInv, Proper
    <2>5. \A g \in Instances : pc[g] \in {"retimer", "snapshot", "ai", "launch"}
            => job[g].by \in Events
      BY DEF TypeInv, Proper, Actors
    <2> QED
      BY <2>1, <2>3, <2>4, <2>5, ActorsAssumption DEF Actors, Final, OnceInv, Past, Unlaunched, AdvancedOnce
  <1>4. ASSUME NEW e \in Events, CancelPrevious(e) PROVE OnceInv'
    BY <1>4, ActorsAssumption
    DEF CancelPrevious, OnceInv, Past, Unlaunched, AdvancedOnce,
        HolderInv, LockInv, TypeInv, TypeOK, Proper, redis, memory, procs,
        env, Actors, Inside, Final, ActorPcs, Goto
  <1>5. ASSUME NEW e \in Events, ClearPrevious(e) PROVE OnceInv'
    BY <1>5, ActorsAssumption
    DEF ClearPrevious, OnceInv, Past, Unlaunched, AdvancedOnce,
        HolderInv, LockInv, TypeInv, TypeOK, Proper, redis, memory, procs,
        env, Actors, Inside, Final, ActorPcs, Goto, ClearState, NoState
  <1>6. ASSUME NEW e \in Events, StoreEntry(e) PROVE OnceInv'
    BY <1>6, ActorsAssumption
    DEF StoreEntry, OnceInv, Past, Unlaunched, AdvancedOnce, HolderInv,
        LockInv, TypeInv, TypeOK, Proper, redis, memory, procs, env, Actors,
        Inside, Final, ActorPcs, Goto
  <1>7. ASSUME NEW e \in Events, StartTimer(e) PROVE OnceInv'
    BY <1>7, ActorsAssumption
    DEF StartTimer, OnceInv, Past, Unlaunched, AdvancedOnce, HolderInv,
        LockInv, TypeInv, TypeOK, Proper, redis, memory, procs, env, Actors,
        Inside, Final, ActorPcs, Goto
  <1>8. ASSUME NEW e \in Events, SetDebounce(e) PROVE OnceInv'
    BY <1>8, ActorsAssumption
    DEF SetDebounce, OnceInv, Past, Unlaunched, AdvancedOnce, HolderInv,
        LockInv, TypeInv, TypeOK, Proper, redis, memory, procs, env, Actors,
        Inside, Final, ActorPcs, Goto
  <1>9. ASSUME NEW e \in Events, AppendToBuffer(e) PROVE OnceInv'
    BY <1>9, ActorsAssumption
    DEF AppendToBuffer, OnceInv, Past, Unlaunched, AdvancedOnce,
        HolderInv, LockInv, TypeInv, TypeOK, Proper, redis, memory, procs,
        env, Actors, Inside, Final, ActorPcs, Goto
  <1>10. ASSUME NEW e \in Events, ProcessFails(e) PROVE OnceInv'
    BY <1>10, ActorsAssumption
    DEF ProcessFails, OnceInv, Past, Unlaunched, AdvancedOnce,
        HolderInv, LockInv, TypeInv, TypeOK, Proper, redis, memory, procs,
        env, Actors, Inside, Final, ActorPcs, Goto
  <1>11. ASSUME NEW h \in Actors, AcquireLock(h) PROVE OnceInv'
    BY <1>11, ActorsAssumption
    DEF AcquireLock, OnceInv, Past, Unlaunched, AdvancedOnce, HolderInv,
        LockInv, TypeInv, TypeOK, Proper, redis, memory, procs, env, Actors,
        Inside, Final, ActorPcs, Goto
  <1>12. ASSUME NEW h \in Actors, LockFailed(h) PROVE OnceInv'
    BY <1>12, ActorsAssumption
    DEF LockFailed, OnceInv, Past, Unlaunched, AdvancedOnce, HolderInv,
        LockInv, TypeInv, TypeOK, Proper, redis, memory, procs, env, Actors,
        Inside, Final, ActorPcs, Goto
  <1>13. ASSUME NEW h \in Actors, Unlock(h) PROVE OnceInv'
    BY <1>13, ActorsAssumption
    DEF Unlock, OnceInv, Past, Unlaunched, AdvancedOnce, HolderInv,
        LockInv, TypeInv, TypeOK, Proper, redis, memory, procs, env, Actors,
        Inside, Final, ActorPcs, Goto
  <1>14. ASSUME NEW i \in Instances, PollStep(i) PROVE OnceInv'
    <2>1. UNCHANGED <<state, job, run>>
      BY <1>14, PollStepFacts DEF redis
    <2>2. PICK l \in {"peek", "expired", "idle"} : pc' = [pc EXCEPT ![i] = l]
      BY <1>14, PollStepFacts
    <2>3. \A g \in Actors : pc'[g] = IF g = i THEN l ELSE pc[g]
      BY <2>2 DEF TypeInv, TypeOK
    <2>4. state.stage = "debounce" => state.cfg \in Events
      BY DEF TypeInv, Proper
    <2>5. \A g \in Instances : pc[g] \in {"retimer", "snapshot", "ai", "launch"}
            => job[g].by \in Events
      BY DEF TypeInv, Proper, Actors
    <2> QED
      BY <2>1, <2>3, <2>4, <2>5, ActorsAssumption
      DEF Actors, Final, OnceInv, Past, Unlaunched, AdvancedOnce
  <1>15. ASSUME NEW i \in Instances, RecheckState(i) PROVE OnceInv'
    <2>1. UNCHANGED <<state, run>> /\ pc[i] = "recheck"
      BY <1>15 DEF RecheckState, redis
    <2>2. /\ pc'[i] \in {"retimer", "unlock"}
          /\ \A g \in Actors \ {i} : pc'[g] = pc[g] /\ job'[g] = job[g]
      BY <1>15 DEF RecheckState, Goto, TypeInv, TypeOK, Actors
    <2>3. pc'[i] = "retimer" => state.stage = "debounce" /\ job'[i].by = state.cfg
      <3>1. job[i] \in Job
        BY DEF TypeInv, TypeOK, Actors
      <3>2. CASE state.stage = "debounce"
        <4> DEFINE new == [job[i] EXCEPT !.by = state.cfg]
        <4>1. new.by = state.cfg
          BY <3>1 DEF Job
        <4>2. job' = [job EXCEPT ![i] = new]
          BY <1>15, <3>2 DEF RecheckState
        <4> HIDE DEF new
        <4> QED
          BY <3>2, <4>1, <4>2 DEF TypeInv, TypeOK, Actors
      <3>3. CASE state.stage # "debounce"
        BY <1>15, <3>3 DEF RecheckState, Goto, TypeInv, TypeOK, Actors
      <3> QED
        BY <3>2, <3>3
    <2>4. state.stage = "debounce" => state.cfg \in Events
      BY DEF TypeInv, Proper
    <2>5. \A g \in Instances : pc[g] \in {"retimer", "snapshot", "ai", "launch"}
            => job[g].by \in Events
      BY DEF TypeInv, Proper, Actors
    <2> QED
      BY <2>1, <2>2, <2>3, <2>4, <2>5, ActorsAssumption DEF Actors, OnceInv, Past, Unlaunched, AdvancedOnce
  <1>16. ASSUME NEW i \in Instances, RecheckTimer(i) PROVE OnceInv'
    BY <1>16, ActorsAssumption
    DEF RecheckTimer, OnceInv, Past, Unlaunched, AdvancedOnce,
        HolderInv, LockInv, TypeInv, TypeOK, Proper, redis, memory, procs,
        env, Actors, Inside, Final, ActorPcs, Goto
  <1>17. ASSUME NEW h \in Actors, GetBuffer(h) PROVE OnceInv'
    BY <1>17, ActorsAssumption
    DEF GetBuffer, OnceInv, Past, Unlaunched, AdvancedOnce, HolderInv,
        LockInv, TypeInv, TypeOK, Proper, redis, memory, procs, env, Actors,
        Inside, Final, ActorPcs, Goto
  <1>18. ASSUME NEW h \in Actors, SetAI(h) PROVE OnceInv'
    BY <1>18, ActorsAssumption
    DEF SetAI, OnceInv, Past, Unlaunched, AdvancedOnce, HolderInv,
        LockInv, TypeInv, TypeOK, Proper, redis, memory, procs, env, Actors,
        Inside, Final, ActorPcs, Goto, In
  <1>19. ASSUME NEW h \in Actors, Launch(h) PROVE OnceInv'
    <2>1. UNCHANGED <<state, job>> /\ pc[h] = "launch"
      BY <1>19 DEF Launch, redis
    <2>2. \A g \in Actors : pc'[g] = IF g = h THEN "unlock" ELSE pc[g]
      BY <1>19 DEF Launch, Goto, TypeInv, TypeOK
    <2>3. state.stage # "debounce"
      BY <2>1 DEF OnceInv
    <2>4. job[h].by \in Events /\ Unlaunched(job[h].by)
          /\ (h = job[h].by \/ Past(job[h].by))
      BY <2>1, ActorsAssumption DEF OnceInv, Past, Final, TypeInv, Proper, Actors
    <2>5. \A g \in Actors \ {h} : pc[g] \notin Inside
      BY <2>1 DEF HolderInv, LockInv, Inside
    <2>6. \/ UNCHANGED run
          \/ /\ DOMAIN run' = DOMAIN run \cup {Len(run) + 1}
             /\ Len(run) + 1 \notin DOMAIN run
             /\ \A n \in DOMAIN run : run'[n] = run[n]
             /\ run'[Len(run) + 1].by = job[h].by
      BY <1>19, LaunchFacts
    <2>7. \A g \in Actors : pc'[g] \notin {"retimer", "snapshot", "ai", "launch"}
      BY <2>2, <2>5 DEF Inside
    <2>8. \A e \in Events : ~Past(e)' => Unlaunched(e)'
      <3> SUFFICES ASSUME NEW e \in Events, ~Past(e)' PROVE Unlaunched(e)'
        OBVIOUS
      <3>1. e # h /\ ~Past(e)
        BY <2>2 DEF Past, Actors
      <3>2. e # job[h].by /\ Unlaunched(e)
        BY <2>4, <3>1 DEF OnceInv
      <3> QED
        BY <2>6, <3>2 DEF Unlaunched
    <2>9. AdvancedOnce'
      BY <2>4, <2>6 DEF OnceInv, AdvancedOnce, Unlaunched
    <2> QED
      BY <2>1, <2>3, <2>7, <2>8, <2>9 DEF OnceInv, Actors
  <1>20. ASSUME NEW i \in Instances, AdvanceFails(i) PROVE OnceInv'
    BY <1>20, ActorsAssumption
    DEF AdvanceFails, OnceInv, Past, Unlaunched, AdvancedOnce,
        HolderInv, LockInv, TypeInv, TypeOK, Proper, redis, memory, procs,
        env, Actors, Inside, Final, ActorPcs, Goto
  <1>21. ASSUME NEW i \in Instances, Cancel(i) PROVE OnceInv'
    BY <1>21, ActorsAssumption
    DEF Cancel, OnceInv, Past, Unlaunched, AdvancedOnce, HolderInv,
        LockInv, TypeInv, TypeOK, Proper, redis, memory, procs, env, Actors,
        Inside, Final, ActorPcs
  <1>22. ASSUME NEW i \in Instances, CancelClear(i) PROVE OnceInv'
    BY <1>22, ActorsAssumption
    DEF CancelClear, OnceInv, Past, Unlaunched, AdvancedOnce, HolderInv,
        LockInv, TypeInv, TypeOK, Proper, redis, memory, procs, env, Actors,
        Inside, Final, ActorPcs, ClearState, NoState
  <1>23. ASSUME NEW i \in Instances, Shutdown(i) PROVE OnceInv'
    BY <1>23, ActorsAssumption
    DEF Shutdown, OnceInv, Past, Unlaunched, AdvancedOnce, HolderInv,
        LockInv, TypeInv, TypeOK, Proper, redis, memory, procs, env, Actors,
        Inside, Final, ActorPcs
  <1>24. ASSUME NEW i \in Instances, Crash(i) PROVE OnceInv'
    BY <1>24, ActorsAssumption
    DEF Crash, OnceInv, Past, Unlaunched, AdvancedOnce, HolderInv,
        LockInv, TypeInv, TypeOK, Proper, redis, memory, procs, env, Actors,
        Inside, Final, ActorPcs
  <1>25. ASSUME NEW i \in Instances, Restart(i) PROVE OnceInv'
    <2>1. UNCHANGED <<state, job, run>>
      BY <1>25, RestartFacts
    <2>2. \A g \in Actors : \/ pc'[g] = pc[g]
                            \/ (g = i /\ pc'[g] \in {"idle", "expired"})
      BY <1>25, RestartFacts
    <2>3. \A e \in Events : pc'[e] = pc[e]
      BY <2>2, ActorsAssumption DEF Actors
    <2>4. \A g \in Instances : pc'[g] \in {pc[g], "idle", "expired"}
      BY <2>2 DEF Actors
    <2>5. state.stage = "debounce" => state.cfg \in Events
      BY DEF TypeInv, Proper
    <2>6. \A g \in Instances : pc[g] \in {"retimer", "snapshot", "ai", "launch"}
            => job[g].by \in Events
      BY DEF TypeInv, Proper, Actors
    <2> QED
      BY <2>1, <2>3, <2>4, <2>5, <2>6 DEF Actors, OnceInv, Past, Unlaunched, AdvancedOnce
  <1>26. ASSUME NEW i \in Instances, Serve(i) PROVE OnceInv'
    BY <1>26, ActorsAssumption
    DEF Serve, OnceInv, Past, Unlaunched, AdvancedOnce, HolderInv,
        LockInv, TypeInv, TypeOK, Proper, redis, memory, procs, env, Actors,
        Inside, Final, ActorPcs
  <1>27. ASSUME LockExpires PROVE OnceInv'
    BY <1>27, ActorsAssumption
    DEF LockExpires, OnceInv, Past, Unlaunched, AdvancedOnce, HolderInv,
        LockInv, TypeInv, TypeOK, Proper, redis, memory, procs, env, Actors,
        Inside, Final, ActorPcs
  <1>28. ASSUME TimerExpires PROVE OnceInv'
    BY <1>28, ActorsAssumption
    DEF TimerExpires, OnceInv, Past, Unlaunched, AdvancedOnce,
        HolderInv, LockInv, TypeInv, TypeOK, Proper, redis, memory, procs,
        env, Actors, Inside, Final, ActorPcs
  <1>29. ASSUME NEW n \in DOMAIN run, AIStep(n) \/ DispatchStep(n)
        PROVE  OnceInv'
    <2>1. RunEffect
      BY <1>29, RunStepEffect
    <2> QED
      BY <2>1 DEF RunEffect, OnceInv, Past, Unlaunched, AdvancedOnce
  <1>30. CASE UNCHANGED vars
    BY <1>30 DEF vars, redis, memory, procs, env, OnceInv, Past, Unlaunched, AdvancedOnce
  <1> QED
    BY <1>1, <1>2, <1>3, <1>4, <1>5, <1>6, <1>7, <1>8, <1>9, <1>10,
       <1>11, <1>12, <1>13, <1>14, <1>15, <1>16, <1>17, <1>18, <1>19,
       <1>20, <1>21, <1>22, <1>23, <1>24, <1>25, <1>26, <1>27, <1>28,
       <1>29, <1>30
    DEF Next, Rest, ProcessStep, AdvanceStep, LockStep, LaunchStep

LEMMA InitOnceInv == Init => OnceInv
  <1> SUFFICES ASSUME Init PROVE OnceInv
    OBVIOUS
  <1>1. /\ \A h \in Actors : pc[h] \in {"unsent", "idle"}
        /\ DOMAIN run = {} /\ state.stage = "none"
    BY DEF Init, NoState
  <1> QED
    BY <1>1 DEF OnceInv, Unlaunched, AdvancedOnce, Actors

(* "Exactly-once guarantee holds": for any number of replicas, and with    *)
(* crashes, restarts and failing Redis calls, the debounce set by an event *)
(* is handed to the AI stage by at most one launch.                        *)
THEOREM AdvancedOnceHolds ==
    ASSUME Prompt PROVE Spec => []AdvancedOnce
  <1>1. Init => TypeInv /\ HolderInv /\ OnceInv
    BY InitTypeInv, InitHolderInv, InitOnceInv
  <1>2. TypeInv /\ HolderInv /\ OnceInv /\ [Next]_vars
          => (TypeInv /\ HolderInv /\ OnceInv)'
    BY TypeInvNext, HolderInvNext, OnceInvNext
  <1>3. OnceInv => AdvancedOnce
    BY DEF OnceInv
  <1> QED
    BY <1>1, <1>2, <1>3, PTL DEF Spec

----------------------------------------------------------------------------
(* A message is part of at most one question that is answered in full:     *)
(* AnsweredOnce, as long as messages come one at a time (Serial) and no    *)
(* call of Redis has failed (faults = 0).                                  *)

(* An event is early from its 202 until it is about to leave Process *)
Early(e) == pc[e] \notin Final \cup {"unsent", "unlock"}
Active(n) == run[n].pc \notin RunOver
Advancing == {"retimer", "snapshot", "ai", "launch"}

(* An early event is alone: no run and no poller is under way, and the     *)
(* stage is what the handler wrote, or its own.  A run is alone, too, with *)
(* the stage past debounce.                                                *)
AloneInv ==
    /\ \A e, f \in Events : Early(e) /\ Early(f) => e = f
    /\ \A e \in Events : Early(e) =>
         /\ \A n \in DOMAIN run : ~Active(n)
         /\ \A i \in Instances : pc[i] = "idle"
         /\ state.stage \in {"none", "incoming", "ai"}
         /\ state.stage = "ai" => pc[e] = "launch"
         /\ pc[e] \notin {"reset", "resetTimer", "interrupt", "clear", "expired"}
    /\ \A n \in DOMAIN run : Active(n) =>
         /\ state.stage # "debounce"
         /\ \A i \in Instances : pc[i] \notin Advancing
         /\ \A m \in DOMAIN run : Active(m) => m = n

(* A run that has cleared the state after its last part *)
Cleared(n) == run[n].pc \in {"delete", "completed"}
(* Where an event has not been appended to the buffer yet *)
Unappended == {"unsent", "accepted", "locked", "fresh", "store", "append"}
Handing(h, e) == pc[h] \in {"ai", "launch"} /\ Holds(job[h].buf, e)

(* Which questions a message is in: none before it is appended; and once a *)
(* run that holds it has cleared the buffer, none that may yet be answered *)
(* holds it, nor does the buffer from which the next one is made.          *)
AskedLate ==
    \A e \in Events, n \in DOMAIN run :
      Holds(run[n].buf, e) => ~Early(e) /\ pc[e] # "unsent"
BufferedLate == \A e \in Events : Holds(buffer, e) => pc[e] \notin Unappended
HandedLate ==
    \A e \in Events, h \in Actors : Handing(h, e) => pc[e] \notin Unappended
ClearedAlone ==
    \A e \in Events, n \in DOMAIN run : Cleared(n) /\ Holds(run[n].buf, e) =>
      /\ ~Holds(buffer, e)
      /\ \A h \in Actors : ~Handing(h, e)
      /\ \A m \in DOMAIN run :
           (Cleared(m) \/ Active(m)) /\ Holds(run[m].buf, e) => m = n
QuestionInv == AskedLate /\ BufferedLate /\ HandedLate /\ ClearedAlone
----------------------------------------------------------------------------
LEMMA EmptyHolds == ASSUME NEW e PROVE ~Holds(<<>>, e)
  BY DEF Holds

LEMMA AppendHolds ==
    ASSUME NEW b \in Seq(Events), NEW f \in Events, NEW e \in Events,
           Holds(Append(b, f), e)
    PROVE  Holds(b, e) \/ e = f
  <1>1. /\ DOMAIN Append(b, f) = 1 .. Len(b) + 1
        /\ \A k \in 1 .. Len(b) : Append(b, f)[k] = b[k]
        /\ Append(b, f)[Len(b) + 1] = f
        /\ Len(b) \in Nat /\ DOMAIN b = 1 .. Len(b)
    OBVIOUS
  <1>2. PICK k \in 1 .. Len(b) + 1 : Append(b, f)[k] = e
    BY <1>1 DEF Holds
  <1>3. k = Len(b) + 1 \/ k \in 1 .. Len(b)
    BY <1>1
  <1> QED
    BY <1>1, <1>2, <1>3 DEF Holds

(* What a step of the goroutines of run n does to the runs and the buffer: *)
(* it was not over, keeps every question, and without a failing call it    *)
(* has cleared the buffer when it goes on to delete its entry.             *)
LEMMA RunStepKeeps ==
    ASSUME TypeInv, ~Fault, NEW n \in DOMAIN run, AIStep(n) \/ DispatchStep(n)
    PROVE  /\ Active(n)
           /\ DOMAIN run' = DOMAIN run
           /\ \A m \in DOMAIN run : run'[m].buf = run[m].buf
           /\ \A m \in DOMAIN run \ {n} : run'[m] = run[m]
           /\ Cleared(n)' => Cleared(n) \/ buffer' = <<>>
  <1>1. run \in Seq(Run) /\ n \in 1 .. Len(run) /\ DOMAIN run = 1 .. Len(run)
    BY DEF TypeInv, TypeOK
  <1>2. run[n] \in Run
    BY <1>1
  <1>3. Active(n)
    BY DEF AIStep, DispatchStep, LoadEntry, AIReplies, AICancelled, AIFails,
        SetDispatch, CheckContext, SendPart, SendFails, ClearFailed, SetDone,
        ClearDone, DeleteEntry, Active, RunOver
  <1>4. PICK l, d :
          /\ run' = [run EXCEPT ![n] = [run[n] EXCEPT !.pc = l, !.sent = d]]
          /\ l \in {"delete", "completed"} => Cleared(n) \/ buffer' = <<>>
    <2> DEFINE Goal ==
          \E l, d :
            /\ run' = [run EXCEPT ![n] = [run[n] EXCEPT !.pc = l, !.sent = d]]
            /\ l \in {"delete", "completed"} => Cleared(n) \/ buffer' = <<>>
    <2>1. ASSUME NEW l, RunGoto(n, l),
                 l \in {"delete", "completed"} => Cleared(n) \/ buffer' = <<>>
          PROVE  Goal
      <3>1. run' = [run EXCEPT ![n] = [run[n] EXCEPT !.pc = l]]
        BY <2>1 DEF RunGoto
      <3>2. [run[n] EXCEPT !.pc = l] = [run[n] EXCEPT !.pc = l, !.sent = run[n].sent]
        BY <1>2 DEF Run
      <3> QED
        BY <2>1, <3>1, <3>2
    <2>2. SendPart(n) => Goal
      BY DEF SendPart
    <2>3. ASSUME SendFails(n) PROVE Goal
      <3>1. PICK d : run' = [run EXCEPT ![n] = [run[n] EXCEPT !.pc = "clear",
                                                              !.sent = d]]
        BY <2>3 DEF SendFails
      <3>2. "clear" \notin {"delete", "completed"}
        OBVIOUS
      <3> QED
        BY <3>1, <3>2, Zenon
    <2>4. ClearDone(n) => buffer' = <<>> /\ RunGoto(n, "delete")
      BY DEF ClearDone, ClearState
    <2>5. DeleteEntry(n) => Cleared(n) /\ RunGoto(n, "completed")
      BY DEF DeleteEntry, Cleared
    <2>6. ASSUME LoadEntry(n) \/ CheckContext(n)
          PROVE  \E l \in {"callNoURL", "call", "interrupted", "send"} :
                   RunGoto(n, l)
      <3>1. LoadEntry(n) => RunGoto(n, "callNoURL") \/ RunGoto(n, "call")
        BY DEF LoadEntry
      <3>2. CheckContext(n) => RunGoto(n, "interrupted") \/ RunGoto(n, "send")
        BY DEF CheckContext
      <3> QED
        BY <2>6, <3>1, <3>2
    <2>7. \/ SendPart(n) \/ SendFails(n) \/ ClearDone(n) \/ DeleteEntry(n)
          \/ LoadEntry(n) \/ CheckContext(n)
          \/ \E l \in {"setDispatch", "interrupted", "clear", "check", "failed",
                       "clearDone"} : RunGoto(n, l)
      BY DEF AIStep, DispatchStep, AIReplies, AICancelled, AIFails,
          SetDispatch, ClearFailed, SetDone
    <2> HIDE DEF Goal
    <2>8. Goal
      BY <2>1, <2>2, <2>3, <2>4, <2>5, <2>6, <2>7
    <2> QED
      BY <2>8 DEF Goal
  <1>5. /\ [run[n] EXCEPT !.pc = l, !.sent = d].buf = run[n].buf
        /\ [run[n] EXCEPT !.pc = l, !.sent = d].pc = l
    BY <1>2 DEF Run
  <1>6. /\ DOMAIN run' = DOMAIN run
        /\ \A m \in DOMAIN run \ {n} : run'[m] = run[m]
        /\ run'[n].buf = run[n].buf /\ run'[n].pc = l
    BY <1>1, <1>4, <1>5
  <1> QED
    BY <1>3, <1>4, <1>6 DEF Cleared

LEMMA AloneInvNext ==
    ASSUME Serial, TypeInv, HolderInv, OnceInv, AloneInv, ~Fault, [Next]_vars
    PROVE  AloneInv'
  <1>1. ASSUME NEW e \in Events, Accept(e) PROVE AloneInv'
    BY <1>1, ActorsAssumption DEF Accept, AloneInv, Early, Active, Goto, In,
        Calm
  <1>2. ASSUME NEW e \in Events, GetState(e) PROVE AloneInv'
    BY <1>2, ActorsAssumption DEF GetState, AloneInv, Early, Active, redis,
        Final, Goto
  <1>3. ASSUME NEW e \in Events, CancelPrevious(e) PROVE AloneInv'
    BY <1>3, ActorsAssumption DEF CancelPrevious, AloneInv, Early, Active,
        redis, Final, Goto
  <1>4. ASSUME NEW e \in Events, ClearPrevious(e) PROVE AloneInv'
    BY <1>4, ActorsAssumption DEF ClearPrevious, AloneInv, Early, Final
  <1>5. ASSUME NEW e \in Events, StoreEntry(e) PROVE AloneInv'
    BY <1>5, ActorsAssumption DEF StoreEntry, AloneInv, Early, Active, redis,
        Final, Goto
  <1>6. ASSUME NEW e \in Events, StartTimer(e) PROVE AloneInv'
    BY <1>6, ActorsAssumption DEF StartTimer, AloneInv, Early, Active, Final,
        Goto
  <1>7. ASSUME NEW e \in Events, SetDebounce(e) PROVE AloneInv'
    BY <1>7, ActorsAssumption DEF SetDebounce, AloneInv, Early, Active,
        Advancing, HolderInv, LockInv, TypeInv, TypeOK, redis, memory, procs,
        env, Actors, Inside, Final, ActorPcs, RunOver, Goto, RunGoto, In,
        ClearState, NoState, Calm, OnceInv
  <1>8. ASSUME NEW e \in Events, AppendToBuffer(e) PROVE AloneInv'
    BY <1>8, ActorsAssumption DEF AppendToBuffer, AloneInv, Early, Active,
        Advancing, HolderInv, LockInv, TypeInv, TypeOK, redis, memory, procs,
        env, Actors, Inside, Final, ActorPcs, RunOver, Goto, RunGoto, In,
        ClearState, NoState, Calm, OnceInv
  <1>9. ASSUME NEW h \in Actors, AcquireLock(h) PROVE AloneInv'
    BY <1>9, ActorsAssumption DEF AcquireLock, AloneInv, Early, Active,
        Advancing, HolderInv, LockInv, TypeInv, TypeOK, redis, memory, procs,
        env, Actors, Inside, Final, ActorPcs, RunOver, Goto, RunGoto, In,
        ClearState, NoState, Calm, OnceInv
  <1>10. ASSUME NEW h \in Actors, LockFailed(h) PROVE AloneInv'
    BY <1>10, ActorsAssumption DEF LockFailed, AloneInv, Early, Active,
        Advancing, redis, Final, Goto
  <1>11. ASSUME NEW h \in Actors, Unlock(h) PROVE AloneInv'
    BY <1>11, ActorsAssumption DEF Unlock, AloneInv, Early, Active, Advancing,
        Final, Goto
  <1>12. ASSUME NEW h \in Actors, GetBuffer(h) PROVE AloneInv'
    BY <1>12, ActorsAssumption DEF GetBuffer, AloneInv, Early, Active,
        Advancing, redis, Final, Goto
  <1>13. ASSUME NEW h \in Actors, SetAI(h) PROVE AloneInv'
    BY <1>13, ActorsAssumption DEF SetAI, AloneInv, Early, Active, Advancing,
        HolderInv, LockInv, TypeInv, TypeOK, redis, memory, procs, env,
        Actors, Inside, Final, ActorPcs, RunOver, Goto, RunGoto, In,
        ClearState, NoState, Calm, OnceInv
  <1>14. ASSUME NEW i \in Instances, SeeDebounce(i) PROVE AloneInv'
    BY <1>14, ActorsAssumption DEF SeeDebounce, AloneInv, Early, Active, Goto
  <1>15. ASSUME NEW i \in Instances, RecheckTimer(i) PROVE AloneInv'
    BY <1>15, ActorsAssumption DEF RecheckTimer, AloneInv, Early, Active,
        Advancing, Goto
  <1>16. ASSUME NEW i \in Instances, Cancel(i) PROVE AloneInv'
    BY <1>16, ActorsAssumption DEF Cancel, AloneInv, Early, Active, redis,
        procs
  <1>17. ASSUME NEW i \in Instances, CancelClear(i) PROVE AloneInv'
    BY <1>17, ActorsAssumption DEF CancelClear, AloneInv, Early, Active,
        procs, ClearState, NoState
  <1>18. ASSUME NEW i \in Instances, Shutdown(i) PROVE AloneInv'
    BY <1>18, ActorsAssumption DEF Shutdown, AloneInv, Early, Active, redis,
        procs
  <1>19. ASSUME NEW i \in Instances, Crash(i) PROVE AloneInv'
    BY <1>19, ActorsAssumption DEF Crash, AloneInv, Early, Active, Advancing,
        redis, Actors, Final
  <1>20. ASSUME NEW i \in Instances, Serve(i) PROVE AloneInv'
    BY <1>20, ActorsAssumption DEF Serve, AloneInv, Early, Active, redis,
        procs
  <1>21. ASSUME NEW i \in Instances, SeeExpired(i) PROVE AloneInv'
    <2>1. UNCHANGED <<state, run>> /\ pc[i] = "peek"
      BY <1>21 DEF SeeExpired, redis
    <2>2. PICK l \in {"peek", "expired", "idle"} : pc' = [pc EXCEPT ![i] = l]
      BY <1>21, PollStepFacts DEF PollStep
    <2>3. \A g \in Actors : pc'[g] = IF g = i THEN l ELSE pc[g]
      BY <2>2 DEF TypeInv, TypeOK
    <2> QED
      BY <2>1, <2>3, ActorsAssumption DEF AloneInv, Early, Active, Advancing, Actors
  <1>22. ASSUME NEW i \in Instances, RecheckState(i) PROVE AloneInv'
    <2>1. UNCHANGED <<state, run>> /\ pc[i] = "recheck"
      BY <1>22 DEF RecheckState, redis
    <2>2. /\ pc'[i] = (IF state.stage = "debounce" THEN "retimer" ELSE "unlock")
          /\ \A g \in Actors \ {i} : pc'[g] = pc[g]
      BY <1>22 DEF RecheckState, Goto, TypeInv, TypeOK, Actors
    <2> QED
      BY <2>1, <2>2, ActorsAssumption DEF AloneInv, Early, Active, Advancing, Actors
  <1>23. ASSUME NEW i \in Instances, Restart(i) PROVE AloneInv'
    <2>1. UNCHANGED <<state, run>>
      BY <1>23, RestartFacts
    <2>2. \/ UNCHANGED pc
          \/ pc' = [pc EXCEPT ![i] = "idle"]
          \/ pc' = [pc EXCEPT ![i] = "expired"] /\ state.stage = "debounce"
      BY <1>23 DEF Restart, Goto
    <2>3. \A g \in Actors :
            \/ pc'[g] = pc[g]
            \/ g = i /\ pc'[g] = "idle"
            \/ g = i /\ pc'[g] = "expired" /\ state.stage = "debounce"
      BY <2>2 DEF TypeInv, TypeOK
    <2> QED
      BY <2>1, <2>3, ActorsAssumption DEF AloneInv, Early, Active, Advancing, Actors
  <1>24. ASSUME NEW h \in Actors, Launch(h) PROVE AloneInv'
    <2>1. UNCHANGED state /\ pc[h] = "launch" /\ state.stage # "debounce"
      BY <1>24 DEF Launch, redis, OnceInv
    <2>2. \A g \in Actors : pc'[g] = IF g = h THEN "unlock" ELSE pc[g]
      BY <1>24 DEF Launch, Goto, TypeInv, TypeOK
    <2>3. \A g \in Actors \ {h} : pc[g] \notin Inside
      BY <2>1 DEF HolderInv, LockInv, Inside
    <2>4. \A n \in DOMAIN run : ~Active(n)
      BY <2>1 DEF AloneInv, Early, Final, Advancing, Actors
    <2>5. \A e \in Events : ~Early(e)'
      BY <2>1, <2>2, <2>4, ActorsAssumption DEF AloneInv, Early, Actors, Final
    <2>6. \A n, m \in DOMAIN run' : Active(n)' /\ Active(m)' => n = m
      BY <1>24, <2>4, LaunchFacts DEF Active
    <2>7. \A i \in Instances : pc'[i] \notin Advancing
      BY <2>2, <2>3 DEF Advancing, Inside, Actors
    <2> QED
      BY <2>1, <2>5, <2>6, <2>7 DEF AloneInv
  <1>25. ASSUME NEW n \in DOMAIN run, AIStep(n) \/ DispatchStep(n) PROVE AloneInv'
    <2>1. RunEffect
      BY <1>25, RunStepEffect
    <2>2. /\ Active(n) /\ DOMAIN run' = DOMAIN run
          /\ \A m \in DOMAIN run : Active(m)' => Active(m)
      BY <1>25, RunStepKeeps DEF Active
    <2> QED
      BY <2>1, <2>2 DEF RunEffect, AloneInv, Early
  <1>26. ASSUME LockExpires PROVE AloneInv'
    BY <1>26, ActorsAssumption DEF LockExpires, AloneInv, Early, Active, procs
  <1>27. ASSUME TimerExpires PROVE AloneInv'
    BY <1>27, ActorsAssumption DEF TimerExpires, AloneInv, Early, Active,
        procs
  <1>28. ASSUME UNCHANGED vars PROVE AloneInv'
    BY <1>28 DEF vars, redis, procs, AloneInv, Early, Active
  <1> QED
    BY <1>1, <1>2, <1>3, <1>4, <1>5, <1>6, <1>7, <1>8, <1>9, <1>10, <1>11, <1>12, <1>13, <1>14, <1>15, <1>16, <1>17, <1>18, <1>19, <1>20, <1>21, <1>22, <1>23, <1>24, <1>25, <1>26, <1>27, <1>28
    DEF Next, Rest, ProcessStep, AdvanceStep, LockStep, LaunchStep, PollStep,
        Refuse, ProcessFails, AdvanceFails
----------------------------------------------------------------------------
(* A step that appends nothing, hands over nothing new, starts no run and  *)
(* finishes none leaves every message in the questions it is in.           *)
LEMMA QuestionKept ==
    ASSUME QuestionInv, UNCHANGED buffer \/ buffer' = <<>>,
           DOMAIN run' = DOMAIN run,
           \A n \in DOMAIN run :
            /\ run'[n].buf = run[n].buf
            /\ Cleared(n)' => Cleared(n)
            /\ Active(n)' => Active(n),
           \A h \in Actors : pc'[h] \in {"ai", "launch"}
             => pc[h] \in {"ai", "launch"} /\ job'[h] = job[h],
           \A e \in Events :
             /\ pc'[e] \in Unappended => pc[e] \in Unappended
             /\ Early(e)' \/ pc'[e] = "unsent" => Early(e) \/ pc[e] = "unsent"
    PROVE  QuestionInv'
  <1>1. \A e : Holds(buffer', e) => Holds(buffer, e)
    BY EmptyHolds
  <1>2. \A h \in Actors, e \in Events : Handing(h, e)' => Handing(h, e)
    BY DEF Handing
  <1>3. \A n \in DOMAIN run, e \in Events :
          Holds(run'[n].buf, e) <=> Holds(run[n].buf, e)
    BY DEF Holds
  <1> QED
    BY <1>1, <1>2, <1>3
    DEF QuestionInv, AskedLate, BufferedLate, HandedLate, ClearedAlone

LEMMA QuestionInvNext ==
    ASSUME TypeInv, HolderInv, OnceInv, AloneInv, QuestionInv, ~Fault, [Next]_vars
    PROVE  QuestionInv'
  <1>1. ASSUME NEW e \in Events, Accept(e) PROVE QuestionInv'
    <2>1. UNCHANGED run /\ (UNCHANGED buffer \/ buffer' = <<>>)
      BY <1>1 DEF Accept, redis, ClearState
    <2>2. \A g \in Actors : pc'[g] \in {"ai", "launch"}
            => pc[g] \in {"ai", "launch"} /\ job'[g] = job[g]
      BY <1>1, ActorsAssumption DEF Accept, Goto
    <2>3. \A f \in Events :
            /\ pc'[f] \in Unappended => pc[f] \in Unappended
            /\ Early(f)' \/ pc'[f] = "unsent" => Early(f) \/ pc[f] = "unsent"
      BY <1>1, ActorsAssumption DEF Accept, Unappended, Early, Goto
    <2> QED
      BY <2>1, <2>2, <2>3, QuestionKept DEF Active, Cleared
  <1>2. ASSUME NEW e \in Events, CancelPrevious(e) PROVE QuestionInv'
    <2>1. UNCHANGED run /\ (UNCHANGED buffer \/ buffer' = <<>>)
      BY <1>2 DEF CancelPrevious, redis, ClearState
    <2>2. \A g \in Actors : pc'[g] \in {"ai", "launch"}
            => pc[g] \in {"ai", "launch"} /\ job'[g] = job[g]
      BY <1>2, ActorsAssumption DEF CancelPrevious, Goto
    <2>3. \A f \in Events :
            /\ pc'[f] \in Unappended => pc[f] \in Unappended
            /\ Early(f)' \/ pc'[f] = "unsent" => Early(f) \/ pc[f] = "unsent"
      BY <1>2, ActorsAssumption DEF CancelPrevious, Unappended, Early, Final,
          Goto
    <2> QED
      BY <2>1, <2>2, <2>3, QuestionKept DEF Active, Cleared
  <1>3. ASSUME NEW e \in Events, StoreEntry(e) PROVE QuestionInv'
    <2>1. UNCHANGED run /\ (UNCHANGED buffer \/ buffer' = <<>>)
      BY <1>3 DEF StoreEntry, redis, ClearState
    <2>2. \A g \in Actors : pc'[g] \in {"ai", "launch"}
            => pc[g] \in {"ai", "launch"} /\ job'[g] = job[g]
      BY <1>3, ActorsAssumption DEF StoreEntry, Goto
    <2>3. \A f \in Events :
            /\ pc'[f] \in Unappended => pc[f] \in Unappended
            /\ Early(f)' \/ pc'[f] = "unsent" => Early(f) \/ pc[f] = "unsent"
      BY <1>3, ActorsAssumption DEF StoreEntry, Unappended, Early, Final, Goto
    <2> QED
      BY <2>1, <2>2, <2>3, QuestionKept DEF Active, Cleared
  <1>4. ASSUME NEW e \in Events, StartTimer(e) PROVE QuestionInv'
    <2>1. UNCHANGED run /\ (UNCHANGED buffer \/ buffer' = <<>>)
      BY <1>4 DEF StartTimer, redis, ClearState
    <2>2. \A g \in Actors : pc'[g] \in {"ai", "launch"}
            => pc[g] \in {"ai", "launch"} /\ job'[g] = job[g]
      BY <1>4, ActorsAssumption DEF StartTimer, Goto
    <2>3. \A f \in Events :
            /\ pc'[f] \in Unappended => pc[f] \in Unappended
            /\ Early(f)' \/ pc'[f] = "unsent" => Early(f) \/ pc[f] = "unsent"
      BY <1>4, ActorsAssumption DEF StartTimer, Unappended, Early, Final, Goto
    <2> QED
      BY <2>1, <2>2, <2>3, QuestionKept DEF Active, Cleared
  <1>5. ASSUME NEW e \in Events, SetDebounce(e) PROVE QuestionInv'
    <2>1. UNCHANGED run /\ (UNCHANGED buffer \/ buffer' = <<>>)
      BY <1>5 DEF SetDebounce, redis, ClearState
    <2>2. \A g \in Actors : pc'[g] \in {"ai", "launch"}
            => pc[g] \in {"ai", "launch"} /\ job'[g] = job[g]
      BY <1>5, ActorsAssumption DEF SetDebounce, Goto
    <2>3. \A f \in Events :
            /\ pc'[f] \in Unappended => pc[f] \in Unappended
            /\ Early(f)' \/ pc'[f] = "unsent" => Early(f) \/ pc[f] = "unsent"
      BY <1>5, ActorsAssumption DEF SetDebounce, Unappended, Early, Goto
    <2> QED
      BY <2>1, <2>2, <2>3, QuestionKept DEF Active, Cleared
  <1>6. ASSUME NEW h \in Actors, LockFailed(h) PROVE QuestionInv'
    <2>1. UNCHANGED run /\ (UNCHANGED buffer \/ buffer' = <<>>)
      BY <1>6 DEF LockFailed, redis, ClearState
    <2>2. \A g \in Actors : pc'[g] \in {"ai", "launch"}
            => pc[g] \in {"ai", "launch"} /\ job'[g] = job[g]
      BY <1>6, ActorsAssumption DEF LockFailed, Goto
    <2>3. \A f \in Events :
            /\ pc'[f] \in Unappended => pc[f] \in Unappended
            /\ Early(f)' \/ pc'[f] = "unsent" => Early(f) \/ pc[f] = "unsent"
      BY <1>6, ActorsAssumption DEF LockFailed, Unappended, Early, Final, Goto
    <2> QED
      BY <2>1, <2>2, <2>3, QuestionKept DEF Active, Cleared
  <1>7. ASSUME NEW h \in Actors, Unlock(h) PROVE QuestionInv'
    <2>1. UNCHANGED run /\ (UNCHANGED buffer \/ buffer' = <<>>)
      BY <1>7 DEF Unlock, redis, ClearState
    <2>2. \A g \in Actors : pc'[g] \in {"ai", "launch"}
            => pc[g] \in {"ai", "launch"} /\ job'[g] = job[g]
      BY <1>7, ActorsAssumption DEF Unlock, Goto
    <2>3. \A f \in Events :
            /\ pc'[f] \in Unappended => pc[f] \in Unappended
            /\ Early(f)' \/ pc'[f] = "unsent" => Early(f) \/ pc[f] = "unsent"
      BY <1>7, ActorsAssumption DEF Unlock, Unappended, Early, Final, Goto
    <2> QED
      BY <2>1, <2>2, <2>3, QuestionKept DEF Active, Cleared
  <1>8. ASSUME NEW h \in Actors, SetAI(h) PROVE QuestionInv'
    <2>1. UNCHANGED run /\ (UNCHANGED buffer \/ buffer' = <<>>)
      BY <1>8 DEF SetAI, redis, ClearState
    <2>2. \A g \in Actors : pc'[g] \in {"ai", "launch"}
            => pc[g] \in {"ai", "launch"} /\ job'[g] = job[g]
      BY <1>8, ActorsAssumption DEF SetAI, Goto
    <2>3. \A f \in Events :
            /\ pc'[f] \in Unappended => pc[f] \in Unappended
            /\ Early(f)' \/ pc'[f] = "unsent" => Early(f) \/ pc[f] = "unsent"
      BY <1>8, ActorsAssumption DEF SetAI, Unappended, Early, Final, Goto
    <2> QED
      BY <2>1, <2>2, <2>3, QuestionKept DEF Active, Cleared
  <1>9. ASSUME NEW i \in Instances, SeeDebounce(i) PROVE QuestionInv'
    <2>1. UNCHANGED run /\ (UNCHANGED buffer \/ buffer' = <<>>)
      BY <1>9 DEF SeeDebounce, redis, ClearState
    <2>2. \A g \in Actors : pc'[g] \in {"ai", "launch"}
            => pc[g] \in {"ai", "launch"} /\ job'[g] = job[g]
      BY <1>9, ActorsAssumption DEF SeeDebounce, Goto
    <2>3. \A f \in Events :
            /\ pc'[f] \in Unappended => pc[f] \in Unappended
            /\ Early(f)' \/ pc'[f] = "unsent" => Early(f) \/ pc[f] = "unsent"
      BY <1>9, ActorsAssumption DEF SeeDebounce, Early, Goto
    <2> QED
      BY <2>1, <2>2, <2>3, QuestionKept DEF Active, Cleared
  <1>10. ASSUME NEW i \in Instances, SeeExpired(i) PROVE QuestionInv'
    <2>1. UNCHANGED run /\ (UNCHANGED buffer \/ buffer' = <<>>)
      BY <1>10 DEF SeeExpired, redis, ClearState
    <2>2. \A g \in Actors : pc'[g] \in {"ai", "launch"}
            => pc[g] \in {"ai", "launch"} /\ job'[g] = job[g]
      BY <1>10, ActorsAssumption DEF SeeExpired, TypeInv, TypeOK, Goto
    <2>3. \A f \in Events :
            /\ pc'[f] \in Unappended => pc[f] \in Unappended
            /\ Early(f)' \/ pc'[f] = "unsent" => Early(f) \/ pc[f] = "unsent"
      BY <1>10, ActorsAssumption DEF SeeExpired, Early, Final, Actors,
          TypeInv, TypeOK, Goto
    <2> QED
      BY <2>1, <2>2, <2>3, QuestionKept DEF Active, Cleared
  <1>11. ASSUME NEW i \in Instances, RecheckState(i) PROVE QuestionInv'
    <2>1. UNCHANGED run /\ (UNCHANGED buffer \/ buffer' = <<>>)
      BY <1>11 DEF RecheckState, redis, ClearState
    <2>2. \A g \in Actors : pc'[g] \in {"ai", "launch"}
            => pc[g] \in {"ai", "launch"} /\ job'[g] = job[g]
      BY <1>11, ActorsAssumption DEF RecheckState, TypeInv, TypeOK, Goto
    <2>3. \A f \in Events :
            /\ pc'[f] \in Unappended => pc[f] \in Unappended
            /\ Early(f)' \/ pc'[f] = "unsent" => Early(f) \/ pc[f] = "unsent"
      BY <1>11, ActorsAssumption DEF RecheckState, Early, Final, Actors,
          TypeInv, TypeOK, Goto
    <2> QED
      BY <2>1, <2>2, <2>3, QuestionKept DEF Active, Cleared
  <1>12. ASSUME NEW i \in Instances, RecheckTimer(i) PROVE QuestionInv'
    <2>1. UNCHANGED run /\ (UNCHANGED buffer \/ buffer' = <<>>)
      BY <1>12 DEF RecheckTimer, redis, ClearState
    <2>2. \A g \in Actors : pc'[g] \in {"ai", "launch"}
            => pc[g] \in {"ai", "launch"} /\ job'[g] = job[g]
      BY <1>12, ActorsAssumption DEF RecheckTimer, Goto
    <2>3. \A f \in Events :
            /\ pc'[f] \in Unappended => pc[f] \in Unappended
            /\ Early(f)' \/ pc'[f] = "unsent" => Early(f) \/ pc[f] = "unsent"
      BY <1>12, ActorsAssumption DEF RecheckTimer, Early, Goto
    <2> QED
      BY <2>1, <2>2, <2>3, QuestionKept DEF Active, Cleared
  <1>13. ASSUME NEW i \in Instances, Cancel(i) PROVE QuestionInv'
    <2>1. UNCHANGED run /\ (UNCHANGED buffer \/ buffer' = <<>>)
      BY <1>13 DEF Cancel, redis, ClearState
    <2>2. \A g \in Actors : pc'[g] \in {"ai", "launch"}
            => pc[g] \in {"ai", "launch"} /\ job'[g] = job[g]
      BY <1>13, ActorsAssumption DEF Cancel, procs
    <2>3. \A f \in Events :
            /\ pc'[f] \in Unappended => pc[f] \in Unappended
            /\ Early(f)' \/ pc'[f] = "unsent" => Early(f) \/ pc[f] = "unsent"
      BY <1>13, ActorsAssumption DEF Cancel, Early, procs
    <2> QED
      BY <2>1, <2>2, <2>3, QuestionKept DEF Active, Cleared
  <1>14. ASSUME NEW i \in Instances, CancelClear(i) PROVE QuestionInv'
    <2>1. UNCHANGED run /\ (UNCHANGED buffer \/ buffer' = <<>>)
      BY <1>14 DEF CancelClear, redis, ClearState
    <2>2. \A g \in Actors : pc'[g] \in {"ai", "launch"}
            => pc[g] \in {"ai", "launch"} /\ job'[g] = job[g]
      BY <1>14, ActorsAssumption DEF CancelClear, procs
    <2>3. \A f \in Events :
            /\ pc'[f] \in Unappended => pc[f] \in Unappended
            /\ Early(f)' \/ pc'[f] = "unsent" => Early(f) \/ pc[f] = "unsent"
      BY <1>14, ActorsAssumption DEF CancelClear, Early, procs
    <2> QED
      BY <2>1, <2>2, <2>3, QuestionKept DEF Active, Cleared
  <1>15. ASSUME NEW i \in Instances, Shutdown(i) PROVE QuestionInv'
    <2>1. UNCHANGED run /\ (UNCHANGED buffer \/ buffer' = <<>>)
      BY <1>15 DEF Shutdown, redis, ClearState
    <2>2. \A g \in Actors : pc'[g] \in {"ai", "launch"}
            => pc[g] \in {"ai", "launch"} /\ job'[g] = job[g]
      BY <1>15, ActorsAssumption DEF Shutdown, procs
    <2>3. \A f \in Events :
            /\ pc'[f] \in Unappended => pc[f] \in Unappended
            /\ Early(f)' \/ pc'[f] = "unsent" => Early(f) \/ pc[f] = "unsent"
      BY <1>15, ActorsAssumption DEF Shutdown, Early, procs
    <2> QED
      BY <2>1, <2>2, <2>3, QuestionKept DEF Active, Cleared
  <1>16. ASSUME NEW i \in Instances, Restart(i) PROVE QuestionInv'
    <2>1. UNCHANGED run /\ (UNCHANGED buffer \/ buffer' = <<>>)
      BY <1>16 DEF Restart, redis, ClearState
    <2>2. \A g \in Actors : pc'[g] \in {"ai", "launch"}
            => pc[g] \in {"ai", "launch"} /\ job'[g] = job[g]
      BY <1>16, ActorsAssumption DEF Restart, TypeInv, TypeOK, Goto
    <2>3. \A f \in Events :
            /\ pc'[f] \in Unappended => pc[f] \in Unappended
            /\ Early(f)' \/ pc'[f] = "unsent" => Early(f) \/ pc[f] = "unsent"
      BY <1>16, ActorsAssumption DEF Restart, Early, Actors, ActorPcs,
          TypeInv, TypeOK, Goto
    <2> QED
      BY <2>1, <2>2, <2>3, QuestionKept DEF Active, Cleared
  <1>17. ASSUME NEW i \in Instances, Serve(i) PROVE QuestionInv'
    <2>1. UNCHANGED run /\ (UNCHANGED buffer \/ buffer' = <<>>)
      BY <1>17 DEF Serve, redis, ClearState
    <2>2. \A g \in Actors : pc'[g] \in {"ai", "launch"}
            => pc[g] \in {"ai", "launch"} /\ job'[g] = job[g]
      BY <1>17, ActorsAssumption DEF Serve, procs
    <2>3. \A f \in Events :
            /\ pc'[f] \in Unappended => pc[f] \in Unappended
            /\ Early(f)' \/ pc'[f] = "unsent" => Early(f) \/ pc[f] = "unsent"
      BY <1>17, ActorsAssumption DEF Serve, Early, procs
    <2> QED
      BY <2>1, <2>2, <2>3, QuestionKept DEF Active, Cleared
  <1>18. ASSUME NEW e \in Events, GetState(e) PROVE QuestionInv'
    <2>1. UNCHANGED <<buffer, job, run>> /\ pc[e] = "locked"
      BY <1>18 DEF GetState, redis
    <2>2. PICK l \in {"fresh", "reset", "interrupt", "unlock"} :
            pc' = [pc EXCEPT ![e] = l]
      <3>1. state.stage \in Stages
        BY DEF TypeInv, TypeOK, State
      <3> QED
        BY <1>18, <3>1, Zenon DEF GetState, Goto, Stages
    <2>3. \A g \in Actors : pc'[g] = IF g = e THEN l ELSE pc[g]
      BY <2>2 DEF TypeInv, TypeOK
    <2> QED
      BY <2>1, <2>2, <2>3, ActorsAssumption, QuestionKept
      DEF Unappended, Early, Final, Actors, Active, Cleared
  <1>19. ASSUME NEW e \in Events, ClearPrevious(e) PROVE QuestionInv'
    <2>1. UNCHANGED <<job, run>> /\ pc[e] = "clear" /\ buffer' = <<>>
      BY <1>19 DEF ClearPrevious, ClearState
    <2>2. ~Early(e)
      BY <2>1 DEF AloneInv
    <2> QED
      BY <2>1, <2>2 DEF Early, Final
  <1>20. ASSUME NEW h \in Actors, AcquireLock(h) PROVE QuestionInv'
    <2>1. UNCHANGED <<buffer, job, run>> /\ pc[h] \in {"accepted", "expired"}
      BY <1>20 DEF AcquireLock
    <2>2. pc' = [pc EXCEPT ![h] = IF h \in Events THEN "locked" ELSE "recheck"]
      BY <1>20 DEF AcquireLock, Goto
    <2>3. \A g \in Actors : pc'[g] = IF g # h THEN pc[g]
                                  ELSE IF h \in Events THEN "locked" ELSE "recheck"
      BY <2>2 DEF TypeInv, TypeOK
    <2>4. h \in Events => pc[h] = "accepted"
      BY <2>1 DEF AloneInv, Early, Final
    <2> QED
      BY <2>1, <2>3, <2>4, ActorsAssumption, QuestionKept
      DEF Unappended, Early, Final, Actors, Active, Cleared
  <1>21. ASSUME NEW i \in Instances, Crash(i) PROVE QuestionInv'
    <2>1. UNCHANGED <<buffer, job>> /\ DOMAIN run' = DOMAIN run
      BY <1>21 DEF Crash, redis
    <2>2. \A n \in DOMAIN run :
            /\ run'[n].buf = run[n].buf
            /\ Cleared(n)' => Cleared(n)
            /\ Active(n)' => Active(n)
      BY <1>21 DEF Crash, Cleared, Active, RunOver, TypeInv, TypeOK, Run
    <2>3. \A g \in Actors : pc'[g] \in {pc[g], "idle", "killed"}
      BY <1>21 DEF Crash
    <2>4. \A f \in Events : pc'[f] \in {pc[f], "killed"}
      BY <1>21, ActorsAssumption DEF Crash, Actors
    <2> QED
      BY <2>1, <2>2, <2>3, <2>4, QuestionKept DEF Unappended, Early, Final
  <1>22. ASSUME NEW e \in Events, AppendToBuffer(e) PROVE QuestionInv'
    <2>1. /\ pc[e] \in {"append", "reset"} /\ buffer' = Append(buffer, e)
          /\ UNCHANGED <<job, run>>
      BY <1>22 DEF AppendToBuffer
    <2>2. /\ pc'[e] \in {"snapshot", "timer", "unlock", "resetTimer"}
          /\ \A g \in Actors \ {e} : pc'[g] = pc[g]
      BY <1>22 DEF AppendToBuffer, Goto, TypeInv, TypeOK, Actors
    <2>3. \A f \in Events : Holds(buffer', f) => Holds(buffer, f) \/ f = e
      BY <2>1, AppendHolds DEF TypeInv, TypeOK
    <2>4. \A h \in Actors, f \in Events : Handing(h, f)' => Handing(h, f)
      BY <2>1, <2>2 DEF Handing
    <2>5. Early(e)
      BY <2>1 DEF Early, Final
    <2>6. \A f \in Events :
            /\ pc'[f] \in Unappended => pc[f] \in Unappended /\ f # e
            /\ Early(f)' \/ pc'[f] = "unsent"
                 => Early(f) \/ pc[f] = "unsent"
      BY <2>2, <2>5 DEF Unappended, Early, Final, Actors
    <2> QED
      <3>1. AskedLate'
        BY <2>1, <2>6 DEF QuestionInv, AskedLate, Early
      <3>2. BufferedLate' /\ HandedLate'
        BY <2>3, <2>4, <2>6 DEF QuestionInv, BufferedLate, HandedLate, Unappended
      <3>3. \A n \in DOMAIN run : ~Holds(run[n].buf, e)
        BY <2>5 DEF QuestionInv, AskedLate
      <3>4. ClearedAlone'
        BY <2>1, <2>3, <2>4, <3>3 DEF QuestionInv, ClearedAlone, Cleared, Active
      <3> QED
        BY <3>1, <3>2, <3>4 DEF QuestionInv
  <1>23. ASSUME NEW h \in Actors, GetBuffer(h) PROVE QuestionInv'
    <2>1. /\ pc[h] = "snapshot" /\ job'[h].buf = buffer /\ UNCHANGED <<buffer, run>>
          /\ \A g \in Actors \ {h} : job'[g] = job[g]
      BY <1>23 DEF GetBuffer, redis, TypeInv, TypeOK
    <2>2. \A g \in Actors : pc'[g] = IF g = h THEN "ai" ELSE pc[g]
      BY <1>23 DEF GetBuffer, Goto, TypeInv, TypeOK
    <2>3. \A g \in Actors, f \in Events :
            Handing(g, f)' => Handing(g, f) \/ Holds(buffer, f)
      BY <2>1, <2>2 DEF Handing
    <2>4. \A f \in Events :
            /\ pc'[f] \in Unappended => pc[f] \in Unappended
            /\ Early(f)' \/ pc'[f] = "unsent"
                 => Early(f) \/ pc[f] = "unsent"
      BY <2>1, <2>2 DEF Unappended, Early, Final, Actors
    <2> QED
      <3>1. AskedLate'
        BY <2>1, <2>4 DEF QuestionInv, AskedLate, Early
      <3>2. BufferedLate' /\ HandedLate'
        BY <2>1, <2>3, <2>4 DEF QuestionInv, BufferedLate, HandedLate
      <3>3. ClearedAlone'
        BY <2>1, <2>3 DEF QuestionInv, ClearedAlone, Cleared, Active
      <3> QED
        BY <3>1, <3>2, <3>3 DEF QuestionInv
  <1>24. ASSUME NEW h \in Actors, Launch(h) PROVE QuestionInv'
    <2>1. UNCHANGED <<buffer, job>> /\ pc[h] = "launch"
      BY <1>24 DEF Launch, redis
    <2>2. \A g \in Actors : pc'[g] = IF g = h THEN "unlock" ELSE pc[g]
      BY <1>24 DEF Launch, Goto, TypeInv, TypeOK
    <2>3. \A f \in Events : ~Early(f)'
      BY <2>1, <2>2, ActorsAssumption
      DEF HolderInv, LockInv, AloneInv, Early, Actors, Final, Inside
    <2>4. \A g \in Actors, f \in Events : Handing(g, f)' => Handing(g, f)
      BY <2>1, <2>2 DEF Handing
    <2>5. \A f \in Events : pc'[f] \in Unappended => pc[f] \in Unappended
      BY <2>2 DEF Unappended, Actors
    <2>6. \/ UNCHANGED run
          \/ \E new \in DOMAIN run' \ DOMAIN run :
               /\ DOMAIN run' = DOMAIN run \cup {new}
               /\ \A n \in DOMAIN run : run'[n] = run[n]
               /\ ~Cleared(new)'
               /\ \A f \in Events : Holds(run'[new].buf, f) => Handing(h, f)
      BY <1>24, <2>1, LaunchFacts DEF Cleared, Handing
    <2> QED
      <3>1. \A f \in Events : Handing(h, f) => pc'[f] # "unsent"
        BY <2>5 DEF QuestionInv, HandedLate, Unappended
      <3>2. AskedLate'
        BY <2>2, <2>3, <2>6, <3>1 DEF QuestionInv, AskedLate, Actors
      <3>3. BufferedLate' /\ HandedLate'
        BY <2>1, <2>4, <2>5 DEF QuestionInv, BufferedLate, HandedLate
      <3>4. ClearedAlone'
        BY <2>1, <2>4, <2>6 DEF QuestionInv, ClearedAlone, Cleared, Active
      <3> QED
        BY <3>2, <3>3, <3>4 DEF QuestionInv
  <1>25. ASSUME NEW n \in DOMAIN run, AIStep(n) \/ DispatchStep(n) PROVE QuestionInv'
    <2>1. UNCHANGED <<pc, job>> /\ (UNCHANGED buffer \/ buffer' = <<>>)
      BY <1>25, RunStepEffect DEF RunEffect
    <2>2. /\ Active(n) /\ DOMAIN run' = DOMAIN run
          /\ \A m \in DOMAIN run : run'[m].buf = run[m].buf
          /\ \A m \in DOMAIN run \ {n} : run'[m] = run[m]
          /\ Cleared(n)' => Cleared(n) \/ buffer' = <<>>
      BY <1>25, RunStepKeeps
    <2>3. \A h \in Actors, f \in Events : ~Handing(h, f)'
      BY <2>1, <2>2 DEF Handing, AloneInv, Advancing, Actors, Early, Final
    <2>4. \A f \in Events : Holds(buffer', f) => Holds(buffer, f) /\ buffer' # <<>>
      BY <2>1, EmptyHolds
    <2>5. \A m \in DOMAIN run :
            /\ Active(m)' => m = n
            /\ Cleared(m)' /\ m # n => Cleared(m)
      BY <2>2 DEF AloneInv, Active, Cleared
    <2>6. \A m, o \in DOMAIN run, f \in Events :
            /\ Cleared(m) /\ Holds(run[m].buf, f)
            /\ Cleared(o) \/ Active(o)
            /\ Holds(run[o].buf, f)
            => m = o
      BY Zenon DEF QuestionInv, ClearedAlone
    <2>7. \A m, o \in DOMAIN run, f \in Events :
            /\ Cleared(m)' /\ Holds(run[m].buf, f)
            /\ Cleared(o)' \/ Active(o)'
            /\ Holds(run[o].buf, f)
            => m = o
      BY <2>2, <2>5, <2>6
    <2>8. \A m \in DOMAIN run, f \in Events :
            Cleared(m)' /\ Holds(run[m].buf, f) => ~Holds(buffer', f)
      BY <2>2, <2>4, <2>5 DEF QuestionInv, ClearedAlone
    <2>9. AskedLate' /\ BufferedLate' /\ HandedLate'
      BY <2>1, <2>2, <2>3, <2>4 DEF QuestionInv, AskedLate, BufferedLate, HandedLate, Early
    <2>10. ClearedAlone'
      BY <2>2, <2>3, <2>7, <2>8 DEF ClearedAlone
    <2> QED
      BY <2>9, <2>10 DEF QuestionInv
  <1>26. ASSUME LockExpires PROVE QuestionInv'
    BY <1>26, QuestionKept DEF LockExpires, redis, procs, Active, Cleared, Early
  <1>27. ASSUME TimerExpires PROVE QuestionInv'
    BY <1>27, QuestionKept DEF TimerExpires, redis, procs, Active, Cleared, Early
  <1>28. ASSUME UNCHANGED vars PROVE QuestionInv'
    BY <1>28, QuestionKept DEF vars, redis, procs, Active, Cleared, Early
  <1> QED
    BY <1>1, <1>2, <1>3, <1>4, <1>5, <1>6, <1>7, <1>8, <1>9, <1>10, <1>11, <1>12, <1>13, <1>14, <1>15, <1>16, <1>17, <1>18, <1>19, <1>20, <1>21, <1>22, <1>23, <1>24, <1>25, <1>26, <1>27, <1>28
    DEF Next, Rest, ProcessStep, AdvanceStep, LockStep, LaunchStep, PollStep,
        Refuse, ProcessFails, AdvanceFails

LEMMA FaultsGrow ==
    ASSUME TypeInv, [Next]_vars PROVE faults' = faults \/ Fault
  BY DEF Next, Rest, vars, env, ProcessStep, AdvanceStep, LockStep,
      LaunchStep, PollStep, AIStep, DispatchStep, Accept, Refuse, GetState,
      CancelPrevious, ClearPrevious, StoreEntry, AppendToBuffer, StartTimer,
      SetDebounce, ProcessFails, AcquireLock, LockFailed, Unlock, GetBuffer,
      SetAI, Launch, SeeDebounce, SeeExpired, RecheckState, RecheckTimer,
      AdvanceFails, Cancel, CancelClear, Shutdown, Crash, Restart, Serve,
      LoadEntry, AIReplies, AICancelled, AIFails, SetDispatch, ClearFailed,
      CheckContext, SendPart, SendFails, SetDone, ClearDone, DeleteEntry,
      LockExpires, TimerExpires

LEMMA InitAlone == Init => AloneInv /\ QuestionInv
  <1> SUFFICES ASSUME Init PROVE AloneInv /\ QuestionInv
    OBVIOUS
  <1>1. /\ \A e \in Events : pc[e] = "unsent"
        /\ \A i \in Instances : pc[i] = "idle"
        /\ DOMAIN run = {} /\ buffer = <<>>
    BY ActorsAssumption DEF Init, Actors
  <1> QED
    BY <1>1, EmptyHolds DEF AloneInv, QuestionInv, AskedLate, BufferedLate,
        HandedLate, ClearedAlone, Early, Handing, Actors

(* No message is part of two questions that were both answered in full:    *)
(* for any number of replicas, crashes, restarts and cancels, if messages  *)
(* come one at a time, no holder outlives its lock, and no call of Redis   *)
(* fails.  A failing call can void it: the DEL after the last part, or the *)
(* write of the done stage.                                                *)
PROPOSITION AnsweredOnceHolds ==
    ASSUME Serial, Prompt PROVE Spec => [](faults = 0 => AnsweredOnce)
  <1> DEFINE IInv == /\ TypeInv /\ HolderInv /\ OnceInv
                     /\ faults = 0 => AloneInv /\ QuestionInv
  <1>1. Init => IInv
    BY InitTypeInv, InitHolderInv, InitOnceInv, InitAlone
  <1>2. IInv /\ [Next]_vars => IInv'
    <2> SUFFICES ASSUME IInv, [Next]_vars PROVE IInv'
      OBVIOUS
    <2>1. (TypeInv /\ HolderInv /\ OnceInv)'
      BY TypeInvNext, HolderInvNext, OnceInvNext
    <2>2. ASSUME faults' = 0 PROVE faults = 0 /\ ~Fault
      BY <2>2, FaultsGrow DEF Fault, TypeInv, TypeOK
    <2>3. faults' = 0 => (AloneInv /\ QuestionInv)'
      BY <2>2, AloneInvNext, QuestionInvNext
    <2> QED
      BY <2>1, <2>3
  <1>3. IInv => (faults = 0 => AnsweredOnce)
    BY DEF QuestionInv, ClearedAlone, AnsweredOnce, Cleared
  <1> QED
    BY <1>1, <1>2, <1>3, PTL DEF Spec
=============================================================================
