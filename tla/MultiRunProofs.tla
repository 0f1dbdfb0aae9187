--------------------------- MODULE MultiRunProofs ---------------------------
(* Theorems about MultiRun, for every number of runs, goroutines, batches and *)
(* faults, every set of user operations and no timing assumption.             *)
EXTENDS MultiRun, FiniteSetTheorems, TLAPS

USE RunsAssumption, ProcsAssumption, MaxRunsAssumption, BoundsAssumption

-----------------------------------------------------------------------------
(* Type correctness *)

LEMMA InitType == Init => TypeOK
  BY DEF Init, TypeOK, DataOK, ControlOK, WorkflowStates, ExpType, StateType, RunType, LocType, RecType,
         Phases, Keys, NoBatch, FreshRun, NothingRead, NothingSwept,
         HandlerPCs, UserPCs, ReconPCs, PCsOf, Procs

\* Whatever a goroutine remembers when it moves on to a label of its own.
LEMMA MoveControl ==
  ASSUME ControlOK, NEW p \in Procs, NEW label \in PCsOf(p), NEW v \in LocType,
         Goto(p, label), loc' = [loc EXCEPT ![p] = v],
         label \in {"txn", "count"} => v.run \in Runs
  PROVE  ControlOK'
<1>1. label \in HandlerPCs \cup UserPCs \cup ReconPCs
  BY DEF PCsOf
<1> QED BY <1>1 DEF ControlOK, Goto

LEMMA NothingReadType == NothingRead \in LocType
  BY DEF NothingRead, LocType

LEMMA ReturnControl ==
  ASSUME ControlOK, NEW p \in Procs, Return(p)
  PROVE  ControlOK'
<1>1. "idle" \in PCsOf(p)
  BY DEF PCsOf, HandlerPCs, UserPCs, ReconPCs
<1> QED BY <1>1, NothingReadType, MoveControl, Zenon DEF Return, Goto

LEMMA GotoControl ==
  ASSUME ControlOK, NEW p \in Procs, NEW label \in PCsOf(p) \ {"txn", "count"},
         Goto(p, label), UNCHANGED loc
  PROVE  ControlOK'
  BY MoveControl DEF ControlOK

LEMMA StayControl == ASSUME ControlOK, UNCHANGED <<pc, loc>> PROVE ControlOK'
  BY DEF ControlOK

\* RunChaosWorkFlow, whoever calls it.
LEMMA RunType1 ==
  ASSUME TypeOK, NEW p \in Procs, RunCheck(p) \/ RunFaults(p) \/ RunCreate(p)
  PROVE  TypeOK'
<1> USE DEF TypeOK
<1>0. DataOK /\ ControlOK /\ loc[p] \in LocType
  BY DEF ControlOK
<1>a. NothingSwept \in RecType
  BY DEF NothingSwept, RecType
<1>b. ASSUME RunFails(p) PROVE ControlOK' /\ rec' \in RecType
  <2>1. rec' \in RecType
    BY <1>0, <1>a, <1>b DEF RunFails, DataOK
  <2>2. CASE p \in Handlers
    <3>1. "release" \in PCsOf(p) \ {"txn", "count"}
      BY <2>2 DEF PCsOf, HandlerPCs
    <3> QED BY <1>0, <1>b, <2>1, <2>2, <3>1, GotoControl DEF RunFails
  <2>3. CASE p \notin Handlers
    BY <1>0, <1>b, <2>1, <2>3, ReturnControl DEF RunFails
  <2> QED BY <2>2, <2>3
<1>c. ASSUME RunProceeds(p) PROVE ControlOK' /\ rec' = rec
  <2>1. CASE loc[p].en /\ p \in Users
    <3>1. "begin" \in PCsOf(p) \ {"txn", "count"}
      BY <2>1 DEF PCsOf, UserPCs
    <3> QED BY <1>0, <1>c, <2>1, <3>1, GotoControl DEF RunProceeds
  <2>2. CASE ~(loc[p].en /\ p \in Users)
    <3>1. "create" \in PCsOf(p) \ {"txn", "count"}
      BY DEF PCsOf, HandlerPCs, UserPCs, ReconPCs
    <3> DEFINE v == [loc[p] EXCEPT !.started = state.started]
    <3>2. v \in LocType
      BY <1>0 DEF DataOK, StateType, LocType
    <3>3. Goto(p, "create") /\ loc' = [loc EXCEPT ![p] = v] /\ rec' = rec
      BY <1>c, <2>2 DEF RunProceeds
    <3> HIDE DEF v
    <3> QED BY <1>0, <3>1, <3>2, <3>3, MoveControl
  <2> QED BY <2>1, <2>2
<1>d. ASSUME NEW r \in Runs, run' = [run EXCEPT ![r] = NewRun(p)]
      PROVE  run' \in [Runs -> RunType]
  <2>1. NewRun(p) \in RunType
    BY <1>0 DEF NewRun, Dispatcher, RunType, Phases, LocType
  <2> QED BY <1>0, <1>d, <2>1 DEF DataOK
<1>e. ASSUME IF p = Reconciler THEN Goto(p, "bump") /\ UNCHANGED loc ELSE Return(p)
      PROVE  ControlOK'
  <2>1. CASE p = Reconciler
    <3>1. "bump" \in PCsOf(p) \ {"txn", "count"}
      BY <2>1 DEF PCsOf, ReconPCs
    <3> QED BY <1>0, <1>e, <2>1, <3>1, GotoControl
  <2>2. CASE p # Reconciler
    BY <1>0, <1>e, <2>2, ReturnControl
  <2> QED BY <2>1, <2>2
<1>1. CASE RunCheck(p)
  BY <1>0, <1>1, <1>b, <1>c DEF RunCheck, DataOK
<1>2. CASE RunCheckBlind(p)
  BY <1>0, <1>2, <1>c DEF RunCheckBlind, Fault, DataOK
<1>3. CASE RunRefused(p)
  BY <1>0, <1>3, <1>b DEF RunRefused, Fault, DataOK
<1>4. CASE RunCreate(p)
  BY <1>0, <1>4, <1>d, <1>e DEF RunCreate, DataOK, WorkflowStates
<1>5. CASE RunCreateUndelivered(p)
  <2>1. ControlOK' /\ rec' \in RecType
    BY <1>0, <1>5, <1>b, <1>e DEF RunCreateUndelivered, DataOK
  <2>2. run' \in [Runs -> RunType] /\ wf' \in [Runs -> WorkflowStates]
    BY <1>0, <1>5, <1>d DEF RunCreateUndelivered, DataOK, WorkflowStates
  <2>3. exp' = exp /\ state' = state /\ faults' \in 0 .. MaxFaults
    BY <1>0, <1>5 DEF RunCreateUndelivered, Fault, DataOK
  <2> QED BY <1>0, <2>1, <2>2, <2>3 DEF DataOK
<1> QED BY <1>1, <1>2, <1>3, <1>4, <1>5 DEF RunFaults

\* A handler's return or move keeps the types of control; only data is left.
LEMMA HandlerControl ==
  ASSUME ControlOK, NEW h \in Handlers,
         \/ Return(h)
         \/ \E label \in HandlerPCs \ {"txn", "count"} : Goto(h, label) /\ UNCHANGED loc
  PROVE  ControlOK'
<1>1. h \in Procs /\ PCsOf(h) = HandlerPCs
  BY DEF Procs, PCsOf
<1> QED BY <1>1, ReturnControl, GotoControl

LEMMA ChainType ==
  ASSUME TypeOK, NEW h \in Handlers,
         \/ EventTransaction(h) \/ ChainCount(h) \/ ChainReread(h) \/ ChainLatch(h)
         \/ ChainGate(h) \/ ChainClaim(h) \/ TimerFires(h) \/ releaseSlot(h)
         \/ ChainCountBlind(h) \/ HandlerFails(h)
         \/ \E r \in Runs, terminal \in BOOLEAN : EventReceived(h, r, terminal)
  PROVE  TypeOK'
<1> USE DEF TypeOK
<1>0. /\ DataOK /\ ControlOK /\ loc[h] \in LocType /\ h \in Procs /\ PCsOf(h) = HandlerPCs
      /\ pc[h] \in {"txn", "count"} => loc[h].run \in Runs
  BY DEF ControlOK, Procs, PCsOf
<1>1. CASE EventTransaction(h)
  <2> DEFINE r == loc[h].run
  <2>1. r \in Runs
    BY <1>0, <1>1 DEF EventTransaction
  <2>a. run[r] \in RunType /\ loc[h].terminal \in BOOLEAN /\ ReportedPhases(h) \subseteq Phases
    BY <1>0, <2>1 DEF ReportedPhases, Phases, LocType, DataOK
  <2>2. \A ph \in ReportedPhases(h) : Reported(r, ph, loc[h].terminal) \in RunType
    BY <2>a DEF Reported, RunType
  <2>3. DataOK'
    BY <1>0, <1>1, <2>1, <2>2 DEF EventTransaction, DataOK
  <2>4. CASE loc[h].terminal /\ loc[h].en
    <3>1. Goto(h, "count") /\ loc' = [loc EXCEPT ![h] = loc[h]]
      BY <1>0, <1>1, <2>4 DEF EventTransaction, ControlOK
    <3>2. "count" \in PCsOf(h)
      BY <1>0 DEF HandlerPCs
    <3> QED BY <1>0, <2>1, <2>3, <3>1, <3>2, MoveControl
  <2>5. CASE ~(loc[h].terminal /\ loc[h].en)
    BY <1>0, <1>1, <2>3, <2>5, HandlerControl DEF EventTransaction
  <2> QED BY <2>4, <2>5
<1>2. CASE ChainCount(h) \/ ChainCountBlind(h)
  <2>1. state' \in StateType
    BY <1>0, <1>2 DEF ChainCount, ChainCountBlind, DataOK, StateType, Keys
  <2>2. ControlOK'
    BY <1>0, <1>2, HandlerControl DEF ChainCount, ChainCountBlind, HandlerPCs
  <2> QED BY <1>0, <1>2, <2>1, <2>2 DEF ChainCount, ChainCountBlind, Fault, DataOK
<1>3. CASE ChainReread(h)
  <2>1. ControlOK'
    BY <1>0, <1>3, HandlerControl DEF ChainReread, HandlerPCs
  <2> QED BY <1>0, <1>3, <2>1 DEF ChainReread, DataOK
<1>4. CASE ChainLatch(h)
  BY <1>0, <1>4, HandlerControl DEF ChainLatch, DataOK, StateType
<1>5. CASE ChainGate(h)
  <2>1. ControlOK'
    BY <1>0, <1>5, HandlerControl DEF ChainGate, HandlerPCs
  <2> QED BY <1>0, <1>5, <2>1 DEF ChainGate, DataOK
<1>6. CASE ChainClaim(h)
  <2>1. state' \in StateType
    BY <1>0, <1>6 DEF ChainClaim, DataOK, StateType
  <2>2. ControlOK'
    BY <1>0, <1>6, HandlerControl DEF ChainClaim, HandlerPCs
  <2> QED BY <1>0, <1>6, <2>1, <2>2 DEF ChainClaim, DataOK
<1>7. CASE TimerFires(h)
  <2> DEFINE v == [loc[h] EXCEPT !.en = exp.enabled]
  <2>1. v \in LocType /\ "check" \in HandlerPCs /\ "release" \in HandlerPCs \ {"txn", "count"}
    BY <1>0 DEF DataOK, ExpType, LocType, HandlerPCs
  <2>2. \/ Goto(h, "release") /\ UNCHANGED loc
        \/ Goto(h, "check") /\ loc' = [loc EXCEPT ![h] = v]
    BY <1>7 DEF TimerFires
  <2>3. DataOK'
    BY <1>0, <1>7 DEF TimerFires, DataOK
  <2> HIDE DEF v
  <2> QED BY <1>0, <2>1, <2>2, <2>3, HandlerControl, MoveControl
<1>8. CASE releaseSlot(h)
  BY <1>0, <1>8, HandlerControl DEF releaseSlot, DataOK, StateType
<1>9. CASE HandlerFails(h)
  <2>1. ControlOK'
    BY <1>0, <1>9, HandlerControl DEF HandlerFails, HandlerPCs
  <2> QED BY <1>0, <1>9, <2>1 DEF HandlerFails, Fault, DataOK
<1>10. CASE \E r \in Runs, terminal \in BOOLEAN : EventReceived(h, r, terminal)
  <2>1. PICK r \in Runs, terminal \in BOOLEAN : EventReceived(h, r, terminal)
    BY <1>10
  <2> DEFINE v == [NothingRead EXCEPT !.run = r, !.terminal = terminal,
                                      !.started = state.started, !.en = exp.enabled]
  <2>2. v \in LocType /\ v.run \in Runs /\ "txn" \in PCsOf(h)
    BY <1>0 DEF DataOK, ExpType, StateType, LocType, NothingRead, HandlerPCs
  <2>3. Goto(h, "txn") /\ loc' = [loc EXCEPT ![h] = v] /\ DataOK'
    BY <1>0, <2>1 DEF EventReceived, DataOK, WorkflowStates
  <2> HIDE DEF v
  <2> QED BY <1>0, <2>2, <2>3, MoveControl
<1> QED BY <1>1, <1>2, <1>3, <1>4, <1>5, <1>6, <1>7, <1>8, <1>9, <1>10

\* One stalled run less: it has ended now, or could not be expired.
LEMMA RecTodo ==
  ASSUME NEW x \in RecType, NEW key
  PROVE  [x EXCEPT !.todo = x.todo \ {key}] \in RecType
  BY DEF RecType

LEMMA RecEnded ==
  ASSUME NEW x \in RecType, NEW key \in Keys
  PROVE  [x EXCEPT !.todo = @ \ {key}, !.ended = @ \cup {key}] \in RecType
<1> DEFINE todo == x.todo \ {key}
           ended == x.ended \cup {key}
<1>1. ended \in SUBSET Keys
  BY DEF RecType
<1>2. ASSUME NEW y \in RecType, NEW S \in SUBSET Keys PROVE [y EXCEPT !.ended = S] \in RecType
  BY <1>2 DEF RecType
<1>3. [[x EXCEPT !.todo = todo] EXCEPT !.ended = ended] \in RecType
  BY <1>1, <1>2, RecTodo, Zenon
<1> QED BY <1>3

LEMMA RecFailed ==
  ASSUME NEW x \in RecType, NEW key
  PROVE  [x EXCEPT !.todo = @ \ {key}, !.busy = TRUE] \in RecType
<1> DEFINE todo == x.todo \ {key}
<1>1. ASSUME NEW y \in RecType PROVE [y EXCEPT !.busy = TRUE] \in RecType
  BY <1>1 DEF RecType
<1>2. [[x EXCEPT !.todo = todo] EXCEPT !.busy = TRUE] \in RecType
  BY <1>1, RecTodo, Zenon
<1> QED BY <1>2

LEMMA ReconcilerType ==
  ASSUME TypeOK, ReconcilerNext
  PROVE  TypeOK'
<1> USE DEF TypeOK
<1>0. /\ DataOK /\ ControlOK /\ loc[Reconciler] \in LocType
      /\ Reconciler \in Procs /\ PCsOf(Reconciler) = ReconPCs
  BY DEF ControlOK, Procs, PCsOf
<1>a. ASSUME SweepOver PROVE ControlOK' /\ rec' \in RecType
  BY <1>0, <1>a, ReturnControl DEF SweepOver, NothingSwept, RecType
<1>b. ASSUME NEW label \in ReconPCs \ {"txn", "count"}, Goto(Reconciler, label), UNCHANGED loc
      PROVE  ControlOK'
  BY <1>0, <1>b, GotoControl
<1>1. CASE ReconcileBatches
  <2>1. rec' \in RecType
    BY <1>0, <1>1 DEF ReconcileBatches, NothingSwept, RecType, DataOK, StateType
  <2> QED BY <1>0, <1>1, <1>b, <2>1 DEF ReconcileBatches, ReconPCs, DataOK
<1>2. CASE ReconcileRuns
  <2> DEFINE seen    == {r \in Runs : /\ run[r].phase # "None" /\ ~run[r].removed
                                      /\ run[r].batch >= rec.started}
             ended   == {r \in seen : Ended(r)}
             stalled == {r \in seen \ ended : run[r].phase = "Queued" /\ run[r].age >= 1}
             keysOf(S) == {multiRunRunKey(r) : r \in S}
             swept   == [rec EXCEPT !.seen = seen, !.ended = keysOf(ended), !.todo = keysOf(stalled),
                                    !.busy = seen # ended \cup stalled,
                                    !.ripe = \A r \in seen : run[r].age = 2]
  <2>1. \A S \in SUBSET Runs : keysOf(S) \in SUBSET Keys
    BY DEF multiRunRunKey, Keys
  <2>2. seen \in SUBSET Runs /\ ended \in SUBSET Runs /\ stalled \in SUBSET Runs
    OBVIOUS
  <2>3. keysOf(ended) \in SUBSET Keys /\ keysOf(stalled) \in SUBSET Keys
    BY <2>1, <2>2
  <2>4. CASE seen = {}
    BY <1>0, <1>2, <1>a, <2>4 DEF ReconcileRuns, DataOK
  <2>5. CASE seen # {}
    <3>1. rec' = swept /\ Goto(Reconciler, "expire") /\ UNCHANGED loc
      BY <1>2, <2>5 DEF ReconcileRuns
    <3>2. (seen # ended \cup stalled) \in BOOLEAN /\ (\A r \in seen : run[r].age = 2) \in BOOLEAN
      OBVIOUS
    <3>3. rec \in RecType
      BY <1>0 DEF DataOK
    <3> HIDE DEF seen, ended, stalled, keysOf
    <3>4. swept \in RecType
      BY <2>2, <2>3, <3>2, <3>3 DEF RecType
    <3> QED BY <1>0, <1>2, <1>b, <3>1, <3>4 DEF ReconcileRuns, ReconPCs, DataOK
  <2> QED BY <2>4, <2>5
<1>3. CASE expireStalledQueuedRun
  <2>1. PICK key \in rec.todo :
           /\ run' = [run EXCEPT ![key[1]] = ClosedAs(key[1], "Error")]
           /\ rec' = [rec EXCEPT !.todo = @ \ {key}, !.ended = @ \cup {key}]
    BY <1>3 DEF expireStalledQueuedRun
  <2>2. key \in Keys /\ key[1] \in Runs
    BY <1>0, <2>1 DEF DataOK, RecType, Keys
  <2>3. ClosedAs(key[1], "Error") \in RunType
    BY <1>0, <2>2 DEF ClosedAs, RunType, Phases, DataOK
  <2>4. rec' \in RecType
    <3>1. rec \in RecType
      BY <1>0 DEF DataOK
    <3>2. [rec EXCEPT !.todo = @ \ {key}, !.ended = @ \cup {key}] \in RecType
      BY <2>2, <3>1, RecEnded
    <3> QED BY <2>1, <3>2
  <2> QED BY <1>0, <1>3, <2>1, <2>2, <2>3, <2>4, StayControl DEF expireStalledQueuedRun, DataOK
<1>4. CASE ExpireFails
  <2>1. rec' \in RecType
    <3>1. PICK key \in rec.todo : rec' = [rec EXCEPT !.todo = @ \ {key}, !.busy = TRUE]
      BY <1>4 DEF ExpireFails
    <3>2. rec \in RecType
      BY <1>0 DEF DataOK
    <3>3. [rec EXCEPT !.todo = @ \ {key}, !.busy = TRUE] \in RecType
      BY <3>2, RecFailed
    <3> QED BY <3>1, <3>3
  <2> QED BY <1>0, <1>4, <2>1, StayControl DEF ExpireFails, Fault, DataOK
<1>5. CASE ReconcileLeaves
  BY <1>0, <1>5, <1>a DEF ReconcileLeaves, DataOK
<1>6. CASE ReconcileLatches
  <2>1. state' \in StateType
    BY <1>0, <1>6 DEF ReconcileLatches, DataOK, StateType, RecType
  <2> QED BY <1>0, <1>6, <1>a, <2>1 DEF ReconcileLatches, DataOK
<1>7. CASE ReconcileRecords
  <2>1. state' \in StateType
    BY <1>0, <1>7 DEF ReconcileRecords, DataOK, StateType, RecType
  <2> QED BY <1>0, <1>7, <1>b, <2>1 DEF ReconcileRecords, ReconPCs, DataOK
<1>8. CASE ReconcileRereads
  <2> DEFINE v == [loc[Reconciler] EXCEPT !.en = exp.enabled]
  <2>1. v \in LocType /\ "check" \in ReconPCs
    BY <1>0 DEF DataOK, ExpType, LocType, ReconPCs
  <2>2. \/ SweepOver
        \/ Goto(Reconciler, "check") /\ loc' = [loc EXCEPT ![Reconciler] = v] /\ UNCHANGED rec
    BY <1>8 DEF ReconcileRereads
  <2>3. UNCHANGED <<exp, state, run, wf, faults>>
    BY <1>8 DEF ReconcileRereads
  <2> HIDE DEF v
  <2>4. ControlOK' /\ rec' \in RecType
    BY <1>0, <1>a, <2>1, <2>2, MoveControl DEF DataOK
  <2> QED BY <1>0, <2>3, <2>4 DEF DataOK
<1>9. CASE ReconcileBumps
  <2>1. Cardinality(rec.seen) \in Nat
    BY <1>0, FS_Subset, FS_CardinalityType DEF DataOK, RecType
  <2>2. state' \in StateType
    BY <1>0, <1>9, <2>1 DEF ReconcileBumps, DataOK, StateType
  <2> QED BY <1>0, <1>9, <1>a, <2>2 DEF ReconcileBumps, DataOK
<1>10. CASE ReconcilerFails
  BY <1>0, <1>10, <1>a DEF ReconcilerFails, Fault, DataOK
<1>11. CASE RunCheck(Reconciler) \/ RunFaults(Reconciler) \/ RunCreate(Reconciler)
  BY <1>0, <1>11, RunType1
<1> QED BY <1>1, <1>2, <1>3, <1>4, <1>5, <1>6, <1>7, <1>8, <1>9, <1>10, <1>11
        DEF ReconcilerNext, ReconcilerStep

LEMMA UserType ==
  ASSUME TypeOK, NEW u \in Users, UserNext(u)
  PROVE  TypeOK'
<1> USE DEF TypeOK
<1>0. DataOK /\ ControlOK /\ loc[u] \in LocType /\ u \in Procs /\ PCsOf(u) = UserPCs
  BY DEF ControlOK, Procs, PCsOf
<1>1. CASE UserStarts(u)
  <2> DEFINE v == [loc[u] EXCEPT !.en = exp.enabled]
  <2>1. v \in LocType /\ "check" \in UserPCs
    BY <1>0 DEF DataOK, ExpType, LocType, UserPCs
  <2>2. Goto(u, "check") /\ loc' = [loc EXCEPT ![u] = v]
    BY <1>1 DEF UserStarts
  <2> HIDE DEF v
  <2> QED BY <1>0, <1>1, <2>1, <2>2, MoveControl DEF UserStarts, DataOK
<1>2. CASE StopReads(u)
  <2>1. PICK targets \in SUBSET Runs :
           loc' = [loc EXCEPT ![u] = [NothingRead EXCEPT !.targets = targets,
                                         !.latch = exp.enabled \/ ~StateIsNil]]
    <3> DEFINE running == {r \in Runs : /\ run[r].phase = "Running"
                                         /\ ~run[r].removed /\ ~run[r].completed}
               named   == {{r} : r \in {q \in Runs : run[q].uid}}
    <3>1. \A S \in named \cup ({running} \ {{}}) : S \in SUBSET Runs
      OBVIOUS
    <3>2. \E S \in named \cup ({running} \ {{}}) :
             loc' = [loc EXCEPT ![u] = [NothingRead EXCEPT !.targets = S,
                                           !.latch = exp.enabled \/ ~StateIsNil]]
      BY <1>2, Zenon DEF StopReads
    <3> QED BY <3>1, <3>2, Zenon
  <2> DEFINE v == [NothingRead EXCEPT !.targets = targets, !.latch = exp.enabled \/ ~StateIsNil]
  <2>2. v \in LocType /\ "stopping" \in UserPCs
    BY DEF LocType, NothingRead, UserPCs
  <2> HIDE DEF v
  <2> QED BY <1>0, <1>2, <2>1, <2>2, MoveControl DEF StopReads, DataOK, v
<1>3. CASE beginMultiRunBatch(u)
  <2> DEFINE v == [loc[u] EXCEPT !.started = state.started + 1]
  <2>0. state.started + 1 \in Nat
    BY <1>0 DEF DataOK, StateType
  <2>a. state' \in StateType
    BY <1>3, <2>0 DEF beginMultiRunBatch, StateType
  <2>1. v \in LocType /\ "create" \in UserPCs
    BY <1>0, <2>0 DEF LocType, UserPCs
  <2>2. Goto(u, "create") /\ loc' = [loc EXCEPT ![u] = v]
    BY <1>3 DEF beginMultiRunBatch
  <2> HIDE DEF v
  <2> QED BY <1>0, <1>3, <2>a, <2>1, <2>2, MoveControl DEF beginMultiRunBatch, DataOK
<1>4. CASE ProcessExperimentRunStop(u)
  <2>1. PICK r \in loc[u].targets :
           /\ run' = IF run[r].removed THEN run ELSE [run EXCEPT ![r] = ClosedAs(r, "Stopped")]
           /\ loc' = [loc EXCEPT ![u].targets = @ \ {r}]
    BY <1>4 DEF ProcessExperimentRunStop
  <2>2. r \in Runs /\ ClosedAs(r, "Stopped") \in RunType
    BY <1>0 DEF ClosedAs, RunType, Phases, LocType, DataOK
  <2>3. ControlOK'
    BY <1>0, <1>4, <2>1 DEF ProcessExperimentRunStop, ControlOK, LocType
  <2> QED BY <1>0, <1>4, <2>1, <2>2, <2>3 DEF ProcessExperimentRunStop, DataOK
<1>5. CASE StopLatches(u)
  <2>1. state' \in StateType
    BY <1>0, <1>5 DEF StopLatches, DataOK, StateType
  <2> QED BY <1>0, <1>5, <2>1, ReturnControl DEF StopLatches, DataOK
<1>6. CASE StopFails(u)
  BY <1>0, <1>6, ReturnControl DEF StopFails, Fault, DataOK
<1>7. CASE RunCheck(u) \/ RunFaults(u) \/ RunCreate(u)
  BY <1>0, <1>7, RunType1
<1> QED BY <1>1, <1>2, <1>3, <1>4, <1>5, <1>6, <1>7 DEF UserNext, UserStep

LEMMA EnvironmentType ==
  ASSUME TypeOK, EnvironmentNext
  PROVE  TypeOK'
<1> USE DEF TypeOK
<1>0. DataOK /\ ControlOK
  OBVIOUS
<1>1. \A r \in Runs : Deleted(r) \in RunType /\ run[r] \in RunType
  BY <1>0 DEF Deleted, RunType, DataOK
<1>2. CASE ProcessExperimentDelete
  <2>1. run' \in [Runs -> RunType]
    BY <1>1, <1>2 DEF ProcessExperimentDelete
  <2> QED BY <1>0, <1>2, <2>1, StayControl DEF ProcessExperimentDelete, DataOK, ExpType
<1>3. CASE EditExperiment
  BY <1>0, <1>3, StayControl DEF EditExperiment, DataOK, ExpType
<1>4. CASE ServerRestarts
  BY <1>0, <1>4, NothingReadType
     DEF ServerRestarts, Fault, NothingSwept, RecType, DataOK, ControlOK, PCsOf, WorkflowStates,
         HandlerPCs, UserPCs, ReconPCs
<1>5. ASSUME NEW r \in Runs, ProcessExperimentRunDelete(r)
      PROVE  TypeOK'
  BY <1>0, <1>1, <1>5, StayControl DEF ProcessExperimentRunDelete, DataOK
<1>6. ASSUME NEW r \in Runs, WorkflowFinishes(r) \/ EventLost(r)
      PROVE  TypeOK'
  BY <1>0, <1>6, StayControl DEF WorkflowFinishes, EventLost, Fault, DataOK, WorkflowStates
<1>7. ASSUME NEW r \in Runs, StallTimeoutPasses(r) \/ GracePasses(r)
      PROVE  TypeOK'
  <2>1. [run[r] EXCEPT !.age = 1] \in RunType /\ [run[r] EXCEPT !.age = 2] \in RunType
    BY <1>1 DEF RunType
  <2>2. run' \in [Runs -> RunType]
    BY <1>0, <1>7, <2>1 DEF StallTimeoutPasses, GracePasses, DataOK
  <2> QED BY <1>0, <1>7, <2>2, StayControl DEF StallTimeoutPasses, GracePasses, DataOK
<1> QED BY <1>2, <1>3, <1>4, <1>5, <1>6, <1>7 DEF EnvironmentNext

LEMMA NextType == TypeOK /\ [Next]_vars => TypeOK'
<1> SUFFICES ASSUME TypeOK, [Next]_vars PROVE TypeOK'
  OBVIOUS
<1>1. ASSUME NEW h \in Handlers, HandlerNext(h) PROVE TypeOK'
  <2>1. h \in Procs
    BY DEF Procs
  <2> QED BY <1>1, <2>1, ChainType, RunType1 DEF HandlerNext, HandlerStep
<1>2. ASSUME NEW u \in Users, UserNext(u) PROVE TypeOK'
  BY <1>2, UserType
<1>3. CASE ReconcilerNext
  BY <1>3, ReconcilerType
<1>4. CASE EnvironmentNext
  BY <1>4, EnvironmentType
<1>5. CASE UNCHANGED vars
  BY <1>5, StayControl DEF vars, TypeOK, DataOK
<1> QED BY <1>1, <1>2, <1>3, <1>4, <1>5 DEF Next

\* Every reachable state is of the declared types: in particular the reconciler
\* and the timers never open a batch, only a user's request does.
THEOREM TypeCorrect == Spec => []TypeOK
  BY InitType, NextType, PTL DEF Spec

-----------------------------------------------------------------------------
(* What one step does to the run documents *)

RunsMonotone == \A r \in Runs : run[r].completed => run'[r].completed

LEMMA RunsStep ==
  ASSUME TypeOK, PhaseAgreesWithCompleted, [Next]_vars
  PROVE  RunsMonotone /\ PhaseAgreesWithCompleted'
<1> USE DEF PhaseAgreesWithCompleted, RunsMonotone
<1>0. DataOK /\ ControlOK /\ run \in [Runs -> RunType]
  BY DEF TypeOK, DataOK
<1>a. CASE UNCHANGED run
  BY <1>a
<1>b. ASSUME NEW p \in Procs, RunCreate(p) \/ RunCreateUndelivered(p)
      PROVE  RunsMonotone /\ PhaseAgreesWithCompleted'
  <2>1. PICK r \in Runs : run[r].phase = "None" /\ run' = [run EXCEPT ![r] = NewRun(p)]
    BY <1>b DEF RunCreate, RunCreateUndelivered
  <2>2. \A q \in Runs : run'[q] = IF q = r THEN NewRun(p) ELSE run[q]
    BY <1>0, <2>1
  <2>3. NewRun(p).phase = "Queued" /\ NewRun(p).completed = FALSE
    BY DEF NewRun
  <2> QED BY <2>1, <2>2, <2>3
<1>c. ASSUME NEW h \in Handlers, EventTransaction(h)
      PROVE  RunsMonotone /\ PhaseAgreesWithCompleted'
  <2> DEFINE r == loc[h].run
  <2>1. r \in Runs /\ loc[h].terminal \in BOOLEAN
    BY <1>0, <1>c DEF EventTransaction, ControlOK, Procs, LocType
  <2>2. CASE Updatable(r)
    <3>1. PICK ph \in ReportedPhases(h) : run' = [run EXCEPT ![r] = Reported(r, ph, loc[h].terminal)]
      BY <1>c, <2>2 DEF EventTransaction
    <3>2. \A q \in Runs : run'[q] = IF q = r THEN Reported(r, ph, loc[h].terminal) ELSE run[q]
      BY <1>0, <3>1
    <3>3. ph \in {"Completed", "Error", "Stopped"} <=> loc[h].terminal
      BY <2>1 DEF ReportedPhases
    <3> QED BY <2>1, <2>2, <3>2, <3>3 DEF Reported, Updatable
  <2>3. CASE ~Updatable(r)
    BY <1>c, <1>a, <2>3 DEF EventTransaction
  <2> QED BY <2>2, <2>3
<1>d. ASSUME NEW r \in Runs, NEW ph \in {"Error", "Stopped"}, run' = [run EXCEPT ![r] = ClosedAs(r, ph)]
      PROVE  RunsMonotone /\ PhaseAgreesWithCompleted'
  <2>1. \A q \in Runs : run'[q] = IF q = r THEN ClosedAs(r, ph) ELSE run[q]
    BY <1>0, <1>d
  <2> QED BY <2>1 DEF ClosedAs
<1>e. CASE expireStalledQueuedRun
  <2>1. PICK key \in rec.todo : run' = [run EXCEPT ![key[1]] = ClosedAs(key[1], "Error")]
    BY <1>e DEF expireStalledQueuedRun
  <2>2. key[1] \in Runs
    BY <1>0 DEF DataOK, RecType, Keys
  <2> QED BY <1>d, <2>1, <2>2
<1>f. ASSUME NEW u \in Users, ProcessExperimentRunStop(u)
      PROVE  RunsMonotone /\ PhaseAgreesWithCompleted'
  <2>1. PICK r \in loc[u].targets :
           run' = IF run[r].removed THEN run ELSE [run EXCEPT ![r] = ClosedAs(r, "Stopped")]
    BY <1>f DEF ProcessExperimentRunStop
  <2>2. r \in Runs
    BY <1>0 DEF ControlOK, Procs, LocType
  <2> QED BY <1>a, <1>d, <2>1, <2>2
<1>g. CASE ProcessExperimentDelete
  <2>1. \A q \in Runs : run'[q] \in {run[q], Deleted(q)}
    BY <1>g DEF ProcessExperimentDelete
  <2> QED BY <2>1 DEF Deleted
<1>h. ASSUME NEW r \in Runs, ProcessExperimentRunDelete(r)
      PROVE  RunsMonotone /\ PhaseAgreesWithCompleted'
  <2>1. \A q \in Runs : run'[q] \in {run[q], Deleted(q)}
    BY <1>0, <1>h DEF ProcessExperimentRunDelete
  <2> QED BY <2>1 DEF Deleted
<1>i. ASSUME NEW r \in Runs, StallTimeoutPasses(r) \/ GracePasses(r)
      PROVE  RunsMonotone /\ PhaseAgreesWithCompleted'
  <2>1. \A q \in Runs : /\ run'[q].phase = run[q].phase
                        /\ run'[q].completed = run[q].completed
    BY <1>0, <1>i DEF StallTimeoutPasses, GracePasses, RunType
  <2> QED BY <2>1
<1>1. ASSUME NEW h \in Handlers, HandlerNext(h)
      PROVE  RunsMonotone /\ PhaseAgreesWithCompleted'
  <2>1. h \in Procs
    BY DEF Procs
  <2>2. CASE RunCreate(h) \/ RunCreateUndelivered(h)
    BY <1>b, <2>1, <2>2
  <2>3. CASE EventTransaction(h)
    BY <1>c, <2>3
  <2>4. CASE ~(RunCreate(h) \/ RunCreateUndelivered(h) \/ EventTransaction(h))
    BY <1>1, <1>a, <2>4
       DEF HandlerNext, HandlerStep, RunFaults, ChainCount, ChainCountBlind, ChainReread, ChainLatch, ChainGate,
           ChainClaim, TimerFires, releaseSlot, HandlerFails, EventReceived,
           RunCheck, RunCheckBlind, RunRefused
  <2> QED BY <2>2, <2>3, <2>4
<1>2. ASSUME NEW u \in Users, UserNext(u)
      PROVE  RunsMonotone /\ PhaseAgreesWithCompleted'
  <2>1. u \in Procs
    BY DEF Procs
  <2>2. CASE RunCreate(u) \/ RunCreateUndelivered(u)
    BY <1>b, <2>1, <2>2
  <2>3. CASE ProcessExperimentRunStop(u)
    BY <1>f, <2>3
  <2>4. CASE ~(RunCreate(u) \/ RunCreateUndelivered(u) \/ ProcessExperimentRunStop(u))
    BY <1>2, <1>a, <2>4
       DEF UserNext, UserStep, RunFaults, UserStarts, StopReads, beginMultiRunBatch, StopLatches,
           StopFails, RunCheck, RunCheckBlind, RunRefused
  <2> QED BY <2>2, <2>3, <2>4
<1>3. CASE ReconcilerNext
  <2>1. Reconciler \in Procs
    BY DEF Procs
  <2>2. CASE RunCreate(Reconciler) \/ RunCreateUndelivered(Reconciler)
    BY <1>b, <2>1, <2>2
  <2>3. CASE ~(RunCreate(Reconciler) \/ RunCreateUndelivered(Reconciler) \/ expireStalledQueuedRun)
    BY <1>3, <1>a, <2>3
       DEF ReconcilerNext, ReconcilerStep, RunFaults, ReconcileBatches, ReconcileRuns, ExpireFails,
           ReconcileLeaves, ReconcileLatches, ReconcileRecords, ReconcileRereads, ReconcileBumps,
           ReconcilerFails, RunCheck, RunCheckBlind, RunRefused
  <2> QED BY <1>e, <2>2, <2>3
<1>4. CASE EnvironmentNext
  <2>1. CASE EditExperiment \/ ServerRestarts \/ \E r \in Runs : WorkflowFinishes(r) \/ EventLost(r)
    BY <1>a, <2>1 DEF EditExperiment, ServerRestarts, WorkflowFinishes, EventLost
  <2> QED BY <1>4, <1>g, <1>h, <1>i, <2>1 DEF EnvironmentNext
<1> QED BY <1>1, <1>2, <1>3, <1>4, <1>a DEF Next, vars

-----------------------------------------------------------------------------
(* What one step does to the accounting of ended runs *)

\* Whatever is newly counted, or newly about to be, has ended.
CountsGrow ==
    /\ \A key \in state'.counted : key \in state.counted \/ run[key[1]].completed
    /\ \A key \in rec'.ended : key \in rec.ended \/ run'[key[1]].completed
    /\ \A h \in Handlers : pc'[h] = "count" => \/ pc[h] = "count" /\ loc'[h] = loc[h]
                                               \/ run'[loc'[h].run].completed

\* A goroutine that does not move to "count" leaves nobody else there.
Quiet == \A h \in Handlers : pc'[h] = "count" => pc[h] = "count" /\ loc'[h] = loc[h]

LEMMA QuietMove ==
  ASSUME ControlOK, NEW p \in Procs, NEW label, label # "count", Goto(p, label),
         \A q \in Procs \ {p} : loc'[q] = loc[q]
  PROVE  Quiet
<1>1. pc'[p] = label /\ \A q \in Procs \ {p} : pc'[q] = pc[q] /\ loc'[q] = loc[q]
  BY DEF Goto, ControlOK
<1>2. Handlers \subseteq Procs
  BY DEF Procs
<1> QED BY <1>1, <1>2 DEF Quiet

LEMMA QuietReturn == ASSUME ControlOK, NEW p \in Procs, Return(p) PROVE Quiet
<1>1. /\ Goto(p, "idle")
      /\ \A q \in Procs \ {p} : loc'[q] = loc[q]
  BY DEF Return, Goto, ControlOK
<1> QED BY <1>1, QuietMove

LEMMA RunQuiet ==
  ASSUME ControlOK, NEW p \in Procs, RunCheck(p) \/ RunFaults(p) \/ RunCreate(p)
  PROVE  Quiet /\ state' = state /\ rec' \in {rec, NothingSwept}
<1>1. CASE Return(p)
  <2>1. state' = state /\ rec' \in {rec, NothingSwept}
    BY DEF RunCheck, RunFaults, RunCheckBlind, RunRefused, RunCreate, RunCreateUndelivered,
           RunFails, RunProceeds
  <2> QED BY <1>1, <2>1, QuietReturn
<1>2. CASE ~Return(p)
  <2>1. PICK label \in {"begin", "create", "release", "bump"} : Goto(p, label)
    BY <1>2 DEF RunCheck, RunFaults, RunCheckBlind, RunRefused, RunCreate, RunCreateUndelivered,
                RunFails, RunProceeds
  <2>2. /\ \A q \in Procs \ {p} : loc'[q] = loc[q]
        /\ state' = state /\ rec' \in {rec, NothingSwept}
    BY <1>2 DEF RunCheck, RunFaults, RunCheckBlind, RunRefused, RunCreate, RunCreateUndelivered,
                RunFails, RunProceeds, ControlOK
  <2>3. label # "count"
    BY <2>1
  <2> QED BY <2>1, <2>2, <2>3, QuietMove
<1> QED BY <1>1, <1>2

LEMMA CountsStep ==
  ASSUME TypeOK, PhaseAgreesWithCompleted, PendingCountsEnded, [Next]_vars
  PROVE  CountsGrow
<1>0. DataOK /\ ControlOK
  BY DEF TypeOK
<1>a. ASSUME Quiet, state'.counted = state.counted, rec'.ended \in {rec.ended, {}}
      PROVE  CountsGrow
  BY <1>a DEF CountsGrow, Quiet
<1>b. NothingSwept.ended = {}
  BY DEF NothingSwept
<1>c. ASSUME NEW p \in Procs, RunCheck(p) \/ RunFaults(p) \/ RunCreate(p)
      PROVE  CountsGrow
  BY <1>0, <1>a, <1>b, <1>c, RunQuiet
<1>1. ASSUME NEW h \in Handlers, HandlerNext(h)
      PROVE  CountsGrow
  <2>0. /\ h \in Procs /\ loc[h] \in LocType
        /\ pc[h] \in {"txn", "count"} => loc[h].run \in Runs
    BY <1>0 DEF Procs, ControlOK
  <2>1. CASE EventTransaction(h)
    <3> DEFINE r == loc[h].run
    <3>1. r \in Runs /\ state' = state /\ rec' = rec
      BY <2>0, <2>1 DEF EventTransaction
    <3>2. CASE Return(h)
      BY <1>0, <1>a, <2>0, <3>1, <3>2, QuietReturn
    <3>3. CASE ~Return(h)
      <4>1. loc[h].terminal /\ Goto(h, "count") /\ loc' = loc
        BY <2>1, <3>3 DEF EventTransaction
      <4>2. run'[r].completed
        <5>1. CASE Updatable(r)
          <6>1. PICK ph \in ReportedPhases(h) :
                   run' = [run EXCEPT ![r] = Reported(r, ph, loc[h].terminal)]
            BY <2>1, <5>1 DEF EventTransaction
          <6>2. run'[r] = Reported(r, ph, loc[h].terminal)
            BY <1>0, <3>1, <6>1 DEF DataOK
          <6> QED BY <4>1, <6>2 DEF Reported
        <5>2. CASE ~Updatable(r)
          BY <2>1, <5>2 DEF EventTransaction, Updatable
        <5> QED BY <5>1, <5>2
      <4>3. \A g \in Handlers \ {h} : pc'[g] = pc[g]
        BY <1>0, <2>0, <4>1 DEF Goto, ControlOK, Procs
      <4> QED BY <3>1, <4>1, <4>2, <4>3 DEF CountsGrow
    <3> QED BY <3>2, <3>3
  <2>2. CASE ChainCount(h) \/ ChainCountBlind(h)
    <3>1. rec' = rec /\ run' = run /\ run[loc[h].run].completed
      BY <2>2 DEF ChainCount, ChainCountBlind, PendingCountsEnded
    <3>2. \A key \in state'.counted : key \in state.counted \/ key[1] = loc[h].run
      BY <1>0, <2>2 DEF ChainCount, ChainCountBlind, DataOK, StateType
    <3>3. Quiet
      <4>1. CASE Return(h)
        BY <1>0, <2>0, <4>1, QuietReturn
      <4>2. CASE ~Return(h)
        <5>1. Goto(h, "reread") /\ loc' = loc /\ "reread" # "count"
          BY <2>2, <4>2 DEF ChainCount, ChainCountBlind
        <5> QED BY <1>0, <2>0, <5>1, QuietMove
      <4> QED BY <4>1, <4>2
    <3> QED BY <3>1, <3>2, <3>3 DEF CountsGrow, Quiet
  <2>3. CASE ~(EventTransaction(h) \/ ChainCount(h) \/ ChainCountBlind(h)
               \/ RunCheck(h) \/ RunFaults(h) \/ RunCreate(h))
    <3>1. /\ rec' = rec
          /\ state'.counted = state.counted
      BY <1>0, <1>1, <2>3
         DEF HandlerNext, HandlerStep, ChainReread, ChainLatch, ChainGate, ChainClaim,
             TimerFires, releaseSlot, HandlerFails, EventReceived, DataOK, StateType
    <3>2. Quiet
      <4>1. CASE Return(h)
        BY <1>0, <2>0, <4>1, QuietReturn
      <4>2. CASE ~Return(h)
        <5>1. PICK label \in {"latch", "gate", "claim", "sleep", "release", "check", "txn"} :
                 Goto(h, label)
          BY <1>1, <2>3, <4>2
             DEF HandlerNext, HandlerStep, ChainReread, ChainLatch, ChainGate, ChainClaim,
                 TimerFires, releaseSlot, HandlerFails, EventReceived
        <5>2. label # "count" /\ \A q \in Procs \ {h} : loc'[q] = loc[q]
          BY <1>0, <1>1, <2>0, <2>3, <4>2, <5>1
             DEF HandlerNext, HandlerStep, ChainReread, ChainLatch, ChainGate, ChainClaim,
                 TimerFires, releaseSlot, HandlerFails, EventReceived, ControlOK
        <5> QED BY <1>0, <2>0, <5>1, <5>2, QuietMove
      <4> QED BY <4>1, <4>2
    <3> QED BY <1>a, <3>1, <3>2
  <2> QED BY <1>c, <2>0, <2>1, <2>2, <2>3
<1>2. ASSUME NEW u \in Users, UserNext(u)
      PROVE  CountsGrow
  <2>0. u \in Procs /\ u \notin Handlers
    BY DEF Procs
  <2>1. CASE ~(RunCheck(u) \/ RunFaults(u) \/ RunCreate(u))
    <3>0. /\ rec' = rec
          /\ \/ state' = state
             \/ state' = [state EXCEPT !.done = TRUE]
             \/ state' = [started |-> state.started + 1, launched |-> 0, counted |-> {}, done |-> FALSE]
      BY <1>2, <2>1
         DEF UserNext, UserStep, UserStarts, StopReads, beginMultiRunBatch,
             ProcessExperimentRunStop, StopLatches, StopFails
    <3>1. rec' = rec /\ state'.counted \subseteq state.counted
      BY <1>0, <3>0 DEF DataOK, StateType
    <3>2. \A h \in Handlers : pc'[h] = pc[h] /\ loc'[h] = loc[h]
      BY <1>0, <1>2, <2>0, <2>1
         DEF UserNext, UserStep, UserStarts, StopReads, beginMultiRunBatch,
             ProcessExperimentRunStop, StopLatches, StopFails, ControlOK, Goto, Return, Procs
    <3> QED BY <3>1, <3>2 DEF CountsGrow
  <2> QED BY <1>c, <2>0, <2>1
<1>3. CASE ReconcilerNext
  <2>0. Reconciler \in Procs /\ Reconciler \notin Handlers
    BY DEF Procs
  <2>a. CASE ~(RunCheck(Reconciler) \/ RunFaults(Reconciler) \/ RunCreate(Reconciler))
    <3>1. Quiet
      <4>1. CASE Return(Reconciler)
        BY <1>0, <2>0, <4>1, QuietReturn
      <4>2. CASE ~Return(Reconciler)
        <5>1. \A h \in Handlers : pc'[h] = pc[h] /\ loc'[h] = loc[h]
          BY <1>0, <1>3, <2>0, <2>a, <4>2
             DEF ReconcilerNext, ReconcilerStep, ReconcileBatches, ReconcileRuns,
                 expireStalledQueuedRun, ExpireFails, ReconcileLeaves, ReconcileLatches,
                 ReconcileRecords, ReconcileRereads, ReconcileBumps, ReconcilerFails,
                 SweepOver, ControlOK, Goto, Procs
        <5> QED BY <5>1 DEF Quiet
      <4> QED BY <4>1, <4>2
    <3>2. CASE ReconcileLatches \/ ReconcileRecords
      <4>1. /\ rec'.ended \in {rec.ended, {}}
            /\ state'.counted = state.counted \cup rec.ended
        BY <1>0, <1>b, <3>2 DEF ReconcileLatches, ReconcileRecords, SweepOver, DataOK, StateType
      <4> QED BY <3>1, <4>1 DEF CountsGrow, Quiet, PendingCountsEnded
    <3>3. CASE ReconcileRuns
      <4>1. state' = state /\ run' = run
        BY <3>3 DEF ReconcileRuns
      <4>2. ASSUME NEW key \in rec'.ended PROVE run[key[1]].completed
        <5>1. CASE rec' = NothingSwept
          BY <1>b, <4>2, <5>1
        <5>2. CASE rec' # NothingSwept
          <6>1. \A S : rec'.ended = {multiRunRunKey(r) : r \in S}
                  => \E r \in S : key = multiRunRunKey(r)
            BY <4>2
          <6>2. rec'.ended = {multiRunRunKey(r) : r \in {q \in {r \in Runs :
                                 /\ run[r].phase # "None" /\ ~run[r].removed
                                 /\ run[r].batch >= rec.started} : Ended(q)}}
            BY <1>0, <3>3, <5>2 DEF ReconcileRuns, SweepOver, DataOK, RecType
          <6>3. PICK r \in Runs : key = multiRunRunKey(r) /\ run[r].phase # "None" /\ Ended(r)
            BY <6>1, <6>2
          <6>4. run[r].phase \in Phases /\ key[1] = r
            BY <1>0, <6>3 DEF DataOK, RunType, multiRunRunKey
          <6> QED BY <6>3, <6>4
                  DEF Ended, PhaseAgreesWithCompleted, Phases, nonTerminalRunPhases
        <5> QED BY <5>1, <5>2
      <4> QED BY <3>1, <4>1, <4>2 DEF CountsGrow, Quiet
    <3>4. CASE expireStalledQueuedRun
      <4>1. PICK key \in rec.todo :
              /\ run' = [run EXCEPT ![key[1]] = ClosedAs(key[1], "Error")]
              /\ rec' = [rec EXCEPT !.todo = @ \ {key}, !.ended = @ \cup {key}]
        BY <3>4 DEF expireStalledQueuedRun
      <4>2. key[1] \in Runs
        BY <1>0 DEF DataOK, RecType, Keys
      <4>3. run'[key[1]].completed
        BY <1>0, <4>1, <4>2 DEF ClosedAs, DataOK
      <4>4. rec'.ended = rec.ended \cup {key}
        BY <1>0, <4>1, Zenon DEF DataOK, RecType
      <4>5. state' = state
        BY <3>4 DEF expireStalledQueuedRun
      <4> QED BY <3>1, <4>3, <4>4, <4>5 DEF CountsGrow, Quiet
    <3>5. CASE ReconcileBatches \/ ExpireFails \/ ReconcileLeaves \/ ReconcileRereads
               \/ ReconcileBumps \/ ReconcilerFails
      <4>1. state'.counted = state.counted
        BY <1>0, <3>5 DEF ReconcileBatches, ExpireFails, ReconcileLeaves, ReconcileRereads,
                          ReconcileBumps, ReconcilerFails, DataOK, StateType
      <4>2. rec'.ended \in {rec.ended, {}}
        BY <1>0, <1>b, <3>5
           DEF ReconcileBatches, ExpireFails, ReconcileLeaves, ReconcileRereads, ReconcileBumps,
               ReconcilerFails, SweepOver, DataOK, RecType, NothingSwept
      <4> QED BY <1>a, <3>1, <4>1, <4>2
    <3> QED BY <1>3, <2>a, <3>2, <3>3, <3>4, <3>5 DEF ReconcilerNext, ReconcilerStep
  <2> QED BY <1>c, <2>0, <2>a
<1>4. CASE EnvironmentNext
  <2>1. state' = state /\ rec' \in {rec, NothingSwept}
    BY <1>4 DEF EnvironmentNext, ProcessExperimentDelete, EditExperiment, ServerRestarts,
                ProcessExperimentRunDelete, WorkflowFinishes, EventLost, StallTimeoutPasses,
                GracePasses
  <2>2. \/ pc' = pc /\ loc' = loc
        \/ pc' = [p \in Procs |-> "idle"]
    BY <1>4 DEF EnvironmentNext, ProcessExperimentDelete, EditExperiment, ServerRestarts,
                ProcessExperimentRunDelete, WorkflowFinishes, EventLost, StallTimeoutPasses,
                GracePasses
  <2>3. Quiet
    BY <2>2 DEF Quiet, Procs
  <2> QED BY <1>a, <1>b, <2>1, <2>3
<1>5. CASE UNCHANGED vars
  BY <1>5 DEF vars, CountsGrow
<1> QED BY <1>1, <1>2, <1>3, <1>4, <1>5 DEF Next

-----------------------------------------------------------------------------
(* What one step does to the slot counter *)

LEMMA CeilingStep ==
  ASSUME TypeOK, LaunchedUnderCeiling, DispatchesWhileShort, [Next]_vars
  PROVE  LaunchedUnderCeiling' /\ DispatchesWhileShort'
<1>0. DataOK /\ ControlOK /\ state \in StateType /\ Reconciler \in Procs
  BY DEF TypeOK, DataOK, Procs
<1>a. Cardinality(rec.seen) \in Nat
  BY <1>0, FS_Subset, FS_CardinalityType DEF DataOK, RecType
<1>b. ASSUME pc'[Reconciler] = pc[Reconciler] /\ rec' = rec PROVE DispatchesWhileShort'
  BY <1>b DEF DispatchesWhileShort
<1>c. ASSUME state'.launched = state.launched PROVE LaunchedUnderCeiling'
  BY <1>c DEF LaunchedUnderCeiling
<1>d. ASSUME NEW p \in Procs \ {Reconciler},
             RunCheck(p) \/ RunFaults(p) \/ RunCreate(p)
      PROVE  LaunchedUnderCeiling' /\ DispatchesWhileShort'
  <2>1. state' = state /\ rec' = rec /\ pc'[Reconciler] = pc[Reconciler]
    BY <1>0, <1>d
       DEF RunCheck, RunFaults, RunCheckBlind, RunRefused, RunCreate, RunCreateUndelivered,
           RunFails, RunProceeds, Goto, Return, ControlOK
  <2> QED BY <1>b, <1>c, <2>1
<1>1. ASSUME NEW h \in Handlers, HandlerNext(h)
      PROVE  LaunchedUnderCeiling' /\ DispatchesWhileShort'
  <2>0. h \in Procs \ {Reconciler}
    BY DEF Procs
  <2>1. CASE ~(RunCheck(h) \/ RunFaults(h) \/ RunCreate(h))
    <3>1. rec' = rec /\ pc'[Reconciler] = pc[Reconciler]
      BY <1>0, <1>1, <2>0, <2>1
         DEF HandlerNext, HandlerStep, EventTransaction, ChainCount, ChainCountBlind, ChainReread, ChainLatch,
             ChainGate, ChainClaim, TimerFires, releaseSlot, HandlerFails, EventReceived,
             Goto, Return, ControlOK
    <3>2. CASE ChainClaim(h)
      BY <1>0, <1>b, <3>1, <3>2 DEF ChainClaim, SlotFree, LaunchedUnderCeiling, StateType
    <3>3. CASE releaseSlot(h)
      BY <1>0, <1>b, <3>1, <3>3 DEF releaseSlot, LaunchedUnderCeiling, StateType
    <3>4. CASE ~ChainClaim(h) /\ ~releaseSlot(h)
      <4>1. state'.launched = state.launched
        BY <1>0, <1>1, <2>1, <3>4
           DEF HandlerNext, HandlerStep, EventTransaction, ChainCount, ChainCountBlind, ChainReread, ChainLatch,
               ChainGate, TimerFires, HandlerFails, EventReceived, StateType
      <4> QED BY <1>b, <1>c, <3>1, <4>1
    <3> QED BY <3>2, <3>3, <3>4
  <2> QED BY <1>d, <2>0, <2>1
<1>2. ASSUME NEW u \in Users, UserNext(u)
      PROVE  LaunchedUnderCeiling' /\ DispatchesWhileShort'
  <2>0. u \in Procs \ {Reconciler}
    BY DEF Procs
  <2>1. CASE ~(RunCheck(u) \/ RunFaults(u) \/ RunCreate(u))
    <3>1. rec' = rec /\ pc'[Reconciler] = pc[Reconciler]
      BY <1>0, <1>2, <2>0, <2>1
         DEF UserNext, UserStep, UserStarts, StopReads, beginMultiRunBatch,
             ProcessExperimentRunStop, StopLatches, StopFails, Goto, Return, ControlOK
    <3>2. CASE beginMultiRunBatch(u)
      BY <1>b, <3>1, <3>2 DEF beginMultiRunBatch, LaunchedUnderCeiling
    <3>3. CASE ~beginMultiRunBatch(u)
      <4>1. state'.launched = state.launched
        BY <1>0, <1>2, <2>1, <3>3
           DEF UserNext, UserStep, UserStarts, StopReads, ProcessExperimentRunStop,
               StopLatches, StopFails, StateType
      <4> QED BY <1>b, <1>c, <3>1, <4>1
    <3> QED BY <3>2, <3>3
  <2> QED BY <1>d, <2>0, <2>1
<1>3. CASE ReconcilerNext
  <2>1. CASE ReconcileBumps
    <3>1. Cardinality(rec.seen) < MaxRuns /\ pc'[Reconciler] = "idle"
      BY <1>0, <2>1 DEF ReconcileBumps, DispatchesWhileShort, SweepOver, Return, ControlOK
    <3>2. state'.launched \in {state.launched, Cardinality(rec.seen)}
      BY <1>0, <2>1 DEF ReconcileBumps, StateType
    <3> QED BY <1>a, <3>1, <3>2 DEF LaunchedUnderCeiling, DispatchesWhileShort
  <2>2. CASE ~ReconcileBumps
    <3>1. state'.launched = state.launched
      BY <1>0, <1>3, <2>2
         DEF ReconcilerNext, ReconcilerStep, ReconcileBatches, ReconcileRuns,
             expireStalledQueuedRun, ExpireFails, ReconcileLeaves, ReconcileLatches,
             ReconcileRecords, ReconcileRereads, ReconcilerFails, RunCheck, RunFaults,
             RunCheckBlind, RunRefused, RunCreate, RunCreateUndelivered, StateType
    <3>2. CASE SweepOver \/ Return(Reconciler)
      <4>1. pc'[Reconciler] = "idle"
        BY <1>0, <3>2 DEF SweepOver, Return, ControlOK
      <4> QED BY <1>c, <3>1, <4>1 DEF DispatchesWhileShort
    <3>3. CASE ReconcileRecords
      <4>1. rec' = rec /\ Cardinality(rec.seen) < MaxRuns
        BY <3>3 DEF ReconcileRecords
      <4> QED BY <1>c, <3>1, <4>1 DEF DispatchesWhileShort
    <3>4. CASE ReconcileBatches \/ ReconcileRuns \/ expireStalledQueuedRun \/ ExpireFails
      <4>1. pc'[Reconciler] \in {"list", "expire", "idle"}
        BY <1>0, <3>4 DEF ReconcileBatches, ReconcileRuns, expireStalledQueuedRun, ExpireFails,
                          SweepOver, Return, Goto, ControlOK
      <4> QED BY <1>c, <3>1, <4>1 DEF DispatchesWhileShort
    <3>5. CASE ReconcileRereads /\ ~SweepOver
      <4>1. rec' = rec /\ pc[Reconciler] = "reread"
        BY <3>5 DEF ReconcileRereads
      <4> QED BY <1>c, <3>1, <4>1 DEF DispatchesWhileShort
    <3>6. CASE (RunCheck(Reconciler) \/ RunFaults(Reconciler) \/ RunCreate(Reconciler))
               /\ ~Return(Reconciler)
      <4>1. pc[Reconciler] \in {"check", "create"} /\ rec' = rec
        BY <3>6 DEF RunCheck, RunFaults, RunCheckBlind, RunRefused, RunCreate,
                    RunCreateUndelivered, RunFails, RunProceeds, Procs
      <4> QED BY <1>c, <3>1, <4>1 DEF DispatchesWhileShort
    <3> QED BY <1>3, <2>2, <3>2, <3>3, <3>4, <3>5, <3>6
            DEF ReconcilerNext, ReconcilerStep, ReconcileLeaves, ReconcileLatches, ReconcilerFails
  <2> QED BY <2>1, <2>2
<1>4. CASE EnvironmentNext
  <2>1. CASE ServerRestarts
    <3>1. state' = state /\ pc'[Reconciler] = "idle"
      BY <1>0, <2>1 DEF ServerRestarts
    <3> QED BY <1>c, <3>1 DEF DispatchesWhileShort
  <2>2. CASE ~ServerRestarts
    BY <1>b, <1>c, <1>4, <2>2
       DEF EnvironmentNext, ProcessExperimentDelete, EditExperiment,
           ProcessExperimentRunDelete, WorkflowFinishes, EventLost, StallTimeoutPasses,
                GracePasses
  <2> QED BY <2>1, <2>2
<1>5. CASE UNCHANGED vars
  BY <1>b, <1>c, <1>5 DEF vars
<1> QED BY <1>1, <1>2, <1>3, <1>4, <1>5 DEF Next

-----------------------------------------------------------------------------
(* The inductive invariant and what follows from it *)

LEMMA InitInvariant == Init => IInv
<1> SUFFICES ASSUME Init PROVE IInv
  OBVIOUS
<1>1. TypeOK
  BY InitType
<1>2. PhaseAgreesWithCompleted
  BY DEF Init, FreshRun, PhaseAgreesWithCompleted
<1>3. CountedRunsEnded /\ LaunchedUnderCeiling
  BY DEF Init, NoBatch, CountedRunsEnded, LaunchedUnderCeiling
<1>4. PendingCountsEnded /\ DispatchesWhileShort
  BY DEF Init, NothingSwept, PendingCountsEnded, DispatchesWhileShort, Procs
<1> QED BY <1>1, <1>2, <1>3, <1>4 DEF IInv

LEMMA NextInvariant == IInv /\ [Next]_vars => IInv'
<1> SUFFICES ASSUME IInv, [Next]_vars PROVE IInv'
  OBVIOUS
<1>1. TypeOK /\ TypeOK'
  BY NextType DEF IInv
<1>2. PhaseAgreesWithCompleted' /\ RunsMonotone
  BY RunsStep DEF IInv
<1>3. CountsGrow
  BY CountsStep DEF IInv
<1>4. LaunchedUnderCeiling' /\ DispatchesWhileShort'
  BY CeilingStep DEF IInv
<1>5. CountedRunsEnded'
  <2> SUFFICES ASSUME NEW key \in state'.counted PROVE run'[key[1]].completed
    BY DEF CountedRunsEnded
  <2>1. run[key[1]].completed
    BY <1>3 DEF CountsGrow, IInv, CountedRunsEnded
  <2>2. key[1] \in Runs
    BY <1>1 DEF TypeOK, DataOK, StateType, Keys
  <2> QED BY <1>2, <2>1, <2>2 DEF RunsMonotone
<1>6. PendingCountsEnded'
  <2>1. ASSUME NEW h \in Handlers, pc'[h] = "count" PROVE run'[loc'[h].run].completed
    <3>1. CASE pc[h] = "count" /\ loc'[h] = loc[h]
      <4>1. run[loc[h].run].completed
        BY <3>1 DEF IInv, PendingCountsEnded
      <4>2. loc[h].run \in Runs
        BY <1>1, <3>1 DEF TypeOK, ControlOK, Procs
      <4> QED BY <1>2, <3>1, <4>1, <4>2 DEF RunsMonotone
    <3> QED BY <1>3, <2>1, <3>1 DEF CountsGrow
  <2>2. ASSUME NEW key \in rec'.ended PROVE run'[key[1]].completed
    <3>1. CASE key \in rec.ended
      <4>1. key[1] \in Runs /\ run[key[1]].completed
        BY <1>1, <3>1 DEF TypeOK, DataOK, RecType, Keys, IInv, PendingCountsEnded
      <4> QED BY <1>2, <4>1 DEF RunsMonotone
    <3> QED BY <1>3, <2>2, <3>1 DEF CountsGrow
  <2> QED BY <2>1, <2>2 DEF PendingCountsEnded
<1> QED BY <1>1, <1>2, <1>4, <1>5, <1>6 DEF IInv

\* The strengthening is inductive: it holds in every reachable state.
THEOREM InvariantHolds == Spec => []IInv
  BY InitInvariant, NextInvariant, PTL DEF Spec

\* A run's phase and its completed flag agree on whether it has ended, whichever
\* of event, stop, expiry and delete wrote it last.
THEOREM PhasesAgree == Spec => []PhaseAgreesWithCompleted
<1>1. IInv => PhaseAgreesWithCompleted
  BY DEF IInv
<1> QED BY <1>1, InvariantHolds, PTL

\* Whoever counts a run toward the batch, the chain or the reconciler, the run
\* has ended, and has not been opened again since.
THEOREM CountsAreEnded == Spec => []CountedRunsEnded
<1>1. IInv => CountedRunsEnded
  BY DEF IInv
<1> QED BY <1>1, InvariantHolds, PTL

\* The slot counter stays at most maxRuns-1, whatever releases, resets and bumps
\* are interleaved with the claims.
THEOREM CeilingHolds == Spec => []LaunchedUnderCeiling
<1>1. IInv => LaunchedUnderCeiling
  BY DEF IInv
<1> QED BY <1>1, InvariantHolds, PTL

\* A run that was completed is never opened again by a late or repeated event, a
\* stop, an expiry or a delete.
THEOREM CompletedRunsStayCompleted == Spec => CompletedIsFinal
<1>1. IInv /\ [Next]_vars => [\A r \in Runs : run[r].completed => run'[r].completed]_vars
  BY RunsStep DEF IInv, RunsMonotone
<1> QED BY <1>1, InvariantHolds, PTL DEF Spec, CompletedIsFinal
=============================================================================
