------------------------------ MODULE MultiRun ------------------------------
(***************************************************************************)
(* A sequential multi-run batch of one chaos experiment (package           *)
(* chaos_experiment_run/handler of the GraphQL server).                    *)
(*                                                                         *)
(* A user starts run 1; the terminal event of every run lets the chain     *)
(* (advanceMultiRunChain) claim a slot and, after an in-process timer,     *)
(* dispatch the next one; the reconciler sweeps batches that stalled.  All *)
(* of them meet only in two MongoDB documents: the experiment, with its    *)
(* multi_run_state, and the runs.  An action is one database call of one   *)
(* goroutine together with the local computation up to the next call, so   *)
(* whatever the code reads before a call and uses after it may be stale.   *)
(*                                                                         *)
(* Abstractions.  Clock values are kept only as orders: a batch's          *)
(* StartedAt is its ordinal, a run's created_at the ordinal of the batch   *)
(* current at that moment, its updated_at the age thresholds it passed.    *)
(* The denormalised copy of a run kept for the UI and the run's sequence   *)
(* number are the subject of module RunRecord.                             *)
(***************************************************************************)
EXTENDS Integers, FiniteSets

CONSTANTS
    Runs,             \* identities of runs (notify_id), fresh ones included
    NoRun,            \* no run
    Handlers,         \* goroutines handling subscriber events, with their timers
    Users,            \* request goroutines of users
    Reconciler,       \* the reconciler goroutine
    MaxRuns,          \* maxRuns of the manifest
    MaxBatches,       \* bound: batches users start
    MaxFaults,        \* bound: failed calls, lost deliveries and restarts
    FaultKinds,       \* which of them happen:
                      \*   "refuse":   RunChaosWorkFlow fails, or its query for running runs
                      \*   "delivery": a manifest does not reach the subscriber
                      \*   "event":    an event is lost, or its transaction fails
                      \*   "chain":    a call of the chain or of its timer fails
                      \*   "sweep":    a call of the reconciler fails
                      \*   "stop":     a stop fails
                      \*   "restart":  the server restarts
    UserOps,          \* the operations users issue
    Timely            \* what keeps to the reconciler's timeouts:
                      \*   "subscriber": a delivered workflow reports before it counts as stalled
                      \*   "dispatch":   a timer's RunChaosWorkFlow ends before the grace does
                      \*   "events":     the events of a run come before the grace ends

ASSUME RunsAssumption      == IsFiniteSet(Runs) /\ NoRun \notin Runs
ASSUME ProcsAssumption     == /\ Handlers \cap Users = {}
                              /\ Reconciler \notin Handlers \cup Users
ASSUME MaxRunsAssumption   == MaxRuns \in Nat /\ MaxRuns >= 2
ASSUME BoundsAssumption    == MaxBatches \in Nat /\ MaxFaults \in Nat
ASSUME SwitchesAssumption  == /\ UserOps \subseteq {"start", "stop", "delete", "edit"}
                              /\ Timely \subseteq {"subscriber", "dispatch", "events"}
                              /\ FaultKinds \subseteq {"refuse", "delivery", "event", "chain",
                                                        "sweep", "stop", "restart"}

Procs == Handlers \cup Users \cup {Reconciler}

VARIABLES
    exp,     \* the experiment document: is_removed, multiRunEnabled of its newest revision
    state,   \* its multi_run_state
    run,     \* the run documents
    wf,      \* the Argo workflow of each run, in the target cluster
    pc,      \* where each goroutine is
    loc,     \* what each goroutine remembers from its earlier reads
    rec,     \* what the reconciler remembers of its sweep
    faults   \* faults injected so far

vars == <<exp, state, run, wf, pc, loc, rec, faults>>

-----------------------------------------------------------------------------
(* Types *)

Phases == {"None", "Queued", "Running", "Completed", "Error", "Stopped"}

\* A run is counted under its Argo UID, or under its notify_id while it has none.
Keys == Runs \X {"notify", "uid"}

ExpType   == [removed : BOOLEAN, enabled : BOOLEAN]
StateType == [started : Nat, launched : Int, counted : SUBSET Keys, done : BOOLEAN]
RunType   == [phase : Phases, completed : BOOLEAN, removed : BOOLEAN,
              uid : BOOLEAN, batch : Nat, age : 0 .. 2,
              by : {"none", "user", "chain", "reconciler"}]
LocType   == [run : Runs \cup {NoRun}, terminal : BOOLEAN, started : Nat,
              en : BOOLEAN, targets : SUBSET Runs, latch : BOOLEAN]
RecType   == [started : Nat, seen : SUBSET Runs, ended : SUBSET Keys,
              todo : SUBSET Keys, busy : BOOLEAN, ripe : BOOLEAN]

HandlerPCs == {"idle", "txn", "count", "reread", "latch", "gate", "claim",
               "sleep", "check", "create", "release"}
UserPCs    == {"idle", "check", "begin", "create", "stopping"}
ReconPCs   == {"idle", "list", "expire", "reread", "check", "create", "bump"}

\* Never delivered, running, at its end, and at its end with its event sent.
WorkflowStates == {"none", "lost", "active", "finished", "reported"}

PCsOf(p) == IF p \in Handlers THEN HandlerPCs ELSE IF p \in Users THEN UserPCs ELSE ReconPCs

DataOK ==
    /\ exp \in ExpType
    /\ state \in StateType
    /\ run \in [Runs -> RunType]
    /\ wf \in [Runs -> WorkflowStates]
    /\ rec \in RecType
    /\ faults \in 0 .. MaxFaults

ControlOK ==
    /\ pc \in [Procs -> HandlerPCs \cup UserPCs \cup ReconPCs]
    /\ loc \in [Procs -> LocType]
    /\ \A p \in Procs : /\ pc[p] \in PCsOf(p)
                        /\ pc[p] \in {"txn", "count"} => loc[p].run \in Runs

TypeOK == DataOK /\ ControlOK

-----------------------------------------------------------------------------
(* Records and reads *)

NoBatch      == [started |-> 0, launched |-> 0, counted |-> {}, done |-> FALSE]
FreshRun     == [phase |-> "None", completed |-> FALSE, removed |-> FALSE,
                 uid |-> FALSE, batch |-> 0, age |-> 0, by |-> "none"]
NothingRead  == [run |-> NoRun, terminal |-> FALSE, started |-> 0, en |-> FALSE,
                 targets |-> {}, latch |-> FALSE]
NothingSwept == [started |-> 0, seen |-> {}, ended |-> {}, todo |-> {},
                 busy |-> FALSE, ripe |-> FALSE]

nonTerminalRunPhases == {"Running", "Queued"}

\* The runs the chain's gate counts, and those RunChaosWorkFlow looks for.
InFlight == {r \in Runs : run[r].phase \in nonTerminalRunPhases /\ ~run[r].removed}
RunningRuns == {r \in InFlight : ~run[r].completed}

\* Mutant: a run is always counted under its notify_id by the reconciler.
multiRunRunKey_NotifyOnly(r) == <<r, "notify">>

multiRunRunKey(r) == <<r, IF run[r].uid THEN "uid" ELSE "notify">>

runPredatesBatch(started, r) == started > 0 /\ run[r].batch < started

\* MultiRunState is a nil pointer until something is written below it.
StateIsNil == state = NoBatch

\* Mutant: the phase is written, the completed flag is not.
ClosedAs_LeftOpen(r, phase) == [run[r] EXCEPT !.phase = phase, !.age = 0]

\* What a stop and an expiry write, unconditionally.
ClosedAs(r, phase) == [phase |-> phase, completed |-> TRUE, removed |-> run[r].removed,
                       uid |-> run[r].uid, batch |-> run[r].batch, age |-> 0,
                       by |-> run[r].by]

Goto(p, label) == pc' = [pc EXCEPT ![p] = label]
Return(p) == /\ pc' = [pc EXCEPT ![p] = "idle"]
             /\ loc' = [loc EXCEPT ![p] = NothingRead]
Fault(kind) == /\ kind \in FaultKinds
               /\ faults < MaxFaults
               /\ faults' = faults + 1

Init ==
    /\ exp = [removed |-> FALSE, enabled |-> TRUE]
    /\ state = NoBatch
    /\ run = [r \in Runs |-> FreshRun]
    /\ wf = [r \in Runs |-> "none"]
    /\ pc = [p \in Procs |-> "idle"]
    /\ loc = [p \in Procs |-> NothingRead]
    /\ rec = NothingSwept
    /\ faults = 0

-----------------------------------------------------------------------------
(* RunChaosWorkFlow, called by a user's request, by a chain's timer and by *)
(* the reconciler.                                                         *)

\* A failed RunChaosWorkFlow: the timer gives its slot back, a user gets the
\* error, the reconciler waits for its next sweep.
RunFails(p) == /\ IF p \in Handlers
                  THEN Goto(p, "release") /\ UNCHANGED loc
                  ELSE Return(p)
               /\ rec' = IF p = Reconciler THEN NothingSwept ELSE rec

\* The user's request reads the experiment it is about to run.
UserStarts(u) ==
    /\ "start" \in UserOps
    /\ pc[u] = "idle"
    /\ ~exp.removed
    /\ state.started + Cardinality({v \in Users : pc[v] \in {"check", "begin"}}) < MaxBatches
    /\ Goto(u, "check")
    /\ loc' = [loc EXCEPT ![u].en = exp.enabled]
    /\ UNCHANGED <<exp, state, run, wf, rec, faults>>

\* Multi-run: refuse while a run is in flight; a user goes on to open a batch.
\* Mutant: the continuation mark of the context is lost.
RunProceeds_NoContinuation(p) ==
    /\ Goto(p, IF loc[p].en THEN "begin" ELSE "create")
    /\ UNCHANGED <<loc, rec>>

RunProceeds(p) == /\ IF loc[p].en /\ p \in Users
                     THEN Goto(p, "begin") /\ UNCHANGED loc
                     ELSE /\ Goto(p, "create")
                          /\ loc' = [loc EXCEPT ![p].started = state.started]
                  /\ UNCHANGED rec

RunCheck(p) ==
    /\ pc[p] = "check"
    /\ IF loc[p].en /\ RunningRuns # {} THEN RunFails(p) ELSE RunProceeds(p)
    /\ UNCHANGED <<exp, state, run, wf, faults>>

\* The query for running runs fails: the error is ignored and the run goes on.
RunCheckBlind(p) ==
    /\ pc[p] = "check"
    /\ Fault("refuse")
    /\ RunProceeds(p)
    /\ UNCHANGED <<exp, state, run, wf>>

beginMultiRunBatch(u) ==
    /\ pc[u] = "begin"
    /\ state' = [started |-> state.started + 1, launched |-> 0, counted |-> {}, done |-> FALSE]
    /\ Goto(u, "create")
    /\ loc' = [loc EXCEPT ![u].started = state.started + 1]
    /\ UNCHANGED <<exp, run, wf, rec, faults>>

\* Any of the fallible steps before the transaction: the infrastructure checks
\* (before the batch is reset) and the manifest preparation (after it).
RunRefused(p) ==
    /\ pc[p] \in {"check", "create"}
    /\ Fault("refuse")
    /\ RunFails(p)
    /\ UNCHANGED <<exp, state, run, wf>>

Dispatcher(p) == IF p \in Users THEN "user" ELSE IF p \in Handlers THEN "chain" ELSE "reconciler"

NewRun(p) == [phase |-> "Queued", completed |-> FALSE, removed |-> FALSE, uid |-> FALSE,
              batch |-> loc[p].started, age |-> 0, by |-> Dispatcher(p)]

\* The transaction commits and the manifest reaches the subscriber.
RunCreate(p) ==
    /\ pc[p] = "create"
    /\ \E r \in Runs :
          /\ run[r].phase = "None"
          /\ run' = [run EXCEPT ![r] = NewRun(p)]
          /\ wf' = [wf EXCEPT ![r] = "active"]
    /\ IF p = Reconciler THEN Goto(p, "bump") /\ UNCHANGED loc ELSE Return(p)
    /\ UNCHANGED <<exp, state, rec, faults>>

\* It commits, but the manifest is dropped on its way (subscriber gone, channel
\* full), or preparing it after the commit fails and the caller gets an error.
RunCreateUndelivered(p) ==
    /\ pc[p] = "create"
    /\ Fault("delivery")
    /\ \E r \in Runs :
          /\ run[r].phase = "None"
          /\ run' = [run EXCEPT ![r] = NewRun(p)]
          /\ wf' = [wf EXCEPT ![r] = "lost"]
    /\ \/ /\ IF p = Reconciler THEN Goto(p, "bump") /\ UNCHANGED loc ELSE Return(p)
          /\ UNCHANGED rec
       \/ RunFails(p)
    /\ UNCHANGED <<exp, state>>

RunFaults(p) == RunCheckBlind(p) \/ RunRefused(p) \/ RunCreateUndelivered(p)

-----------------------------------------------------------------------------
(* ChaosExperimentRunEvent and advanceMultiRunChain *)

\* The handler reads the experiment; an event of a removed one is discarded.  The
\* subscriber sends what its informer sees change, so any event may be repeated.
EventReceived(h, r, terminal) ==
    /\ pc[h] = "idle"
    /\ wf[r] \in IF terminal THEN {"finished", "reported"} ELSE {"active", "finished", "reported"}
    /\ "events" \in Timely => run[r].age < 2
    /\ ~exp.removed
    /\ Goto(h, "txn")
    /\ loc' = [loc EXCEPT ![h] = [NothingRead EXCEPT !.run = r, !.terminal = terminal,
                                     !.started = state.started, !.en = exp.enabled]]
    /\ wf' = IF terminal THEN [wf EXCEPT ![r] = "reported"] ELSE wf
    /\ UNCHANGED <<exp, state, run, rec, faults>>

\* The phase a non-terminal event reports: Argo's Pending is sent as Queued.
ReportedPhases(h) == IF loc[h].terminal THEN {"Completed"}
                     ELSE {"Running"} \cup ({run[loc[h].run].phase} \cap {"Queued"})

\* Mutant: UpdateExperimentRun without its completed=false filter.
Updatable_Always(r) == TRUE
Updatable(r) == ~run[r].completed

Reported(r, ph, terminal) == [phase |-> ph, completed |-> terminal, removed |-> FALSE,
                              uid |-> TRUE, batch |-> run[r].batch, age |-> 0,
                              by |-> run[r].by]

\* The transaction: UpdateExperimentRun only writes to a run not yet completed.
\* A terminal event of a completed run still commits and still reaches the chain.
EventTransaction(h) ==
    LET r == loc[h].run IN
    /\ pc[h] = "txn"
    /\ IF Updatable(r)
       THEN \E ph \in ReportedPhases(h) :
               run' = [run EXCEPT ![r] = Reported(r, ph, loc[h].terminal)]
       ELSE UNCHANGED run
    /\ IF loc[h].terminal /\ loc[h].en
       THEN Goto(h, "count") /\ UNCHANGED loc
       ELSE Return(h)
    /\ UNCHANGED <<exp, state, wf, rec, faults>>

\* Mutant: a re-delivered event is counted again.
Countable_Again(key) == ~state.done
Countable(key) == key \notin state.counted /\ ~state.done

\* Guard 1: the earlier-batch check, against the batch the event's handler read
\* at its start, then the conditional $addToSet.
ChainCount(h) ==
    LET key == <<loc[h].run, "uid">> IN
    /\ pc[h] = "count"
    /\ IF /\ ~(run[loc[h].run].uid /\ runPredatesBatch(loc[h].started, loc[h].run))
          /\ Countable(key)
       THEN /\ state' = [state EXCEPT !.counted = @ \cup {key}]
            /\ Goto(h, "reread")
            /\ UNCHANGED loc
       ELSE Return(h) /\ UNCHANGED state
    /\ UNCHANGED <<exp, run, wf, rec, faults>>

\* The query of that check fails: the run is taken for one of this batch.
ChainCountBlind(h) ==
    LET key == <<loc[h].run, "uid">> IN
    /\ pc[h] = "count"
    /\ Fault("chain")
    /\ Countable(key)
    /\ state' = [state EXCEPT !.counted = @ \cup {key}]
    /\ Goto(h, "reread")
    /\ UNCHANGED <<exp, run, wf, loc, rec>>

ChainReread(h) ==
    /\ pc[h] = "reread"
    /\ IF Cardinality(state.counted) >= MaxRuns THEN Goto(h, "latch") ELSE Goto(h, "gate")
    /\ UNCHANGED <<exp, state, run, wf, loc, rec, faults>>

\* Guard 3: the terminal latch, on whatever batch is current by now.
ChainLatch(h) ==
    /\ pc[h] = "latch"
    /\ state' = [state EXCEPT !.done = TRUE]
    /\ Return(h)
    /\ UNCHANGED <<exp, run, wf, rec, faults>>

\* Guard 2: the in-flight gate.
ChainGate(h) ==
    /\ pc[h] = "gate"
    /\ IF InFlight = {} THEN Goto(h, "claim") /\ UNCHANGED loc ELSE Return(h)
    /\ UNCHANGED <<exp, state, run, wf, rec, faults>>

\* Mutant: the claim is not capped.
SlotFree_NoCeiling == ~state.done
SlotFree == ~state.done /\ state.launched < MaxRuns - 1

ChainClaim(h) ==
    /\ pc[h] = "claim"
    /\ IF SlotFree
       THEN /\ state' = [state EXCEPT !.launched = @ + 1]
            /\ Goto(h, "sleep")
            /\ UNCHANGED loc
       ELSE Return(h) /\ UNCHANGED state
    /\ UNCHANGED <<exp, run, wf, rec, faults>>

\* The inter-run delay is over: re-read the experiment, then dispatch.
TimerFires(h) ==
    /\ pc[h] = "sleep"
    /\ IF state.done \/ ~exp.enabled
       THEN Goto(h, "release") /\ UNCHANGED loc
       ELSE /\ Goto(h, "check")
            /\ loc' = [loc EXCEPT ![h].en = exp.enabled]
    /\ UNCHANGED <<exp, state, run, wf, rec, faults>>

releaseSlot(h) ==
    /\ pc[h] = "release"
    /\ state' = [state EXCEPT !.launched = @ - 1]
    /\ Return(h)
    /\ UNCHANGED <<exp, run, wf, rec, faults>>

\* A database call of the event path fails: the handler gives up, the timer
\* hands its slot back, and a failed release is only logged.
HandlerFails(h) ==
    /\ pc[h] \in {"txn", "count", "reread", "latch", "gate", "claim", "sleep", "release"}
    /\ Fault(IF pc[h] = "txn" THEN "event" ELSE "chain")
    /\ IF pc[h] = "sleep" THEN Goto(h, "release") /\ UNCHANGED loc ELSE Return(h)
    /\ UNCHANGED <<exp, state, run, wf, rec>>

HandlerStep(h) ==
    \/ EventTransaction(h) \/ ChainCount(h) \/ ChainReread(h) \/ ChainLatch(h)
    \/ ChainGate(h) \/ ChainClaim(h) \/ TimerFires(h) \/ releaseSlot(h)
    \/ RunCheck(h) \/ RunCreate(h)

-----------------------------------------------------------------------------
(* The reconciler: reconcileMultiRunBatches and reconcileMultiRunBatch *)

ReconcileBatches ==
    /\ pc[Reconciler] = "idle"
    /\ ~exp.removed /\ exp.enabled /\ ~state.done /\ state.started > 0
    /\ Goto(Reconciler, "list")
    /\ rec' = [NothingSwept EXCEPT !.started = state.started]
    /\ UNCHANGED <<exp, state, run, wf, loc, faults>>

SweepOver == Return(Reconciler) /\ rec' = NothingSwept


\* Mutant: only Queued runs are taken for open ones.
Ended_Running(r) == run[r].completed \/ run[r].phase # "Queued"
Ended(r) == run[r].completed \/ run[r].phase \notin nonTerminalRunPhases

\* List the runs of the batch read above and sort them: ended, stalled, busy.
ReconcileRuns ==
    LET seen    == {r \in Runs : /\ run[r].phase # "None" /\ ~run[r].removed
                                 /\ run[r].batch >= rec.started}
        ended   == {r \in seen : Ended(r)}
        stalled == {r \in seen \ ended : run[r].phase = "Queued" /\ run[r].age >= 1}
    IN
    /\ pc[Reconciler] = "list"
    /\ IF seen = {}
       THEN SweepOver
       ELSE /\ rec' = [rec EXCEPT !.seen = seen,
                                  !.ended = {multiRunRunKey(r) : r \in ended},
                                  !.todo = {multiRunRunKey(r) : r \in stalled},
                                  !.busy = seen # ended \cup stalled,
                                  !.ripe = \A r \in seen : run[r].age = 2]
            /\ Goto(Reconciler, "expire")
            /\ UNCHANGED loc
    /\ UNCHANGED <<exp, state, run, wf, faults>>

\* Mutant: the expiry is never written.
expireStalledQueuedRun_Lost ==
    /\ pc[Reconciler] = "expire"
    /\ \E key \in rec.todo : rec' = [rec EXCEPT !.todo = @ \ {key}, !.busy = TRUE]
    /\ UNCHANGED <<exp, state, run, wf, pc, loc, faults>>

\* The write names the run only: whatever its state has become, it is now Error.
expireStalledQueuedRun ==
    /\ pc[Reconciler] = "expire"
    /\ \E key \in rec.todo :
          /\ run' = [run EXCEPT ![key[1]] = ClosedAs(key[1], "Error")]
          /\ rec' = [rec EXCEPT !.todo = @ \ {key}, !.ended = @ \cup {key}]
    /\ UNCHANGED <<exp, state, wf, pc, loc, faults>>

ExpireFails ==
    /\ pc[Reconciler] = "expire"
    /\ Fault("sweep")
    /\ \E key \in rec.todo : rec' = [rec EXCEPT !.todo = @ \ {key}, !.busy = TRUE]
    /\ UNCHANGED <<exp, state, run, wf, pc, loc>>

Expired == pc[Reconciler] = "expire" /\ rec.todo = {}

\* Something in flight, or too early: leave the batch to the chain.
ReconcileLeaves ==
    /\ Expired
    /\ rec.busy \/ (Cardinality(rec.seen) < MaxRuns /\ ~rec.ripe)
    /\ SweepOver
    /\ UNCHANGED <<exp, state, run, wf, faults>>

ReconcileLatches ==
    /\ Expired
    /\ ~rec.busy /\ Cardinality(rec.seen) >= MaxRuns
    /\ state' = [state EXCEPT !.counted = @ \cup rec.ended, !.done = TRUE]
    /\ SweepOver
    /\ UNCHANGED <<exp, run, wf, faults>>

ReconcileRecords ==
    /\ Expired
    /\ ~rec.busy /\ rec.ripe /\ Cardinality(rec.seen) < MaxRuns
    /\ state' = [state EXCEPT !.counted = @ \cup rec.ended]
    /\ Goto(Reconciler, "reread")
    /\ UNCHANGED <<exp, run, wf, loc, rec, faults>>

ReconcileRereads ==
    /\ pc[Reconciler] = "reread"
    /\ IF state.done
       THEN SweepOver
       ELSE /\ Goto(Reconciler, "check")
            /\ loc' = [loc EXCEPT ![Reconciler].en = exp.enabled]
            /\ UNCHANGED rec
    /\ UNCHANGED <<exp, state, run, wf, faults>>

\* $max of the slot counter with the number of runs listed.
ReconcileBumps ==
    /\ pc[Reconciler] = "bump"
    /\ state' = [state EXCEPT !.launched =
                    IF @ < Cardinality(rec.seen) THEN Cardinality(rec.seen) ELSE @]
    /\ SweepOver
    /\ UNCHANGED <<exp, run, wf, faults>>

ReconcilerFails ==
    /\ pc[Reconciler] \in {"list", "expire", "reread", "bump"}
    /\ Fault("sweep")
    /\ SweepOver
    /\ UNCHANGED <<exp, state, run, wf>>

ReconcilerStep ==
    \/ ReconcileBatches \/ ReconcileRuns \/ expireStalledQueuedRun
    \/ ReconcileLeaves \/ ReconcileLatches \/ ReconcileRecords \/ ReconcileRereads
    \/ ReconcileBumps \/ RunCheck(Reconciler) \/ RunCreate(Reconciler)

-----------------------------------------------------------------------------
(* Users: stop, delete, edit *)

\* StopExperimentRuns reads the experiment, and the runs to stop: the one named,
\* or all the Running ones (a stop of all with none Running is refused).
StopReads(u) ==
    LET running == {r \in Runs : run[r].phase = "Running" /\ ~run[r].removed /\ ~run[r].completed}
        named   == {{r} : r \in {q \in Runs : run[q].uid}}
    IN
    /\ "stop" \in UserOps
    /\ pc[u] = "idle"
    /\ ~exp.removed
    /\ \E targets \in named \cup ({running} \ {{}}) :
          loc' = [loc EXCEPT ![u] = [NothingRead EXCEPT !.targets = targets,
                                        !.latch = exp.enabled \/ ~StateIsNil]]
    /\ Goto(u, "stopping")
    /\ UNCHANGED <<exp, state, run, wf, rec, faults>>

\* ProcessExperimentRunStop: Stopped, whatever the run had become.
ProcessExperimentRunStop(u) ==
    /\ pc[u] = "stopping"
    /\ \E r \in loc[u].targets :
          /\ run' = IF run[r].removed THEN run
                    ELSE [run EXCEPT ![r] = ClosedAs(r, "Stopped")]
          /\ loc' = [loc EXCEPT ![u].targets = @ \ {r}]
    /\ UNCHANGED <<exp, state, wf, pc, rec, faults>>

StopLatches(u) ==
    /\ pc[u] = "stopping"
    /\ loc[u].targets = {}
    /\ state' = IF loc[u].latch THEN [state EXCEPT !.done = TRUE] ELSE state
    /\ Return(u)
    /\ UNCHANGED <<exp, run, wf, rec, faults>>

\* A failed stop returns; a failed latch is only logged.
StopFails(u) ==
    /\ pc[u] = "stopping"
    /\ Fault("stop")
    /\ Return(u)
    /\ UNCHANGED <<exp, state, run, wf, rec>>

Deleted(r) == [phase |-> run[r].phase, completed |-> run[r].completed, removed |-> TRUE,
               uid |-> run[r].uid, batch |-> run[r].batch, age |-> 0, by |-> run[r].by]

ProcessExperimentDelete ==
    /\ "delete" \in UserOps
    /\ ~exp.removed
    /\ exp' = [exp EXCEPT !.removed = TRUE]
    /\ run' = [r \in Runs |-> IF run[r].phase = "None" THEN run[r] ELSE Deleted(r)]
    /\ UNCHANGED <<state, wf, pc, loc, rec, faults>>

ProcessExperimentRunDelete(r) ==
    /\ "delete" \in UserOps
    /\ ~exp.removed
    /\ run[r].uid /\ ~run[r].removed
    /\ run' = [run EXCEPT ![r] = Deleted(r)]
    /\ UNCHANGED <<exp, state, wf, pc, loc, rec, faults>>

\* A new revision with multi-run switched on or off.
EditExperiment ==
    /\ "edit" \in UserOps
    /\ ~exp.removed
    /\ exp' = [exp EXCEPT !.enabled = ~@]
    /\ UNCHANGED <<state, run, wf, pc, loc, rec, faults>>

UserStep(u) == beginMultiRunBatch(u) \/ ProcessExperimentRunStop(u) \/ StopLatches(u)
               \/ RunCheck(u) \/ RunCreate(u)

-----------------------------------------------------------------------------
(* Cluster, clock and crashes *)

WorkflowFinishes(r) ==
    /\ wf[r] = "active"
    /\ wf' = [wf EXCEPT ![r] = "finished"]
    /\ UNCHANGED <<exp, state, run, pc, loc, rec, faults>>

\* SendWorkflowUpdates logs a failed send and forgets the event; its informer
\* does not resync.
EventLost(r) ==
    /\ wf[r] = "finished"
    /\ Fault("event")
    /\ wf' = [wf EXCEPT ![r] = "reported"]
    /\ UNCHANGED <<exp, state, run, pc, loc, rec>>

\* queuedRunStallTimeout passes since the run's updated_at.
StallTimeoutPasses(r) ==
    /\ run[r].phase = "Queued" /\ run[r].age = 0
    /\ "subscriber" \in Timely => wf[r] = "lost"
    /\ run' = [run EXCEPT ![r].age = 1]
    /\ UNCHANGED <<exp, state, wf, pc, loc, rec, faults>>

\* multiRunGrace passes since the run's updated_at.  It exceeds the inter-run
\* delay by two minutes, the event transaction has a deadline of 10s, the chain one
\* of 30s and a stop waits 15s at most for each send, so none of them lasts from
\* before that update until now.
GracePasses(r) ==
    /\ run[r].phase \notin {"None", "Running"} /\ run[r].age < 2
    /\ run[r].phase = "Queued" => run[r].age = 1
    /\ \A h \in Handlers :
          pc[h] \in {"idle"} \cup IF "dispatch" \in Timely THEN {} ELSE {"check", "create", "release"}
    /\ \A u \in Users : pc[u] # "stopping"
    /\ run' = [run EXCEPT ![r].age = 2]
    /\ UNCHANGED <<exp, state, wf, pc, loc, rec, faults>>

\* The server restarts: requests, timers and the sweep are gone.  Its subscriber
\* loses the websocket, panics, and lists all workflows again when it is back.
ServerRestarts ==
    /\ Fault("restart")
    /\ \E p \in Procs : pc[p] # "idle"
    /\ pc' = [p \in Procs |-> "idle"]
    /\ loc' = [p \in Procs |-> NothingRead]
    /\ rec' = NothingSwept
    /\ wf' = [r \in Runs |-> IF wf[r] = "reported" THEN "finished" ELSE wf[r]]
    /\ UNCHANGED <<exp, state, run>>

-----------------------------------------------------------------------------
HandlerNext(h) == \/ HandlerStep(h) \/ ChainCountBlind(h) \/ HandlerFails(h)
                  \/ RunFaults(h)
                  \/ \E r \in Runs, terminal \in BOOLEAN : EventReceived(h, r, terminal)

UserNext(u) == \/ UserStarts(u) \/ StopReads(u) \/ UserStep(u) \/ StopFails(u)
               \/ RunFaults(u)

ReconcilerNext == \/ ReconcilerStep \/ ExpireFails \/ ReconcilerFails
                  \/ RunFaults(Reconciler)

EnvironmentNext ==
    \/ ProcessExperimentDelete \/ EditExperiment \/ ServerRestarts
    \/ \E r \in Runs : \/ ProcessExperimentRunDelete(r) \/ WorkflowFinishes(r) \/ EventLost(r)
                       \/ StallTimeoutPasses(r) \/ GracePasses(r)

Next == \/ \E h \in Handlers : HandlerNext(h)
        \/ \E u \in Users : UserNext(u)
        \/ ReconcilerNext
        \/ EnvironmentNext

Spec == Init /\ [][Next]_vars

-----------------------------------------------------------------------------
(* Fairness: goroutines run, time passes, workflows end, and a terminal     *)
(* event is delivered once (module SubscriberEvents).  Nothing is said of   *)
(* faults, users or repeated events: an event that was lost stays lost      *)
(* until a restart.                                                         *)

TerminalDelivered(r) == wf[r] = "finished" /\ \E h \in Handlers : EventReceived(h, r, TRUE)

Fairness ==
    /\ \A h \in Handlers : WF_vars(HandlerStep(h))
    /\ \A u \in Users : WF_vars(UserStep(u))
    /\ WF_vars(ReconcilerStep)
    /\ \A r \in Runs : /\ WF_vars(WorkflowFinishes(r))
                       /\ WF_vars(StallTimeoutPasses(r))
                       /\ SF_vars(GracePasses(r))
                       /\ SF_vars(TerminalDelivered(r))

FairSpec == Spec /\ Fairness

-----------------------------------------------------------------------------
(* Properties *)

BatchRuns(b) == {r \in Runs : run[r].phase # "None" /\ run[r].batch = b}
OpenRuns == {r \in Runs : run[r].phase # "None" /\ ~run[r].completed}
ChainRuns(b) == {r \in BatchRuns(b) : run[r].by = "chain"}

\* A run's phase and its completed flag are written by five different updates
\* and read by different queries; they always agree on whether it has ended.
PhaseAgreesWithCompleted ==
    \A r \in Runs : run[r].completed <=> run[r].phase \in {"Completed", "Error", "Stopped"}

\* The batch accounting never runs ahead of the runs: whoever counts a run
\* (the chain on its event, the reconciler on its sweep), it has ended for good.
CountedRunsEnded == \A key \in state.counted : run[key[1]].completed

\* Nor is anyone about to count one that has not ended.
PendingCountsEnded ==
    /\ \A h \in Handlers : pc[h] = "count" => run[loc[h].run].completed
    /\ \A key \in rec.ended : run[key[1]].completed

\* $inc, $inc -1 and the reconciler's $max together never lift the slot counter
\* over the ceiling of maxRuns-1.
LaunchedUnderCeiling == state.launched <= MaxRuns - 1

\* The reconciler only dispatches, and bumps the counter, for a batch short of runs.
DispatchesWhileShort ==
    pc[Reconciler] \in {"reread", "check", "create", "bump"} => Cardinality(rec.seen) < MaxRuns

\* The inductive strengthening the proofs use.
IInv == /\ TypeOK
        /\ PhaseAgreesWithCompleted
        /\ CountedRunsEnded
        /\ PendingCountsEnded
        /\ LaunchedUnderCeiling
        /\ DispatchesWhileShort

\* However events, stops, deletes and expiries interleave, a run that was
\* completed never becomes open again.
CompletedIsFinal == [][\A r \in Runs : run[r].completed => run'[r].completed]_vars

\* The batch, chain and reconciler included, is a sequential batch: runs one at
\* a time, closed when all of them have ended.
Sequential == INSTANCE SequentialBatch WITH
    N       <- MaxRuns,
    started <- Cardinality(BatchRuns(1)),
    running <- OpenRuns # {},
    closed  <- state.done
ImplementsSequentialBatch == Sequential!Spec

\* The safety net: a batch that got its first run is carried through, whatever
\* delivery, timer or dispatch was lost on the way.
ImplementsLiveBatch == Sequential!FairSpec

\* A batch nobody stopped is latched done only when all its runs were started.
BatchNotShort == state.done => Cardinality(BatchRuns(state.started)) >= MaxRuns

-----------------------------------------------------------------------------
(* What the repository says and interleavings refute: the README has the     *)
(* instance and the trace of each.                                           *)

\* The chain starts at most maxRuns-1 runs of a batch.
ChainRunsBounded == \A b \in 1 .. MaxBatches : Cardinality(ChainRuns(b)) <= MaxRuns - 1

\* The batch is sequential: one run of it at a time.
OneRunInFlight == Cardinality(InFlight) <= 1

\* Only runs of the current batch are counted toward it.
CountedInBatch == \A key \in state.counted : run[key[1]].batch >= state.started

\* The reconciler and a chain's timer are never both about to create a run.
NoDispatchRace == ~(pc[Reconciler] = "create" /\ \E h \in Handlers : pc[h] = "create")

\* An expiry only fails a run the subscriber never picked up.
ExpiresOnlyQueued ==
    [][\A r \in Runs : (run'[r].phase = "Error" /\ run[r].phase # "Error")
                          => run[r].phase = "Queued"]_vars

\* A batch that was latched done gets no further run from chain or reconciler.
StoppedBatchStaysStopped ==
    [][\A r \in Runs : /\ run[r].phase = "None" /\ run'[r].by \in {"chain", "reconciler"}
                       /\ run'[r].batch = state.started
                       => ~state.done]_vars
=============================================================================
