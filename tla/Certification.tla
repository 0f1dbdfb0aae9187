---------------------------- MODULE Certification ----------------------------
(***************************************************************************)
(* The orchestrator that certifies an agent: every run of an experiment is *)
(* bucketed by the certifier, and once all of them are, an aggregation     *)
(* turns them into one certificate.  Each call of                          *)
(* StartCertificationGeneration (the server's own, on a terminal event, or *)
(* one of the UI) becomes the pipeline of its run; pipelines meet only in  *)
(* MongoDB, whose calls are one step each.                                 *)
(***************************************************************************)
EXTENDS Integers, Sequences, FiniteSets

CONSTANTS
    Runs,         \* the runs of the experiment
    Agents,       \* the agents its callers may name
    NoAgent,
    Pipelines,    \* goroutines in StartCertificationGeneration and runPipeline
    Planned,      \* expectedRuns of the callers
    MaxCalls,     \* bound: calls of StartCertificationGeneration
    Resubmits,    \* whether a run is submitted more than once
    FaultKinds,   \* what may fail: "task", "trigger", "slow", "store", "restart"
    MaxFaults     \* bound: failures

ASSUME CertAssumption ==
    /\ Planned \in Nat /\ MaxCalls \in Nat /\ MaxFaults \in Nat
    /\ Runs # {} /\ Agents # {} /\ NoAgent \notin Agents /\ Resubmits \in BOOLEAN
    /\ FaultKinds \subseteq {"task", "trigger", "slow", "store", "restart"}

VARIABLES
    parent,   \* the document in certificate_experiments
    wf,       \* certificate_run_workflows, by agent and run
    agg,      \* certificate_aggregation_workflows, by version
    active,   \* the keys of the orchestrations under way, in memory
    bucket,   \* the certifier's bucketing task of each run
    cert,     \* its aggregation task of the experiment
    pc, loc,  \* where each goroutine is, and its StartInput and what it read
    submitted,
    calls, faults

certifier == <<bucket, cert>>
bounds == <<submitted, calls, faults>>
vars == <<parent, wf, agg, active, certifier, pc, loc, bounds>>

ParentType == [exists : BOOLEAN, agent : Agents \cup {NoAgent}, expected : Nat,
               status : {"RUNS_IN_PROGRESS", "AGGREGATION_IN_PROGRESS",
                         "CERTIFICATE_READY", "AGGREGATION_FAILED"},
               active : Nat]
WfType == [status : {"none", "TRIGGERED", "RUNNING", "COMPLETED", "FAILED"}, task : BOOLEAN]
AggType == [status : {"TRIGGERED", "RUNNING", "COMPLETED", "FAILED"}, runs : SUBSET Runs]
TaskType == {"none", "running", "completed", "failed"}
LocType == [run : Runs, agent : Agents, expected : Nat, runs : SUBSET Runs, version : Nat]
Starting == {"check", "parent", "adopt", "reset", "retry", "run", "acquire"}
Bucketing == {"trigger", "send", "sent", "sendFailed", "poll"}
Aggregating == {"gate", "list", "mark", "latest", "create", "aggregate", "aggregated",
                "refused", "aggregateFailed", "aggregatePoll", "finalize", "aggregationFailed"}

TypeOK ==
    /\ parent \in ParentType
    /\ wf \in [Agents -> [Runs -> WfType]]
    /\ agg \in Seq(AggType)
    /\ active \subseteq Agents \X Runs
    /\ bucket \in [Runs -> TaskType] /\ cert \in TaskType
    /\ pc \in [Pipelines -> {"idle", "end"} \cup Starting \cup Bucketing \cup Aggregating]
    /\ loc \in [Pipelines -> LocType]
    /\ parent.active <= Len(agg)
    /\ submitted \subseteq Runs /\ calls \in 0 .. MaxCalls /\ faults \in 0 .. MaxFaults

Nothing == [run |-> CHOOSE r \in Runs : TRUE, agent |-> CHOOSE a \in Agents : TRUE,
            expected |-> 0, runs |-> {}, version |-> 0]

Init ==
    /\ parent = [exists |-> FALSE, agent |-> NoAgent, expected |-> 0,
                 status |-> "RUNS_IN_PROGRESS", active |-> 0]
    /\ wf = [a \in Agents |-> [r \in Runs |-> [status |-> "none", task |-> FALSE]]]
    /\ agg = <<>> /\ active = {}
    /\ bucket = [r \in Runs |-> "none"] /\ cert = "none"
    /\ pc = [p \in Pipelines |-> "idle"]
    /\ loc = [p \in Pipelines |-> Nothing]
    /\ submitted = {} /\ calls = 0 /\ faults = 0

-----------------------------------------------------------------------------
At(p, label) == pc[p] = label
R(p) == loc[p].run
Doc(p) == wf[loc[p].agent][R(p)]
Key(p) == <<loc[p].agent, R(p)>>

Goto(p, label) == pc' = [pc EXCEPT ![p] = label] /\ UNCHANGED loc
Hold(p, label, what) == pc' = [pc EXCEPT ![p] = label] /\ loc' = [loc EXCEPT ![p] = what]
Return(p) == Hold(p, "idle", Nothing)

SetDoc(p, status, task) ==
    wf' = [wf EXCEPT ![loc[p].agent][R(p)] = [status |-> status, task |-> task]]
SetStatus(status) == parent' = [parent EXCEPT !.status = status]
SetAgg(p, status) == agg' = [agg EXCEPT ![loc[p].version].status = status]

Fault(kind) == kind \in FaultKinds /\ faults < MaxFaults /\ faults' = faults + 1
                /\ UNCHANGED <<submitted, calls>>

\* An agent identity is replaced by the one on the parent document, if any.
Adopted(a) == IF parent.exists THEN parent.agent ELSE a

-----------------------------------------------------------------------------
(* StartCertificationGeneration *)

CertificationRequested(p, r, a) ==
    /\ At(p, "idle") /\ calls < MaxCalls
    /\ r \notin submitted \/ Resubmits
    /\ Hold(p, "check", [Nothing EXCEPT !.run = r, !.agent = Adopted(a), !.expected = Planned])
    /\ submitted' = submitted \cup {r} /\ calls' = calls + 1
    /\ UNCHANGED <<parent, wf, agg, active, certifier, faults>>

\* A run that is bucketed already is not submitted again.
ChecksRun(p) ==
    /\ At(p, "check")
    /\ IF Doc(p).status = "COMPLETED" THEN Return(p) ELSE Goto(p, "parent")
    /\ UNCHANGED <<parent, wf, agg, active, certifier, bounds>>

\* Mutant: the identity is left out of $setOnInsert.
Inserted_Nameless(p) == [parent EXCEPT !.exists = TRUE, !.expected = loc[p].expected]
Inserted(p) == [parent EXCEPT !.exists = TRUE, !.agent = loc[p].agent,
                              !.expected = loc[p].expected]

\* $setOnInsert of the identity, $max of expectedRuns.
UpsertExperiment(p) ==
    /\ At(p, "parent")
    /\ parent' = IF ~parent.exists THEN Inserted(p)
                 ELSE [parent EXCEPT !.expected = IF @ < loc[p].expected THEN loc[p].expected ELSE @]
    /\ Goto(p, "adopt")
    /\ UNCHANGED <<wf, agg, active, certifier, bounds>>

\* Mutant: the identity is not read again after the upsert.
Adoption_Once(p) == loc[p].agent
Adoption(p) == Adopted(loc[p].agent)

AdoptsAgain(p) ==
    /\ At(p, "adopt")
    /\ Hold(p, "reset", [loc[p] EXCEPT !.agent = Adoption(p)])
    /\ UNCHANGED <<parent, wf, agg, active, certifier, bounds>>

ResetStatusIfCertified(p) ==
    /\ At(p, "reset")
    /\ IF parent.status \in {"CERTIFICATE_READY", "AGGREGATION_FAILED"}
       THEN SetStatus("RUNS_IN_PROGRESS") ELSE UNCHANGED parent
    /\ Goto(p, "retry")
    /\ UNCHANGED <<wf, agg, active, certifier, bounds>>

ResetFailedRunWorkflow(p) ==
    /\ At(p, "retry")
    /\ IF Doc(p).status = "FAILED" THEN SetDoc(p, "TRIGGERED", FALSE) ELSE UNCHANGED wf
    /\ Goto(p, "run")
    /\ UNCHANGED <<parent, agg, active, certifier, bounds>>

UpsertRunWorkflowInitial(p) ==
    /\ At(p, "run")
    /\ IF Doc(p).status = "none" THEN SetDoc(p, "TRIGGERED", FALSE) ELSE UNCHANGED wf
    /\ Goto(p, "acquire")
    /\ UNCHANGED <<parent, agg, active, certifier, bounds>>

\* Mutant: a run whose orchestration is under way gets another.
CanAcquire_Always(p) == TRUE
CanAcquire(p) == Key(p) \notin active

TryAcquire(p) ==
    /\ At(p, "acquire")
    /\ IF CanAcquire(p) THEN active' = active \cup {Key(p)} /\ Goto(p, "trigger")
       ELSE Return(p) /\ UNCHANGED active
    /\ UNCHANGED <<parent, wf, agg, certifier, bounds>>

-----------------------------------------------------------------------------
(* runPipeline: bucketing *)

TriggerBucketing(p) ==
    /\ At(p, "trigger")
    /\ Goto(p, IF Doc(p).task THEN "poll" ELSE "send")
    /\ UNCHANGED <<parent, wf, agg, active, certifier, bounds>>

\* Accepted, or refused because the task is under way: either way it has a task.
SendsBucketing(p) ==
    /\ At(p, "send")
    /\ bucket' = [bucket EXCEPT ![R(p)] = "running"]
    /\ Goto(p, "sent")
    /\ UNCHANGED <<parent, wf, agg, active, cert, bounds>>

\* Refused, or accepted and the answer lost.
SendFails(p) ==
    /\ At(p, "send") /\ Fault("trigger")
    /\ \E b \in {bucket[R(p)], "running"} : bucket' = [bucket EXCEPT ![R(p)] = b]
    /\ Goto(p, "sendFailed")
    /\ UNCHANGED <<parent, wf, agg, active, cert>>

BucketingSent(p) ==
    /\ At(p, "sent")
    /\ SetDoc(p, "RUNNING", TRUE)
    /\ Goto(p, "poll")
    /\ UNCHANGED <<parent, agg, active, certifier, bounds>>

\* The pipeline returns: the gate is not evaluated.
BucketingNotSent(p) ==
    /\ At(p, "sendFailed")
    /\ SetDoc(p, "FAILED", Doc(p).task)
    /\ Goto(p, "end")
    /\ UNCHANGED <<parent, agg, active, certifier, bounds>>

\* pollBucketing, at the poll that finds the task over.
PollBucketing(p) ==
    /\ At(p, "poll") /\ bucket[R(p)] \in {"completed", "failed"}
    /\ SetDoc(p, IF bucket[R(p)] = "completed" THEN "COMPLETED" ELSE "FAILED", Doc(p).task)
    /\ Goto(p, "gate")
    /\ UNCHANGED <<parent, agg, active, certifier, bounds>>

\* After MaxPollAttempts the gate is evaluated all the same.
PollGivesUp(p) ==
    /\ At(p, "poll") /\ Fault("slow")
    /\ Goto(p, "gate")
    /\ UNCHANGED <<parent, wf, agg, active, certifier>>

-----------------------------------------------------------------------------
(* runPipeline: the gate and the aggregation *)

GateReadsParent(p) ==
    /\ At(p, "gate")
    /\ Hold(p, "list", [loc[p] EXCEPT !.expected = parent.expected])
    /\ UNCHANGED <<parent, wf, agg, active, certifier, bounds>>

With(a, status) == {r \in Runs : wf[a][r].status = status}

\* Mutant: runs whose bucketing failed count.
Successes_Failed(a) == With(a, "COMPLETED") \cup With(a, "FAILED")
Successes(a) == With(a, "COMPLETED")

\* Mutant: a run whose bucketing failed closes the gate.
GateOpens_NoneFailed(p) ==
    /\ With(loc[p].agent, "TRIGGERED") = {} /\ With(loc[p].agent, "RUNNING") = {}
    /\ With(loc[p].agent, "FAILED") = {}
    /\ Cardinality(Successes(loc[p].agent)) >= loc[p].expected
GateOpens(p) ==
    /\ With(loc[p].agent, "TRIGGERED") = {} /\ With(loc[p].agent, "RUNNING") = {}
    /\ Cardinality(Successes(loc[p].agent)) >= loc[p].expected

EvaluateGate(p) ==
    /\ At(p, "list")
    /\ IF GateOpens(p) THEN Hold(p, "mark", [loc[p] EXCEPT !.runs = Successes(loc[p].agent)])
       ELSE Goto(p, "end")
    /\ UNCHANGED <<parent, wf, agg, active, certifier, bounds>>

MarksInProgress(p) ==
    /\ At(p, "mark")
    /\ SetStatus("AGGREGATION_IN_PROGRESS")
    /\ Goto(p, "latest")
    /\ UNCHANGED <<wf, agg, active, certifier, bounds>>

Unfinished(v) == agg[v].status \in {"TRIGGERED", "RUNNING"}

\* Mutant: an aggregation under way does not stop the next.
Busy_Never == FALSE
Busy == agg # <<>> /\ Unfinished(Len(agg))

\* GetExperiment and GetLatestAggregationWorkflow; versions are dense and the
\* active one is never past the latest, so the next version follows the latest.
ReadsLatest(p) ==
    /\ At(p, "latest")
    /\ IF Busy THEN Goto(p, "end")
       ELSE Hold(p, "create", [loc[p] EXCEPT !.version = Len(agg) + 1])
    /\ UNCHANGED <<parent, wf, agg, active, certifier, bounds>>

\* The unique index refuses a version that exists.
CreateAggregationWorkflow(p) ==
    /\ At(p, "create")
    /\ IF loc[p].version <= Len(agg) THEN Goto(p, "end") /\ UNCHANGED agg
       ELSE /\ agg' = Append(agg, [status |-> "TRIGGERED", runs |-> loc[p].runs])
            /\ Goto(p, "aggregate")
    /\ UNCHANGED <<parent, wf, active, certifier, bounds>>

StartsAggregation(p) ==
    /\ At(p, "aggregate")
    /\ cert' = "running"
    /\ Goto(p, "aggregated")
    /\ UNCHANGED <<parent, wf, agg, active, bucket, bounds>>

AggregationRefused(p) ==
    /\ At(p, "aggregate") /\ Fault("trigger")
    /\ cert' \in {cert, "running"}
    /\ Goto(p, "refused")
    /\ UNCHANGED <<parent, wf, agg, active, bucket>>

RecordsRefusal(p) ==
    /\ At(p, "refused")
    /\ SetAgg(p, "FAILED")
    /\ Goto(p, "aggregateFailed")
    /\ UNCHANGED <<parent, wf, active, certifier, bounds>>

AggregationNotStarted(p) ==
    /\ At(p, "aggregateFailed")
    /\ SetStatus("AGGREGATION_FAILED")
    /\ Goto(p, "end")
    /\ UNCHANGED <<wf, agg, active, certifier, bounds>>

AggregationAccepted(p) ==
    /\ At(p, "aggregated")
    /\ SetAgg(p, "RUNNING")
    /\ Goto(p, "aggregatePoll")
    /\ UNCHANGED <<parent, wf, active, certifier, bounds>>

\* pollAggregation, at the poll that finds the task completed: the aggregation
\* first, then the parent.
AggregationCompleted(p) ==
    /\ At(p, "aggregatePoll") /\ cert = "completed"
    /\ SetAgg(p, "COMPLETED")
    /\ Goto(p, "finalize")
    /\ UNCHANGED <<parent, wf, active, certifier, bounds>>

FinalizeExperimentCertificate(p) ==
    /\ At(p, "finalize")
    /\ parent' = [parent EXCEPT !.status = "CERTIFICATE_READY", !.active = loc[p].version]
    /\ Goto(p, "end")
    /\ UNCHANGED <<wf, agg, active, certifier, bounds>>

\* ... and when it failed, the parent first.
AggregationFailed(p) ==
    /\ At(p, "aggregatePoll") /\ cert = "failed"
    /\ SetStatus("AGGREGATION_FAILED")
    /\ Goto(p, "aggregationFailed")
    /\ UNCHANGED <<wf, agg, active, certifier, bounds>>

RecordsFailure(p) ==
    /\ At(p, "aggregationFailed")
    /\ SetAgg(p, "FAILED")
    /\ Goto(p, "end")
    /\ UNCHANGED <<parent, wf, active, certifier, bounds>>

AggregationGivesUp(p) ==
    /\ At(p, "aggregatePoll") /\ Fault("slow")
    /\ Goto(p, "end")
    /\ UNCHANGED <<parent, wf, agg, active, certifier>>

\* A call to MongoDB fails: the front door returns the error, and the pipeline ends
\* unless it ignores it.
StoreFails(p) ==
    /\ Fault("store")
    /\ \/ pc[p] \in Starting \ {"acquire"} /\ Return(p)
       \/ /\ pc[p] \in {"trigger", "sent", "sendFailed", "gate", "list", "latest", "create",
                         "aggregated", "aggregateFailed", "finalize", "aggregationFailed"}
          /\ Goto(p, "end")
       \/ At(p, "poll") /\ bucket[R(p)] \in {"completed", "failed"} /\ Goto(p, "gate")
       \/ At(p, "mark") /\ Goto(p, "latest")
       \/ At(p, "refused") /\ Goto(p, "aggregateFailed")
       \/ At(p, "aggregatePoll") /\ cert = "completed" /\ Goto(p, "finalize")
       \/ At(p, "aggregatePoll") /\ cert = "failed" /\ Goto(p, "aggregationFailed")
    /\ UNCHANGED <<parent, wf, agg, active, certifier>>

Release(p) ==
    /\ At(p, "end")
    /\ active' = active \ {Key(p)}
    /\ Return(p)
    /\ UNCHANGED <<parent, wf, agg, certifier, bounds>>

-----------------------------------------------------------------------------
(* The certifier, and restarts *)

BucketingEnds(r) ==
    /\ bucket[r] = "running"
    /\ \/ bucket' = [bucket EXCEPT ![r] = "completed"] /\ UNCHANGED bounds
       \/ bucket' = [bucket EXCEPT ![r] = "failed"] /\ Fault("task")
    /\ UNCHANGED <<parent, wf, agg, active, cert, pc, loc>>

AggregationEnds ==
    /\ cert = "running"
    /\ \/ cert' = "completed" /\ UNCHANGED bounds
       \/ cert' = "failed" /\ Fault("task")
    /\ UNCHANGED <<parent, wf, agg, active, bucket, pc, loc>>

\* Pipelines live in memory only; nothing takes them up again.
ServerRestarts ==
    /\ Fault("restart")
    /\ pc' = [p \in Pipelines |-> "idle"]
    /\ loc' = [p \in Pipelines |-> Nothing]
    /\ active' = {}
    /\ UNCHANGED <<parent, wf, agg, certifier>>

-----------------------------------------------------------------------------
Starts(p) == ChecksRun(p) \/ UpsertExperiment(p) \/ AdoptsAgain(p) \/ ResetStatusIfCertified(p)
             \/ ResetFailedRunWorkflow(p) \/ UpsertRunWorkflowInitial(p) \/ TryAcquire(p)
Buckets(p) == TriggerBucketing(p) \/ SendsBucketing(p) \/ BucketingSent(p)
              \/ BucketingNotSent(p) \/ PollBucketing(p)
Gates(p) == GateReadsParent(p) \/ EvaluateGate(p) \/ MarksInProgress(p) \/ ReadsLatest(p)
            \/ CreateAggregationWorkflow(p)
Aggregates(p) == StartsAggregation(p) \/ RecordsRefusal(p) \/ AggregationNotStarted(p) \/ AggregationAccepted(p)
                 \/ AggregationCompleted(p) \/ FinalizeExperimentCertificate(p)
                 \/ AggregationFailed(p) \/ RecordsFailure(p)
Step(p) == Starts(p) \/ Buckets(p) \/ Gates(p) \/ Aggregates(p) \/ Release(p)
Trouble(p) == SendFails(p) \/ PollGivesUp(p) \/ AggregationRefused(p) \/ AggregationGivesUp(p)
              \/ StoreFails(p)

Next == \/ \E p \in Pipelines : Step(p) \/ Trouble(p)
        \/ \E p \in Pipelines, r \in Runs, a \in Agents : CertificationRequested(p, r, a)
        \/ \E r \in Runs : BucketingEnds(r)
        \/ AggregationEnds \/ ServerRestarts

Spec == Init /\ [][Next]_vars

\* Goroutines run, and the certifier finishes its tasks.  Callers owe nothing.
FairSpec == /\ Spec
            /\ \A p \in Pipelines : WF_vars(Step(p))
            /\ \A r \in Runs : WF_vars(BucketingEnds(r))
            /\ WF_vars(AggregationEnds)

-----------------------------------------------------------------------------
(* Properties *)

\* Only the latest aggregation can be under way: two pipelines that pass the gate
\* together never start two.
OneAggregation == \A v \in 1 .. Len(agg) : Unfinished(v) => v = Len(agg)

\* An aggregation is of at least the planned number of runs, each one bucketed, and
\* stays so: a run's success is never taken back.
AggregatesEnough ==
    \A v \in 1 .. Len(agg) :
        /\ Cardinality(agg[v].runs) >= Planned
        /\ agg[v].runs \subseteq With(parent.agent, "COMPLETED")

\* Bucketing that succeeded is final, although no write to a run's document is
\* guarded by its status: the in-memory key alone keeps two pipelines apart.
CompletedIsFinal ==
    [][\A a \in Agents, r \in Runs :
          wf[a][r].status = "COMPLETED" => wf'[a][r].status = "COMPLETED"]_vars

\* All runs of an experiment are kept under one agent, whatever agents the callers
\* name and however their first calls interleave.
OneAgent == \A a \in Agents, r \in Runs : wf[a][r].status # "none" => a = parent.agent

Quiet == \A p \in Pipelines : pc[p] = "idle"
AllBucketed == parent.exists /\ Cardinality(With(parent.agent, "COMPLETED")) >= parent.expected
Pending == IF parent.exists THEN With(parent.agent, "TRIGGERED") \cup With(parent.agent, "RUNNING")
           ELSE {}

\* Once the planned runs are bucketed, some pipeline sees that and an aggregation is
\* carried to its end: no two pipelines each leave the gate to the other.
GateIsSeen == (AllBucketed /\ Pending = {}) ~>
                  agg # <<>> /\ ~Busy /\ parent.status # "RUNS_IN_PROGRESS"

-----------------------------------------------------------------------------
(* What the repository says and interleavings refute: the README has the     *)
(* instance and the trace of each.                                           *)

\* At rest, an experiment with enough successes and nothing pending is not shown as
\* still waiting for runs.
FinalizedStands ==
    Quiet /\ AllBucketed /\ Pending = {} => parent.status # "RUNS_IN_PROGRESS"

\* At rest, a run that is being bucketed has a pipeline.
PendingHasPipeline == Quiet => Pending = {}

\* An aggregation is created only when no bucketing is pending.
NoPendingAtAggregation == [][Len(agg') > Len(agg) => Pending = {}]_vars

\* At rest, an experiment said to be in aggregation has one.
InProgressIsTrue ==
    Quiet /\ parent.status = "AGGREGATION_IN_PROGRESS" => Busy

\* The certificate shown is of the latest aggregation that completed.
LatestCertificate ==
    Quiet => \A v \in 1 .. Len(agg) : agg[v].status = "COMPLETED" => v <= parent.active
=============================================================================
