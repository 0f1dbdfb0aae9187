# A formal model of AgentCert's ChaosCenter

AgentCert (a fork of LitmusChaos ChaosCenter, `src/chaoscenter/`) certifies AI agents by running
chaos experiments against them in Kubernetes clusters. Its GraphQL server is a set of goroutines
— HTTP requests of users, events of subscribers, in-process timers, tickers — that share nothing
but MongoDB documents and a few services (Argo behind a subscriber, LiteLLM, a certifier). Hardly
any document is protected by a lock: the code relies on conditional updates, on flags, and on
passes that clean up afterwards. That is what is modelled here, one database or network call per
step, and what is hardest to test.

All paths below are relative to `src/chaoscenter/graphql/server/pkg/` unless they start with `src/`.

## Inventory

| Part | State | Operations | Interacts through | What is hard |
|---|---|---|---|---|
| Multi-run batches (`chaos_experiment_run/handler`: `handler.go`, `multirun_batch.go`, `multirun_reconciler.go`) | `multi_run_state` of the experiment (start, slot counter, counted runs, latch); run documents; timers | start a run, terminal event → chain → timer → next run, sweep, stop, delete, edit | two MongoDB documents; subscriber (send, events) | repeated, late and lost events; a timer that dies with the process; sweep against chain; stale reads; a new batch over an old one |
| Run records (same handler, `chaos_experiment_run/service.go`, `database/mongodb/chaos_experiment_run`) | run document, its copy in `recent_experiment_run_details`, counters | start, event, stop, expiry, delete | transactions for some writers, two plain updates for others | half-done stops, out-of-order events, lost updates |
| Model registry (`model_config`) | `modelConfig` rows with a sync status; LiteLLM's own database | create, delete, key rotation, a pass every two minutes, alias check of runs | MongoDB and LiteLLM's HTTP API, no transaction over both | interruptions between two calls, late calls, LiteLLM losing its data, pass against users |
| Certification (`certification`) | parent document, one document per run, aggregation versions, in-memory set of active keys | submit a run, bucket, gate, aggregate, finalise | MongoDB, the certifier's task API, polling goroutines | several pipelines at one gate, retries, restarts |
| Experiment CRUD (`chaos_experiment/handler`, `chaos_experiment/ops`) | experiments and revisions | create, update, delete, stop, cron | the same documents | only as far as it touches a batch |
| Infrastructure connections (`chaos_infrastructure`, `data-store`, `graph/chaos_infrastructure.resolvers.go`) | map of channels, `is_active` | connect, disconnect, broadcast, request/answer | channels of one message, a mutex, MongoDB | old connection's cleanup after a reconnect, channel closed under a sender, sends under the mutex |
| Agent registry (`agent_registry`, `graph/agent_registry.resolvers.go`) | agent documents, a partial index | register, deploy, update, check, sync, delete | whole-document replaces, helm | lookups before inserts, a replace from a stale read, a deployment undone |
| Subscriber (`src/chaoscenter/subscriber`) | informer cache, stream of events, `eventMap` | watch workflows, read engines, send updates, stop, run manifests | websocket, HTTP, Kubernetes | engines read later than the version they belong to, lost sends, restarts |
| Tracing (`observability`) | maps of spans | open, update, close spans | Langfuse | check-then-act on maps |
| Projects and users (`src/chaoscenter/authentication`) | projects, members, users | invite, accept, leave, change role | MongoDB | last-owner check |
| GitOps, hubs (`gitops`, `chaoshub`, `agenthub`, `apphub`) | git clones | sync, commit | file system, git | per-repository lock |
| Fault studio, catalogue, probes, environments, image registries, apps registry | single documents | CRUD | — | — |
| API layer, generated code, web UI, event tracker, upgrade agents, dex, helm | — | — | — | — |

What makes each modelled part correct:

- a batch runs its runs one at a time, all of them, and closes only then; what is counted has
  ended; the slot counter keeps under its ceiling; a batch is carried on whatever was lost;
- the copy the UI shows is never ahead of the run, never reopens, and follows the run in the end;
- LiteLLM serves at most one model per alias, nothing the registry does not record; an alias keeps
  its model; interrupted operations settle;
- one aggregation at a time, of runs that all succeeded for good, and nobody leaves the gate to
  nobody;
- a run is shown as passed exactly when its faults passed, and the end of a workflow is not dropped
  on its way to the server;
- requests go to the connection that is up, which is shown as active; a lost one makes room for the
  next; a log request is answered once;
- a name belongs to one live agent, a dead agent stays dead, a failed deployment leaves none.

## Plan

Modules in order, the most important behaviour first:

1. `MultiRun` + `SequentialBatch` (abstract) — done.
2. `RunRecord` — done. 3. `ModelRegistry` — done. 4. `Certification` — done.
5. `InfraConnection` — done. 6. `AgentRegistry` — done.
7. `SubscriberEvents` — done; it justifies the fairness of first deliveries that `MultiRun` assumes
   (`EndIsUnderWay`) and gives the fault `EventLost` its meaning, so the two are not composed.
8. `ProjectMembership` (invitations, roles, the last-owner check); the registration handshake of an
   infrastructure; a composition of `RunRecord`'s event with `Certification`'s trigger (the trigger
   reads the run before the transaction commits).

Each of 1–7 has a module of proofs, `MultiRun` two (`MultiRunProofs` for any operations of users,
`SequentialBatchProofs` for the refinement): every invariant and action property the runs check,
and the refinement of `SequentialBatch`, is a theorem. What is left to prove are new properties:
invariants of `ProjectMembership` once it is modelled, and which of the promises under Disagreements
hold under a hypothesis that excludes the trace given there.

## Modules

### MultiRun (`MCMultiRun`, `SequentialBatch`, `MultiRunProofs`, `SequentialBatchProofs`)

Variables: `exp` and `state` are the experiment document and its `multi_run_state`
(`database/mongodb/chaos_experiment/schema.go`), `run` the run documents, `wf` the Argo workflows
(external), `pc`/`loc` where each goroutine is and what it still remembers, `rec` what the
reconciler holds of its sweep. Goroutines are `Users` (requests), `Handlers` (an event's handler,
which becomes the chain and then the timer) and the `Reconciler`.

- Starting a run, by whomever: `UserStarts` / `TimerFires` / `ReconcileRereads`, then `RunCheck`
  (the query for running runs), `beginMultiRunBatch` (users only), `RunCreate` (the transaction and
  the send). `RunCheckBlind`, `RunRefused`, `RunCreateUndelivered` are its failures.
- An event: `EventReceived` (reads the experiment), `EventTransaction`, and for a terminal event
  `ChainCount`, `ChainReread`, `ChainLatch` or `ChainGate` + `ChainClaim`, the timer `TimerFires`,
  and `releaseSlot` when the dispatch fails. The order is that of `advanceMultiRunChain`.
- A sweep: `ReconcileBatches`, `ReconcileRuns`, `expireStalledQueuedRun` for every stalled run,
  then one of `ReconcileLeaves`, `ReconcileLatches`, `ReconcileRecords`, and the dispatch.
- `StopReads`, `ProcessExperimentRunStop`, `StopLatches`; the deletes; `EditExperiment`.
- `ServerRestarts` forgets every goroutine; `StallTimeoutPasses` and `GracePasses` are the clock.

Abstractions: `StartedAt` is the ordinal of the batch, `created_at` of a run the ordinal of the
batch it was created in, `updated_at` the number of thresholds (stall timeout, grace) it has passed.
`EventLost` is a terminal event whose send failed, which the subscriber does not repeat; the other
faults (`FaultKinds`) are refused runs, lost manifests, and failed calls of the chain, the sweep and
a stop, and a restart. A run's identity is its `notify_id`; whether it has its Argo UID yet decides
the key it is counted under. `Timely` lists which parties keep to the reconciler's timeouts; what
happens when one does not is under Disagreements.

### RunRecord (`MCRunRecord`, `RunRecordProofs`)

The run document `run`, its copy `copy`, the list `recent` of runs that have one, and the counter
`total`. Starting a run and handling an event are transactions (one step after the read they depend
on); a stop and an expiry write the document, then the copy (`CloseDoc`, `CloseCopy`), and the
second write may fail. `CronFires` creates runs the server first hears of in an event
(`EventOfNewRun`). Phase `Ended` stands for every phase a terminal event can carry. `MultiRun` has
the same run document without the copy; the two share no state otherwise, so they are not composed.

### ModelRegistry (`MCModelRegistry`, `ModelRegistryProofs`)

`row` is MongoDB, `served` LiteLLM's database, `listed` what its polling worker has picked up,
`late` the calls a client gave up on, `todo`/`touched`/`known` what the pass has read. `touched`
stands for the comparison of `updated_at`: a row the pass read has, or has not, changed since.
Actions follow `service.go` call by call: `Create*`, `Delete*`, `Rotate*`, `Erase`/`Finish` (shared
by delete and pass), `Pass*`; a run is `RunChecked` (alias validation), `RunCreated`, `RunEnds`.
LiteLLM (`Poll`, `LateArrives`, `DatabaseReset`, `Disconnect`) is modelled from how the client
uses it.

### Certification (`MCCertification`, `CertificationProofs`)

`parent`, `wf` (by agent and run) and `agg` (by version) are the three collections, `active` the
in-memory set of `tryAcquire`. A pipeline's `pc` walks through `StartCertificationGeneration`,
`triggerBucketing`, `pollBucketing`, `evaluateGate`, `startAggregation` and `pollAggregation`, one
MongoDB or certifier call per action. Polls that find a task still running change nothing and are
not steps; a poll that gives up after its attempts is. The certifier is external: a task runs until
it completes or fails.

### SubscriberEvents (`MCSubscriberEvents`, `SubscriberEventsProofs`)

`wf` and `engine` are the workflow and ChaosEngine objects in the cluster (external: Argo, the chaos
operator, the experiment's verdict), `inbox` the versions the informer has yet to hand over,
`stream` the channel of ten events, `eventMap` the last event of each unfinished workflow, `server`
the phase the server stores. `startWatchWorkflow` handles the oldest version with the engines *as
they are now* and puts the event on the stream; `Sent` takes it off, merges it with the last one
(`mergeNode`), derives the status (`getExperimentStatus`) and lets the server correct it
(`reconcileRunPhase`); `SendFails` is the same without the server. `Restart` empties stream and
map and lists every workflow again. A user's stop is `StopChaosEngineState`, then `StopWorkflow`
(two patches, either of which may not take place). The pure functions keep the source's names, so
that each can be read beside its Go function.

### InfraConnection (`MCInfraConnection`, `InfraConnectionProofs`)

`connected` is the map of the store, `active` the flag in MongoDB, `conn` the calls of
`InfraConnect`: where the resolver is, where the goroutine that waits for the end of its context is
(`cleanup`), whether its channel of one message is closed or full. `mutex` is recorded when it is
held across steps, which only `SendInfraEvent` does. `Broadcasts` takes it, `SendInfraEvent` puts
the event into one observer's channel after the other, `InfraEventSent` releases it. A dispatch is
`Calls`, `LooksUp` (under the mutex), `Sends` or `GivesUp`; a log request `GetPodLog`, `GetLogs`
(without the mutex), `Sends`, `Delivers`, `PodLog`, `CloseLogListener`. What gqlgen and the Go
runtime do (contexts, websockets, a panic on a closed channel) is external. Requests for objects
and namespaces are handled as log requests are.

### AgentRegistry (`MCAgentRegistry`, `AgentRegistryProofs`)

`agents` is the collection of one project, `issued` the identities given out, `calls` the handlers
in progress with the copy each has read. Every operation but registration is `GetAgent` followed by
`Replaces` (the whole document, by what `Written` makes of the copy) or `Removes`; registration is
`GetAgentByNamespace`, `ValidateRegistration`, `CreateAgent`; a deployment goes on with
`DeployWithHelm` and sets ACTIVE, or with `DeployFails` and removes the agent. The health check a
registration starts in the background is a `check` that may begin at any time. `Indexed` is the
partial unique index. Versions, capabilities, endpoints and audit fields are left out.

## Runs

| Run | Checks | Instance | Shows |
|---|---|---|---|
| `batch` | `TypeOK`, `BatchNotShort`, `ImplementsSequentialBatch` | 3 runs in a batch, 4 identities, 2 handlers, 2 faults | chain, timer and reconciler together implement the abstract batch: one run at a time, latched exactly when all have ended |
| `batch_ops` | `IInv`, `PhaseAgreesWithCompleted`, `CountedRunsEnded`, `LaunchedUnderCeiling`, `CompletedIsFinal` | 2 runs, all user operations, a failing stop | the accounting survives stops, deletes and edits between any two calls |
| `batch_live` | `ImplementsLiveBatch` | 2 runs in a batch, 3 identities, 2 faults, fairness | a batch that got its first run is carried through to its close |
| `record` | `TypeOK`, `CopyNeverAhead`, `CopyStaysClosed`, `CopyFollowsRun` | a server's and a cluster's run, a list of one, a delete, a fault, fairness | the UI's copy is never ahead, never reopens, and follows |
| `registry` | `TypeOK`, `OneServedPerAlias`, `NothingUnrecorded`, `AliasNamesOneModel` | 2 models, 1 alias, 2 callers, pass, 1 run, 1 fault | aliases stay unambiguous whatever call fails; without failures nothing is left over |
| `registry_live` | `IntentSettles`, `LossIsNoticed` | 1 model, 1 caller, pass, 2 faults of any kind, fairness | what was interrupted is settled and what was lost is noticed |
| `cert` | `TypeOK`, `OneAgent`, `OneAggregation`, `AggregatesEnough`, `CompletedIsFinal` | 2 runs, 2 agents, 2 pipelines, 4 calls, 2 faults | concurrent pipelines agree on one agent and one aggregation |
| `cert_live` | `GateIsSeen` | 3 runs, 2 pipelines, a failing task, fairness | the last pipeline to finish sees the gate |
| `events` | `TypeOK`, `CleanMeansPassed`, `PassIsReported`, `EndIsUnderWay` | 1 workflow, 2 faults, a stream of one, a stop, a restart or a failed send | verdicts survive late reads, and the end of a workflow is not dropped |
| `connection` | `TypeOK`, `UpIsInStore`, `UpIsActive`, `AnsweredOnce`, `LostLeavesStore` | 1 infrastructure, 2 connections, a dispatch, a log request, a UI that may leave, 1 fault, fairness | store, flag and log channels follow the connection that is up |
| `agents` | `TypeOK`, `OneAgentPerName`, `FailedDeployLeavesNone`, `DeadOnlyByStaleWriter` | 2 agents, 2 names, 2 namespaces, 2 calls, 1 fault | names stay unique, the dead stay dead but for stale writers |
| `dispatch_waits` | `DispatchEnds` (violated) | 1 connection, 1 dispatch, a UI that leaves, no fault, fairness | a dispatch waits for the mutex for ever |

### Bounds

`MaxBatches`, `MaxCalls` and `MaxFaults` bound what users and failures may do, the sets bound the
actors. Every protocol here is between one document and at most three goroutines: the sweep, a
timer and an event handler (two handlers are needed for a repeated event that meets its first
delivery); a pass, a create and a delete; two pipelines at one gate. One batch of three runs is the
smallest in which the slot counter has a value strictly between its bounds; two models suffice for
a clash of aliases, and a third party can only repeat what the second does. One fault loses a
delivery, a timer or a call; the second one hits the recovery from the first. Except in `agents`, deadlock is not
checked: when all users are done and every bound is used up the systems rest.

`batch_ops` keeps to one batch, and by the constraint `DeletedAlone` to deletes that are not preceded
by a failed stop or an edit (1.3 million states); what a second batch and those combinations add to
its properties is covered by `MultiRunProofs`, whose theorems hold for any number and have no such
constraint.
`FaultKinds` spreads the failures over the runs: all but a failing stop in `batch`, that one in
`batch_ops`, all but a lost event in `batch_live` (a lost event leaves a Running run open for ever,
see Disagreements).
`NothingUnrecorded` is claimed only while no call has failed: the code logs a failed undo of an
overtaken create and promises nothing more. With `Timely = TRUE` the registry's rows do not reach
`pendingTimeout` or `lostGrace` while a call for them is on its way or a pass is reading: these are
minutes, against HTTP timeouts of seconds.

In `events`, `MaxParallel = 1` has the fault steps of a workflow run one after the other (parallel
ones meet only in the event, where each node is treated by itself), `StreamSize = 1` stands for ten
so that the stream is full at times, and `MaxUnread = 2` bounds how far the informer lags: a second
version is what it takes for an engine to be read too late. Without `"revert"` or `"operator"` in
`Timely` the properties fail (see Disagreements); with them a workflow deletes its engines only
after the versions before were handed over, and a step does not fail before the operator has seen
its engine: seconds, in which the subscriber has to make one lookup. In `connection`, two
connections are a reconnect, one sender at a time (`MaxSending`) is what a channel of one message
can hold back, and `Timely` has the one update after a disconnection done before the subscriber is
connected again. In `agents`, a third agent or call can only repeat what the second does; the proofs
hold for any number.

### Fairness

- `MultiRun!FairSpec`: goroutines run; time passes; a workflow ends; its terminal event is delivered
  once in the end, unless it is lost (strong fairness: the handlers may be busy again and again):
  the subscriber's informer and sender wait for nothing but each other and drop nothing, which is
  what `SubscriberEvents!EndIsUnderWay` says and `SubscriberEventsProofs` proves. Nothing is assumed of users, of repeated
  deliveries or of faults, which are bounded. The run has one handler: with more, events repeated
  for ever could keep some handler busy at every instant, and `GracePasses` waits for quiet ones.
- `RunRecord!FairSpec`: the same for handlers, closers, workflows and terminal events.
- `ModelRegistry!FairSpec`: callers' and the pass's next steps, the polling of LiteLLM, its
  reconnection, the arrival of late calls, and ageing. `RunReconciler` is a ticker, so the pass
  returns for ever. No fairness for users and runs.
- `InfraConnection!LiveSpec`: the goroutines of a connection run, under strong fairness where they
  wait for the mutex, since Go's mutex starves nobody; a UI that has not left reads its events.
  `DispatchSpec` adds the same for dispatches. Nothing is assumed of subscribers, requests and
  faults.
- `Certification!FairSpec`: pipelines run and the certifier ends its tasks; `GateIsSeen` excludes
  restarts and lost calls, which the code does not recover from (see Disagreements).

## Proofs

TLC checks the properties on the instances above; the theorems state them for every value of the
constants. Every module of proofs has the same shape: the inductive invariant `IInv` as the
conjunction of named parts, a lemma per operation that says it keeps the parts it can disturb, one
lemma or theorem that puts the operations together, and the theorems that follow. Each invariant was
checked with TLC on the module's run before it was proved. The hypotheses of a theorem stand in its
`ASSUME`, and there is a reason for each: without it the property fails (see Disagreements) or, for
`Faults # {}` and `NothingIsLeft`, claims what the code does not.

`MultiRunProofs` proves, for every number of runs, users and handlers and every bound, of
`Spec` of `MultiRun`:

- `TypeCorrect`: `[]TypeOK`;
- `InvariantHolds`: `[]IInv`, and from it `PhasesAgree`, `CountsAreEnded`, `CeilingHolds`;
- `CompletedRunsStayCompleted`: `CompletedIsFinal`.

Assumptions: those `MultiRun` names (`Runs` is finite, the process sets are disjoint, `MaxRuns` is
at least 2), nothing else; in particular no use is made of `Timely`.

The argument. `CountedRunsEnded` is not inductive: a goroutine counts a run it decided on earlier,
so the run must have ended already when it is *about* to count — `PendingCountsEnded`: a handler
at its count step has committed a transaction after which its run is completed, and the sweep's
list `rec.ended` holds only completed runs. That needs `CompletedIsFinal` step by step, and this
needs `PhaseAgreesWithCompleted` because the sweep chooses by phase while the event's update
filters on the flag. `LaunchedUnderCeiling` needs `DispatchesWhileShort`: the reconciler's `$max`
writes the number of runs it listed, which stays below `MaxRuns` because only a batch short of runs
gets to the dispatch. `IInv` is the conjunction. The lemmas are one per concern (`RunsStep`,
`CountsStep`, `CeilingStep`, and the type lemmas per group of goroutines), each with one step per
action; `NextInvariant` puts them together. `batch_ops` checks `IInv` with TLC.

`AgentRegistryProofs` proves, for every set of identities, names, namespaces and calls and every
number of faults, of `Spec` of `AgentRegistry`:

- `Typing`: `[]TypeOK`; `NamesApart`: `[]OneAgentPerName`;
- `UndoneStaysUndone`: `[]FailedDeployLeavesNone`; `DeletionIsFinal`: `DeadOnlyByStaleWriter`.

Assumptions: there is something to ask for (`SomethingToAskFor`), `NoDoc` is not a document
(`NoDocIsNotADoc`), and `FaultsAssumption`. The argument. The lookups of a registration prove
nothing, since they are over when the insert comes, and a rename makes none. What keeps names apart
is the index, and it covers the documents with status REGISTERED only; so the invariant needs
`StatusKept`: every document is REGISTERED or DELETED, and by `CallsInv` so is every copy a handler
is about to write. That holds because a check asks `CanBecome` for ACTIVE or INACTIVE, which
REGISTERED does not allow; nothing sets VALIDATING. `CallsInv` further says of each handler that its
agent has an identity that was issued; with "no write inserts" it gives that a hard-deleted agent
stays gone. `IInv` is the conjunction, proved action by action.

`SequentialBatchProofs` proves, of one batch that users only start, whose subscriber, timers and
events keep to the reconciler's timeouts (`OneBatch`, the assumptions of run `batch`), for any number
of runs, goroutines and faults of every kind:

- `OneToken`: `[]BInv`; `BatchIsNotShort`: `[]BatchNotShort`;
- `ImplementsSequential`: `Spec => ImplementsSequentialBatch`, step by step: a step starts a run when
  none is open and one is missing, ends the open run, closes the complete batch, or does none of it.

The argument. No document says who creates the next run; the invariant has to find out. There is one
token: the goroutine between counting the newest run and creating the next (`Chaining`, or the
reconciler from "reread" on, or the first user), and while it exists every run created so far has
been counted (`AllCounted`). Two handlers of one event cannot both have it, since a run is counted
under one key only (`KeyOf`: a run has its UID unless its manifest was lost) and the conditional
`$addToSet` lets one through. The reconciler cannot have it beside a handler: it dispatches only when
every run is older than the grace or was never delivered (`Aged`), and then no handler is at work and
no event can start one (`Aged => HandlersIdle`), from its query until its dispatch (`SweepInv`).
`MultiRunProofs!IInv` is used for what is counted having ended.

`RunRecordProofs` proves `Typing`, `CopyIsNeverAhead` (`[]CopyNeverAhead`) and `OverStaysOver`
(`CopyStaysClosed`) for any runs, goroutines, faults and length of the list, from `RecordAssumption`
alone. `CopyNeverAhead` is not inductive: a stop or an expiry closes the document and the copy in two
updates, and what it knows in between, that the document was closed, has to survive events, starts
and deletes (`Known`). It does, because the event's update filters on `completed` and a run that
exists is never created again (`Untouched`). Only runs that may be deleted are exempt, since a stop
skips the document of a deleted run.

`ModelRegistryProofs` proves, from `RegistryAssumption`:

- `Inductive`: `[]IInv`; `Typing`; `AliasStaysWithItsModel`: `[]AliasNamesOneModel`, with no hypothesis;
- `OneServed`: `[]OneServedPerAlias`, if `Timely` and no fault of kind `"offline"`;
- `NothingIsLeft`: `[]NothingUnrecorded`, if `Timely` and keys are not rotated.

The argument. An alias is freed by removing a row that is PENDING, so a model a run could name must
never be PENDING again. A delete may give a row back the status it had; it is right to do so because
one delete at a time has taken the row out of a status other than DELETING (`Holder`, `Apart`), and
the status it remembers is PENDING only if no run could name the model yet. To have that inductive,
the history variable `named` has to be set by the pass as well as by the create: the model had
overlooked that a pass can settle a row as ACTIVE before its create does. `Reached` says when a row
that is removed as "never reached LiteLLM" cannot be served: its one create is over and not late
(`Timely`), and LiteLLM's list was not empty for want of its database. `Clean` follows what a delete
and a create that overtake each other owe one another.

`CertificationProofs` proves, for any runs, agents, pipelines, calls and faults of every kind, from
`CertAssumption` alone: `Typing`, `OneAgentHolds`, `OneAggregationHolds`, `AggregatesEnoughHolds` and
`SuccessIsFinal` (`CompletedIsFinal`). No write of a run's document is guarded by its status. What
protects it is that all pipelines work on the agent of the parent from the moment they adopted it
(`Identity`), that the in-memory key keeps the pipelines of one run apart (`Bucket`), that a task is
only started for a document without one, and that the reset before the key touches only what has
failed. A restart empties the set of keys together with the pipelines that held them. Whoever creates
an aggregation has seen the last one ended, and the unique index lets the first creator of a version
through, so that a second has to see the first's.

`InfraConnectionProofs` proves, from `ConnectionAssumption`: `Typing`, `StoreKnowsWhatIsUp`
(`[]UpIsInStore`), `OneAnswer` (`[]AnsweredOnce`), and under `Timely` `UpIsShownActive`
(`[]UpIsActive`). A cleanup deletes by infrastructure, not by connection; the invariant says that its
own connection still holds the place, because a second call is refused while the place is taken and
only the cleanup frees it. A log request is one token, with the goroutine that sends it, in one
connection's channel, or with the subscriber (`LogInv`); the answer takes it away. For the flag,
nothing else may be up while an update after a disconnection is owed (`NoneBeforeUpdate`), which is
where `Timely` comes in.

`SubscriberEventsProofs` proves, from `EventsAssumption` (workflows and faults are finitely many: a
restart lists them, the status counts them):

- `Inductive`: `[]IInv`; `Typing`; `EndIsNotDropped`: `[]EndIsUnderWay`, with no hypothesis;
- `CleanRunPassed`: `[]CleanMeansPassed`, if `Timely` has `"revert"` and `"operator"` and there are
  faults (a workflow without fault steps is Completed on Argo's word);
- `PassReaches`: `[]PassIsReported`, if `Timely` has `"revert"`.

The argument. At the end of a workflow the server is told what the terminal event says of each engine
or, when the engine was gone by then, what was last heard of it. What was heard of one fault is a
history: entry 0 is `eventMap`, the others are the workflow's events in the stream, in their order.
Once a fault is over, either a version with its end is still to be handed over and its engine is
still there, or the history does not end in something the operator had not picked up (`BlankOver`),
and ends in the pass if one was given (`PassKnown`). Taking an event off the stream moves entry 0
forward and merges it (`mergeNode`), a failed send the same, and a new event is read from the engines
as they are now. A terminal event that found no engine is followed by none that finds one (`Silent`).
A restart empties the history, which is why `PassIsReported` excludes what it forgot.

Out of this prover's reach and left to TLC: liveness under fairness (`ImplementsLiveBatch`,
`CopyFollowsRun`, `IntentSettles`, `LossIsNoticed`, `GateIsSeen`, `LostLeavesStore`), anything with
`ENABLED`, and induction over data. No module declares a `RECURSIVE` operator. No safety property of
a run is without a theorem.

## Disagreements

One run, `dispatch_waits`, shows a comment of the code violated by the code and is in `PROJECT.json`
as a finding. The modules state more such promises, in their last section, and each is refuted by
TLC on the small instance given here (constants not named are those of the other runs of the module;
"—": no faults). They are recorded rather than run, since a dozen counterexamples of one kind tell
no more than one.

| Property | Instance | What happens | Promise |
|---|---|---|---|
| `MultiRun!ChainRunsBounded` | 2 batches, 2 handlers, — | a timer of the earlier batch gives its slot back to the new counter (`handler.go:4020`): the chain starts one run more than its ceiling | "it hard-caps how many runs the chain can ever start" (`schema.go:65`) |
| `MultiRun!ImplementsLiveBatch` | `FaultKinds` with `"event"` | a Running run whose terminal event was lost stays open, and its batch with it: the sweep expires Queued runs only (`multirun_reconciler.go:157`) | "a completion event that never arrives [...] This loop is the safety net for exactly that." (`:47-53`); a Running run is left alone on purpose (`:154`) |
| `MultiRun!CountedInBatch` | 3 runs, 2 batches, — | an event whose handler read the experiment before the next batch began is counted toward that batch (`handler.go:3908`) | "Runs created before it belong to an earlier batch and are ignored by the chain and the reconciler" (`schema.go:75`) |
| `MultiRun!BatchNotShort` | `Timely` without `"subscriber"`, 1 fault | a run expired while Queued is counted under its `notify_id`, then under its UID (`multirun_reconciler.go:291`); the batch closes a run short | "BatchDone latches once the batch reaches maxRuns" (`schema.go:72`) |
| `MultiRun!StoppedBatchStaysStopped` | start and stop, — | a timer past its look at the latch dispatches after the stop | "the stopped run's terminal event does not dispatch the next run" (`chaos_experiment/handler/handler.go:1557`) |
| `MultiRun!OneRunInFlight` | 2 users, 2 batches, — | both find no run in flight, both create one (`handler.go:2407`) | "block concurrent runs" (`handler.go:2400`) |
| `MultiRun!NoDispatchRace` | `Timely` without `"events"`, 1 fault | a late event drives the chain while the reconciler dispatches | "so it cannot race the event-driven path" (`multirun_reconciler.go:53`) |
| `MultiRun!ExpiresOnlyQueued` | `Timely` without `"subscriber"`, — | the Running event is written between the sweep's query and its update (`multirun_reconciler.go:258`) | "marks a run the subscriber never picked up as failed" (`:239`) |
| `RunRecord!CopyAgrees` | 1 cluster run, — | a run first met in its terminal event gets an open copy (`handler.go:3683`) | "stores the details of last 10 experiment runs" (`schema.go:41`) |
| `RunRecord!StopIsNotReconciled` | 1 run, 1 fault `"copy"` | the terminal event of a stopped run does commit its copy (`handler.go:3804`) | "the subscriber's terminal event cannot reconcile this on its own" (`service.go:111`); the code is kinder than the comment |
| `RunRecord!SequenceIsUnique` | 2 starters, — | both read the same counter (`handler.go:2794`) | "runSequence is the sequence number of experiment run" (the GraphQL schema) |
| `RunRecord!DeletedStaysDeleted` | `Deletable` all runs, — | an event writes `is_removed` false (`operations.go:134`) | "deletes a workflow entry" (`service.go:50`) |
| `RunRecord!CopyOfDeletedNeverAhead` | `Deletable` all runs, — | a stop of a deleted run skips the document and closes the copy (`service.go:96`) | "so the UI reflects Stopped immediately" (`service.go:94`) |
| `ModelRegistry!InUseIsKept` | 1 model, 1 run, — | a run passes the alias check (`handler.go:2371`), a delete finds no experiment using the model, the run is created | "Deleting first stops new runs from picking the model while the guard below looks for ones already using it." (`service.go:192`) |
| `ModelRegistry!NothingUnrecorded` | create, delete and key, 2 callers, — | a key rotation adds the model a delete has just removed (`service.go:276`) | "LiteLLM must not keep a model ACE no longer records" (`service.go:219`) |
| `ModelRegistry!HintIsOfKey` | create and key, 2 keys, 1 crash | a rotation writes no intent before it calls LiteLLM (`service.go:271`) | "Every write records its intent in MongoDB before calling LiteLLM" (`service.go:3`) |
| `ModelRegistry!FreedIsNotServed` | `Timely = FALSE`, create, 1 fault `"mongo"` | a pass that outlasts `pendingTimeout` removes a model that arrived since its list (`reconcile.go:65`) | "Only a model LiteLLM never served is removed this way" (`operations.go:110`) |
| `ModelRegistry!ActiveIsServed` | create and delete, 1 run, — | the pass erases a model whose delete is then reverted (`service.go:209`) | "Active: LiteLLM serves the model." (`schema.go:12`) |
| `ModelRegistry!OneServedPerAlias` | create, 1 fault `"offline"` | LiteLLM lists nothing while it is disconnected and is connected again at the ping: the pass takes a served model for one that never arrived and frees its alias (`reconcile.go:66`) | "A model is only judged missing while LiteLLM is connected to its database" (`reconcile.go:29`) |
| `ModelRegistry!NeedsKeyIsLost` | create, 1 fault `"offline"` | the list precedes the ping, LiteLLM connects between them (`reconcile.go:45`) | "A model is only judged missing while LiteLLM is connected" (`reconcile.go:29`) |
| `Certification!FinalizedStands` | 2 runs, `Planned = 1`, 1 fault `"trigger"` | the pipeline of a run that cannot be sent returns without the gate (`service.go:193`) | "fall-through: gate evaluation also accepts BUCKETING_FAILED runs." (`service.go:201`) |
| `Certification!FinalizedStands` | 1 run, 2 calls, — | a run submitted again as it completes resets the status its aggregation has just written (`service.go:91`) | a resubmission "must not call ResetStatusIfCertified — that would erase an already-finalized certificate" (`service.go:88`) |
| `Certification!PendingHasPipeline` | 1 run, resubmitted, 1 failed task; or 1 restart | a retry is reset before the key is free and then dropped (`service.go:129`); after a restart nobody polls (`service.go:152`) | "clear its state so the pipeline retries from scratch" (`service.go:127`); "idempotent orchestration" (`src/docs/certification-flow.md:10`) |
| `Certification!NoPendingAtAggregation` | 2 runs, `Planned = 1`, — | a run is submitted between the gate and the aggregation (`service.go:206`) | "no bucketing workflow is still pending or running" (`certification-flow.md:224`) |
| `Certification!InProgressIsTrue` | 2 runs, `Planned = 1`, 1 failed task | the gate marks the parent before it sees the other aggregation (`service.go:216`), whose failure came first | "treat this gate-crossing as a no-op" (`service.go:378`) |
| `Certification!LatestCertificate` | 2 runs, `Planned = 1`, — | an older aggregation finalises last (`operator.go:119`) | "update parent `certificate_experiments.latestCertificate`" (`certification-flow.md:235`) |
| `SubscriberEvents!CleanMeansPassed` | `Timely` without `"revert"` or without `"operator"`, — | an engine is last read before the operator saw it: its verdict is empty, which counts as not graded, and the run's other fault passed (`workflow.go:349`, `handler.go:3206`) | "the all-Awaited case, where no graded fault ever produced a verdict — that is not a pass either" (`handler.go:3214`) |
| `InfraConnection!UpIsActive` | `Timely = FALSE`, — | the update after a disconnection is written after the next connection's (`chaos_infrastructure.resolvers.go:273`): a connected infrastructure refuses runs | "failed due to inactive infra" (`handler.go:2379`) |
| `AgentRegistry!RerunIsAnswered` | 1 call, 2 names, 1 namespace, — | the lookup returns any one live agent of the namespace (`service.go:176`) | "re-runs on the same namespace+name return the existing record without hitting the duplicate-name validation error" (`service.go:174`) |
| `AgentRegistry!DeadOnlyByStaleWriter`, its last conjunct | 1 agent, 2 calls, — | an update, sync or deployment that read the agent before its soft delete writes REGISTERED over it (`service.go:405`, `:892`) | "DELETED -> (no transitions allowed)" (`service.go:696`) |
| `AgentRegistryProofs!StatusKept`, which is proved | any | no live agent ever leaves REGISTERED: every check is refused (`service.go:702`), nothing sets VALIDATING, and the scheduler is never started | the status machine of `src/docs/agent-registry.md:72-85` |

## Not modelled

Listed with reasons under "components" in `PROJECT.json`: parts that are CRUD over one document,
generated code, file and git I/O, the web UI, tracing; and project membership, which is next in the
plan. Inside the modelled parts, left out are: queries, preparation of manifests (probes, labels,
blind-fault identifiers), scores and result tables of an event, cron schedules, audit fields,
tracing calls, the bodies of requests to LiteLLM and the certifier, the registration of an
infrastructure and its handshake, engines that run outside workflows, and helm itself.

The share of the code behind these definitions is small by line count and will stay so: of some 132
000 lines of implementation, 73 829 are one generated GraphQL runtime
(`graph/generated/generated.go`) and 4 340 its generated models, and most of the rest are fields
copied from requests to documents to responses. What runs concurrently, fails half-way or has to
happen in an order is a few thousand lines, and those are what the modules are about.

## Running

    tlc -config batch.cfg MCMultiRun.tla      # any run: its cfg and the module PROJECT.json names
    tlapm MultiRunProofs.tla                  # and each of the other *Proofs.tla
