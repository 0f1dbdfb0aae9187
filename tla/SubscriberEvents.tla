-------------------------- MODULE SubscriberEvents --------------------------
(***************************************************************************)
(* How the subscriber in a target cluster turns the life of Argo workflows *)
(* into events for the server (package events of the subscriber).          *)
(*                                                                         *)
(* An informer hands over every version of a workflow object, in order;    *)
(* the handler reads the ChaosEngines of its fault nodes as they are at    *)
(* that later moment and streams an event; one goroutine takes events off  *)
(* the stream, completes them from the previous event of the workflow,     *)
(* derives the run's status and sends it.  Engines are deleted by the last *)
(* step of a workflow, often before its final version is handled, so what  *)
(* a fault's verdict was is then known from the previous event only.  The  *)
(* server tallies the verdicts of a terminal event and may correct the     *)
(* run's phase once more.                                                  *)
(*                                                                         *)
(* A workflow's other steps, weights, names, messages and times are left   *)
(* out; FinishedAt is whether it is set.                                   *)
(***************************************************************************)
EXTENDS Naturals, Sequences, FiniteSets, SequencesExt

CONSTANTS
    Workflows,
    Faults,        \* the fault steps of a workflow, each with a ChaosEngine
    StreamSize,    \* capacity of the stream, 10 in the code
    MaxParallel,   \* bound: fault steps of a workflow that run at a time
    MaxUnread,     \* bound: versions the informer has yet to hand over
    MaxFaults,     \* bound: restarts and failed sends
    FaultKinds,    \* which of them happen: "restart", "send"
    Shutdowns,     \* whether users stop workflows
    Timely         \* "revert":   a workflow deletes its engines only when the informer has
                   \*             handed over the versions before
                   \* "operator": a fault step does not give up before the chaos operator
                   \*             picked its engine up

ASSUME EventsAssumption == /\ IsFiniteSet(Workflows) /\ IsFiniteSet(Faults)
                           /\ MaxParallel \in Nat \ {0}
                           /\ StreamSize \in Nat /\ MaxUnread \in Nat /\ MaxFaults \in Nat
                           /\ FaultKinds \subseteq {"restart", "send"}
                           /\ Shutdowns \in BOOLEAN
                           /\ Timely \subseteq {"revert", "operator"}

VARIABLES
    wf,        \* the workflow objects
    engine,    \* the ChaosEngine of each fault step, with its ChaosResult
    inbox,     \* versions of workflow objects the informer has yet to hand over
    stream,    \* the channel of events
    eventMap,  \* the nodes of the last event of each workflow that had not finished in it
    server,    \* the server's record of each run
    lost,      \* history: workflows with a terminal event whose send failed
    forgotten, \* history: workflows whose events a restart made the subscriber forget
    faults

vars == <<wf, engine, inbox, stream, eventMap, server, lost, forgotten, faults>>

Verdicts  == {"Pass", "Fail", "Error"}
ArgoPhases == {"Pending", "Running", "Succeeded", "Failed", "Error"}
Ended     == {"Succeeded", "Failed", "Error"}
NodePhases == {"none", "Pending", "Running", "Succeeded", "Failed"}

WorkflowType == [phase : {"none"} \cup ArgoPhases, shutdown : BOOLEAN,
                 nodes : [Faults -> NodePhases]]
Engine(stage, verdict) == [stage |-> stage, verdict |-> verdict]
EngineType == [stage : {"none", "created", "running", "judged", "completed", "stopped", "gone"},
               verdict : Verdicts \cup {""}]

\* ChaosData, or nil
NoData == [verdict |-> "none", status |-> "none"]
Data(verdict, status) == [verdict |-> verdict, status |-> status]
DataType == [verdict : {"none", "", "Awaited"} \cup Verdicts,
             status : {"none", "", "Running", "Completed", "Completed_With_Probe_Failure",
                       "Error", "Stopped"}]
NodeType == [phase : NodePhases \cup {"", "Completed", "Completed_With_Probe_Failure",
                                      "Error", "Stopped"},
             data : DataType]
RunPhases == {"Queued", "Running", "Completed", "Error", "Stopped",
              "Completed_With_Probe_Failure", "Completed_Not_Graded"}
EventType == [of : Workflows, phase : RunPhases, finished : BOOLEAN,
              nodes : [Faults -> NodeType]]

Absent  == [phase |-> "none", data |-> NoData]   \* a node the event does not have
NoEvent == [f \in Faults |-> Absent]

TypeOK ==
    /\ wf \in [Workflows -> WorkflowType]
    /\ engine \in [Workflows -> [Faults -> EngineType]]
    /\ inbox \in Seq([of : Workflows, old : [Faults -> NodePhases], obj : WorkflowType])
    /\ stream \in Seq(EventType) /\ Len(stream) <= StreamSize + 1
    /\ eventMap \in [Workflows -> [Faults -> NodeType]]
    /\ server \in [Workflows -> [phase : {"none"} \cup RunPhases, completed : BOOLEAN]]
    /\ lost \subseteq Workflows /\ forgotten \subseteq Workflows
    /\ faults \in 0 .. MaxFaults

Init ==
    /\ wf = [w \in Workflows |-> [phase |-> "none", shutdown |-> FALSE,
                                  nodes |-> [f \in Faults |-> "none"]]]
    /\ engine = [w \in Workflows |-> [f \in Faults |-> Engine("none", "")]]
    /\ inbox = <<>> /\ stream = <<>>
    /\ eventMap = [w \in Workflows |-> NoEvent]
    /\ server = [w \in Workflows |-> [phase |-> "none", completed |-> FALSE]]
    /\ lost = {} /\ forgotten = {} /\ faults = 0

Fault(kind) == kind \in FaultKinds /\ faults < MaxFaults /\ faults' = faults + 1

-----------------------------------------------------------------------------
(* The cluster: Argo, the chaos operator, and users who stop a run *)

NoNodes == [f \in Faults |-> "none"]
Version(w, old, new) == [of |-> w, old |-> old, obj |-> new]

\* Every change of a workflow object is a version the informer hands over.
Becomes(w, new) ==
    /\ Len(inbox) < MaxUnread
    /\ wf' = [wf EXCEPT ![w] = new]
    /\ inbox' = Append(inbox, Version(w, wf[w].nodes, new))
    /\ UNCHANGED <<stream, eventMap, server, lost, forgotten, faults>>

Unread(w) == \E i \in 1 .. Len(inbox) : inbox[i].of = w

Submitted(w) ==
    /\ wf[w].phase = "none"
    /\ Becomes(w, [wf[w] EXCEPT !.phase = "Pending"])
    /\ UNCHANGED engine

FaultScheduled(w, f) ==
    /\ wf[w].phase \in {"Pending", "Running"} /\ ~wf[w].shutdown
    /\ wf[w].nodes[f] = "none"
    /\ Cardinality({g \in Faults : wf[w].nodes[g] \in {"Pending", "Running"}}) < MaxParallel
    /\ Becomes(w, [wf[w] EXCEPT !.phase = "Running", !.nodes[f] = "Pending"])
    /\ UNCHANGED engine

FaultRuns(w, f) ==
    /\ wf[w].phase = "Running" /\ wf[w].nodes[f] = "Pending"
    /\ Becomes(w, [wf[w] EXCEPT !.nodes[f] = "Running"])
    /\ UNCHANGED engine

EngineMoves(w, f, from, new) ==
    /\ engine[w][f].stage \in from
    /\ engine' = [engine EXCEPT ![w][f] = new]
    /\ UNCHANGED <<wf, inbox, stream, eventMap, server, lost, forgotten, faults>>

\* The step creates its engine; the operator picks it up (Awaited), the experiment
\* writes its verdict to the ChaosResult, and the operator copies it to the engine.
EngineLives(w, f) ==
    \/ wf[w].nodes[f] = "Running" /\ EngineMoves(w, f, {"none"}, Engine("created", ""))
    \/ EngineMoves(w, f, {"created"}, Engine("running", ""))
    \/ \E v \in Verdicts : EngineMoves(w, f, {"running"}, Engine("judged", v))
    \/ EngineMoves(w, f, {"judged"}, Engine("completed", engine[w][f].verdict))

\* The step waits for its engine to complete; it may also give up, or never start.
FaultEnds(w, f) ==
    /\ wf[w].phase = "Running" /\ wf[w].nodes[f] \in {"Pending", "Running"}
    /\ \/ /\ engine[w][f].stage = "completed"
          /\ Becomes(w, [wf[w] EXCEPT !.nodes[f] = "Succeeded"])
       \/ /\ "operator" \in Timely => engine[w][f].stage # "created"
          /\ Becomes(w, [wf[w] EXCEPT !.nodes[f] = "Failed"])
    /\ UNCHANGED engine

AllEnded(w) == \A f \in Faults : wf[w].nodes[f] \in {"none", "Succeeded", "Failed"}

\* The revert step deletes the engines.
EnginesReverted(w) ==
    /\ wf[w].phase = "Running" /\ AllEnded(w)
    /\ "revert" \in Timely => ~Unread(w)
    /\ \E f \in Faults : engine[w][f].stage \notin {"none", "gone"}
    /\ engine' = [engine EXCEPT ![w] = [f \in Faults |->
                     IF engine[w][f].stage = "none" THEN engine[w][f]
                     ELSE Engine("gone", engine[w][f].verdict)]]
    /\ UNCHANGED <<wf, inbox, stream, eventMap, server, lost, forgotten, faults>>

WorkflowEnds(w) ==
    /\ wf[w].phase \in {"Pending", "Running"} /\ AllEnded(w)
    /\ \E end \in Ended :
          /\ end = "Succeeded" => /\ ~wf[w].shutdown
                                  /\ \A f \in Faults : wf[w].nodes[f] = "Succeeded"
          /\ Becomes(w, [wf[w] EXCEPT !.phase = end])
    /\ UNCHANGED engine

\* A label or an annotation of an ended workflow changes.
WorkflowTouched(w) ==
    /\ wf[w].phase \in Ended /\ ~Unread(w)
    /\ Becomes(w, wf[w])
    /\ UNCHANGED engine

\* A user's stop patches the engines, then the workflow; a patch that fails is logged.
StopChaosEngineState(w) ==
    /\ Shutdowns /\ wf[w].phase = "Running"
    /\ \E f \in Faults : engine[w][f].stage \in {"created", "running", "judged"}
    /\ engine' = [engine EXCEPT ![w] = [f \in Faults |->
                     IF engine[w][f].stage \in {"created", "running", "judged"}
                     THEN Engine("stopped", IF engine[w][f].verdict = "" THEN "Fail"
                                            ELSE engine[w][f].verdict)
                     ELSE engine[w][f]]]
    /\ UNCHANGED <<wf, inbox, stream, eventMap, server, lost, forgotten, faults>>

StopWorkflow(w) ==
    /\ Shutdowns
    /\ wf[w].phase \in {"Pending", "Running"} /\ ~wf[w].shutdown
    /\ Becomes(w, [wf[w] EXCEPT !.shutdown = TRUE])
    /\ UNCHANGED engine

-----------------------------------------------------------------------------
(* The informer's handler *)

PhaseOfVerdict(v) == CASE v = "Pass" -> "Completed"
                       [] v = "Fail" -> "Completed_With_Probe_Failure"
                       [] v = "Error" -> "Error"

\* getChaosData: what the engine and its ChaosResult say now.  The result's verdict is
\* preferred to the engine's copy unless that is a failure; a result that is not a
\* pass is never plain Completed.
getChaosData(e) ==
    CASE e.stage \in {"none", "gone"} -> NoData
      [] e.stage = "created"   -> Data("", "")
      [] e.stage = "running"   -> Data("Awaited", "Running")
      [] e.stage = "judged"    -> Data(e.verdict, PhaseOfVerdict(e.verdict))
      [] e.stage = "completed" -> Data(IF e.verdict = "Pass" THEN "Pass" ELSE "Fail",
                                       PhaseOfVerdict(e.verdict))
      [] e.stage = "stopped"   -> Data("Fail", "Stopped")

\* The engine of a pending step is not looked up.
CheckChaosData(phase, e) == IF phase \in {"none", "Pending"} THEN NoData ELSE getChaosData(e)

nodeOf(old, phase, e) ==
    LET cd == CheckChaosData(phase, e)
    IN  [data |-> cd,
         phase |-> CASE cd = NoData -> phase
                     [] cd # NoData /\ old = "Pending" /\ phase = "Running" -> "Running"
                     [] OTHER -> cd.status]

updateWorkflowStatus(phase) ==
    CASE phase = "Running" -> "Running"
      [] phase \in {"Succeeded", "Failed"} -> "Completed"
      [] phase = "Error" -> "Error"
      [] OTHER -> "Queued"

\* A workflow that failed before any fault step is an error.
resolveWorkflowStatus(phase, nodes) ==
    IF phase = "Failed" /\ \A f \in Faults : nodes[f] = "none"
    THEN "Error" ELSE updateWorkflowStatus(phase)

WorkflowEventHandler(version) ==
    LET obj == version.obj
    IN  [of |-> version.of,
         phase |-> IF obj.shutdown THEN "Stopped" ELSE resolveWorkflowStatus(obj.phase, obj.nodes),
         finished |-> obj.shutdown \/ obj.phase \in Ended,
         nodes |-> [f \in Faults |-> nodeOf(version.old[f], obj.nodes[f], engine[version.of][f])]]

\* What a bug would do: nothing bounds the stream.
startWatchWorkflow_Unbounded ==
    /\ inbox # <<>>
    /\ stream' = Append(stream, WorkflowEventHandler(Head(inbox)))
    /\ inbox' = Tail(inbox)
    /\ UNCHANGED <<wf, engine, eventMap, server, lost, forgotten, faults>>

\* The handler reads the engines and then waits for room in the stream: the event in
\* place StreamSize + 1 is the one it holds.
startWatchWorkflow ==
    /\ inbox # <<>> /\ Len(stream) <= StreamSize
    /\ stream' = Append(stream, WorkflowEventHandler(Head(inbox)))
    /\ inbox' = Tail(inbox)
    /\ UNCHANGED <<wf, engine, eventMap, server, lost, forgotten, faults>>

-----------------------------------------------------------------------------
(* The sender *)

\* What a bug would do: the previous event is not consulted.
mergeNode_Fresh(cached, node, phase) == node

\* A node whose engine could not be read keeps what the previous event had of it; what
\* a stopped run left running is stopped.
mergeNode(cached, node, phase) ==
    LET kept == IF cached.data # NoData /\ node.data = NoData THEN cached ELSE node
    IN  IF phase = "Stopped" /\ cached # Absent /\ kept.phase \in {"Running", "Pending"}
        THEN [kept EXCEPT !.phase = "Stopped"] ELSE kept

\* What a bug would do: the status follows the phases of the nodes alone.
getExperimentStatus_ByPhase(event) ==
    LET phases == {event.nodes[f].phase : f \in Faults}
    IN  CASE event.phase = "Stopped" \/ ~event.finished -> event.phase
          [] event.phase # "Stopped" /\ event.finished /\ "Error" \in phases -> "Error"
          [] event.phase # "Stopped" /\ event.finished /\ "Error" \notin phases
             /\ "Completed_With_Probe_Failure" \in phases -> "Completed_With_Probe_Failure"
          [] OTHER -> event.phase

\* An error outranks a failed probe; a verdict outranks the phase of its node.
getExperimentStatus(event) ==
    LET faulty(f) == event.nodes[f] # Absent
        verdict(f) == event.nodes[f].data.verdict
        judged(f) == verdict(f) \in {"Fail", "Error", "Awaited"}
        errors == {f \in Faults : faulty(f) /\
                     \/ event.nodes[f].data = NoData
                     \/ verdict(f) \in {"Error", "Awaited"}
                     \/ ~judged(f) /\ event.nodes[f].phase = "Error"}
        failures == {f \in Faults : faulty(f) /\
                       \/ verdict(f) = "Fail"
                       \/ ~judged(f) /\ event.nodes[f].phase = "Completed_With_Probe_Failure"}
    IN  CASE event.phase = "Stopped" \/ ~event.finished -> event.phase
          [] event.phase # "Stopped" /\ event.finished /\ errors # {} -> "Error"
          [] event.phase # "Stopped" /\ event.finished /\ errors = {} /\ failures # {} ->
                 "Completed_With_Probe_Failure"
          [] OTHER -> event.phase

\* The event as it is sent.
AsSent(event) ==
    LET nodes == [f \in Faults |-> mergeNode(eventMap[event.of][f], event.nodes[f], event.phase)]
        merged == [event EXCEPT !.nodes = nodes]
    IN  [merged EXCEPT !.phase = getExperimentStatus(merged)]

SendWorkflowUpdates(event) ==
    /\ stream' = Tail(stream)
    /\ eventMap' = [eventMap EXCEPT ![event.of] =
                       IF event.finished THEN NoEvent ELSE event.nodes]
    /\ UNCHANGED <<wf, engine, inbox>>

-----------------------------------------------------------------------------
(* The server *)

\* ProcessCompletedExperimentRun counts every fault of the revision, also those the
\* workflow did not reach, and the verdicts the event has.
Tally(nodes, verdicts) == Cardinality({f \in Faults : nodes[f].data.verdict \in verdicts})

reconcileRunPhase(phase, nodes) ==
    LET graded == Cardinality(Faults) - Tally(nodes, {""})
    IN  CASE phase # "Completed" -> phase
          [] phase = "Completed" /\ graded = 0 ->
                 IF Faults = {} THEN phase ELSE "Completed_Not_Graded"
          [] phase = "Completed" /\ graded > 0 ->
                 IF Tally(nodes, {"Fail"}) > 0 \/ Tally(nodes, {"Pass"}) = 0
                 THEN "Completed_With_Probe_Failure" ELSE phase

\* The server takes an event unless it already had a terminal one of the run.
ChaosExperimentRunEvent(event) ==
    server' = IF server[event.of].completed THEN server
              ELSE [server EXCEPT ![event.of] =
                       [phase |-> IF event.finished
                                  THEN reconcileRunPhase(event.phase, event.nodes)
                                  ELSE event.phase,
                        completed |-> event.finished]]

Sent ==
    /\ stream # <<>>
    /\ LET event == AsSent(Head(stream))
       IN  SendWorkflowUpdates(event) /\ ChaosExperimentRunEvent(event)
    /\ UNCHANGED <<lost, forgotten, faults>>

\* A failed send is logged; the event is not sent again.
SendFails ==
    /\ stream # <<>> /\ Fault("send")
    /\ LET event == AsSent(Head(stream))
       IN  /\ SendWorkflowUpdates(event)
           /\ lost' = IF event.finished THEN lost \cup {event.of} ELSE lost
    /\ UNCHANGED <<server, forgotten>>

\* What a bug would do: the first listing passes over workflows that have ended.
Restart_OnlyRunning ==
    /\ Fault("restart")
    /\ stream' = <<>>
    /\ eventMap' = [w \in Workflows |-> NoEvent]
    /\ \E order \in SetToSeqs({w \in Workflows : wf[w].phase \in {"Pending", "Running"}}) :
          inbox' = [i \in 1 .. Len(order) |-> Version(order[i], NoNodes, wf[order[i]])]
    /\ forgotten' = {w \in Workflows : wf[w].phase # "none"}
    /\ UNCHANGED <<wf, engine, server, lost>>

\* A restarted subscriber has neither stream nor eventMap; its informer lists every
\* workflow again, in any order.
Restart ==
    /\ Fault("restart")
    /\ stream' = <<>>
    /\ eventMap' = [w \in Workflows |-> NoEvent]
    /\ \E order \in SetToSeqs({w \in Workflows : wf[w].phase # "none"}) :
          inbox' = [i \in 1 .. Len(order) |-> Version(order[i], NoNodes, wf[order[i]])]
    /\ forgotten' = {w \in Workflows : wf[w].phase # "none"}
    /\ UNCHANGED <<wf, engine, server, lost>>

-----------------------------------------------------------------------------
Next ==
    \/ \E w \in Workflows :
          \/ Submitted(w) \/ EnginesReverted(w) \/ WorkflowEnds(w) \/ WorkflowTouched(w)
          \/ StopChaosEngineState(w) \/ StopWorkflow(w)
          \/ \E f \in Faults : \/ FaultScheduled(w, f) \/ FaultRuns(w, f)
                               \/ EngineLives(w, f) \/ FaultEnds(w, f)
    \/ startWatchWorkflow \/ Sent \/ SendFails \/ Restart

Spec == Init /\ [][Next]_vars

-----------------------------------------------------------------------------
(* A run the server shows as cleanly completed injected chaos, and every fault it      *)
(* started passed: no order of verdicts, reverts, restarts and lost events turns a     *)
(* failed, erred, stopped or unfinished fault into a clean pass (getExperimentStatus,  *)
(* resolveWorkflowStatus, reconcileRunPhase).                                          *)
CleanMeansPassed ==
    \A w \in Workflows : server[w].completed /\ server[w].phase = "Completed" =>
        LET started == {f \in Faults : wf[w].nodes[f] # "none"}
        IN  started # {} /\ \A f \in started : engine[w][f].verdict = "Pass"

(* A workflow that succeeded, with every fault passed, is shown as cleanly completed,  *)
(* though its engines may be gone when its last version is handled: what the previous  *)
(* event said of them stands in (eventMap).  A restart forgets that event.             *)
PassIsReported ==
    \A w \in Workflows \ (lost \cup forgotten) :
        server[w].completed /\ wf[w].phase = "Succeeded"
        /\ (\A f \in Faults : engine[w][f].verdict = "Pass")
        => server[w].phase = "Completed"

(* The end of a workflow is known to the server, was lost in a failed send, or is still *)
(* on its way: neither a restart, nor a later version, nor a full stream drops it.     *)
(* As the handler and the sender wait for nothing but the stream, this is what makes   *)
(* MultiRun's first TerminalDelivered fair.                                            *)
EndIsUnderWay ==
    \A w \in Workflows : wf[w].phase \in Ended =>
        \/ server[w].completed \/ w \in lost
        \/ \E i \in 1 .. Len(inbox) : inbox[i].of = w /\ inbox[i].obj.phase \in Ended
        \/ \E i \in 1 .. Len(stream) : stream[i].of = w /\ stream[i].finished

=============================================================================
