------------------------- MODULE CertificationProofs -------------------------
(***************************************************************************)
(* Proofs about Certification, for any number of runs, agents, pipelines,  *)
(* calls and faults of every kind.                                         *)
(*                                                                         *)
(* The argument: every document a pipeline touches is of the agent on the  *)
(* parent, from the moment it adopted it; the in-memory key then keeps     *)
(* pipelines of one run apart, except in ResetFailedRunWorkflow, which     *)
(* comes before the key and only touches what has failed.  A bucketing     *)
(* task is started for a document without one, so never again after its    *)
(* success; and whoever creates an aggregation has seen the one before     *)
(* ended, because the unique index lets only the first creator through.    *)
(***************************************************************************)
EXTENDS Certification, SequenceTheorems, TLAPS

\* The pipelines between acquiring and releasing the key of their run.
Holding == Bucketing \cup Aggregating \cup {"end"}
\* Those that created an aggregation and see to it.
Owning == {"aggregate", "aggregated", "refused", "aggregateFailed", "aggregatePoll",
           "finalize", "aggregationFailed"}

ParentInv == IF parent.exists THEN parent.agent \in Agents /\ parent.expected = Planned
             ELSE parent.agent = NoAgent /\ agg = <<>>

\* A document that says how its bucketing ended has a task that ended so.
DocsInv == \A a \in Agents, r \in Runs :
    /\ wf[a][r].status = "none" => ~wf[a][r].task
    /\ wf[a][r].status = "COMPLETED" => wf[a][r].task /\ bucket[r] = "completed"
    /\ wf[a][r].status = "FAILED" /\ wf[a][r].task => bucket[r] = "failed"

Identity(p) ==
    /\ pc[p] # "idle" => loc[p].expected = Planned
    /\ pc[p] = "adopt" => parent.exists
    /\ pc[p] \notin {"idle", "check", "parent", "adopt"} =>
           parent.exists /\ loc[p].agent = parent.agent

Bucket(p) ==
    /\ pc[p] \in Holding => Key(p) \in active
    /\ pc[p] \in {"send", "sent", "sendFailed"} => ~Doc(p).task
    /\ pc[p] = "poll" => Doc(p).task \/ bucket[R(p)] = "failed"

Gate(p) ==
    /\ pc[p] \in {"mark", "latest", "create"} =>
           /\ Cardinality(loc[p].runs) >= Planned
           /\ loc[p].runs \subseteq With(parent.agent, "COMPLETED")
    /\ pc[p] = "create" =>
           /\ loc[p].version \in 1 .. Len(agg) + 1
           /\ \A v \in 1 .. Len(agg) : v < loc[p].version => ~Unfinished(v)

Owner(p) ==
    /\ pc[p] \in Owning => loc[p].version \in 1 .. Len(agg)
    /\ pc[p] \in {"aggregate", "aggregated", "refused"} =>
           agg[loc[p].version].status = "TRIGGERED"

Local(p) == Identity(p) /\ Bucket(p) /\ Gate(p) /\ Owner(p)

\* A run has one pipeline between acquire and release, an aggregation one owner.
Apart == \A p, q \in Pipelines : p # q =>
    /\ pc[p] \in Holding /\ pc[q] \in Holding => R(p) # R(q)
    /\ pc[p] \in Owning /\ pc[q] \in Owning => loc[p].version # loc[q].version

Data == ParentInv /\ OneAgent /\ DocsInv /\ OneAggregation /\ AggregatesEnough

IInv == TypeOK /\ Data /\ Apart /\ \A p \in Pipelines : Local(p)

Labels == {"idle", "end"} \cup Starting \cup Bucketing \cup Aggregating

-----------------------------------------------------------------------------
(* Steps of one pipeline *)

\* The state of an idle pipeline is well formed.
LEMMA NothingIsLoc == Nothing \in LocType
<1>1. (CHOOSE r \in Runs : TRUE) \in Runs /\ (CHOOSE a \in Agents : TRUE) \in Agents
  BY CertAssumption
<1> QED
  BY <1>1 DEF Nothing, LocType

\* A step of one pipeline keeps the invariant if it keeps the data's part and what
\* is known of each pipeline, and neither enters the key's nor an owner's section.
LEMMA MoveKeeps ==
  ASSUME IInv, TypeOK', Data', NEW p \in Pipelines,
         NEW label \in Labels, NEW what \in LocType, Hold(p, label, what),
         label \in Holding => pc[p] \in Holding /\ what.run = R(p),
         label \in Owning => pc[p] \in Owning /\ what.version = loc[p].version,
         Local(p)', \A q \in Pipelines \ {p} : Local(q)'
  PROVE  IInv'
<1>1. /\ pc'[p] = label /\ loc'[p] = what
      /\ \A q \in Pipelines \ {p} : pc'[q] = pc[q] /\ loc'[q] = loc[q]
  BY DEF IInv, TypeOK, Hold
<1>2. Apart'
  BY <1>1 DEF IInv, Apart, R
<1> QED
  BY <1>2 DEF IInv

\* The same, if the step leaves the databases and the certifier alone.
LEMMA QuietKeeps ==
  ASSUME IInv, UNCHANGED <<parent, wf, agg, active, certifier>>,
         submitted' \subseteq Runs, calls' \in 0 .. MaxCalls, faults' \in 0 .. MaxFaults,
         NEW p \in Pipelines,
         NEW label \in Labels, NEW what \in LocType, Hold(p, label, what),
         label \in Holding => pc[p] \in Holding /\ what.run = R(p),
         label \in Owning => pc[p] \in Owning /\ what.version = loc[p].version,
         Local(p)'
  PROVE  IInv'
<1>1. TypeOK'
  BY DEF IInv, TypeOK, Hold, Labels, certifier
<1>2. Data'
  BY DEF IInv, Data, ParentInv, OneAgent, DocsInv, OneAggregation, Unfinished,
         AggregatesEnough, With, certifier
<1>3. \A q \in Pipelines \ {p} : Local(q)'
  <2>1. TAKE q \in Pipelines \ {p}
  <2>2. pc'[q] = pc[q] /\ loc'[q] = loc[q] /\ Local(q)
    BY DEF IInv, TypeOK, Hold
  <2> QED
    BY <2>2 DEF Local, Identity, Bucket, Gate, Owner, Key, Doc, R, With, Unfinished, certifier
<1> QED
  BY <1>1, <1>2, <1>3, MoveKeeps

\* Steps that only read.
LEMMA ReadsKeep ==
  ASSUME IInv, NEW p \in Pipelines,
         \/ ChecksRun(p) \/ AdoptsAgain(p) \/ TriggerBucketing(p) \/ PollGivesUp(p)
         \/ GateReadsParent(p) \/ EvaluateGate(p) \/ ReadsLatest(p) \/ AggregationGivesUp(p)
  PROVE  IInv'
<1>1. TypeOK /\ Local(p) /\ loc[p] \in LocType /\ pc[p] \in Labels /\ Data
  BY DEF IInv, TypeOK, Labels
<1>2. UNCHANGED <<parent, wf, agg, active, certifier>>
  BY DEF ChecksRun, AdoptsAgain, TriggerBucketing, PollGivesUp, GateReadsParent, EvaluateGate,
         ReadsLatest, AggregationGivesUp
<1>3. submitted' \subseteq Runs /\ calls' \in 0 .. MaxCalls /\ faults' \in 0 .. MaxFaults
  BY <1>1, CertAssumption
  DEF TypeOK, ChecksRun, AdoptsAgain, TriggerBucketing, PollGivesUp, GateReadsParent, EvaluateGate,
      ReadsLatest, AggregationGivesUp, Fault, bounds
<1> USE <1>1, <1>2, <1>3
<1> USE DEF Labels, Starting, Bucketing, Aggregating, Holding, Owning
<1>4. CASE ChecksRun(p)
  <2>1. CASE Doc(p).status = "COMPLETED"
    <3>1. Hold(p, "idle", Nothing) /\ pc'[p] = "idle" /\ loc'[p] = Nothing
      BY <1>4, <2>1 DEF ChecksRun, Return, Hold, TypeOK
    <3>2. Local(p)'
      BY <3>1 DEF Local, Identity, Bucket, Gate, Owner
    <3> QED
      BY <3>1, <3>2, NothingIsLoc, QuietKeeps
  <2>2. CASE Doc(p).status # "COMPLETED"
    <3>1. Hold(p, "parent", loc[p]) /\ pc'[p] = "parent" /\ loc'[p] = loc[p]
      BY <1>4, <2>2 DEF ChecksRun, Goto, Hold, At, TypeOK
    <3>2. Local(p)'
      BY <1>4, <3>1 DEF Local, Identity, Bucket, Gate, Owner, ChecksRun, At
    <3> QED
      BY <3>1, <3>2, QuietKeeps
  <2> QED
    BY <2>1, <2>2
<1>5. CASE AdoptsAgain(p)
  <2> DEFINE what == [loc[p] EXCEPT !.agent = Adoption(p)]
  <2>1. Hold(p, "reset", what) /\ pc'[p] = "reset" /\ loc'[p] = what
    BY <1>5 DEF AdoptsAgain, Hold, TypeOK
  <2>2. parent.exists /\ Adoption(p) = parent.agent /\ parent.agent \in Agents
    BY <1>5 DEF AdoptsAgain, At, Local, Identity, Adoption, Adopted, Data, ParentInv
  <2>3. what \in LocType /\ what.agent = parent.agent /\ what.expected = Planned
    BY <1>5, <2>2 DEF LocType, AdoptsAgain, At, Local, Identity
  <2>4. Local(p)'
    BY <2>1, <2>2, <2>3 DEF Local, Identity, Bucket, Gate, Owner
  <2> QED
    BY <2>1, <2>3, <2>4, QuietKeeps
<1>6. CASE TriggerBucketing(p)
  <2> DEFINE label == IF Doc(p).task THEN "poll" ELSE "send"
  <2>1. /\ Hold(p, label, loc[p]) /\ pc'[p] = label /\ loc'[p] = loc[p]
        /\ pc[p] = "trigger"
    BY <1>6 DEF TriggerBucketing, Goto, Hold, At, TypeOK
  <2>2. Local(p)'
    BY <2>1 DEF Local, Identity, Bucket, Gate, Owner, Doc, Key, R
  <2> QED
    BY <2>1, <2>2, QuietKeeps DEF R
<1>7. CASE PollGivesUp(p) \/ AggregationGivesUp(p)
  <2>1. PICK label \in {"gate", "end"} :
          /\ Hold(p, label, loc[p]) /\ pc'[p] = label /\ loc'[p] = loc[p]
          /\ pc[p] \in {"poll", "aggregatePoll"}
    BY <1>7 DEF PollGivesUp, AggregationGivesUp, Goto, Hold, At, TypeOK
  <2>2. Local(p)'
    BY <2>1 DEF Local, Identity, Bucket, Gate, Owner, Doc, Key, R
  <2> QED
    BY <2>1, <2>2, QuietKeeps DEF R
<1>8. CASE GateReadsParent(p)
  <2> DEFINE what == [loc[p] EXCEPT !.expected = parent.expected]
  <2>1. Hold(p, "list", what) /\ pc'[p] = "list" /\ loc'[p] = what /\ pc[p] = "gate"
    BY <1>8 DEF GateReadsParent, Hold, At, TypeOK
  <2>2. parent.exists /\ parent.expected = Planned /\ parent.expected \in Nat
    BY <2>1, CertAssumption DEF Local, Identity, Data, ParentInv
  <2>3. /\ what \in LocType /\ what.expected = Planned
        /\ what.agent = loc[p].agent /\ what.run = loc[p].run
    BY <2>2 DEF LocType
  <2>4. Local(p)'
    BY <2>1, <2>3 DEF Local, Identity, Bucket, Gate, Owner, Key, R
  <2> QED
    BY <2>1, <2>3, <2>4, QuietKeeps DEF R
<1>9. CASE EvaluateGate(p)
  <2>1. CASE GateOpens(p)
    <3> DEFINE what == [loc[p] EXCEPT !.runs = Successes(loc[p].agent)]
    <3>1. Hold(p, "mark", what) /\ pc'[p] = "mark" /\ loc'[p] = what /\ pc[p] = "list"
      BY <1>9, <2>1 DEF EvaluateGate, Hold, At, TypeOK
    <3>2. loc[p].expected = Planned /\ loc[p].agent = parent.agent
      BY <3>1 DEF Local, Identity
    <3>3. /\ what \in LocType /\ what.expected = Planned /\ what.agent = loc[p].agent
          /\ what.run = loc[p].run /\ what.runs = With(parent.agent, "COMPLETED")
      BY <3>2 DEF LocType, Successes, With
    <3>4. Cardinality(what.runs) >= Planned
      BY <2>1, <3>2, <3>3 DEF GateOpens, Successes
    <3>5. With(parent.agent, "COMPLETED")' = With(parent.agent, "COMPLETED")
      BY DEF With
    <3>6. Local(p)'
      BY <3>1, <3>3, <3>4, <3>5 DEF Local, Identity, Bucket, Gate, Owner, Key, R
    <3> QED
      BY <3>1, <3>3, <3>6, QuietKeeps DEF R
  <2>2. CASE ~GateOpens(p)
    <3>1. Hold(p, "end", loc[p]) /\ pc'[p] = "end" /\ loc'[p] = loc[p] /\ pc[p] = "list"
      BY <1>9, <2>2 DEF EvaluateGate, Goto, Hold, At, TypeOK
    <3>2. Local(p)'
      BY <3>1 DEF Local, Identity, Bucket, Gate, Owner, Key, R
    <3> QED
      BY <3>1, <3>2, QuietKeeps DEF R
  <2> QED
    BY <2>1, <2>2
<1>10. CASE ReadsLatest(p)
  <2>1. CASE Busy
    <3>1. Hold(p, "end", loc[p]) /\ pc'[p] = "end" /\ loc'[p] = loc[p] /\ pc[p] = "latest"
      BY <1>10, <2>1 DEF ReadsLatest, Goto, Hold, At, TypeOK
    <3>2. Local(p)'
      BY <3>1 DEF Local, Identity, Bucket, Gate, Owner, Key, R
    <3> QED
      BY <3>1, <3>2, QuietKeeps DEF R
  <2>2. CASE ~Busy
    <3> DEFINE what == [loc[p] EXCEPT !.version = Len(agg) + 1]
    <3>1. Hold(p, "create", what) /\ pc'[p] = "create" /\ loc'[p] = what /\ pc[p] = "latest"
      BY <1>10, <2>2 DEF ReadsLatest, Hold, At, TypeOK
    <3>2. Len(agg) \in Nat /\ (agg = <<>> <=> Len(agg) = 0)
      BY EmptySeq, LenProperties DEF TypeOK
    <3>3. /\ what \in LocType /\ what.expected = loc[p].expected /\ what.agent = loc[p].agent
          /\ what.run = loc[p].run /\ what.runs = loc[p].runs /\ what.version = Len(agg) + 1
      BY <3>2 DEF LocType
    <3>4. \A v \in 1 .. Len(agg) : ~Unfinished(v)
      BY <2>2, <3>2 DEF Busy, Data, OneAggregation
    <3>5. Gate(p)'
      <4>1. With(parent.agent, "COMPLETED")' = With(parent.agent, "COMPLETED")
        BY DEF With
      <4>2. loc[p].runs \subseteq With(parent.agent, "COMPLETED")
            /\ Cardinality(loc[p].runs) >= Planned
        BY <3>1 DEF Local, Gate
      <4>3. \A v \in 1 .. Len(agg) : ~Unfinished(v)'
        BY <3>4 DEF Unfinished
      <4> QED
        BY <3>1, <3>2, <3>3, <4>1, <4>2, <4>3 DEF Gate
    <3>6. Local(p)'
      BY <3>1, <3>3, <3>5 DEF Local, Identity, Bucket, Owner, Key, R
    <3> QED
      BY <3>1, <3>3, <3>6, QuietKeeps DEF R
  <2> QED
    BY <2>1, <2>2
<1> QED
  BY <1>4, <1>5, <1>6, <1>7, <1>8, <1>9, <1>10

\* A call of the front door.
LEMMA RequestKeeps ==
  ASSUME IInv, NEW p \in Pipelines, NEW r \in Runs, NEW a \in Agents,
         CertificationRequested(p, r, a)
  PROVE  IInv'
<1> DEFINE what == [Nothing EXCEPT !.run = r, !.agent = Adopted(a), !.expected = Planned]
<1>1. TypeOK /\ ParentInv
  BY DEF IInv, Data
<1>2. Adopted(a) \in Agents
  BY <1>1 DEF Adopted, ParentInv
<1>3. what \in LocType /\ what.expected = Planned
  BY <1>2, NothingIsLoc, CertAssumption DEF LocType
<1>4. /\ UNCHANGED <<parent, wf, agg, active, certifier>>
      /\ submitted' \subseteq Runs /\ calls' \in 0 .. MaxCalls /\ faults' \in 0 .. MaxFaults
  BY <1>1, CertAssumption DEF TypeOK, CertificationRequested
<1>5. Hold(p, "check", what) /\ pc'[p] = "check" /\ loc'[p] = what
  BY <1>1 DEF CertificationRequested, Hold, TypeOK
<1>6. "check" \in Labels /\ "check" \notin Holding /\ "check" \notin Owning
  BY DEF Labels, Starting, Bucketing, Aggregating, Holding, Owning
<1>7. Local(p)'
  BY <1>3, <1>5, <1>6 DEF Local, Identity, Bucket, Gate, Owner
<1> QED
  BY <1>3, <1>4, <1>5, <1>6, <1>7, QuietKeeps

\* A failed call to MongoDB.
LEMMA StoreFailsKeeps ==
  ASSUME IInv, NEW p \in Pipelines, StoreFails(p)
  PROVE  IInv'
<1>1. TypeOK /\ Local(p) /\ loc[p] \in LocType /\ pc[p] \in Labels
  BY DEF IInv, TypeOK, Labels
<1>2. /\ UNCHANGED <<parent, wf, agg, active, certifier>>
      /\ submitted' \subseteq Runs /\ calls' \in 0 .. MaxCalls /\ faults' \in 0 .. MaxFaults
  BY <1>1, CertAssumption DEF TypeOK, StoreFails, Fault
<1> USE DEF Labels, Starting, Bucketing, Aggregating, Holding, Owning
<1>3. CASE Return(p)
  <2>1. Hold(p, "idle", Nothing) /\ pc'[p] = "idle" /\ loc'[p] = Nothing
    BY <1>1, <1>3 DEF Return, Hold, TypeOK
  <2>2. Local(p)'
    BY <2>1 DEF Local, Identity, Bucket, Gate, Owner
  <2> QED
    BY <1>2, <2>1, <2>2, NothingIsLoc, QuietKeeps
<1>4. ASSUME NEW label \in {"end", "gate", "latest", "aggregateFailed", "finalize",
                            "aggregationFailed"},
             Goto(p, label),
             pc[p] \in Holding, label = "latest" => pc[p] = "mark",
             label \in Owning => pc[p] \in {"refused", "aggregatePoll"}
      PROVE  IInv'
  <2>1. Hold(p, label, loc[p]) /\ pc'[p] = label /\ loc'[p] = loc[p]
    BY <1>1, <1>4 DEF Goto, Hold, TypeOK
  <2>2. With(parent.agent, "COMPLETED")' = With(parent.agent, "COMPLETED")
    BY <1>2 DEF With
  <2>3. Local(p)'
    BY <1>1, <1>2, <1>4, <2>1, <2>2 DEF Local, Identity, Bucket, Gate, Owner, Key, R
  <2> QED
    BY <1>1, <1>2, <1>4, <2>1, <2>3, QuietKeeps DEF R
<1> QED
  BY <1>1, <1>3, <1>4 DEF StoreFails, At

-----------------------------------------------------------------------------
(* Writes of the parent document *)

\* A write that creates the parent, or only changes its status or active version.
LEMMA ParentKeeps ==
  ASSUME IInv, UNCHANGED <<wf, agg, active, certifier, bounds>>,
         parent' \in ParentType, parent'.active <= Len(agg), ParentInv', parent'.exists,
         parent.exists => parent'.agent = parent.agent,
         NEW p \in Pipelines,
         NEW label \in Labels, Hold(p, label, loc[p]),
         label \in Holding => pc[p] \in Holding,
         label \in Owning => pc[p] \in Owning,
         Local(p)'
  PROVE  IInv'
<1>1. TypeOK /\ Data /\ loc[p] \in LocType
  BY DEF IInv, TypeOK
<1>2. TypeOK'
  BY <1>1 DEF TypeOK, Hold, Labels, certifier, bounds
<1>3. \A a \in Agents : parent.agent = a => parent'.agent = a
  BY <1>1, CertAssumption DEF Data, ParentInv
<1>4. OneAgent'
  BY <1>1, <1>3 DEF Data, OneAgent
<1>5. parent.exists => With(parent.agent, "COMPLETED")' = With(parent.agent, "COMPLETED")
  BY DEF With
<1>6. DocsInv' /\ OneAggregation'
  BY <1>1 DEF Data, DocsInv, OneAggregation, Unfinished, certifier
<1>7. AggregatesEnough'
  <2>1. CASE parent.exists
    BY <1>1, <1>5, <2>1 DEF Data, AggregatesEnough
  <2>2. CASE ~parent.exists
    <3>1. Len(agg') = 0
      BY <1>1, <2>2, EmptySeq DEF Data, ParentInv
    <3> QED
      BY <3>1 DEF AggregatesEnough
  <2> QED
    BY <2>1, <2>2
<1>8. Data'
  BY <1>4, <1>6, <1>7 DEF Data
<1>9. \A q \in Pipelines \ {p} : Local(q)'
  <2>1. TAKE q \in Pipelines \ {p}
  <2>2. pc'[q] = pc[q] /\ loc'[q] = loc[q] /\ Local(q)
    BY DEF IInv, TypeOK, Hold
  <2>3. Identity(q)' /\ Bucket(q)' /\ Owner(q)'
    BY <1>3, <2>2 DEF Local, Identity, Bucket, Owner, Key, Doc, R, certifier
  <2>4. Gate(q)'
    <3>1. pc[q] \in {"mark", "latest", "create"} => parent.exists
      BY <2>2 DEF Local, Identity
    <3> QED
      BY <1>5, <2>2, <3>1 DEF Local, Gate, Unfinished
  <2> QED
    BY <2>3, <2>4 DEF Local
<1>10. loc[p].run = R(p)
  BY DEF R
<1> QED
  BY <1>1, <1>2, <1>8, <1>9, <1>10, MoveKeeps

\* The parent document is created, or its expectedRuns raised.
LEMMA UpsertExperimentKeeps ==
  ASSUME IInv, NEW p \in Pipelines, UpsertExperiment(p)
  PROVE  IInv'
<1>1. TypeOK /\ ParentInv /\ Local(p) /\ parent \in ParentType /\ loc[p] \in LocType
  BY DEF IInv, TypeOK, Data
<1>2. pc[p] = "parent" /\ loc[p].expected = Planned
  BY <1>1 DEF UpsertExperiment, At, Local, Identity
<1>3. Hold(p, "adopt", loc[p]) /\ pc'[p] = "adopt" /\ loc'[p] = loc[p]
  BY <1>1 DEF UpsertExperiment, Goto, Hold, TypeOK
<1>4. /\ parent' \in ParentType /\ parent'.exists /\ parent'.expected = Planned
      /\ parent'.agent \in Agents /\ parent'.active <= Len(agg)
      /\ parent.exists => parent'.agent = parent.agent
  <2>1. CASE parent.exists
    <3>1. parent' = parent
      BY <1>1, <1>2, <2>1, CertAssumption DEF UpsertExperiment, ParentInv, ParentType
    <3> QED
      BY <1>1, <2>1, <3>1 DEF ParentInv, TypeOK
  <2>2. CASE ~parent.exists
    <3>1. parent' = [parent EXCEPT !.exists = TRUE, !.agent = loc[p].agent,
                                   !.expected = loc[p].expected]
      BY <2>2 DEF UpsertExperiment, Inserted
    <3> QED
      BY <1>1, <1>2, <2>2, <3>1, CertAssumption DEF ParentType, LocType, TypeOK
  <2> QED
    BY <2>1, <2>2
<1>5. ParentInv'
  BY <1>4 DEF ParentInv
<1>6. UNCHANGED <<wf, agg, active, certifier, bounds>>
  BY DEF UpsertExperiment
<1>7. "adopt" \in Labels /\ "adopt" \notin Holding /\ "adopt" \notin Owning
  BY DEF Labels, Starting, Bucketing, Aggregating, Holding, Owning
<1>8. Local(p)'
  BY <1>2, <1>3, <1>4, <1>7 DEF Local, Identity, Bucket, Gate, Owner
<1> QED
  BY <1>3, <1>4, <1>5, <1>6, <1>7, <1>8, ParentKeeps

\* Its status changes, and the active version to one that exists.
LEMMA ParentStatusKeeps ==
  ASSUME IInv, NEW p \in Pipelines,
         \/ ResetStatusIfCertified(p) \/ MarksInProgress(p) \/ AggregationNotStarted(p)
         \/ FinalizeExperimentCertificate(p) \/ AggregationFailed(p)
  PROVE  IInv'
<1>1. TypeOK /\ ParentInv /\ Local(p) /\ parent \in ParentType /\ loc[p] \in LocType
  BY DEF IInv, TypeOK, Data
<1> USE DEF Labels, Starting, Bucketing, Aggregating, Holding, Owning
<1>2. UNCHANGED <<wf, agg, active, certifier, bounds>>
  BY DEF ResetStatusIfCertified, MarksInProgress, AggregationNotStarted,
         FinalizeExperimentCertificate, AggregationFailed
<1>3. PICK label \in {"retry", "latest", "end", "aggregationFailed"} :
        /\ Goto(p, label)
        /\ \/ label = "retry" /\ pc[p] = "reset"
           \/ label = "latest" /\ pc[p] = "mark"
           \/ label = "end" /\ pc[p] \in {"aggregateFailed", "finalize"}
           \/ label = "aggregationFailed" /\ pc[p] = "aggregatePoll"
  BY DEF ResetStatusIfCertified, MarksInProgress, AggregationNotStarted,
         FinalizeExperimentCertificate, AggregationFailed, At
<1>4. Hold(p, label, loc[p]) /\ pc'[p] = label /\ loc'[p] = loc[p]
  BY <1>1, <1>3 DEF Goto, Hold, TypeOK
<1>5. parent.exists /\ loc[p].agent = parent.agent
  BY <1>1, <1>3 DEF Local, Identity
<1>6. FinalizeExperimentCertificate(p) => loc[p].version \in 0 .. Len(agg)
  BY <1>1 DEF Local, Owner, FinalizeExperimentCertificate, At
<1>7. /\ parent' \in ParentType /\ parent'.exists = parent.exists
      /\ parent'.agent = parent.agent /\ parent'.expected = parent.expected
      /\ parent'.active <= Len(agg)
  <2>1. CASE FinalizeExperimentCertificate(p)
    <3>1. Len(agg) \in Nat
      BY <1>1, LenProperties DEF TypeOK
    <3>2. loc[p].version \in Nat /\ loc[p].version <= Len(agg)
      BY <1>6, <2>1, <3>1
    <3>3. parent' = [parent EXCEPT !.status = "CERTIFICATE_READY", !.active = loc[p].version]
      BY <2>1 DEF FinalizeExperimentCertificate
    <3> QED
      BY <1>1, <3>1, <3>2, <3>3 DEF ParentType
  <2>2. CASE ~FinalizeExperimentCertificate(p)
    BY <1>1, <2>2
    DEF TypeOK, ParentType, SetStatus, ResetStatusIfCertified, MarksInProgress,
        AggregationNotStarted, AggregationFailed
  <2> QED
    BY <2>1, <2>2
<1>8. ParentInv'
  BY <1>1, <1>2, <1>7 DEF ParentInv
<1>9. Local(p)'
  <2>1. With(parent.agent, "COMPLETED")' = With(parent.agent, "COMPLETED")
    BY <1>2, <1>7 DEF With
  <2> QED
    BY <1>1, <1>2, <1>3, <1>4, <1>5, <1>7, <2>1
    DEF Local, Identity, Bucket, Gate, Owner, Key, R
<1> QED
  BY <1>1, <1>2, <1>3, <1>4, <1>5, <1>7, <1>8, <1>9, ParentKeeps

-----------------------------------------------------------------------------
(* Writes of a run's document, and of its bucketing task *)

\* A write of the run's document that keeps a success, and does not take the task
\* from under a pipeline that polls it.
LEMMA DocKeeps ==
  ASSUME IInv, UNCHANGED <<parent, agg, active, certifier, bounds>>,
         NEW p \in Pipelines, pc[p] \notin {"idle", "check", "parent", "adopt"},
         NEW doc \in WfType, SetDoc(p, doc.status, doc.task),
         Doc(p).status = "COMPLETED" => doc.status = "COMPLETED",
         doc.status = "none" => ~doc.task,
         doc.status = "COMPLETED" => doc.task /\ bucket[R(p)] = "completed",
         doc.status = "FAILED" /\ doc.task => bucket[R(p)] = "failed",
         \/ doc = Doc(p) \/ pc[p] \in Holding
         \/ ~doc.task /\ (Doc(p).task => bucket[R(p)] = "failed"),
         NEW label \in Labels, Hold(p, label, loc[p]),
         label \in Holding => pc[p] \in Holding,
         label \in Owning => pc[p] \in Owning,
         Local(p)'
  PROVE  IInv'
<1>1. TypeOK /\ Data /\ Local(p) /\ loc[p] \in LocType
  BY DEF IInv, TypeOK
<1>2. parent.exists /\ loc[p].agent = parent.agent /\ loc[p].agent \in Agents /\ R(p) \in Runs
  BY <1>1 DEF Local, Identity, LocType, R
<1>3. doc = [status |-> doc.status, task |-> doc.task]
  BY DEF WfType
<1>4. /\ wf' \in [Agents -> [Runs -> WfType]]
      /\ wf'[loc[p].agent][R(p)] = doc
      /\ \A a \in Agents, r \in Runs :
            ~(a = loc[p].agent /\ r = R(p)) => wf'[a][r] = wf[a][r]
  BY <1>1, <1>2, <1>3 DEF TypeOK, SetDoc
<1>5. TypeOK'
  BY <1>1, <1>4 DEF TypeOK, Hold, Labels, certifier, bounds
<1>6. \A a \in Agents, r \in Runs :
        wf[a][r].status = "COMPLETED" => wf'[a][r].status = "COMPLETED"
  BY <1>4 DEF Doc
<1>7. With(parent.agent, "COMPLETED") \subseteq With(parent.agent, "COMPLETED")'
  BY <1>2, <1>6 DEF With
<1>8. Data'
  <2>1. ParentInv' /\ OneAggregation'
    BY <1>1 DEF Data, ParentInv, OneAggregation, Unfinished
  <2>2. OneAgent'
    BY <1>1, <1>2, <1>4 DEF Data, OneAgent
  <2>3. DocsInv'
    BY <1>1, <1>2, <1>4 DEF Data, DocsInv, certifier
  <2>4. AggregatesEnough'
    BY <1>1, <1>7 DEF Data, AggregatesEnough
  <2> QED
    BY <2>1, <2>2, <2>3, <2>4 DEF Data
<1>9. \A q \in Pipelines \ {p} : Local(q)'
  <2>1. TAKE q \in Pipelines \ {p}
  <2>2. pc'[q] = pc[q] /\ loc'[q] = loc[q] /\ Local(q) /\ loc[q] \in LocType
    BY DEF IInv, TypeOK, Hold
  <2>3. Identity(q)' /\ Owner(q)'
    BY <2>2 DEF Local, Identity, Owner
  <2>4. Gate(q)'
    BY <1>7, <2>2 DEF Local, Gate, Unfinished
  <2>5. Bucket(q)'
    <3>1. CASE pc[q] \notin Holding
      BY <2>2, <3>1 DEF Bucket, Holding, Bucketing
    <3>2. CASE pc[q] \in Holding /\ R(q) # R(p)
      <4>1. loc[q].agent \in Agents /\ R(q) \in Runs
        BY <2>2 DEF LocType, R
      <4>2. Doc(q)' = Doc(q)
        BY <1>4, <2>2, <3>2, <4>1 DEF Doc, R
      <4> QED
        BY <2>2, <4>2 DEF Local, Bucket, Key, R, certifier
    <3>3. CASE pc[q] \in Holding /\ R(q) = R(p)
      <4>1. pc[p] \notin Holding
        BY <3>3 DEF IInv, Apart
      <4>2. loc[q].agent = loc[p].agent
        BY <1>2, <2>2, <3>3 DEF Local, Identity, Holding, Bucketing, Aggregating
      <4>3. Doc(q) = Doc(p) /\ Doc(q)' = doc
        BY <1>4, <2>2, <3>3, <4>2 DEF Doc, R
      <4> QED
        BY <2>2, <3>3, <4>1, <4>3 DEF Local, Bucket, Key, R, certifier
    <3> QED
      BY <3>1, <3>2, <3>3
  <2> QED
    BY <2>3, <2>4, <2>5 DEF Local
<1>10. loc[p].run = R(p)
  BY DEF R
<1> QED
  BY <1>1, <1>5, <1>8, <1>9, <1>10, MoveKeeps

\* The front door and the pipeline write the document.
LEMMA DocWritesKeep ==
  ASSUME IInv, NEW p \in Pipelines,
         \/ ResetFailedRunWorkflow(p) \/ UpsertRunWorkflowInitial(p)
         \/ BucketingSent(p) \/ BucketingNotSent(p) \/ PollBucketing(p)
  PROVE  IInv'
<1>1. TypeOK /\ Data /\ Local(p) /\ loc[p] \in LocType /\ pc[p] \in Labels
  BY DEF IInv, TypeOK, Labels
<1> USE DEF Labels, Starting, Bucketing, Aggregating, Holding, Owning
<1>2. UNCHANGED <<parent, agg, active, certifier, bounds>>
  BY DEF ResetFailedRunWorkflow, UpsertRunWorkflowInitial, BucketingSent, BucketingNotSent,
         PollBucketing
<1>3. pc[p] \in {"retry", "run", "sent", "sendFailed", "poll"}
  BY DEF ResetFailedRunWorkflow, UpsertRunWorkflowInitial, BucketingSent, BucketingNotSent,
         PollBucketing, At
<1>4. /\ loc[p].agent = parent.agent /\ parent.agent \in Agents /\ R(p) \in Runs
      /\ Doc(p) = wf[parent.agent][R(p)] /\ parent.exists
  BY <1>1, <1>3 DEF Local, Identity, Data, ParentInv, Doc, LocType, R
<1>5. /\ Doc(p) \in WfType
      /\ Doc(p).status = "none" => ~Doc(p).task
      /\ Doc(p).status = "COMPLETED" => Doc(p).task /\ bucket[R(p)] = "completed"
      /\ Doc(p).status = "FAILED" /\ Doc(p).task => bucket[R(p)] = "failed"
  BY <1>1, <1>4 DEF TypeOK, Data, DocsInv
<1>6. ASSUME UNCHANGED wf PROVE SetDoc(p, Doc(p).status, Doc(p).task)
  <2>1. Doc(p) = [status |-> Doc(p).status, task |-> Doc(p).task]
    BY <1>5 DEF WfType
  <2>2. wf = [wf EXCEPT ![loc[p].agent][R(p)] = Doc(p)]
    BY <1>1, <1>4 DEF TypeOK, Doc
  <2> QED
    BY <1>6, <2>1, <2>2 DEF SetDoc
<1>7. CASE ResetFailedRunWorkflow(p) \/ UpsertRunWorkflowInitial(p)
  <2>1. PICK label \in {"run", "acquire"} : Goto(p, label)
    BY <1>7 DEF ResetFailedRunWorkflow, UpsertRunWorkflowInitial
  <2>2. Hold(p, label, loc[p]) /\ pc'[p] = label /\ loc'[p] = loc[p]
        /\ pc[p] \notin {"idle", "check", "parent", "adopt"}
    BY <1>1, <1>3, <2>1 DEF Goto, Hold, TypeOK
  <2>3. Local(p)'
    BY <1>1, <1>2, <1>4, <2>1, <2>2 DEF Local, Identity, Bucket, Gate, Owner
  <2>4. CASE UNCHANGED wf
    BY <1>2, <1>5, <1>6, <2>1, <2>2, <2>3, <2>4, DocKeeps
  <2>5. CASE Doc(p).status \in {"none", "FAILED"} /\ SetDoc(p, "TRIGGERED", FALSE)
    <3> DEFINE doc == [status |-> "TRIGGERED", task |-> FALSE]
    <3>1. doc \in WfType /\ SetDoc(p, doc.status, doc.task)
          /\ doc.status = "TRIGGERED" /\ doc.task = FALSE
      BY <2>5 DEF WfType
    <3>2. Doc(p).task => bucket[R(p)] = "failed"
      BY <1>5, <2>5
    <3> HIDE DEF doc
    <3> QED
      BY <1>2, <2>1, <2>2, <2>3, <2>5, <3>1, <3>2, DocKeeps
  <2> QED
    BY <1>7, <2>4, <2>5 DEF ResetFailedRunWorkflow, UpsertRunWorkflowInitial
<1>8. CASE BucketingSent(p) \/ BucketingNotSent(p) \/ PollBucketing(p)
  <2>1. PICK label \in {"poll", "end", "gate"}, doc \in WfType :
          /\ Goto(p, label) /\ SetDoc(p, doc.status, doc.task)
          /\ pc[p] \in {"sent", "sendFailed", "poll"}
          /\ \/ label = "poll" /\ pc[p] = "sent" /\ doc.status = "RUNNING" /\ doc.task
             \/ label = "end" /\ pc[p] = "sendFailed" /\ doc.status = "FAILED" /\ ~doc.task
             \/ /\ label = "gate" /\ doc.task = Doc(p).task /\ pc[p] = "poll"
                /\ \/ doc.status = "COMPLETED" /\ bucket[R(p)] = "completed"
                   \/ doc.status = "FAILED" /\ bucket[R(p)] = "failed"
    <3>1. CASE BucketingSent(p)
      <4>1. [status |-> "RUNNING", task |-> TRUE] \in WfType
        BY DEF WfType
      <4> QED
        BY <3>1, <4>1 DEF BucketingSent, At
    <3>2. CASE BucketingNotSent(p)
      <4>1. [status |-> "FAILED", task |-> FALSE] \in WfType
        BY DEF WfType
      <4>2. Doc(p).task = FALSE
        BY <1>1, <1>5, <3>2 DEF BucketingNotSent, At, Local, Bucket, WfType
      <4> QED
        BY <3>2, <4>1, <4>2 DEF BucketingNotSent, At
    <3>3. CASE PollBucketing(p)
      <4>1. \A status \in {"COMPLETED", "FAILED"} :
              [status |-> status, task |-> Doc(p).task] \in WfType
        BY <1>5 DEF WfType
      <4>2. CASE bucket[R(p)] = "completed"
        BY <3>3, <4>1, <4>2 DEF PollBucketing, At
      <4>3. CASE bucket[R(p)] = "failed"
        BY <3>3, <4>1, <4>3 DEF PollBucketing, At
      <4> QED
        BY <3>3, <4>2, <4>3 DEF PollBucketing
    <3> QED
      BY <1>8, <3>1, <3>2, <3>3
  <2>2. Hold(p, label, loc[p]) /\ pc'[p] = label /\ loc'[p] = loc[p]
    BY <1>1, <2>1 DEF Goto, Hold, TypeOK
  <2>3. label = "poll" => Doc(p)'.task
    BY <1>1, <1>4, <2>1, <2>2 DEF SetDoc, Doc, R, TypeOK
  <2>4. Local(p)'
    BY <1>1, <1>2, <1>4, <2>1, <2>2, <2>3 DEF Local, Identity, Bucket, Gate, Owner, Key, R
  <2>5. doc.task = Doc(p).task /\ bucket[R(p)] = "completed" /\ pc[p] = "poll" => doc.task
    BY <1>1, <2>1 DEF Local, Bucket
  <2>6. Doc(p).status = "COMPLETED" => doc.status = "COMPLETED"
    BY <1>1, <1>5, <2>1 DEF Local, Bucket
  <2> QED
    BY <1>2, <2>1, <2>2, <2>4, <2>5, <2>6, DocKeeps
<1> QED
  BY <1>7, <1>8

\* The task of the run is started, or the call fails: the run has no other pipeline.
LEMMA SendsKeep ==
  ASSUME IInv, NEW p \in Pipelines, SendsBucketing(p) \/ SendFails(p)
  PROVE  IInv'
<1>1. TypeOK /\ Data /\ Local(p) /\ loc[p] \in LocType /\ pc[p] = "send" /\ R(p) \in Runs
  BY DEF IInv, TypeOK, SendsBucketing, SendFails, At, LocType, R
<1> USE DEF Labels, Starting, Bucketing, Aggregating, Holding, Owning
<1>2. UNCHANGED <<parent, wf, agg, active, cert>>
      /\ submitted' \subseteq Runs /\ calls' \in 0 .. MaxCalls /\ faults' \in 0 .. MaxFaults
  BY <1>1, CertAssumption DEF SendsBucketing, SendFails, Fault, bounds, TypeOK
<1>3. PICK label \in {"sent", "sendFailed"} : Goto(p, label)
  BY DEF SendsBucketing, SendFails
<1>4. Hold(p, label, loc[p]) /\ pc'[p] = label /\ loc'[p] = loc[p]
  BY <1>1, <1>3 DEF Goto, Hold, TypeOK
<1>5. bucket' \in [Runs -> TaskType] /\ \A r \in Runs \ {R(p)} : bucket'[r] = bucket[r]
  BY <1>1 DEF SendsBucketing, SendFails, TypeOK, TaskType
<1>6. TypeOK'
  BY <1>1, <1>2, <1>4, <1>5 DEF TypeOK, Hold
<1>7. /\ loc[p].agent = parent.agent /\ parent.agent \in Agents /\ parent.exists
      /\ ~Doc(p).task /\ Doc(p) = wf[parent.agent][R(p)]
  BY <1>1 DEF Local, Identity, Bucket, Data, ParentInv, Doc, LocType, R
<1>8. \A a \in Agents : wf[a][R(p)].status \notin {"COMPLETED"}
                        /\ ~(wf[a][R(p)].status = "FAILED" /\ wf[a][R(p)].task)
  BY <1>1, <1>7 DEF Data, OneAgent, DocsInv
<1>9. DocsInv'
  BY <1>1, <1>2, <1>5, <1>8 DEF Data, DocsInv
<1>10. Data'
  BY <1>1, <1>2, <1>9
  DEF Data, ParentInv, OneAgent, OneAggregation, Unfinished, AggregatesEnough, With
<1>11. Local(p)'
  BY <1>1, <1>2, <1>4, <1>7 DEF Local, Identity, Bucket, Gate, Owner, Key, R, Doc
<1>12. \A q \in Pipelines \ {p} : Local(q)'
  <2>1. TAKE q \in Pipelines \ {p}
  <2>2. pc'[q] = pc[q] /\ loc'[q] = loc[q] /\ Local(q) /\ loc[q] \in LocType
    BY <1>4 DEF IInv, TypeOK, Hold
  <2>3. pc[q] \in Holding => R(q) # R(p) /\ R(q) \in Runs
    BY <1>1, <2>2 DEF IInv, Apart, LocType, R
  <2>4. With(parent.agent, "COMPLETED")' = With(parent.agent, "COMPLETED")
    BY <1>2 DEF With
  <2>5. Identity(q)' /\ Gate(q)' /\ Owner(q)'
    BY <1>2, <2>2, <2>4 DEF Local, Identity, Gate, Owner, Unfinished
  <2>6. Bucket(q)'
    BY <1>2, <1>5, <2>2, <2>3 DEF Local, Bucket, Key, R, Doc
  <2> QED
    BY <2>5, <2>6 DEF Local
<1>13. loc[p].run = R(p)
  BY DEF R
<1> QED
  BY <1>1, <1>3, <1>4, <1>6, <1>10, <1>11, <1>12, <1>13, MoveKeeps

-----------------------------------------------------------------------------
(* The key of the run *)

\* What is known of a pipeline that a step of another leaves alone, if it leaves the
\* databases, the bucketing tasks and the pipeline's own key alone.
LEMMA OtherKeeps ==
  ASSUME UNCHANGED <<parent, wf, agg, bucket>>, NEW q \in Pipelines, Local(q),
         pc'[q] = pc[q], loc'[q] = loc[q],
         pc[q] \in Holding => Key(q) \in active'
  PROVE  Local(q)'
<1>1. With(parent.agent, "COMPLETED")' = With(parent.agent, "COMPLETED")
  BY DEF With
<1>2. Identity(q)' /\ Gate(q)' /\ Owner(q)'
  BY <1>1 DEF Local, Identity, Gate, Owner, Unfinished
<1>3. Bucket(q)'
  BY DEF Local, Bucket, Key, Doc, R
<1> QED
  BY <1>2, <1>3 DEF Local

LEMMA DataStays ==
  ASSUME Data, UNCHANGED <<parent, wf, agg, bucket>>
  PROVE  Data'
BY DEF Data, ParentInv, OneAgent, DocsInv, OneAggregation, Unfinished, AggregatesEnough, With

LEMMA TryAcquireKeeps ==
  ASSUME IInv, NEW p \in Pipelines, TryAcquire(p)
  PROVE  IInv'
<1>1. /\ TypeOK /\ Data /\ Local(p) /\ loc[p] \in LocType /\ pc[p] = "acquire"
      /\ UNCHANGED <<parent, wf, agg, bucket, cert, certifier, bounds>>
  BY DEF IInv, TypeOK, TryAcquire, At, certifier
<1> USE DEF Labels, Starting, Bucketing, Aggregating, Holding, Owning
<1>2. CASE CanAcquire(p)
  <2>1. active' = active \cup {Key(p)} /\ Goto(p, "trigger")
    BY <1>2 DEF TryAcquire
  <2>2. /\ pc'[p] = "trigger" /\ loc' = loc
        /\ \A q \in Pipelines \ {p} : pc'[q] = pc[q]
    BY <1>1, <2>1 DEF Goto, TypeOK
  <2>3. Key(p) \in Agents \X Runs
    BY <1>1 DEF Key, R, LocType
  <2>4. TypeOK'
    BY <1>1, <2>1, <2>2, <2>3 DEF TypeOK, Goto, bounds
  <2>5. Local(p)'
    BY <1>1, <2>1, <2>2 DEF Local, Identity, Bucket, Gate, Owner, Key, R
  <2>6. \A q \in Pipelines \ {p} : Local(q)'
    BY <1>1, <2>1, <2>2, OtherKeeps DEF IInv, Local, Bucket
  <2>7. \A q \in Pipelines \ {p} : pc[q] \in Holding => R(q) # R(p)
    <3>1. TAKE q \in Pipelines \ {p}
    <3>2. HAVE pc[q] \in Holding
    <3>3. Key(q) \in active /\ loc[q].agent = loc[p].agent
      BY <1>1, <3>2 DEF IInv, Local, Bucket, Identity
    <3> QED
      BY <1>2, <3>3 DEF CanAcquire, Key
  <2>8. Apart'
    BY <2>2, <2>7 DEF IInv, Apart, R
  <2> QED
    BY <1>1, <2>4, <2>5, <2>6, <2>8, DataStays DEF IInv
<1>3. CASE ~CanAcquire(p)
  <2>1. /\ UNCHANGED active
        /\ Hold(p, "idle", Nothing) /\ pc'[p] = "idle" /\ loc'[p] = Nothing
    BY <1>1, <1>3 DEF TryAcquire, Return, Hold, TypeOK
  <2>2. Local(p)'
    BY <2>1 DEF Local, Identity, Bucket, Gate, Owner
  <2> QED
    BY <1>1, <2>1, <2>2, NothingIsLoc, QuietKeeps DEF bounds, TypeOK
<1> QED
  BY <1>2, <1>3

LEMMA ReleaseKeeps ==
  ASSUME IInv, NEW p \in Pipelines, Release(p)
  PROVE  IInv'
<1>1. /\ TypeOK /\ Data /\ Local(p) /\ loc[p] \in LocType /\ pc[p] = "end"
      /\ UNCHANGED <<parent, wf, agg, bucket, cert, certifier, bounds>>
  BY DEF IInv, TypeOK, Release, At, certifier
<1> USE DEF Labels, Starting, Bucketing, Aggregating, Holding, Owning
<1>2. Hold(p, "idle", Nothing) /\ pc'[p] = "idle" /\ loc'[p] = Nothing
  BY <1>1 DEF Release, Return, Hold, TypeOK
<1>3. active' = active \ {Key(p)}
  BY DEF Release
<1>4. TypeOK'
  BY <1>1, <1>2, <1>3, NothingIsLoc DEF TypeOK, Hold, bounds
<1>5. Local(p)'
  BY <1>2 DEF Local, Identity, Bucket, Gate, Owner
<1>6. \A q \in Pipelines \ {p} : Local(q)'
  <2>1. TAKE q \in Pipelines \ {p}
  <2>2. pc'[q] = pc[q] /\ loc'[q] = loc[q] /\ Local(q)
    BY <1>2 DEF IInv, TypeOK, Hold
  <2>3. pc[q] \in Holding => Key(q) \in active /\ R(q) # R(p)
    BY <1>1, <2>2 DEF IInv, Apart, Local, Bucket
  <2>4. pc[q] \in Holding => Key(q) \in active'
    BY <1>3, <2>3 DEF Key
  <2> QED
    BY <1>1, <2>2, <2>4, OtherKeeps
<1> QED
  BY <1>1, <1>2, <1>4, <1>5, <1>6, DataStays, NothingIsLoc, MoveKeeps

-----------------------------------------------------------------------------
(* The aggregation *)

\* The certifier's aggregation task changes with a step of one pipeline.
LEMMA StartsAggregationKeeps ==
  ASSUME IInv, NEW p \in Pipelines, StartsAggregation(p) \/ AggregationRefused(p)
  PROVE  IInv'
<1>1. /\ TypeOK /\ Data /\ Local(p) /\ loc[p] \in LocType /\ pc[p] = "aggregate"
      /\ UNCHANGED <<parent, wf, agg, active, bucket>> /\ cert' \in TaskType
      /\ submitted' \subseteq Runs /\ calls' \in 0 .. MaxCalls /\ faults' \in 0 .. MaxFaults
  BY CertAssumption
  DEF IInv, TypeOK, StartsAggregation, AggregationRefused, At, Fault, bounds, TaskType
<1> USE DEF Labels, Starting, Bucketing, Aggregating, Holding, Owning
<1>2. PICK label \in {"aggregated", "refused"} : Goto(p, label)
  BY DEF StartsAggregation, AggregationRefused
<1>3. Hold(p, label, loc[p]) /\ pc'[p] = label /\ loc' = loc
      /\ \A q \in Pipelines \ {p} : pc'[q] = pc[q]
  BY <1>1, <1>2 DEF Goto, Hold, TypeOK
<1>4. TypeOK'
  BY <1>1, <1>2, <1>3 DEF TypeOK, Goto
<1>5. Local(p)'
  BY <1>1, <1>2, <1>3 DEF Local, Identity, Bucket, Gate, Owner, Key, R
<1>6. \A q \in Pipelines \ {p} : Local(q)'
  BY <1>1, <1>3, OtherKeeps DEF IInv, Local, Bucket
<1>7. loc[p].run = R(p)
  BY DEF R
<1> QED
  BY <1>1, <1>2, <1>3, <1>4, <1>5, <1>6, <1>7, DataStays, MoveKeeps

\* The owner of an aggregation records how it stands.
LEMMA AggKeeps ==
  ASSUME IInv, NEW p \in Pipelines,
         RecordsRefusal(p) \/ AggregationAccepted(p) \/ AggregationCompleted(p) \/ RecordsFailure(p)
  PROVE  IInv'
<1>1. /\ TypeOK /\ Data /\ Local(p) /\ loc[p] \in LocType /\ pc[p] \in Labels
      /\ UNCHANGED <<parent, wf, active, bucket, cert, certifier, bounds>>
  BY DEF IInv, TypeOK, Labels, certifier, RecordsRefusal, AggregationAccepted,
         AggregationCompleted, RecordsFailure
<1> USE DEF Labels, Starting, Bucketing, Aggregating, Holding, Owning
<1>2. PICK label \in {"aggregateFailed", "aggregatePoll", "finalize", "end"},
           status \in {"FAILED", "RUNNING", "COMPLETED"} :
        /\ Goto(p, label) /\ SetAgg(p, status) /\ pc[p] \in Owning
        /\ status = "RUNNING" => pc[p] = "aggregated"
  BY DEF RecordsRefusal, AggregationAccepted, AggregationCompleted, RecordsFailure, At
<1>3. Hold(p, label, loc[p]) /\ pc'[p] = label /\ loc' = loc
      /\ \A q \in Pipelines \ {p} : pc'[q] = pc[q]
  BY <1>1, <1>2 DEF Goto, Hold, TypeOK
<1> DEFINE w == loc[p].version
<1>4. /\ w \in 1 .. Len(agg) /\ agg[w] \in AggType
      /\ status = "RUNNING" => Unfinished(w)
  BY <1>1, <1>2, ElementOfSeq DEF Local, Owner, Unfinished, TypeOK
<1> DEFINE new == [agg[w] EXCEPT !.status = status]
<1>5. new \in AggType /\ new.status = status /\ new.runs = agg[w].runs
  BY <1>4 DEF AggType
<1>6. agg' = [agg EXCEPT ![w] = new]
  BY <1>2 DEF SetAgg
<1> HIDE DEF new, w
<1>7. /\ agg' \in Seq(AggType) /\ Len(agg') = Len(agg)
      /\ \A v \in 1 .. Len(agg) : agg'[v] = IF v = w THEN new ELSE agg[v]
  BY <1>1, <1>4, <1>5, <1>6, ExceptSeq DEF TypeOK
<1>8. \A v \in 1 .. Len(agg) : /\ Unfinished(v)' => Unfinished(v)
                               /\ agg'[v].runs = agg[v].runs
  BY <1>4, <1>5, <1>7 DEF Unfinished
<1>9. TypeOK'
  BY <1>1, <1>2, <1>3, <1>7 DEF TypeOK, Goto, bounds
<1>10. Data'
  <2>1. ParentInv'
    <3>1. agg = <<>> => agg' = <<>>
      BY <1>1, <1>7, EmptySeq DEF TypeOK
    <3> QED
      BY <1>1, <3>1 DEF Data, ParentInv
  <2>2. OneAgent' /\ DocsInv'
    BY <1>1 DEF Data, OneAgent, DocsInv
  <2>3. OneAggregation'
    BY <1>1, <1>7, <1>8 DEF Data, OneAggregation
  <2>4. AggregatesEnough'
    BY <1>1, <1>7, <1>8 DEF Data, AggregatesEnough, With
  <2> QED
    BY <2>1, <2>2, <2>3, <2>4 DEF Data
<1>11. \A q \in Pipelines : Identity(q)' /\ Bucket(q)' /\ Gate(q)'
  <2>1. TAKE q \in Pipelines
  <2>2. Local(q) /\ loc'[q] = loc[q]
    BY <1>3 DEF IInv
  <2>3. pc'[q] = pc[q] \/ (q = p /\ pc'[q] \in {"aggregateFailed", "aggregatePoll", "finalize", "end"})
    BY <1>2, <1>3
  <2>4. With(parent.agent, "COMPLETED")' = With(parent.agent, "COMPLETED")
    BY <1>1 DEF With
  <2>5. Gate(q)'
    BY <1>1, <1>7, <1>8, <2>2, <2>3, <2>4 DEF Local, Gate
  <2>6. Identity(q)' /\ Bucket(q)'
    BY <1>1, <1>2, <2>2, <2>3 DEF Local, Identity, Bucket, Key, R, Doc
  <2> QED
    BY <2>5, <2>6
<1>12. Owner(p)'
  BY <1>1, <1>2, <1>3, <1>7 DEF Local, Owner
<1>13. \A q \in Pipelines \ {p} : Owner(q)'
  <2>1. TAKE q \in Pipelines \ {p}
  <2>2. Local(q) /\ loc'[q] = loc[q] /\ pc'[q] = pc[q]
    BY <1>3 DEF IInv
  <2>3. pc[q] \in Owning => loc[q].version # w /\ loc[q].version \in 1 .. Len(agg)
    BY <1>2, <2>2 DEF IInv, Apart, Local, Owner, w
  <2> QED
    BY <1>7, <2>2, <2>3 DEF Local, Owner
<1>14. \A q \in Pipelines : Local(q)'
  BY <1>11, <1>12, <1>13 DEF Local
<1>15. loc[p].run = R(p)
  BY DEF R
<1> QED
  BY <1>1, <1>2, <1>3, <1>9, <1>10, <1>14, <1>15, MoveKeeps

\* The next aggregation is created, or was by another pipeline.
LEMMA CreateKeeps ==
  ASSUME IInv, NEW p \in Pipelines, CreateAggregationWorkflow(p)
  PROVE  IInv'
<1>1. /\ TypeOK /\ Data /\ Local(p) /\ loc[p] \in LocType /\ pc[p] = "create"
      /\ UNCHANGED <<parent, wf, active, bucket, cert, certifier, bounds>>
  BY DEF IInv, TypeOK, certifier, CreateAggregationWorkflow, At
<1> USE DEF Labels, Starting, Bucketing, Aggregating, Holding, Owning
<1>2. CASE loc[p].version <= Len(agg)
  <2>1. /\ UNCHANGED agg
        /\ Hold(p, "end", loc[p]) /\ pc'[p] = "end" /\ loc'[p] = loc[p]
    BY <1>1, <1>2 DEF CreateAggregationWorkflow, Goto, Hold, TypeOK
  <2>2. Local(p)'
    BY <1>1, <2>1 DEF Local, Identity, Bucket, Gate, Owner, Key, R
  <2> QED
    BY <1>1, <2>1, <2>2, QuietKeeps DEF bounds, TypeOK, R
<1>3. CASE ~(loc[p].version <= Len(agg))
  <2> DEFINE new == [status |-> "TRIGGERED", runs |-> loc[p].runs]
  <2> DEFINE n == Len(agg)
  <2>1. agg' = Append(agg, new) /\ Goto(p, "aggregate")
    BY <1>3 DEF CreateAggregationWorkflow
  <2>2. new \in AggType /\ new.status = "TRIGGERED" /\ new.runs = loc[p].runs
    BY <1>1 DEF AggType, LocType
  <2>3. n \in Nat /\ loc[p].version = n + 1 /\ \A v \in 1 .. n : ~Unfinished(v)
    <3>1. n \in Nat
      BY <1>1, LenProperties DEF TypeOK
    <3>2. loc[p].version \in 1 .. n + 1 /\ \A v \in 1 .. n : v < loc[p].version => ~Unfinished(v)
      BY <1>1 DEF Local, Gate
    <3> QED
      BY <1>3, <3>1, <3>2
  <2>4. /\ Cardinality(new.runs) >= Planned
        /\ new.runs \subseteq With(parent.agent, "COMPLETED")
        /\ parent.exists
    BY <1>1, <2>2 DEF Local, Gate, Identity
  <2> HIDE DEF new, n
  <2>5. /\ agg' \in Seq(AggType) /\ Len(agg') = n + 1
        /\ \A v \in 1 .. n : agg'[v] = agg[v]
        /\ agg'[n + 1] = new
    BY <1>1, <2>1, <2>2, AppendProperties DEF TypeOK, n
  <2>6. /\ pc'[p] = "aggregate" /\ loc' = loc
        /\ \A q \in Pipelines \ {p} : pc'[q] = pc[q]
    BY <1>1, <2>1 DEF Goto, TypeOK
  <2>7. TypeOK'
    BY <1>1, <2>1, <2>3, <2>5, <2>6 DEF TypeOK, Goto, bounds, ParentType, n
  <2>8. Data'
    <3>1. ParentInv' /\ OneAgent' /\ DocsInv'
      BY <1>1, <2>4 DEF Data, ParentInv, OneAgent, DocsInv
    <3>2. OneAggregation'
      BY <2>3, <2>5 DEF OneAggregation, Unfinished
    <3>3. AggregatesEnough'
      BY <1>1, <2>3, <2>4, <2>5 DEF Data, AggregatesEnough, With, n
    <3> QED
      BY <3>1, <3>2, <3>3 DEF Data
  <2>9. Local(p)'
    BY <1>1, <2>2, <2>3, <2>5, <2>6 DEF Local, Identity, Bucket, Gate, Owner, Key, R
  <2>10. \A q \in Pipelines \ {p} : Local(q)'
    <3>1. TAKE q \in Pipelines \ {p}
    <3>2. Local(q) /\ loc'[q] = loc[q] /\ pc'[q] = pc[q] /\ loc[q] \in LocType
      BY <2>6 DEF IInv, TypeOK
    <3>3. With(parent.agent, "COMPLETED")' = With(parent.agent, "COMPLETED")
      BY <1>1 DEF With
    <3>4. Gate(q)'
      BY <2>3, <2>5, <3>2, <3>3 DEF Local, Gate, Unfinished, n
    <3>5. Owner(q)'
      BY <2>3, <2>5, <3>2 DEF Local, Owner, n
    <3>6. Identity(q)' /\ Bucket(q)'
      BY <1>1, <3>2 DEF Local, Identity, Bucket, Key, R, Doc
    <3> QED
      BY <3>4, <3>5, <3>6 DEF Local
  <2>11. Apart'
    <3>1. \A q \in Pipelines : pc[q] \in Owning => loc[q].version \in 1 .. n
      BY DEF IInv, Local, Owner, n
    <3> QED
      BY <1>1, <2>3, <2>6, <3>1 DEF IInv, Apart, R
  <2> QED
    BY <2>7, <2>8, <2>9, <2>10, <2>11 DEF IInv
<1> QED
  BY <1>2, <1>3

-----------------------------------------------------------------------------
(* The certifier, and restarts *)

LEMMA CertifierKeeps ==
  ASSUME IInv, (\E r \in Runs : BucketingEnds(r)) \/ AggregationEnds
  PROVE  IInv'
<1>1. /\ TypeOK /\ Data /\ UNCHANGED <<parent, wf, agg, active, pc, loc>>
      /\ submitted' \subseteq Runs /\ calls' \in 0 .. MaxCalls /\ faults' \in 0 .. MaxFaults
  BY CertAssumption DEF IInv, TypeOK, BucketingEnds, AggregationEnds, Fault, bounds
<1>2. /\ bucket' \in [Runs -> TaskType] /\ cert' \in TaskType
      /\ \A r \in Runs : bucket[r] # "running" => bucket'[r] = bucket[r]
  BY <1>1 DEF TypeOK, BucketingEnds, AggregationEnds, TaskType
<1>3. TypeOK'
  BY <1>1, <1>2 DEF TypeOK
<1>4. Data'
  <2>1. DocsInv'
    BY <1>1, <1>2 DEF Data, DocsInv
  <2> QED
    BY <1>1, <2>1
    DEF Data, ParentInv, OneAgent, OneAggregation, Unfinished, AggregatesEnough, With
<1>5. \A p \in Pipelines : Local(p)'
  <2>1. TAKE p \in Pipelines
  <2>2. Local(p) /\ R(p) \in Runs
    BY DEF IInv, TypeOK, LocType, R
  <2>3. Bucket(p)'
    BY <1>1, <1>2, <2>2 DEF Local, Bucket, Key, Doc, R
  <2>4. With(parent.agent, "COMPLETED")' = With(parent.agent, "COMPLETED")
    BY <1>1 DEF With
  <2>5. Identity(p)' /\ Gate(p)' /\ Owner(p)'
    BY <1>1, <2>2, <2>4 DEF Local, Identity, Gate, Owner, Unfinished
  <2> QED
    BY <2>3, <2>5 DEF Local
<1>6. Apart'
  BY <1>1 DEF IInv, Apart, R
<1> QED
  BY <1>3, <1>4, <1>5, <1>6 DEF IInv

LEMMA RestartKeeps ==
  ASSUME IInv, ServerRestarts
  PROVE  IInv'
<1>1. /\ TypeOK /\ Data /\ UNCHANGED <<parent, wf, agg, bucket, cert>> /\ active' = {}
      /\ \A p \in Pipelines : pc'[p] = "idle" /\ loc'[p] = Nothing
      /\ pc' = [p \in Pipelines |-> "idle"] /\ loc' = [p \in Pipelines |-> Nothing]
  BY DEF IInv, ServerRestarts, certifier
<1>2. submitted' \subseteq Runs /\ calls' \in 0 .. MaxCalls /\ faults' \in 0 .. MaxFaults
  BY <1>1, CertAssumption DEF TypeOK, ServerRestarts, Fault
<1>3. TypeOK'
  BY <1>1, <1>2, NothingIsLoc DEF TypeOK
<1>4. \A p \in Pipelines : Local(p)'
  BY <1>1 DEF Local, Identity, Bucket, Gate, Owner, Holding, Bucketing, Aggregating, Owning
<1>5. Apart'
  BY <1>1 DEF Apart, Holding, Bucketing, Aggregating, Owning
<1> QED
  BY <1>1, <1>3, <1>4, <1>5, DataStays DEF IInv

-----------------------------------------------------------------------------
(* The invariant *)

\* Nothing has been submitted in the initial state.
LEMMA InitIInv == Init => IInv
<1> SUFFICES ASSUME Init PROVE IInv
  OBVIOUS
<1>1. TypeOK
  <2>1. agg \in Seq(AggType) /\ Len(agg) = 0
    BY EmptySeq DEF Init
  <2> QED
    BY <2>1, NothingIsLoc, CertAssumption
    DEF Init, TypeOK, ParentType, WfType, TaskType
<1>2. Data
  <2>1. Len(agg) = 0
    BY EmptySeq DEF Init
  <2> QED
    BY <2>1, CertAssumption
    DEF Init, Data, ParentInv, OneAgent, DocsInv, OneAggregation, AggregatesEnough
<1>3. \A p \in Pipelines : Local(p)
  BY DEF Init, Local, Identity, Bucket, Gate, Owner, Holding, Bucketing, Aggregating, Owning
<1>4. Apart
  BY DEF Init, Apart, Holding, Bucketing, Aggregating, Owning
<1> QED
  BY <1>1, <1>2, <1>3, <1>4 DEF IInv

\* Every step keeps the invariant.
LEMMA NextIInv == IInv /\ [Next]_vars => IInv'
<1> SUFFICES ASSUME IInv, [Next]_vars PROVE IInv'
  OBVIOUS
<1>1. ASSUME NEW p \in Pipelines, Starts(p) PROVE IInv'
  BY <1>1, ReadsKeep, UpsertExperimentKeeps, ParentStatusKeeps, DocWritesKeep, TryAcquireKeeps
  DEF Starts
<1>2. ASSUME NEW p \in Pipelines, Buckets(p) PROVE IInv'
  BY <1>2, ReadsKeep, SendsKeep, DocWritesKeep DEF Buckets
<1>3. ASSUME NEW p \in Pipelines, Gates(p) PROVE IInv'
  BY <1>3, ReadsKeep, ParentStatusKeeps, CreateKeeps DEF Gates
<1>4. ASSUME NEW p \in Pipelines, Aggregates(p) PROVE IInv'
  BY <1>4, StartsAggregationKeeps, AggKeeps, ParentStatusKeeps DEF Aggregates
<1>5. ASSUME NEW p \in Pipelines, Trouble(p) PROVE IInv'
  BY <1>5, SendsKeep, ReadsKeep, StartsAggregationKeeps, StoreFailsKeeps DEF Trouble
<1>6. ASSUME UNCHANGED vars PROVE IInv'
  <2>1. UNCHANGED <<parent, wf, agg, active, certifier, bucket, cert, pc, loc, bounds,
                    submitted, calls, faults>>
    BY <1>6 DEF vars, certifier, bounds
  <2>2. TypeOK' /\ Data' /\ Apart'
    BY <2>1, DataStays DEF IInv, TypeOK, Apart, R
  <2>3. \A p \in Pipelines : Local(p)'
    BY <2>1, OtherKeeps DEF IInv, Local, Bucket
  <2> QED
    BY <2>2, <2>3 DEF IInv
<1> QED
  BY <1>1, <1>2, <1>3, <1>4, <1>5, <1>6, ReleaseKeeps, RequestKeeps, CertifierKeeps, RestartKeeps
  DEF Next, Step

\* The invariant in every reachable state.
LEMMA InvariantHolds == Spec => []IInv
BY InitIInv, NextIInv, PTL DEF Spec

-----------------------------------------------------------------------------
(* The theorems *)

\* Every value keeps its type, and the active certificate is of an aggregation that
\* exists (the documents of the three collections, the goroutines of runPipeline).
THEOREM Typing == Spec => []TypeOK
<1>1. IInv => TypeOK
  BY DEF IInv
<1> QED
  BY <1>1, InvariantHolds, PTL

\* All runs of an experiment are kept under one agent, whatever agents the callers of
\* StartCertificationGeneration name and however their first calls interleave.
THEOREM OneAgentHolds == Spec => []OneAgent
<1>1. IInv => OneAgent
  BY DEF IInv, Data
<1> QED
  BY <1>1, InvariantHolds, PTL

\* Pipelines that pass the gate together never start two aggregations: the unique
\* index on the version lets one create it, and whoever read the version before saw
\* the latest one ended.
THEOREM OneAggregationHolds == Spec => []OneAggregation
<1>1. IInv => OneAggregation
  BY DEF IInv, Data
<1> QED
  BY <1>1, InvariantHolds, PTL

\* An aggregation is of at least the planned number of runs, whose bucketing succeeded
\* and is never taken back.
THEOREM AggregatesEnoughHolds == Spec => []AggregatesEnough
<1>1. IInv => AggregatesEnough
  BY DEF IInv, Data
<1> QED
  BY <1>1, InvariantHolds, PTL

\* The document a pipeline writes after its bucketing was not COMPLETED, or stays so.
LEMMA SuccessStays ==
  ASSUME IInv, [Next]_vars, NEW a \in Agents, NEW r \in Runs, wf[a][r].status = "COMPLETED"
  PROVE  wf'[a][r].status = "COMPLETED"
<1>1. CASE UNCHANGED wf
  BY <1>1
<1>2. ASSUME NEW p \in Pipelines,
             \/ ResetFailedRunWorkflow(p) \/ UpsertRunWorkflowInitial(p)
             \/ BucketingSent(p) \/ BucketingNotSent(p) \/ PollBucketing(p)
      PROVE  wf'[a][r].status = "COMPLETED"
  <2>1. /\ wf \in [Agents -> [Runs -> WfType]] /\ Local(p)
        /\ loc[p].agent \in Agents /\ R(p) \in Runs
    BY DEF IInv, TypeOK, LocType, R
  <2>2. wf[a][r].task = TRUE /\ bucket[r] = "completed"
    BY <2>1 DEF IInv, Data, DocsInv, WfType
  <2>3. CASE a = loc[p].agent /\ r = R(p)
    <3>1. Doc(p) = wf[a][r]
      BY <2>3 DEF Doc
    <3>2. ~ResetFailedRunWorkflow(p) /\ ~UpsertRunWorkflowInitial(p) => PollBucketing(p)
      BY <1>2, <2>1, <2>2, <3>1 DEF BucketingSent, BucketingNotSent, At, Local, Bucket
    <3>3. CASE PollBucketing(p)
      BY <2>1, <2>2, <2>3, <3>3 DEF PollBucketing, SetDoc
    <3>4. CASE ResetFailedRunWorkflow(p) \/ UpsertRunWorkflowInitial(p)
      BY <3>1, <3>4 DEF ResetFailedRunWorkflow, UpsertRunWorkflowInitial
    <3> QED
      BY <3>2, <3>3, <3>4
  <2>4. CASE ~(a = loc[p].agent /\ r = R(p))
    BY <1>2, <2>1, <2>4
    DEF ResetFailedRunWorkflow, UpsertRunWorkflowInitial, BucketingSent, BucketingNotSent,
        PollBucketing, SetDoc
  <2> QED
    BY <2>3, <2>4
<1>3. ASSUME NEW p \in Pipelines, Trouble(p) PROVE UNCHANGED wf
  BY <1>3 DEF Trouble, SendFails, PollGivesUp, AggregationRefused, AggregationGivesUp, StoreFails
<1>4. ASSUME NEW p \in Pipelines, Step(p)
      PROVE  \/ UNCHANGED wf
             \/ ResetFailedRunWorkflow(p) \/ UpsertRunWorkflowInitial(p)
             \/ BucketingSent(p) \/ BucketingNotSent(p) \/ PollBucketing(p)
  <2>1. Starts(p) => \/ UNCHANGED wf
                     \/ ResetFailedRunWorkflow(p) \/ UpsertRunWorkflowInitial(p)
    BY DEF Starts, ChecksRun, UpsertExperiment, AdoptsAgain, ResetStatusIfCertified, TryAcquire
  <2>2. Buckets(p) => \/ UNCHANGED wf
                      \/ BucketingSent(p) \/ BucketingNotSent(p) \/ PollBucketing(p)
    BY DEF Buckets, TriggerBucketing, SendsBucketing
  <2>3. Gates(p) \/ Aggregates(p) \/ Release(p) => UNCHANGED wf
    BY DEF Gates, Aggregates, Release, GateReadsParent, EvaluateGate, MarksInProgress,
           ReadsLatest, CreateAggregationWorkflow, StartsAggregation, RecordsRefusal,
           AggregationNotStarted, AggregationAccepted, AggregationCompleted,
           FinalizeExperimentCertificate, AggregationFailed, RecordsFailure
  <2> QED
    BY <1>4, <2>1, <2>2, <2>3 DEF Step
<1> QED
  BY <1>1, <1>2, <1>3, <1>4
  DEF Next, vars, CertificationRequested, BucketingEnds, AggregationEnds, ServerRestarts

\* Bucketing that succeeded is final, although no write of a run's document is guarded
\* by its status: a document whose bucketing succeeded has a task, and no pipeline
\* starts a task for a document that has one.
THEOREM SuccessIsFinal == Spec => CompletedIsFinal
<1>1. IInv /\ [Next]_vars =>
        [\A a \in Agents, r \in Runs :
            wf[a][r].status = "COMPLETED" => wf'[a][r].status = "COMPLETED"]_vars
  BY SuccessStays
<1> QED
  BY <1>1, InvariantHolds, PTL DEF Spec, CompletedIsFinal
==============================================================================
