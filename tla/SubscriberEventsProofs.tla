----------------------- MODULE SubscriberEventsProofs -----------------------
(***************************************************************************)
(* Proofs about SubscriberEvents, for any number of workflows and fault    *)
(* steps, any capacity of the stream, and any restarts and failed sends.   *)
(*                                                                         *)
(* What the server is told of a fault at the end of its workflow is what   *)
(* the terminal event says of its engine or, when the engine was gone by   *)
(* then, the last the subscriber has heard of it.  What is heard of one    *)
(* fault is a history: entry 0 is eventMap, the others are the events of   *)
(* the workflow in the stream.  The invariant says of this history that it *)
(* does not end, once the engine is gone, in what was heard before the     *)
(* operator picked the engine up, and that it ends in a pass that was      *)
(* given.                                                                  *)
(***************************************************************************)
EXTENDS SubscriberEvents, FiniteSetTheorems, SequenceTheorems, TLAPS

Over(phase) == phase \in {"Succeeded", "Failed"}

-----------------------------------------------------------------------------
(* The cluster *)

WorkflowInv(w) ==
    /\ wf[w].phase \in Ended => AllEnded(w)
    /\ wf[w].phase = "Succeeded" => ~wf[w].shutdown /\ \A f \in Faults : wf[w].nodes[f] = "Succeeded"
    /\ wf[w].phase = "none" => wf[w].nodes = NoNodes

EngineInv(w, f) ==
    LET e == engine[w][f]
        n == wf[w].nodes[f]
    IN  /\ e.stage # "none" => n \in {"Running", "Succeeded", "Failed"}
        /\ e.stage \in {"none", "created", "running"} => e.verdict = ""
        /\ e.stage \in {"judged", "completed"} => e.verdict \in Verdicts
        /\ e.stage = "gone" => Over(n)
        /\ n = "Succeeded" => e.stage \in {"completed", "gone"}
        /\ "operator" \in Timely /\ e.stage = "created" => n = "Running"

\* An ended workflow does not change, and no stop is taken back.
VersionInv(v) ==
    /\ v.obj.phase \in Ended => wf[v.of].phase = v.obj.phase /\ wf[v.of].nodes = v.obj.nodes
    /\ v.obj.shutdown => wf[v.of].shutdown

Cluster ==
    /\ \A w \in Workflows : WorkflowInv(w) /\ \A f \in Faults : EngineInv(w, f)
    /\ \A i \in 1 .. Len(inbox) : VersionInv(inbox[i])

-----------------------------------------------------------------------------
(* Events *)

\* What an event, or eventMap, has of a fault's engine.
NodeInv(w, f, n) ==
    /\ n.data = NoData \/ n.data.verdict # "none"
    /\ n.data.verdict = "Pass" => /\ engine[w][f].verdict = "Pass"
                                  /\ n.phase \in {"Running", "Completed", "Stopped"}
    /\ engine[w][f].stage = "none" => n.data = NoData

\* An event that says how its workflow ended.
Final(e) == e.finished /\ e.phase # "Stopped"

FinalInv(e) ==
    /\ wf[e.of].phase \in Ended
    /\ wf[e.of].phase = "Succeeded" => e.phase = "Completed"
    /\ \A f \in Faults :
          /\ wf[e.of].nodes[f] # "none" => e.nodes[f] # Absent
          /\ e.nodes[f].data = NoData => engine[e.of][f].stage \in {"none", "gone"}
          /\ "operator" \in Timely => e.nodes[f].data.verdict # ""
          /\ wf[e.of].phase = "Succeeded" /\ engine[e.of][f].verdict = "Pass" =>
                e.nodes[f].data = NoData \/ e.nodes[f].data.verdict = "Pass"

EventInv(e) ==
    /\ e.finished => wf[e.of].shutdown \/ wf[e.of].phase \in Ended
    /\ e.phase = "Stopped" => wf[e.of].shutdown
    /\ Final(e) => FinalInv(e)
    /\ \A f \in Faults : NodeInv(e.of, f, e.nodes[f])

\* When the terminal event found no engine, no later event finds one.
Silent ==
    \A i, j \in 1 .. Len(stream) : i < j /\ stream[i].of = stream[j].of /\ Final(stream[i]) =>
        \A f \in Faults : stream[i].nodes[f].data = NoData => stream[j].nodes[f].data = NoData

Events ==
    /\ \A i \in 1 .. Len(stream) : EventInv(stream[i])
    /\ \A w \in Workflows, f \in Faults : NodeInv(w, f, eventMap[w][f])
    /\ Silent

-----------------------------------------------------------------------------
(* What was heard of a fault *)

Entries(w) == {0} \cup {i \in 1 .. Len(stream) : stream[i].of = w}
Heard(w, f, i) == IF i = 0 THEN eventMap[w][f].data ELSE stream[i].nodes[f].data

\* The operator had not picked the engine up.
Blank(d) == d.verdict = ""

BlankOver(w, f) ==
    \A i \in Entries(w) : Blank(Heard(w, f, i)) =>
        \E j \in Entries(w) : j > i /\ Heard(w, f, j) # NoData /\ ~Blank(Heard(w, f, j))

PassKnown(w, f) ==
    \E i \in Entries(w) :
        /\ Heard(w, f, i).verdict = "Pass"
        /\ \A j \in Entries(w) : j > i => Heard(w, f, j) = NoData \/ Heard(w, f, j).verdict = "Pass"

Unheard(w, f) == \E i \in 1 .. Len(inbox) : inbox[i].of = w /\ Over(inbox[i].obj.nodes[f])

BlankInv(w, f) ==
    Over(wf[w].nodes[f]) /\ engine[w][f].stage # "none" =>
        BlankOver(w, f) \/ (engine[w][f].stage # "gone" /\ Unheard(w, f))

PassInv(w, f) ==
    /\ w \notin lost \cup forgotten /\ ~server[w].completed
    /\ wf[w].nodes[f] = "Succeeded" /\ engine[w][f].verdict = "Pass"
    => PassKnown(w, f) \/ (engine[w][f].stage # "gone" /\ Unheard(w, f))

History ==
    \A w \in Workflows, f \in Faults : /\ {"revert", "operator"} \subseteq Timely => BlankInv(w, f)
                                       /\ "revert" \in Timely => PassInv(w, f)

-----------------------------------------------------------------------------
(* The server *)

Started(w) == {f \in Faults : wf[w].nodes[f] # "none"}

ServerInv(w) ==
    /\ server[w].completed => wf[w].shutdown \/ wf[w].phase \in Ended
    /\ {"revert", "operator"} \subseteq Timely /\ Faults # {}
       /\ server[w].completed /\ server[w].phase = "Completed" =>
          /\ wf[w].phase \in Ended
          /\ Started(w) # {} /\ \A f \in Started(w) : engine[w][f].verdict = "Pass"
    /\ "revert" \in Timely /\ w \notin lost \cup forgotten /\ server[w].completed
       /\ wf[w].phase = "Succeeded" /\ (\A f \in Faults : engine[w][f].verdict = "Pass")
       => server[w].phase = "Completed"

Shown == \A w \in Workflows : ServerInv(w)

IInv == TypeOK /\ Cluster /\ Events /\ History /\ Shown /\ EndIsUnderWay

-----------------------------------------------------------------------------
(* Steps of the cluster *)

VersionType == [of : Workflows, old : [Faults -> NodePhases], obj : WorkflowType]

LEMMA Types ==
  ASSUME TypeOK
  PROVE  /\ inbox \in Seq(VersionType) /\ stream \in Seq(EventType)
         /\ Len(inbox) \in Nat /\ Len(stream) \in Nat
         /\ \A i \in 1 .. Len(inbox) : inbox[i] \in VersionType
         /\ \A i \in 1 .. Len(stream) : stream[i] \in EventType
<1>1. inbox \in Seq(VersionType) /\ stream \in Seq(EventType)
  BY DEF TypeOK, VersionType
<1> QED
  BY <1>1, LenProperties, ElementOfSeq

\* What every step of the cluster leaves true of workflows and engines.
Onward ==
    \A w \in Workflows :
        /\ wf[w].phase \in Ended => wf'[w] = wf[w]
        /\ wf[w].shutdown => wf'[w].shutdown
        /\ \A f \in Faults :
              /\ engine[w][f].verdict = "Pass" => engine'[w][f].verdict = "Pass"
              /\ engine[w][f].stage \in {"completed", "gone"} =>
                    engine'[w][f].verdict = engine[w][f].verdict
              /\ engine'[w][f].stage = "none" => engine[w][f].stage = "none"
              /\ wf[w].phase \in Ended /\ engine[w][f].stage \in {"none", "gone"} =>
                    engine'[w][f].stage \in {"none", "gone"}

\* The informer has nothing less to hand over.
Grows == Len(inbox') >= Len(inbox) /\ \A i \in 1 .. Len(inbox) : inbox'[i] = inbox[i]

\* A fault step that is over was so before, or its end is yet to be handed over; no engine
\* is reverted before that.
HeardOf(w, f) ==
    /\ Over(wf'[w].nodes[f]) /\ engine'[w][f].stage # "none" =>
          \/ wf'[w].nodes[f] = wf[w].nodes[f] /\ engine[w][f].stage # "none"
          \/ engine'[w][f].stage # "gone" /\ Unheard(w, f)'
    /\ wf'[w].nodes[f] = "Succeeded" /\ engine'[w][f].verdict = "Pass" =>
          \/ wf[w].nodes[f] = "Succeeded" /\ engine[w][f].verdict = "Pass"
          \/ engine'[w][f].stage # "gone" /\ Unheard(w, f)'
    /\ "revert" \in Timely /\ engine'[w][f].stage = "gone" =>
          engine[w][f].stage = "gone" \/ ~Unheard(w, f)

\* An engine's verdict and stage only change in ways that keep what was heard of it true.
LEMMA EventsStay ==
  ASSUME IInv, TypeOK', UNCHANGED <<stream, eventMap>>, Onward
  PROVE  Events'
<1>1. TypeOK /\ Cluster /\ Events
  BY DEF IInv
<1>3. ASSUME NEW i \in 1 .. Len(stream) PROVE EventInv(stream[i])'
  <2> DEFINE e == stream[i]
  <2>1. EventInv(e) /\ e \in EventType /\ e.of \in Workflows
    BY <1>1, <1>3, Types DEF Events, EventType
  <2> HIDE DEF e
  <2>2. e.finished => wf'[e.of].shutdown \/ wf'[e.of].phase \in Ended
    BY <2>1 DEF EventInv, Onward
  <2>3. e.phase = "Stopped" => wf'[e.of].shutdown
    BY <2>1 DEF EventInv, Onward
  <2>4. \A f \in Faults : NodeInv(e.of, f, e.nodes[f])'
    <3> SUFFICES ASSUME NEW f \in Faults PROVE NodeInv(e.of, f, e.nodes[f])'
      OBVIOUS
    <3> DEFINE w == e.of
               n == e.nodes[f]
    <3>1. NodeInv(w, f, n) /\ w \in Workflows
      BY <2>1 DEF EventInv
    <3>2. e' = e
      BY DEF e
    <3> QED
      BY <3>1, <3>2 DEF NodeInv, Onward
  <2>5. ASSUME Final(e) PROVE FinalInv(e)'
    <3>1. FinalInv(e) /\ wf[e.of].phase \in Ended /\ wf'[e.of] = wf[e.of]
      BY <2>1, <2>5 DEF EventInv, FinalInv, Onward
    <3>2. wf[e.of].phase = "Succeeded" =>
            \A f \in Faults : engine'[e.of][f].verdict = engine[e.of][f].verdict
      <4>1. WorkflowInv(e.of) /\ \A f \in Faults : EngineInv(e.of, f)
        BY <1>1, <2>1 DEF Cluster
      <4> QED
        BY <2>1, <4>1 DEF WorkflowInv, EngineInv, Onward
    <3>3. \A f \in Faults : engine[e.of][f].stage \in {"none", "gone"} =>
            engine'[e.of][f].stage \in {"none", "gone"}
      BY <2>1, <3>1 DEF Onward
    <3>4. e' = e
      BY DEF e
    <3> QED
      BY <3>1, <3>2, <3>3, <3>4 DEF FinalInv
  <2>6. e' = e
    BY DEF e
  <2>7. EventInv(e)'
    BY <2>2, <2>3, <2>4, <2>5, <2>6 DEF EventInv, Final
  <2> QED
    BY <2>7 DEF e
<1>4. \A w \in Workflows, f \in Faults : NodeInv(w, f, eventMap[w][f])'
  BY <1>1 DEF Events, NodeInv, Onward
<1>5. Silent'
  BY <1>1 DEF Events, Silent, Final
<1> QED
  BY <1>3, <1>4, <1>5 DEF Events

LEMMA HistoryStays ==
  ASSUME IInv, UNCHANGED <<stream, eventMap, server, lost, forgotten>>, Onward, Grows,
         \A w \in Workflows, f \in Faults : HeardOf(w, f)
  PROVE  History'
<1>1. TypeOK /\ History
  BY DEF IInv
<1> SUFFICES ASSUME NEW w \in Workflows, NEW f \in Faults, "revert" \in Timely
             PROVE  ("operator" \in Timely => BlankInv(w, f)') /\ PassInv(w, f)'
  BY DEF History
<1>2. HeardOf(w, f)
  OBVIOUS
<1>3. \A i : Heard(w, f, i)' = Heard(w, f, i)
  BY DEF Heard
<1>4. Entries(w)' = Entries(w)
  BY DEF Entries
<1>5. (BlankOver(w, f)' <=> BlankOver(w, f)) /\ (PassKnown(w, f)' <=> PassKnown(w, f))
  BY <1>3, <1>4 DEF BlankOver, PassKnown
<1>6. Unheard(w, f) => Unheard(w, f)'
  <2> SUFFICES ASSUME Unheard(w, f) PROVE Unheard(w, f)'
    OBVIOUS
  <2>1. PICK i \in 1 .. Len(inbox) : inbox[i].of = w /\ Over(inbox[i].obj.nodes[f])
    BY DEF Unheard
  <2>2. i \in 1 .. Len(inbox') /\ inbox'[i] = inbox[i]
    BY <1>1, <2>1, Types DEF Grows
  <2> QED
    BY <2>1, <2>2 DEF Unheard, Over
<1>7. engine'[w][f].stage = "gone" => engine[w][f].stage = "gone" \/ ~Unheard(w, f)
  BY <1>2 DEF HeardOf
<1>8. "operator" \in Timely => BlankInv(w, f)'
  <2> SUFFICES ASSUME "operator" \in Timely, Over(wf'[w].nodes[f]), engine'[w][f].stage # "none"
               PROVE  BlankOver(w, f)' \/ (engine'[w][f].stage # "gone" /\ Unheard(w, f)')
    BY DEF BlankInv
  <2>1. CASE wf'[w].nodes[f] = wf[w].nodes[f] /\ engine[w][f].stage # "none"
    <3>1. BlankInv(w, f)
      BY <1>1 DEF History
    <3> QED
      BY <1>5, <1>6, <1>7, <2>1, <3>1 DEF BlankInv
  <2> QED
    BY <1>2, <2>1 DEF HeardOf
<1>9. PassInv(w, f)'
  <2> SUFFICES ASSUME w \notin lost \cup forgotten, ~server[w].completed,
                      wf'[w].nodes[f] = "Succeeded", engine'[w][f].verdict = "Pass"
               PROVE  PassKnown(w, f)' \/ (engine'[w][f].stage # "gone" /\ Unheard(w, f)')
    BY DEF PassInv
  <2>1. CASE wf[w].nodes[f] = "Succeeded" /\ engine[w][f].verdict = "Pass"
    <3>1. PassInv(w, f)
      BY <1>1 DEF History
    <3> QED
      BY <1>5, <1>6, <1>7, <2>1, <3>1 DEF PassInv
  <2> QED
    BY <1>2, <2>1 DEF HeardOf
<1> QED
  BY <1>8, <1>9

LEMMA ShownStays ==
  ASSUME IInv, Cluster', UNCHANGED <<server, lost, forgotten>>, Onward
  PROVE  Shown'
<1> SUFFICES ASSUME NEW w \in Workflows PROVE ServerInv(w)'
  BY DEF Shown
<1>1. ServerInv(w) /\ WorkflowInv(w) /\ WorkflowInv(w)' /\ \A f \in Faults : EngineInv(w, f)
  BY DEF IInv, Shown, Cluster
<1>2. server'[w].completed => wf'[w].shutdown \/ wf'[w].phase \in Ended
  BY <1>1 DEF ServerInv, Onward
<1>3. ASSUME {"revert", "operator"} \subseteq Timely, Faults # {}, server'[w].completed,
             server'[w].phase = "Completed"
      PROVE  /\ wf'[w].phase \in Ended
             /\ Started(w)' # {} /\ \A f \in Started(w)' : engine'[w][f].verdict = "Pass"
  <2>1. /\ wf[w].phase \in Ended
        /\ Started(w) # {} /\ \A f \in Started(w) : engine[w][f].verdict = "Pass"
    BY <1>1, <1>3 DEF ServerInv
  <2>2. wf'[w] = wf[w]
    BY <2>1 DEF Onward
  <2>3. Started(w)' = Started(w) /\ Started(w) \subseteq Faults
    BY <2>2 DEF Started
  <2> QED
    BY <2>1, <2>2, <2>3 DEF Onward
<1>4. ASSUME "revert" \in Timely, w \notin lost \cup forgotten, server'[w].completed,
             wf'[w].phase = "Succeeded", \A f \in Faults : engine'[w][f].verdict = "Pass"
      PROVE  server'[w].phase = "Completed"
  <2>1. ~wf'[w].shutdown /\ wf'[w].phase = "Succeeded" /\ server[w].completed
    BY <1>1, <1>4 DEF WorkflowInv
  <2>2. wf[w].phase \in Ended
    BY <1>1, <2>1 DEF ServerInv, Onward
  <2>3. wf[w].phase = "Succeeded"
    BY <2>1, <2>2 DEF Onward
  <2>4. \A f \in Faults : engine[w][f].verdict = "Pass"
    <3> SUFFICES ASSUME NEW f \in Faults PROVE engine[w][f].verdict = "Pass"
      OBVIOUS
    <3>1. wf[w].nodes[f] = "Succeeded"
      BY <1>1, <2>3 DEF WorkflowInv
    <3>2. engine[w][f].stage \in {"completed", "gone"}
      BY <1>1, <3>1 DEF EngineInv
    <3>3. engine'[w][f].verdict = engine[w][f].verdict
      BY <3>2 DEF Onward
    <3> QED
      BY <1>4, <3>3
  <2> QED
    BY <1>1, <1>4, <2>1, <2>3, <2>4 DEF ServerInv
<1> QED
  BY <1>2, <1>3, <1>4 DEF ServerInv

\* A step of the cluster.
LEMMA ClusterKeeps ==
  ASSUME IInv, TypeOK', Cluster', UNCHANGED <<stream, eventMap, server, lost, forgotten>>,
         Onward, Grows, \A w \in Workflows, f \in Faults : HeardOf(w, f),
         \A w \in Workflows : wf'[w].phase \in Ended =>
            \/ wf[w].phase \in Ended
            \/ \E i \in 1 .. Len(inbox') : inbox'[i].of = w /\ inbox'[i].obj.phase \in Ended
  PROVE  IInv'
<1>1. EndIsUnderWay'
  <2> SUFFICES ASSUME NEW w \in Workflows, wf'[w].phase \in Ended, ~server[w].completed,
                      w \notin lost,
                      ~\E i \in 1 .. Len(stream) : stream[i].of = w /\ stream[i].finished
               PROVE  \E i \in 1 .. Len(inbox') : inbox'[i].of = w /\ inbox'[i].obj.phase \in Ended
    BY DEF EndIsUnderWay
  <2>1. CASE wf[w].phase \in Ended
    <3>1. PICK i \in 1 .. Len(inbox) : inbox[i].of = w /\ inbox[i].obj.phase \in Ended
      BY <2>1 DEF IInv, EndIsUnderWay
    <3>2. i \in 1 .. Len(inbox') /\ inbox'[i] = inbox[i]
      BY <3>1, Types DEF IInv, Grows
    <3> QED
      BY <3>1, <3>2
  <2> QED
    BY <2>1
<1> QED
  BY <1>1, EventsStay, HistoryStays, ShownStays DEF IInv

\* A workflow object changes: its version goes to the informer.
LEMMA BecomesKeeps ==
  ASSUME IInv, NEW w \in Workflows, NEW new \in WorkflowType, Becomes(w, new), UNCHANGED engine,
         wf[w].phase \in Ended => new = wf[w], wf[w].shutdown => new.shutdown,
         \A f \in Faults : Over(wf[w].nodes[f]) => new.nodes[f] = wf[w].nodes[f],
         WorkflowInv(w)', \A f \in Faults : EngineInv(w, f)'
  PROVE  IInv'
<1> DEFINE v == Version(w, wf[w].nodes, new)
<1>1. TypeOK /\ Cluster
  BY DEF IInv
<1>2. /\ wf' = [wf EXCEPT ![w] = new] /\ inbox' = Append(inbox, v)
      /\ UNCHANGED <<engine, stream, eventMap, server, lost, forgotten, faults>>
  BY DEF Becomes
<1>3. v \in VersionType /\ v.of = w /\ v.obj = new
  BY <1>1 DEF Version, VersionType, TypeOK, WorkflowType
<1> HIDE DEF v
<1>4. /\ wf' \in [Workflows -> WorkflowType] /\ wf'[w] = new
      /\ \A x \in Workflows \ {w} : wf'[x] = wf[x]
  BY <1>1, <1>2 DEF TypeOK
<1>5. /\ inbox' \in Seq(VersionType) /\ Len(inbox') = Len(inbox) + 1 /\ Len(inbox) \in Nat
      /\ \A i \in 1 .. Len(inbox) : inbox'[i] = inbox[i]
      /\ inbox'[Len(inbox) + 1] = v
  BY <1>1, <1>2, <1>3, Types, AppendProperties
<1>6. TypeOK'
  BY <1>1, <1>2, <1>4, <1>5 DEF TypeOK, VersionType
<1>7. Cluster'
  <2>1. ASSUME NEW x \in Workflows PROVE WorkflowInv(x)' /\ \A f \in Faults : EngineInv(x, f)'
    <3>1. CASE x = w
      BY <3>1
    <3>2. CASE x # w
      <4>1. wf'[x] = wf[x] /\ WorkflowInv(x) /\ \A f \in Faults : EngineInv(x, f)
        BY <1>1, <1>4, <3>2 DEF Cluster
      <4>2. WorkflowInv(x)'
        BY <4>1 DEF WorkflowInv, AllEnded
      <4>3. \A f \in Faults : EngineInv(x, f)'
        <5> SUFFICES ASSUME NEW f \in Faults PROVE EngineInv(x, f)'
          OBVIOUS
        <5>1. EngineInv(x, f) /\ engine' = engine
          BY <1>2, <4>1
        <5> QED
          BY <4>1, <5>1 DEF EngineInv
      <4> QED
        BY <4>2, <4>3
    <3> QED
      BY <3>1, <3>2
  <2>2. ASSUME NEW i \in 1 .. Len(inbox') PROVE VersionInv(inbox[i])'
    <3>1. CASE i = Len(inbox) + 1
      <4>1. inbox'[i].of = w /\ inbox'[i].obj = new
        BY <1>3, <1>5, <3>1
      <4> QED
        BY <1>4, <4>1 DEF VersionInv
    <3>2. CASE i \in 1 .. Len(inbox)
      <4>1. inbox'[i] = inbox[i] /\ inbox[i].of \in Workflows /\ VersionInv(inbox[i])
        BY <1>1, <1>5, <3>2, Types DEF VersionType, Cluster
      <4>2. wf[inbox[i].of].phase \in Ended => wf'[inbox[i].of] = wf[inbox[i].of]
        BY <1>4, <4>1
      <4>3. wf[inbox[i].of].shutdown => wf'[inbox[i].of].shutdown
        BY <1>4, <4>1
      <4> QED
        BY <4>1, <4>2, <4>3 DEF VersionInv
    <3> QED
      BY <1>5, <3>1, <3>2
  <2> QED
    BY <2>1, <2>2 DEF Cluster
<1>8. Onward
  BY <1>2, <1>4 DEF Onward
<1>9. Grows
  BY <1>5 DEF Grows
<1>10. Len(inbox) + 1 \in 1 .. Len(inbox')
  BY <1>5
<1>11. ASSUME NEW x \in Workflows, NEW f \in Faults PROVE HeardOf(x, f)
  <2>1. CASE x # w
    BY <1>2, <1>4, <2>1 DEF HeardOf
  <2>2. CASE x = w /\ Over(wf[w].nodes[f])
    BY <1>2, <1>4, <2>2 DEF HeardOf
  <2>3. CASE x = w /\ ~Over(wf[w].nodes[f])
    <3>1. engine[w][f].stage # "gone"
      BY <1>1, <2>3 DEF Cluster, EngineInv
    <3>2. Over(new.nodes[f]) => Unheard(w, f)'
      BY <1>3, <1>5, <1>10 DEF Unheard, Over
    <3>3. new.nodes[f] = "Succeeded" => Over(new.nodes[f])
      BY DEF Over
    <3> QED
      BY <1>2, <1>4, <2>3, <3>1, <3>2, <3>3 DEF HeardOf
  <2> QED
    BY <2>1, <2>2, <2>3
<1>12. ASSUME NEW x \in Workflows, wf'[x].phase \in Ended
       PROVE  \/ wf[x].phase \in Ended
              \/ \E i \in 1 .. Len(inbox') : inbox'[i].of = x /\ inbox'[i].obj.phase \in Ended
  BY <1>3, <1>4, <1>5, <1>10, <1>12
<1> QED
  BY <1>2, <1>6, <1>7, <1>8, <1>9, <1>11, <1>12, ClusterKeeps

\* The engines of a workflow change.
LEMMA EngineKeeps ==
  ASSUME IInv, NEW w \in Workflows,
         UNCHANGED <<wf, inbox, stream, eventMap, server, lost, forgotten, faults>>,
         engine' \in [Workflows -> [Faults -> EngineType]],
         \A x \in Workflows \ {w} : engine'[x] = engine[x],
         \A f \in Faults :
            /\ EngineInv(w, f)'
            /\ engine[w][f].verdict = "Pass" => engine'[w][f].verdict = "Pass"
            /\ engine[w][f].stage \in {"completed", "gone"} =>
                  engine'[w][f].verdict = engine[w][f].verdict
            /\ engine'[w][f].stage = "none" => engine[w][f].stage = "none"
            /\ engine[w][f].stage = "none" /\ engine'[w][f].stage # "none" =>
                  wf[w].nodes[f] = "Running"
            /\ engine[w][f].stage = "gone" => engine'[w][f].stage = "gone"
            /\ "revert" \in Timely /\ engine'[w][f].stage = "gone" =>
                  engine[w][f].stage = "gone" \/ ~Unread(w)
  PROVE  IInv'
<1>1. TypeOK /\ Cluster
  BY DEF IInv
<1>2. TypeOK'
  BY <1>1 DEF TypeOK
<1>3. Cluster'
  <2>1. ASSUME NEW x \in Workflows PROVE WorkflowInv(x)' /\ \A f \in Faults : EngineInv(x, f)'
    <3>1. WorkflowInv(x) /\ \A f \in Faults : EngineInv(x, f)
      BY <1>1 DEF Cluster
    <3>2. WorkflowInv(x)'
      BY <3>1 DEF WorkflowInv, AllEnded
    <3>3. \A f \in Faults : EngineInv(x, f)'
      <4>1. CASE x = w
        BY <4>1
      <4>2. CASE x # w
        BY <3>1, <4>2 DEF EngineInv
      <4> QED
        BY <4>1, <4>2
    <3> QED
      BY <3>2, <3>3
  <2> QED
    BY <1>1, <2>1 DEF Cluster, VersionInv
<1>4. Onward
  <2> SUFFICES ASSUME NEW x \in Workflows, NEW f \in Faults
               PROVE  /\ engine[x][f].verdict = "Pass" => engine'[x][f].verdict = "Pass"
                      /\ engine[x][f].stage \in {"completed", "gone"} =>
                            engine'[x][f].verdict = engine[x][f].verdict
                      /\ engine'[x][f].stage = "none" => engine[x][f].stage = "none"
                      /\ wf[x].phase \in Ended /\ engine[x][f].stage \in {"none", "gone"} =>
                            engine'[x][f].stage \in {"none", "gone"}
    BY DEF Onward
  <2>1. wf[x].phase \in Ended => wf[x].nodes[f] # "Running"
    BY <1>1 DEF Cluster, WorkflowInv, AllEnded
  <2> QED
    BY <2>1
<1>5. Grows
  BY <1>1, Types DEF Grows
<1>6. ASSUME NEW x \in Workflows, NEW f \in Faults PROVE HeardOf(x, f)
  <2>1. CASE x # w
    BY <2>1 DEF HeardOf
  <2>2. CASE x = w
    <3>1. Over(wf[w].nodes[f]) /\ engine'[w][f].stage # "none" => engine[w][f].stage # "none"
      BY DEF Over
    <3>2. wf[w].nodes[f] = "Succeeded" => engine'[w][f].verdict = engine[w][f].verdict
      BY <1>1 DEF Cluster, EngineInv
    <3>3. ~Unread(w) => ~Unheard(w, f)
      BY DEF Unread, Unheard
    <3> QED
      BY <2>2, <3>1, <3>2, <3>3 DEF HeardOf
  <2> QED
    BY <2>1, <2>2
<1> QED
  BY <1>2, <1>3, <1>4, <1>5, <1>6, ClusterKeeps

\* Argo moves a workflow on, or a user stops it.
LEMMA WorkflowStepsKeep ==
  ASSUME IInv, NEW w \in Workflows,
         \/ Submitted(w) \/ WorkflowEnds(w) \/ WorkflowTouched(w) \/ StopWorkflow(w)
         \/ \E f \in Faults : FaultScheduled(w, f) \/ FaultRuns(w, f) \/ FaultEnds(w, f)
  PROVE  IInv'
<1>1. /\ TypeOK /\ WorkflowInv(w) /\ wf[w] \in WorkflowType /\ UNCHANGED engine
      /\ \A f \in Faults : EngineInv(w, f) /\ wf[w].nodes[f] \in NodePhases
  <2>1. /\ TypeOK /\ WorkflowInv(w) /\ \A f \in Faults : EngineInv(w, f)
    BY DEF IInv, Cluster
  <2>2. wf[w] \in WorkflowType /\ \A f \in Faults : wf[w].nodes[f] \in NodePhases
    BY <2>1 DEF TypeOK, WorkflowType
  <2>3. UNCHANGED engine
    BY DEF Submitted, WorkflowEnds, WorkflowTouched, StopWorkflow,
           FaultScheduled, FaultRuns, FaultEnds
  <2> QED
    BY <2>1, <2>2, <2>3
<1>2. ASSUME NEW new, Becomes(w, new) PROVE wf' = [wf EXCEPT ![w] = new] /\ wf'[w] = new
  BY <1>1, <1>2 DEF Becomes, TypeOK
<1>3. CASE Submitted(w)
  <2> DEFINE new == [wf[w] EXCEPT !.phase = "Pending"]
  <2>1. Becomes(w, new) /\ wf[w].phase = "none"
    BY <1>3 DEF Submitted
  <2>2. /\ new \in WorkflowType /\ new.nodes = wf[w].nodes /\ new.shutdown = wf[w].shutdown
        /\ new.phase = "Pending"
    BY <1>1 DEF WorkflowType, ArgoPhases
  <2> HIDE DEF new
  <2>3. wf'[w] = new
    BY <1>2, <2>1
  <2>4. WorkflowInv(w)'
    BY <2>2, <2>3 DEF WorkflowInv, Ended
  <2>5. \A f \in Faults : EngineInv(w, f)'
    BY <1>1, <2>2, <2>3 DEF EngineInv
  <2> QED
    BY <1>1, <2>1, <2>2, <2>4, <2>5, BecomesKeeps DEF Ended
<1>4. CASE WorkflowEnds(w)
  <2>1. PICK end \in Ended :
           /\ end = "Succeeded" => /\ ~wf[w].shutdown
                                   /\ \A f \in Faults : wf[w].nodes[f] = "Succeeded"
           /\ Becomes(w, [wf[w] EXCEPT !.phase = end])
    BY <1>4 DEF WorkflowEnds
  <2> DEFINE new == [wf[w] EXCEPT !.phase = end]
  <2>2. Becomes(w, new) /\ wf[w].phase \in {"Pending", "Running"} /\ AllEnded(w)
    BY <1>4, <2>1 DEF WorkflowEnds
  <2>3. /\ new \in WorkflowType /\ new.nodes = wf[w].nodes /\ new.shutdown = wf[w].shutdown
        /\ new.phase = end
    BY <1>1 DEF WorkflowType, ArgoPhases, Ended
  <2> HIDE DEF new
  <2>4. wf'[w] = new
    BY <1>2, <2>2
  <2>5. WorkflowInv(w)'
    BY <2>1, <2>2, <2>3, <2>4 DEF WorkflowInv, AllEnded, Ended
  <2>6. \A f \in Faults : EngineInv(w, f)'
    BY <1>1, <2>3, <2>4 DEF EngineInv
  <2> QED
    BY <1>1, <2>2, <2>3, <2>5, <2>6, BecomesKeeps DEF Ended
<1>5. CASE WorkflowTouched(w)
  <2>1. Becomes(w, wf[w])
    BY <1>5 DEF WorkflowTouched
  <2>2. wf'[w] = wf[w]
    BY <1>2, <2>1
  <2>3. WorkflowInv(w)' /\ \A f \in Faults : EngineInv(w, f)'
    BY <1>1, <2>2 DEF WorkflowInv, EngineInv, AllEnded
  <2> QED
    BY <1>1, <2>1, <2>3, BecomesKeeps
<1>6. CASE StopWorkflow(w)
  <2> DEFINE new == [wf[w] EXCEPT !.shutdown = TRUE]
  <2>1. Becomes(w, new) /\ wf[w].phase \in {"Pending", "Running"}
    BY <1>6 DEF StopWorkflow
  <2>2. /\ new \in WorkflowType /\ new.nodes = wf[w].nodes /\ new.shutdown
        /\ new.phase = wf[w].phase
    BY <1>1 DEF WorkflowType
  <2> HIDE DEF new
  <2>3. wf'[w] = new
    BY <1>2, <2>1
  <2>4. WorkflowInv(w)'
    BY <2>1, <2>2, <2>3 DEF WorkflowInv, Ended
  <2>5. \A f \in Faults : EngineInv(w, f)'
    BY <1>1, <2>2, <2>3 DEF EngineInv
  <2> QED
    BY <1>1, <2>1, <2>2, <2>4, <2>5, BecomesKeeps DEF Ended
<1>7. CASE \E f \in Faults : FaultScheduled(w, f) \/ FaultRuns(w, f) \/ FaultEnds(w, f)
  <2>1. PICK f \in Faults : FaultScheduled(w, f) \/ FaultRuns(w, f) \/ FaultEnds(w, f)
    BY <1>7
  <2>2. PICK node \in NodePhases :
           /\ Becomes(w, [wf[w] EXCEPT !.phase = "Running", !.nodes[f] = node])
           /\ node # "none" /\ ~Over(wf[w].nodes[f]) /\ wf[w].phase \in {"Pending", "Running"}
           /\ engine[w][f].stage # "none" => node \in {"Running", "Succeeded", "Failed"}
           /\ node = "Succeeded" => engine[w][f].stage = "completed"
           /\ "operator" \in Timely /\ engine[w][f].stage = "created" => node = "Running"
    <3>1. CASE FaultScheduled(w, f)
      <4>1. engine[w][f].stage = "none"
        BY <1>1, <3>1 DEF FaultScheduled, EngineInv
      <4> QED
        BY <3>1, <4>1 DEF FaultScheduled, NodePhases, Over
    <3>2. CASE FaultRuns(w, f)
      <4>1. [wf[w] EXCEPT !.phase = "Running", !.nodes[f] = "Running"]
              = [wf[w] EXCEPT !.nodes[f] = "Running"]
        BY <1>1, <3>2 DEF FaultRuns, WorkflowType
      <4> QED
        BY <3>2, <4>1 DEF FaultRuns, NodePhases, Over
    <3>3. CASE FaultEnds(w, f)
      <4>1. \A node \in NodePhases : [wf[w] EXCEPT !.phase = "Running", !.nodes[f] = node]
              = [wf[w] EXCEPT !.nodes[f] = node]
        BY <1>1, <3>3 DEF FaultEnds, WorkflowType
      <4> QED
        BY <3>3, <4>1 DEF FaultEnds, NodePhases, Over
    <3> QED
      BY <2>1, <3>1, <3>2, <3>3
  <2> DEFINE new == [wf[w] EXCEPT !.phase = "Running", !.nodes[f] = node]
  <2>3. Becomes(w, new)
    BY <2>2
  <2>4. /\ new \in WorkflowType /\ new.shutdown = wf[w].shutdown /\ new.phase = "Running"
        /\ new.nodes[f] = node /\ \A g \in Faults \ {f} : new.nodes[g] = wf[w].nodes[g]
    BY <1>1 DEF WorkflowType, ArgoPhases
  <2> HIDE DEF new
  <2>5. wf'[w] = new
    BY <1>2, <2>3
  <2>6. WorkflowInv(w)'
    BY <2>4, <2>5 DEF WorkflowInv, Ended
  <2>7. \A g \in Faults : EngineInv(w, g)'
    <3> SUFFICES ASSUME NEW g \in Faults PROVE EngineInv(w, g)'
      OBVIOUS
    <3>1. EngineInv(w, g) /\ engine' = engine
      BY <1>1
    <3>2. CASE g = f
      <4>1. wf'[w].nodes[g] = node /\ engine[w][g].stage # "gone"
        BY <2>2, <2>4, <2>5, <3>1, <3>2 DEF EngineInv
      <4> QED
        BY <2>2, <3>1, <3>2, <4>1 DEF EngineInv
    <3>3. CASE g # f
      <4>1. wf'[w].nodes[g] = wf[w].nodes[g]
        BY <2>4, <2>5, <3>3
      <4> QED
        BY <3>1, <4>1 DEF EngineInv
    <3> QED
      BY <3>2, <3>3
  <2>8. \A g \in Faults : Over(wf[w].nodes[g]) => new.nodes[g] = wf[w].nodes[g]
    BY <2>2, <2>4
  <2> QED
    BY <1>1, <2>2, <2>3, <2>4, <2>6, <2>7, <2>8, BecomesKeeps DEF Ended
<1> QED
  BY <1>3, <1>4, <1>5, <1>6, <1>7

LEMMA EngineUpdate ==
  ASSUME TypeOK, NEW w \in Workflows, NEW f \in Faults, NEW new \in EngineType,
         engine' = [engine EXCEPT ![w][f] = new]
  PROVE  /\ engine' \in [Workflows -> [Faults -> EngineType]] /\ engine'[w][f] = new
         /\ \A g \in Faults \ {f} : engine'[w][g] = engine[w][g]
         /\ \A x \in Workflows \ {w} : engine'[x] = engine[x]
<1>1. engine \in [Workflows -> [Faults -> EngineType]]
  BY DEF TypeOK
<1> QED
  BY <1>1

\* The operator and the experiment move an engine on, the workflow reverts its engines, or a
\* user's stop patches them.
LEMMA EngineStepsKeep ==
  ASSUME IInv, NEW w \in Workflows,
         EnginesReverted(w) \/ StopChaosEngineState(w) \/ \E f \in Faults : EngineLives(w, f)
  PROVE  IInv'
<1>1. /\ TypeOK /\ WorkflowInv(w)
      /\ \A f \in Faults : EngineInv(w, f) /\ engine[w][f] \in EngineType
  BY DEF IInv, Cluster, TypeOK
<1>2. \A f \in Faults : /\ engine[w][f].stage \in {"none", "created", "running", "judged",
                                                   "completed", "stopped", "gone"}
                        /\ engine[w][f].verdict \in Verdicts \cup {""}
  BY <1>1 DEF EngineType
<1>3. CASE EnginesReverted(w)
  <2> DEFINE new == [f \in Faults |-> IF engine[w][f].stage = "none" THEN engine[w][f]
                                      ELSE Engine("gone", engine[w][f].verdict)]
  <2>1. /\ engine' = [engine EXCEPT ![w] = new] /\ AllEnded(w)
        /\ "revert" \in Timely => ~Unread(w)
        /\ UNCHANGED <<wf, inbox, stream, eventMap, server, lost, forgotten, faults>>
    BY <1>3 DEF EnginesReverted
  <2>2. \A f \in Faults :
           /\ new[f] \in EngineType /\ new[f].verdict = engine[w][f].verdict
           /\ new[f].stage = IF engine[w][f].stage = "none" THEN "none" ELSE "gone"
    BY <1>1, <1>2 DEF EngineType, Engine
  <2>3. new \in [Faults -> EngineType]
    BY <2>2
  <2> HIDE DEF new
  <2>4. /\ engine' \in [Workflows -> [Faults -> EngineType]] /\ engine'[w] = new
        /\ \A x \in Workflows \ {w} : engine'[x] = engine[x]
    BY <1>1, <2>1, <2>3 DEF TypeOK
  <2>5. \A f \in Faults : EngineInv(w, f)'
    <3> SUFFICES ASSUME NEW f \in Faults PROVE EngineInv(w, f)'
      OBVIOUS
    <3>1. EngineInv(w, f) /\ wf' = wf /\ wf[w].nodes[f] \in {"none", "Succeeded", "Failed"}
      BY <1>1, <2>1 DEF AllEnded
    <3> QED
      BY <2>2, <2>4, <3>1 DEF EngineInv, Over
  <2> QED
    BY <2>1, <2>2, <2>4, <2>5, EngineKeeps
<1>4. CASE StopChaosEngineState(w)
  <2> DEFINE new == [f \in Faults |->
                       IF engine[w][f].stage \in {"created", "running", "judged"}
                       THEN Engine("stopped", IF engine[w][f].verdict = "" THEN "Fail"
                                              ELSE engine[w][f].verdict)
                       ELSE engine[w][f]]
  <2>1. /\ engine' = [engine EXCEPT ![w] = new]
        /\ UNCHANGED <<wf, inbox, stream, eventMap, server, lost, forgotten, faults>>
    BY <1>4 DEF StopChaosEngineState
  <2>2. \A f \in Faults :
           /\ new[f] \in EngineType
           /\ \/ new[f] = engine[w][f]
              \/ /\ engine[w][f].stage \in {"created", "running", "judged"}
                 /\ new[f].stage = "stopped"
                 /\ engine[w][f].verdict = "Pass" => new[f].verdict = "Pass"
    BY <1>1, <1>2 DEF EngineType, Engine, Verdicts
  <2>3. new \in [Faults -> EngineType]
    BY <2>2
  <2> HIDE DEF new
  <2>4. /\ engine' \in [Workflows -> [Faults -> EngineType]] /\ engine'[w] = new
        /\ \A x \in Workflows \ {w} : engine'[x] = engine[x]
    BY <1>1, <2>1, <2>3 DEF TypeOK
  <2>5. \A f \in Faults : EngineInv(w, f)'
    <3> SUFFICES ASSUME NEW f \in Faults PROVE EngineInv(w, f)'
      OBVIOUS
    <3>1. EngineInv(w, f) /\ wf' = wf
      BY <1>1, <2>1
    <3>2. CASE new[f] = engine[w][f]
      BY <2>4, <3>1, <3>2 DEF EngineInv
    <3>3. CASE new[f] # engine[w][f]
      <4>1. engine[w][f].stage \in {"created", "running", "judged"} /\ new[f].stage = "stopped"
        BY <2>2, <3>3
      <4> QED
        BY <2>4, <3>1, <4>1 DEF EngineInv
    <3> QED
      BY <3>2, <3>3
  <2> QED
    BY <2>1, <2>2, <2>4, <2>5, EngineKeeps
<1>5. CASE \E f \in Faults : EngineLives(w, f)
  <2>1. PICK f \in Faults : EngineLives(w, f)
    BY <1>5
  <2> DEFINE e == engine[w][f]
  <2> DEFINE new == engine'[w][f]
  <2>2. UNCHANGED <<wf, inbox, stream, eventMap, server, lost, forgotten, faults>>
    BY <2>1 DEF EngineLives, EngineMoves
  <2>3. /\ engine' \in [Workflows -> [Faults -> EngineType]]
        /\ \A g \in Faults \ {f} : engine'[w][g] = engine[w][g]
        /\ \A x \in Workflows \ {w} : engine'[x] = engine[x]
        /\ \/ e.stage = "none" /\ new.stage = "created" /\ new.verdict = ""
              /\ wf[w].nodes[f] = "Running"
           \/ e.stage = "created" /\ new.stage = "running" /\ new.verdict = ""
           \/ e.stage = "running" /\ new.stage = "judged" /\ new.verdict \in Verdicts
           \/ e.stage = "judged" /\ new.stage = "completed" /\ new.verdict = e.verdict
    <3>2. /\ Engine("created", "") \in EngineType /\ Engine("running", "") \in EngineType
          /\ Engine("completed", e.verdict) \in EngineType
          /\ \A v \in Verdicts : Engine("judged", v) \in EngineType
      BY <1>2 DEF Engine, EngineType
    <3>4. CASE wf[w].nodes[f] = "Running" /\ EngineMoves(w, f, {"none"}, Engine("created", ""))
      <4>1. e.stage = "none" /\ engine' = [engine EXCEPT ![w][f] = Engine("created", "")]
        BY <3>4 DEF EngineMoves
      <4>2. /\ engine' \in [Workflows -> [Faults -> EngineType]] /\ engine'[w][f] = Engine("created", "")
            /\ \A g \in Faults \ {f} : engine'[w][g] = engine[w][g]
            /\ \A x \in Workflows \ {w} : engine'[x] = engine[x]
        BY <1>1, <3>2, <4>1, EngineUpdate
      <4> QED
        BY <3>4, <4>1, <4>2 DEF Engine
    <3>5. CASE EngineMoves(w, f, {"created"}, Engine("running", ""))
      <4>1. e.stage = "created" /\ engine' = [engine EXCEPT ![w][f] = Engine("running", "")]
        BY <3>5 DEF EngineMoves
      <4>2. /\ engine' \in [Workflows -> [Faults -> EngineType]] /\ engine'[w][f] = Engine("running", "")
            /\ \A g \in Faults \ {f} : engine'[w][g] = engine[w][g]
            /\ \A x \in Workflows \ {w} : engine'[x] = engine[x]
        BY <1>1, <3>2, <4>1, EngineUpdate
      <4> QED
        BY <3>5, <4>1, <4>2 DEF Engine
    <3>6. CASE \E v \in Verdicts : EngineMoves(w, f, {"running"}, Engine("judged", v))
      <4>1. PICK v \in Verdicts : EngineMoves(w, f, {"running"}, Engine("judged", v))
        BY <3>6
      <4>2. e.stage = "running" /\ engine' = [engine EXCEPT ![w][f] = Engine("judged", v)]
        BY <4>1 DEF EngineMoves
      <4>3. /\ engine' \in [Workflows -> [Faults -> EngineType]] /\ engine'[w][f] = Engine("judged", v)
            /\ \A g \in Faults \ {f} : engine'[w][g] = engine[w][g]
            /\ \A x \in Workflows \ {w} : engine'[x] = engine[x]
        BY <1>1, <3>2, <4>2, EngineUpdate
      <4> QED
        BY <4>2, <4>3 DEF Engine
    <3>7. CASE EngineMoves(w, f, {"judged"}, Engine("completed", e.verdict))
      <4>1. e.stage = "judged" /\ engine' = [engine EXCEPT ![w][f] = Engine("completed", e.verdict)]
        BY <3>7 DEF EngineMoves
      <4>2. /\ engine' \in [Workflows -> [Faults -> EngineType]] /\ engine'[w][f] = Engine("completed", e.verdict)
            /\ \A g \in Faults \ {f} : engine'[w][g] = engine[w][g]
            /\ \A x \in Workflows \ {w} : engine'[x] = engine[x]
        BY <1>1, <3>2, <4>1, EngineUpdate
      <4> QED
        BY <3>7, <4>1, <4>2 DEF Engine
    <3> QED
      BY <2>1, <3>4, <3>5, <3>6, <3>7 DEF EngineLives
  <2>4. \A g \in Faults : EngineInv(w, g)'
    <3> SUFFICES ASSUME NEW g \in Faults PROVE EngineInv(w, g)'
      OBVIOUS
    <3>1. EngineInv(w, g) /\ wf' = wf
      BY <1>1, <2>2
    <3>2. CASE g = f
      BY <2>2, <2>3, <3>1, <3>2 DEF EngineInv
    <3>3. CASE g # f
      BY <2>3, <3>1, <3>3 DEF EngineInv
    <3> QED
      BY <3>2, <3>3
  <2>5. EngineInv(w, f)
    BY <1>1
  <2>6. /\ e.verdict = "Pass" => new.verdict = "Pass"
        /\ e.stage \notin {"completed", "gone"} /\ new.stage \notin {"none", "gone"}
        /\ e.stage = "none" => wf[w].nodes[f] = "Running"
    BY <2>3, <2>5 DEF EngineInv
  <2> QED
    BY <2>2, <2>3, <2>4, <2>6, EngineKeeps
<1> QED
  BY <1>3, <1>4, <1>5

-----------------------------------------------------------------------------
(* The handler *)

\* What getChaosData makes of an engine.
LEMMA ChaosData ==
  ASSUME NEW e \in EngineType, e.stage \in {"judged", "completed"} => e.verdict \in Verdicts
  PROVE  LET d == getChaosData(e)
         IN  /\ d \in DataType /\ (d = NoData <=> e.stage \in {"none", "gone"})
             /\ d = NoData \/ (d.verdict # "none" /\ d.status # "none")
             /\ (d.verdict = "" <=> e.stage = "created")
             /\ d.verdict = "Pass" => e.verdict = "Pass" /\ d.status = "Completed"
             /\ e.stage = "completed" /\ e.verdict = "Pass" => d.verdict = "Pass"
<1>1. e.stage \in {"none", "created", "running", "judged", "completed", "stopped", "gone"}
  BY DEF EngineType
<1>2. NoData \in DataType /\ NoData.verdict = "none" /\ NoData.status = "none"
  BY DEF NoData, DataType
<1>3. ASSUME NEW v \in Verdicts \cup {"", "Awaited"},
             NEW s \in {"", "Running", "Completed", "Completed_With_Probe_Failure", "Error",
                        "Stopped"}
      PROVE  Data(v, s) \in DataType /\ Data(v, s).verdict = v /\ Data(v, s).status = s
  BY DEF Data, DataType
<1>4. /\ PhaseOfVerdict("Pass") = "Completed" /\ PhaseOfVerdict("Error") = "Error"
      /\ PhaseOfVerdict("Fail") = "Completed_With_Probe_Failure"
  BY DEF PhaseOfVerdict
<1>5. CASE e.stage \in {"none", "gone"}
  <2>1. getChaosData(e) = NoData
    BY <1>5 DEF getChaosData
  <2> QED
    BY <1>2, <1>5, <2>1
<1>6. CASE e.stage = "created"
  <2>1. getChaosData(e) = Data("", "")
    BY <1>6 DEF getChaosData
  <2>2. Data("", "") \in DataType /\ Data("", "").verdict = "" /\ Data("", "").status = ""
    BY <1>3
  <2> QED
    BY <1>2, <1>6, <2>1, <2>2
<1>7. CASE e.stage = "running"
  <2>1. getChaosData(e) = Data("Awaited", "Running")
    BY <1>7 DEF getChaosData
  <2>2. /\ Data("Awaited", "Running") \in DataType
        /\ Data("Awaited", "Running").verdict = "Awaited" /\ Data("Awaited", "Running").status = "Running"
    BY <1>3
  <2> QED
    BY <1>2, <1>7, <2>1, <2>2
<1>8. CASE e.stage = "judged"
  <2>1. getChaosData(e) = Data(e.verdict, PhaseOfVerdict(e.verdict)) /\ e.verdict \in Verdicts
    BY <1>8 DEF getChaosData
  <2>2. e.verdict \in {"Pass", "Fail", "Error"}
    BY <2>1 DEF Verdicts
  <2>3. PhaseOfVerdict(e.verdict) \in {"Completed", "Completed_With_Probe_Failure", "Error"}
    BY <1>4, <2>2
  <2> DEFINE d == Data(e.verdict, PhaseOfVerdict(e.verdict))
  <2>4. d \in DataType /\ d.verdict = e.verdict /\ d.status = PhaseOfVerdict(e.verdict)
    <3> SUFFICES ASSUME NEW s, s = PhaseOfVerdict(e.verdict)
                 PROVE  Data(e.verdict, s) \in DataType /\ Data(e.verdict, s).verdict = e.verdict
                        /\ Data(e.verdict, s).status = s
      OBVIOUS
    <3> QED
      BY <2>1, <2>3 DEF Data, DataType
  <2> HIDE DEF d
  <2> QED
    BY <1>2, <1>4, <1>8, <2>1, <2>2, <2>3, <2>4 DEF d
<1>9. CASE e.stage = "completed"
  <2>1. /\ getChaosData(e) = Data(IF e.verdict = "Pass" THEN "Pass" ELSE "Fail",
                                  PhaseOfVerdict(e.verdict))
        /\ e.verdict \in Verdicts
    BY <1>9 DEF getChaosData
  <2>2. e.verdict \in {"Pass", "Fail", "Error"}
    BY <2>1 DEF Verdicts
  <2>3. PhaseOfVerdict(e.verdict) \in {"Completed", "Completed_With_Probe_Failure", "Error"}
    BY <1>4, <2>2
  <2> DEFINE v == IF e.verdict = "Pass" THEN "Pass" ELSE "Fail"
             d == Data(v, PhaseOfVerdict(e.verdict))
  <2>4. v \in Verdicts /\ v \in {"Pass", "Fail"} /\ (v = "Pass" <=> e.verdict = "Pass")
    BY DEF Verdicts
  <2>5. d \in DataType /\ d.verdict = v /\ d.status = PhaseOfVerdict(e.verdict)
    <3> HIDE DEF v
    <3> SUFFICES ASSUME NEW s, s = PhaseOfVerdict(e.verdict)
                 PROVE  Data(v, s) \in DataType /\ Data(v, s).verdict = v /\ Data(v, s).status = s
      OBVIOUS
    <3> QED
      BY <2>3, <2>4 DEF Data, DataType
  <2>6. getChaosData(e) = d
    BY <2>1
  <2> HIDE DEF d, v
  <2> QED
    BY <1>2, <1>4, <1>9, <2>2, <2>3, <2>4, <2>5, <2>6
<1>10. CASE e.stage = "stopped"
  <2>1. getChaosData(e) = Data("Fail", "Stopped")
    BY <1>10 DEF getChaosData
  <2>2. /\ Data("Fail", "Stopped") \in DataType
        /\ Data("Fail", "Stopped").verdict = "Fail" /\ Data("Fail", "Stopped").status = "Stopped"
    BY <1>3 DEF Verdicts
  <2> QED
    BY <1>2, <1>10, <2>1, <2>2
<1> QED
  BY <1>1, <1>5, <1>6, <1>7, <1>8, <1>9, <1>10

\* The node of a fault step in an event.
LEMMA NodeOf ==
  ASSUME NEW e \in EngineType, e.stage \in {"judged", "completed"} => e.verdict \in Verdicts,
         NEW old \in NodePhases, NEW phase \in NodePhases
  PROVE  LET n == nodeOf(old, phase, e)
         IN  /\ n \in NodeType
             /\ n.data = IF phase \in {"none", "Pending"} THEN NoData ELSE getChaosData(e)
             /\ n.data.verdict = "Pass" => n.phase \in {"Running", "Completed"}
             /\ phase # "none" => n # Absent
<1> DEFINE cd == CheckChaosData(phase, e)
           n == nodeOf(old, phase, e)
<1>1. cd = IF phase \in {"none", "Pending"} THEN NoData ELSE getChaosData(e)
  BY DEF CheckChaosData
<1>2. NoData \in DataType /\ NoData.verdict = "none"
  BY DEF NoData, DataType
<1>3. /\ cd \in DataType /\ (cd # NoData => cd.status # "none")
      /\ cd.verdict = "Pass" => cd.status = "Completed"
  BY <1>1, <1>2, ChaosData
<1>4. n.data = cd /\ n.phase = CASE cd = NoData -> phase
                                 [] cd # NoData /\ old = "Pending" /\ phase = "Running" -> "Running"
                                 [] OTHER -> cd.status
  BY DEF nodeOf
<1>5. n = [data |-> cd, phase |-> n.phase]
  BY DEF nodeOf
<1> HIDE DEF cd, n
<1>6. \/ n.phase = phase /\ cd = NoData
      \/ n.phase \in {"Running", cd.status} /\ cd # NoData
  BY <1>4
<1>7. cd.status \in {"none", "", "Running", "Completed", "Completed_With_Probe_Failure", "Error",
                     "Stopped"}
  BY <1>3 DEF DataType
<1>8. n.phase \in NodePhases \cup {"", "Completed", "Completed_With_Probe_Failure", "Error", "Stopped"}
  BY <1>3, <1>6, <1>7 DEF NodePhases
<1>9. n \in NodeType
  <2> SUFFICES ASSUME NEW q, q = n.phase PROVE [data |-> cd, phase |-> q] \in NodeType
    BY <1>5
  <2> QED
    BY <1>3, <1>8 DEF NodeType
<1>10. n.data.verdict = "Pass" => n.phase \in {"Running", "Completed"}
  BY <1>2, <1>3, <1>4, <1>6
<1>11. phase # "none" => n # Absent
  BY <1>4, <1>6 DEF Absent
<1> QED
  BY <1>1, <1>4, <1>9, <1>10, <1>11 DEF n

\* The event the handler makes of a version, whenever it does.
LEMMA HandlerEvent ==
  ASSUME TypeOK, Cluster, NEW v \in VersionType, VersionInv(v)
  PROVE  LET e == WorkflowEventHandler(v)
         IN  /\ e \in EventType /\ e.of = v.of
             /\ e.finished <=> v.obj.shutdown \/ v.obj.phase \in Ended
             /\ EventInv(e)
             /\ \A f \in Faults :
                   e.nodes[f].data = IF v.obj.nodes[f] \in {"none", "Pending"} THEN NoData
                                     ELSE getChaosData(engine[v.of][f])
<1> DEFINE obj == v.obj
           w == v.of
           e == WorkflowEventHandler(v)
<1>1. /\ w \in Workflows /\ obj \in WorkflowType /\ obj.nodes \in [Faults -> NodePhases]
      /\ v.old \in [Faults -> NodePhases] /\ obj.shutdown \in BOOLEAN
  BY DEF VersionType, WorkflowType
<1>2. \A f \in Faults : engine[w][f] \in EngineType /\ EngineInv(w, f)
  BY <1>1 DEF TypeOK, Cluster
<1>3. /\ e.of = w /\ e.finished = (obj.shutdown \/ obj.phase \in Ended)
      /\ e.phase = IF obj.shutdown THEN "Stopped" ELSE resolveWorkflowStatus(obj.phase, obj.nodes)
      /\ e.nodes = [f \in Faults |-> nodeOf(v.old[f], obj.nodes[f], engine[w][f])]
      /\ e = [of |-> e.of, phase |-> e.phase, finished |-> e.finished, nodes |-> e.nodes]
  BY DEF WorkflowEventHandler
<1> HIDE DEF e
<1>4. /\ resolveWorkflowStatus(obj.phase, obj.nodes) \in RunPhases \ {"Stopped"}
      /\ obj.phase = "Succeeded" => resolveWorkflowStatus(obj.phase, obj.nodes) = "Completed"
  BY DEF resolveWorkflowStatus, updateWorkflowStatus, RunPhases
<1>5. ASSUME NEW f \in Faults
      PROVE  LET n == e.nodes[f]
             IN  /\ n \in NodeType
                 /\ n.data = IF obj.nodes[f] \in {"none", "Pending"} THEN NoData
                             ELSE getChaosData(engine[w][f])
                 /\ n.data.verdict = "Pass" => n.phase \in {"Running", "Completed"}
                 /\ obj.nodes[f] # "none" => n # Absent
  <2>1. e.nodes[f] = nodeOf(v.old[f], obj.nodes[f], engine[w][f])
    BY <1>3
  <2>2. engine[w][f].stage \in {"judged", "completed"} => engine[w][f].verdict \in Verdicts
    BY <1>2 DEF EngineInv
  <2>3. v.old[f] \in NodePhases /\ obj.nodes[f] \in NodePhases
    BY <1>1
  <2> HIDE DEF obj, w
  <2> QED
    BY <1>2, <2>1, <2>2, <2>3, NodeOf
<1>6. e \in EventType
  <2>1. e.nodes \in [Faults -> NodeType]
    BY <1>3, <1>5
  <2>2. e.phase \in RunPhases
    BY <1>3, <1>4 DEF RunPhases
  <2>3. e.finished \in BOOLEAN
    BY <1>3
  <2> QED
    BY <1>1, <1>3, <2>1, <2>2, <2>3 DEF EventType
<1>7. e.finished => wf[w].shutdown \/ wf[w].phase \in Ended
  BY <1>3 DEF VersionInv
<1>8. e.phase = "Stopped" => wf[w].shutdown
  BY <1>3, <1>4 DEF VersionInv
<1>9. \A f \in Faults :
         LET d == getChaosData(engine[w][f])
         IN  /\ d = NoData <=> engine[w][f].stage \in {"none", "gone"}
             /\ d = NoData \/ d.verdict # "none"
             /\ d.verdict = "" <=> engine[w][f].stage = "created"
             /\ d.verdict = "Pass" => engine[w][f].verdict = "Pass"
             /\ engine[w][f].stage = "completed" /\ engine[w][f].verdict = "Pass" =>
                   d.verdict = "Pass"
  <2> SUFFICES ASSUME NEW f \in Faults
               PROVE LET d == getChaosData(engine[w][f])
                     IN  /\ d = NoData <=> engine[w][f].stage \in {"none", "gone"}
                         /\ d = NoData \/ d.verdict # "none"
                         /\ d.verdict = "" <=> engine[w][f].stage = "created"
                         /\ d.verdict = "Pass" => engine[w][f].verdict = "Pass"
                         /\ engine[w][f].stage = "completed" /\ engine[w][f].verdict = "Pass" =>
                               d.verdict = "Pass"
    OBVIOUS
  <2>1. engine[w][f].stage \in {"judged", "completed"} => engine[w][f].verdict \in Verdicts
    BY <1>2 DEF EngineInv
  <2>2. engine[w][f] \in EngineType
    BY <1>2
  <2> HIDE DEF w
  <2> QED
    BY <2>1, <2>2, ChaosData
<1>10. NoData.verdict = "none"
  BY DEF NoData
<1>11. \A f \in Faults : NodeInv(w, f, e.nodes[f])
  <2> SUFFICES ASSUME NEW f \in Faults PROVE NodeInv(w, f, e.nodes[f])
    OBVIOUS
  <2> HIDE DEF w, obj
  <2>1. CASE obj.nodes[f] \in {"none", "Pending"}
    BY <1>5, <1>10, <2>1 DEF NodeInv
  <2>2. CASE obj.nodes[f] \notin {"none", "Pending"}
    BY <1>5, <1>9, <2>2 DEF NodeInv
  <2> QED
    BY <2>1, <2>2
<1>12. ASSUME Final(e) PROVE FinalInv(e)
  <2>1. obj.phase \in Ended /\ wf[w].phase = obj.phase /\ wf[w].nodes = obj.nodes /\ ~obj.shutdown
    BY <1>3, <1>12 DEF Final, VersionInv
  <2>2. WorkflowInv(w)
    BY <1>1 DEF Cluster
  <2>3. ASSUME NEW f \in Faults
        PROVE  /\ wf[w].nodes[f] # "none" => e.nodes[f] # Absent
               /\ e.nodes[f].data = NoData => engine[w][f].stage \in {"none", "gone"}
               /\ "operator" \in Timely => e.nodes[f].data.verdict # ""
               /\ wf[w].phase = "Succeeded" /\ engine[w][f].verdict = "Pass" =>
                     e.nodes[f].data = NoData \/ e.nodes[f].data.verdict = "Pass"
    <3>1. wf[w].nodes[f] \in {"none", "Succeeded", "Failed"}
      BY <2>1, <2>2 DEF WorkflowInv, AllEnded
    <3>2. wf[w].phase = "Succeeded" => wf[w].nodes[f] = "Succeeded"
      BY <2>2 DEF WorkflowInv
    <3>3. EngineInv(w, f)
      BY <1>2
    <3> HIDE DEF w, obj
    <3>4. CASE wf[w].nodes[f] = "none"
      BY <1>5, <1>10, <2>1, <3>2, <3>3, <3>4 DEF EngineInv
    <3>5. CASE wf[w].nodes[f] \in {"Succeeded", "Failed"}
      <4>1. e.nodes[f].data = getChaosData(engine[w][f]) /\ e.nodes[f] # Absent
        BY <1>5, <2>1, <3>5
      <4> QED
        BY <1>9, <3>2, <3>3, <3>5, <4>1 DEF EngineInv
    <3> QED
      BY <3>1, <3>4, <3>5
  <2>4. wf[w].phase = "Succeeded" => e.phase = "Completed"
    BY <1>3, <1>4, <2>1
  <2> QED
    BY <1>3, <2>1, <2>3, <2>4 DEF FinalInv
<1>13. EventInv(e)
  BY <1>3, <1>7, <1>8, <1>11, <1>12 DEF EventInv
<1> QED
  BY <1>3, <1>5, <1>6, <1>13 DEF e

\* What the event of a version has heard of a fault step that is over.
LEMMA HandlerHears ==
  ASSUME TypeOK, Cluster, NEW v \in VersionType, VersionInv(v), NEW f \in Faults
  PROVE  LET d == WorkflowEventHandler(v).nodes[f].data
             w == v.of
         IN  /\ "operator" \in Timely /\ Over(wf[w].nodes[f]) => ~Blank(d)
             /\ Over(v.obj.nodes[f]) /\ engine[w][f].stage \notin {"none", "gone"} => d # NoData
             /\ wf[w].nodes[f] = "Succeeded" /\ engine[w][f].verdict = "Pass" =>
                   d = NoData \/ d.verdict = "Pass"
             /\ engine[w][f].stage \in {"none", "gone"} => d = NoData
<1> DEFINE d == WorkflowEventHandler(v).nodes[f].data
           w == v.of
           c == getChaosData(engine[w][f])
<1>1. d = IF v.obj.nodes[f] \in {"none", "Pending"} THEN NoData ELSE c
  BY HandlerEvent
<1>2. w \in Workflows
  BY DEF VersionType
<1>3. engine[w][f] \in EngineType /\ EngineInv(w, f)
  BY <1>2 DEF TypeOK, Cluster
<1>4. NoData.verdict = "none"
  BY DEF NoData
<1>5. engine[w][f].stage \in {"judged", "completed"} => engine[w][f].verdict \in Verdicts
  BY <1>3 DEF EngineInv
<1> HIDE DEF d, w
<1>6. /\ c = NoData <=> engine[w][f].stage \in {"none", "gone"}
      /\ c.verdict = "" <=> engine[w][f].stage = "created"
      /\ engine[w][f].stage = "completed" /\ engine[w][f].verdict = "Pass" => c.verdict = "Pass"
  BY <1>3, <1>5, ChaosData
<1> HIDE DEF c
<1>7. "operator" \in Timely /\ Over(wf[w].nodes[f]) => ~Blank(d)
  BY <1>1, <1>3, <1>4, <1>6 DEF EngineInv, Blank, Over
<1>8. Over(v.obj.nodes[f]) /\ engine[w][f].stage \notin {"none", "gone"} => d # NoData
  BY <1>1, <1>6 DEF Over
<1>9. wf[w].nodes[f] = "Succeeded" /\ engine[w][f].verdict = "Pass" =>
         d = NoData \/ d.verdict = "Pass"
  BY <1>1, <1>3, <1>6 DEF EngineInv
<1>10. engine[w][f].stage \in {"none", "gone"} => d = NoData
  BY <1>1, <1>6
<1> QED
  BY <1>7, <1>8, <1>9, <1>10 DEF d, w

\* An event in the stream stays as it was while the cluster does.
LEMMA EventInvStays ==
  ASSUME NEW d, NEW i, EventInv(d), stream'[i] = d, UNCHANGED <<wf, engine>>
  PROVE  EventInv(stream[i])'
<1>1. d.finished => wf'[d.of].shutdown \/ wf'[d.of].phase \in Ended
  BY DEF EventInv
<1>2. d.phase = "Stopped" => wf'[d.of].shutdown
  BY DEF EventInv
<1>3. \A f \in Faults : NodeInv(d.of, f, d.nodes[f])'
  BY DEF EventInv, NodeInv
<1>4. Final(d) => FinalInv(d)'
  BY DEF EventInv, FinalInv
<1>5. EventInv(d)'
  BY <1>1, <1>2, <1>3, <1>4 DEF EventInv, Final
<1> QED
  BY <1>5 DEF EventInv, Final, FinalInv, NodeInv

\* The handler takes a version.
LEMMA HandlerKeeps ==
  ASSUME IInv, startWatchWorkflow
  PROVE  IInv'
<1> DEFINE v == Head(inbox)
           e == WorkflowEventHandler(v)
           w == v.of
<1>1. TypeOK /\ Cluster /\ Events /\ History /\ Shown /\ EndIsUnderWay
  BY DEF IInv
<1>2. /\ inbox # <<>> /\ Len(stream) <= StreamSize /\ stream' = Append(stream, e)
      /\ inbox' = Tail(inbox)
      /\ UNCHANGED <<wf, engine, eventMap, server, lost, forgotten, faults>>
  BY DEF startWatchWorkflow
<1>a. Len(stream) \in Nat
  BY <1>1, Types
<1>b. PICK L \in Nat : L = Len(stream)
  BY <1>a
<1>3. /\ inbox \in Seq(VersionType) /\ stream \in Seq(EventType)
      /\ Len(inbox) \in Nat /\ Len(stream) = L /\ L \in Nat
  BY <1>1, <1>b, Types
<1>4. /\ Len(inbox) # 0 /\ v = inbox[1] /\ inbox' \in Seq(VersionType)
      /\ Len(inbox') = Len(inbox) - 1 /\ \A i \in 1 .. Len(inbox) - 1 : inbox'[i] = inbox[i + 1]
  BY <1>2, <1>3, EmptySeq, HeadTailProperties
<1>5. v \in VersionType /\ VersionInv(v) /\ w \in Workflows
  <2>1. 1 \in 1 .. Len(inbox)
    BY <1>3, <1>4
  <2>2. inbox[1] \in VersionType /\ VersionInv(inbox[1])
    BY <1>1, <2>1, Types DEF Cluster
  <2>3. v \in VersionType /\ VersionInv(v)
    <3> HIDE DEF v
    <3> QED
      BY <1>4, <2>2
  <2> QED
    BY <2>3 DEF VersionType
<1> HIDE DEF v
<1>6. /\ e \in EventType /\ e.of = w
      /\ e.finished <=> v.obj.shutdown \/ v.obj.phase \in Ended
  BY <1>1, <1>5, HandlerEvent
<1>7. EventInv(e)
  BY <1>1, <1>5, HandlerEvent
<1>8. \A f \in Faults :
         LET d == e.nodes[f].data
         IN  /\ "operator" \in Timely /\ Over(wf[w].nodes[f]) => ~Blank(d)
             /\ Over(v.obj.nodes[f]) /\ engine[w][f].stage \notin {"none", "gone"} => d # NoData
             /\ wf[w].nodes[f] = "Succeeded" /\ engine[w][f].verdict = "Pass" =>
                   d = NoData \/ d.verdict = "Pass"
             /\ engine[w][f].stage \in {"none", "gone"} => d = NoData
  BY <1>1, <1>5, HandlerHears
<1> HIDE DEF e
<1>9. /\ stream' \in Seq(EventType) /\ Len(stream') = L + 1 /\ stream'[L + 1] = e
      /\ \A i \in 1 .. L : stream'[i] = stream[i]
  BY <1>2, <1>3, <1>6, AppendProperties
<1>10. TypeOK'
  <2>1. Len(stream') <= StreamSize + 1
    BY <1>2, <1>3, <1>9, EventsAssumption
  <2> QED
    BY <1>1, <1>2, <1>4, <1>9, <2>1 DEF TypeOK, VersionType
<1>11. Cluster'
  <2>1. ASSUME NEW i \in 1 .. Len(inbox') PROVE VersionInv(inbox[i])'
    <3>1. i + 1 \in 1 .. Len(inbox) /\ inbox'[i] = inbox[i + 1]
      BY <1>3, <1>4
    <3>2. VersionInv(inbox[i + 1])
      BY <1>1, <3>1 DEF Cluster
    <3> QED
      BY <1>2, <3>1, <3>2 DEF VersionInv
  <2>2. \A x \in Workflows : WorkflowInv(x)' /\ \A f \in Faults : EngineInv(x, f)'
    BY <1>1, <1>2 DEF Cluster, WorkflowInv, AllEnded, EngineInv
  <2> QED
    BY <2>1, <2>2 DEF Cluster
<1>12. Events'
  <2>1. ASSUME NEW i \in 1 .. Len(stream') PROVE EventInv(stream[i])'
    <3>1. CASE i = L + 1
      BY <1>2, <1>7, <1>9, <3>1, EventInvStays
    <3>2. CASE i \in 1 .. L
      <4>1. stream'[i] = stream[i] /\ EventInv(stream[i])
        BY <1>3, <1>1, <1>9, <3>2 DEF Events
      <4> QED
        BY <1>2, <4>1, EventInvStays
    <3> QED
      BY <1>3, <1>9, <3>1, <3>2
  <2>2. \A x \in Workflows, f \in Faults : NodeInv(x, f, eventMap[x][f])'
    BY <1>1, <1>2 DEF Events, NodeInv
  <2>3. Silent'
    <3> SUFFICES ASSUME NEW i \in 1 .. Len(stream'), NEW j \in 1 .. Len(stream'), i < j,
                        stream'[i].of = stream'[j].of, Final(stream'[i]), NEW f \in Faults,
                        stream'[i].nodes[f].data = NoData
                 PROVE  stream'[j].nodes[f].data = NoData
      BY DEF Silent, Final
    <3>1. i \in 1 .. L /\ stream'[i] = stream[i]
      BY <1>3, <1>9
    <3>2. CASE j \in 1 .. L
      BY <1>3, <1>1, <1>9, <3>1, <3>2 DEF Events, Silent
    <3>3. CASE j = L + 1
      <4>1. EventInv(stream[i]) /\ stream[i].of = w
        BY <1>3, <1>1, <1>6, <1>9, <3>1, <3>3 DEF Events
      <4>2. engine[w][f].stage \in {"none", "gone"}
        BY <3>1, <4>1 DEF EventInv, FinalInv
      <4> QED
        BY <1>8, <1>9, <3>3, <4>2
    <3> QED
      BY <1>3, <1>9, <3>2, <3>3
  <2> QED
    BY <2>1, <2>2, <2>3 DEF Events
<1>13. ASSUME NEW x \in Workflows, NEW f \in Faults
       PROVE  /\ Entries(x)' = Entries(x) \cup (IF x = w THEN {L + 1} ELSE {})
              /\ Entries(x) \subseteq 0 .. L
              /\ \A i \in 0 .. L : Heard(x, f, i)' = Heard(x, f, i)
              /\ Heard(x, f, L + 1)' = e.nodes[f].data
  <2>1. Entries(x) \subseteq 0 .. L
    BY <1>3 DEF Entries
  <2>2. \A i : i \in Entries(x)' <=> i \in Entries(x) \cup (IF x = w THEN {L + 1} ELSE {})
    <3>1. \A i : i \in 1 .. Len(stream') <=> i \in 1 .. L \/ i = L + 1
      BY <1>3, <1>9
    <3> QED
      BY <1>3, <1>6, <1>9, <3>1 DEF Entries
  <2>3. ASSUME NEW i \in 0 .. L PROVE Heard(x, f, i)' = Heard(x, f, i)
    <3>1. CASE i = 0
      BY <1>2, <3>1 DEF Heard
    <3>2. CASE i \in 1 .. L
      <4>1. stream'[i] = stream[i]
        BY <1>9, <3>2
      <4> QED
        BY <3>2, <4>1 DEF Heard
    <3> QED
      BY <1>3, <3>1, <3>2
  <2>4. Heard(x, f, L + 1)' = e.nodes[f].data
    BY <1>3, <1>9 DEF Heard
  <2> QED
    BY <2>1, <2>2, <2>3, <2>4
<1>14. ASSUME NEW x \in Workflows, NEW f \in Faults, Unheard(x, f)
       PROVE  Unheard(x, f)' \/ (x = w /\ Over(v.obj.nodes[f]))
  <2>1. PICK i \in 1 .. Len(inbox) : inbox[i].of = x /\ Over(inbox[i].obj.nodes[f])
    BY <1>14 DEF Unheard
  <2>2. CASE i = 1
    BY <1>4, <2>1, <2>2
  <2>3. CASE i # 1
    <3>1. i - 1 \in 1 .. Len(inbox') /\ inbox'[i - 1] = inbox[i]
      BY <1>3, <1>4, <2>3
    <3> QED
      BY <2>1, <3>1 DEF Unheard, Over
  <2> QED
    BY <2>2, <2>3
<1>15. ASSUME "operator" \in Timely, "revert" \in Timely, NEW x \in Workflows, NEW f \in Faults
       PROVE  BlankInv(x, f)'
  <2> SUFFICES ASSUME Over(wf[x].nodes[f]), engine[x][f].stage # "none",
                      ~(engine[x][f].stage # "gone" /\ Unheard(x, f)')
               PROVE  BlankOver(x, f)'
    BY <1>2 DEF BlankInv
  <2>1. BlankInv(x, f)
    BY <1>1, <1>15 DEF History
  <2>2. x = w => ~Blank(e.nodes[f].data)
    BY <1>8, <1>15
  <2>3. CASE BlankOver(x, f)
    <3> SUFFICES ASSUME NEW i \in Entries(x)', Blank(Heard(x, f, i)')
                 PROVE  \E j \in Entries(x)' : j > i /\ Heard(x, f, j)' # NoData /\ ~Blank(Heard(x, f, j)')
      BY DEF BlankOver, Blank
    <3>1. i \in Entries(x) /\ Blank(Heard(x, f, i))
      BY <1>13, <2>2
    <3>2. PICK j \in Entries(x) : j > i /\ Heard(x, f, j) # NoData /\ ~Blank(Heard(x, f, j))
      BY <2>3, <3>1 DEF BlankOver
    <3> QED
      BY <1>13, <3>2
  <2>4. CASE x = w /\ Over(v.obj.nodes[f]) /\ engine[x][f].stage # "gone"
    <3>1. e.nodes[f].data # NoData
      BY <1>8, <2>4
    <3> SUFFICES ASSUME NEW i \in Entries(x)', Blank(Heard(x, f, i)')
                 PROVE  \E j \in Entries(x)' : j > i /\ Heard(x, f, j)' # NoData /\ ~Blank(Heard(x, f, j)')
      BY DEF BlankOver, Blank
    <3>2. i \in Entries(x)
      BY <1>13, <2>2
    <3>3. L + 1 \in Entries(x)' /\ L + 1 > i
      BY <1>3, <1>13, <2>4, <3>2
    <3> QED
      BY <1>13, <2>2, <2>4, <3>1, <3>3
  <2> QED
    BY <1>14, <2>1, <2>3, <2>4 DEF BlankInv
<1>16. ASSUME "revert" \in Timely, NEW x \in Workflows, NEW f \in Faults
       PROVE  PassInv(x, f)'
  <2> SUFFICES ASSUME x \notin lost \cup forgotten, ~server[x].completed,
                      wf[x].nodes[f] = "Succeeded", engine[x][f].verdict = "Pass",
                      ~(engine[x][f].stage # "gone" /\ Unheard(x, f)')
               PROVE  PassKnown(x, f)'
    BY <1>2 DEF PassInv
  <2>1. PassInv(x, f)
    BY <1>1, <1>16 DEF History
  <2>2. x = w => e.nodes[f].data = NoData \/ e.nodes[f].data.verdict = "Pass"
    BY <1>8
  <2>3. CASE PassKnown(x, f)
    <3>1. PICK i \in Entries(x) :
            /\ Heard(x, f, i).verdict = "Pass"
            /\ \A j \in Entries(x) : j > i => Heard(x, f, j) = NoData \/ Heard(x, f, j).verdict = "Pass"
      BY <2>3 DEF PassKnown
    <3>2. i \in Entries(x)' /\ Heard(x, f, i)' = Heard(x, f, i)
      BY <1>13
    <3>3. ASSUME NEW j \in Entries(x)', j > i
          PROVE  Heard(x, f, j)' = NoData \/ Heard(x, f, j)'.verdict = "Pass"
      BY <1>13, <2>2, <3>1, <3>3
    <3> QED
      BY <3>1, <3>2, <3>3 DEF PassKnown
  <2>4. CASE x = w /\ Over(v.obj.nodes[f]) /\ engine[x][f].stage # "gone"
    <3>1. engine[x][f].stage = "completed"
      BY <1>1, <2>4 DEF Cluster, EngineInv
    <3>2. e.nodes[f].data.verdict = "Pass"
      BY <1>8, <2>2, <2>4, <3>1
    <3>3. L + 1 \in Entries(x)' /\ Heard(x, f, L + 1)'.verdict = "Pass"
      BY <1>13, <2>4, <3>2
    <3>4. \A j \in Entries(x)' : ~(j > L + 1)
      BY <1>3, <1>13
    <3> QED
      BY <3>3, <3>4 DEF PassKnown
  <2> QED
    BY <1>14, <2>1, <2>3, <2>4 DEF PassInv
<1>17. History'
  BY <1>15, <1>16 DEF History
<1>18. Shown'
  <2>1. Onward
    BY <1>2 DEF Onward
  <2> QED
    BY <1>2, <1>11, <2>1, ShownStays
<1>19. EndIsUnderWay'
  <2> SUFFICES ASSUME NEW x \in Workflows, wf[x].phase \in Ended, ~server[x].completed, x \notin lost
               PROVE  \/ \E i \in 1 .. Len(inbox') : inbox'[i].of = x /\ inbox'[i].obj.phase \in Ended
                      \/ \E i \in 1 .. Len(stream') : stream'[i].of = x /\ stream'[i].finished
    BY <1>2 DEF EndIsUnderWay
  <2>1. CASE \E i \in 1 .. Len(stream) : stream[i].of = x /\ stream[i].finished
    BY <1>3, <1>9, <2>1
  <2>2. CASE \E i \in 1 .. Len(inbox) : inbox[i].of = x /\ inbox[i].obj.phase \in Ended
    <3>1. PICK i \in 1 .. Len(inbox) : inbox[i].of = x /\ inbox[i].obj.phase \in Ended
      BY <2>2
    <3>2. CASE i = 1
      <4>1. L + 1 \in 1 .. Len(stream')
        BY <1>3, <1>9
      <4>2. e.of = x /\ e.finished
        BY <1>4, <1>6, <3>1, <3>2
      <4> QED
        BY <1>9, <4>1, <4>2
    <3>3. CASE i # 1
      <4>1. i - 1 \in 1 .. Len(inbox') /\ inbox'[i - 1] = inbox[i]
        BY <1>3, <1>4, <3>3
      <4> QED
        BY <3>1, <4>1
    <3> QED
      BY <3>2, <3>3
  <2> QED
    BY <1>1, <2>1, <2>2 DEF EndIsUnderWay
<1> QED
  BY <1>10, <1>11, <1>12, <1>17, <1>18, <1>19 DEF IInv

-----------------------------------------------------------------------------
(* The sender *)

\* What mergeNode keeps of the previous event.
LEMMA MergeNode ==
  ASSUME NEW c \in NodeType, NEW n \in NodeType, NEW phase
  PROVE  LET m == mergeNode(c, n, phase)
         IN  /\ m \in NodeType
             /\ m.data = IF c.data # NoData /\ n.data = NoData THEN c.data ELSE n.data
             /\ m.phase \in {c.phase, n.phase, "Stopped"}
             /\ m.data.verdict = "Pass" =>
                   \/ c.data.verdict = "Pass" /\ m.phase \in {c.phase, "Stopped"}
                   \/ n.data.verdict = "Pass" /\ m.phase \in {n.phase, "Stopped"}
             /\ phase # "Stopped" /\ n # Absent => m # Absent
<1> DEFINE kept == IF c.data # NoData /\ n.data = NoData THEN c ELSE n
           m == mergeNode(c, n, phase)
<1>1. m = kept \/ m = [kept EXCEPT !.phase = "Stopped"]
  BY DEF mergeNode
<1>2. phase # "Stopped" => m = kept
  BY DEF mergeNode
<1> HIDE DEF m
<1>3. kept \in NodeType
  OBVIOUS
<1>4. /\ m \in NodeType /\ m.data = kept.data
      /\ m.phase \in {kept.phase, "Stopped"}
  <2> HIDE DEF kept
  <2> QED
    BY <1>1, <1>3 DEF NodeType
<1>5. phase # "Stopped" /\ n # Absent => m # Absent
  BY <1>2 DEF Absent
<1> QED
  BY <1>4, <1>5 DEF m

LEMMA MergeNodeInv ==
  ASSUME NEW w, NEW f, NEW c \in NodeType, NEW n \in NodeType, NEW phase,
         NodeInv(w, f, c), NodeInv(w, f, n)
  PROVE  NodeInv(w, f, mergeNode(c, n, phase))
<1> DEFINE m == mergeNode(c, n, phase)
<1>1. /\ m.data = IF c.data # NoData /\ n.data = NoData THEN c.data ELSE n.data
      /\ m.data.verdict = "Pass" =>
            \/ c.data.verdict = "Pass" /\ m.phase \in {c.phase, "Stopped"}
            \/ n.data.verdict = "Pass" /\ m.phase \in {n.phase, "Stopped"}
  BY MergeNode
<1> HIDE DEF m
<1>2. NodeInv(w, f, m)
  BY <1>1 DEF NodeInv
<1> QED
  BY <1>2 DEF m

\* What getExperimentStatus makes of an event.
LEMMA Status ==
  ASSUME NEW e \in EventType
  PROVE  LET status == getExperimentStatus(e)
         IN  /\ status \in RunPhases
             /\ e.phase = "Stopped" \/ ~e.finished => status = e.phase
             /\ status = "Stopped" => e.phase = "Stopped"
             /\ e.finished /\ status = "Completed" =>
                   /\ e.phase = "Completed"
                   /\ \A f \in Faults : e.nodes[f] # Absent =>
                         /\ e.nodes[f].data # NoData
                         /\ e.nodes[f].data.verdict \notin {"Fail", "Error", "Awaited"}
             /\ e.phase = "Completed"
                /\ (\A f \in Faults :
                      /\ e.nodes[f].data.verdict = "Pass"
                      /\ e.nodes[f].phase \notin {"Error", "Completed_With_Probe_Failure"})
                => status = "Completed"
<1> DEFINE faulty(f) == e.nodes[f] # Absent
           verdict(f) == e.nodes[f].data.verdict
           judged(f) == verdict(f) \in {"Fail", "Error", "Awaited"}
           errors == {f \in Faults : faulty(f) /\
                        \/ e.nodes[f].data = NoData
                        \/ verdict(f) \in {"Error", "Awaited"}
                        \/ ~judged(f) /\ e.nodes[f].phase = "Error"}
           failures == {f \in Faults : faulty(f) /\
                          \/ verdict(f) = "Fail"
                          \/ ~judged(f) /\ e.nodes[f].phase = "Completed_With_Probe_Failure"}
           status == getExperimentStatus(e)
<1>1. e.phase \in RunPhases /\ e.finished \in BOOLEAN
  BY DEF EventType
<1>2. status = CASE e.phase = "Stopped" \/ ~e.finished -> e.phase
                 [] e.phase # "Stopped" /\ e.finished /\ errors # {} -> "Error"
                 [] e.phase # "Stopped" /\ e.finished /\ errors = {} /\ failures # {} ->
                        "Completed_With_Probe_Failure"
                 [] OTHER -> e.phase
  BY DEF getExperimentStatus
<1>3. NoData.verdict = "none"
  BY DEF NoData
<1>4. errors = {} /\ failures = {} =>
         \A f \in Faults : e.nodes[f] # Absent =>
            /\ e.nodes[f].data # NoData
            /\ e.nodes[f].data.verdict \notin {"Fail", "Error", "Awaited"}
  OBVIOUS
<1>5. (\A f \in Faults : /\ e.nodes[f].data.verdict = "Pass"
                         /\ e.nodes[f].phase \notin {"Error", "Completed_With_Probe_Failure"})
      => errors = {} /\ failures = {}
  BY <1>3
<1> HIDE DEF status, errors, failures
<1>6. \/ (e.phase = "Stopped" \/ ~e.finished) /\ status = e.phase
      \/ e.phase # "Stopped" /\ e.finished /\ errors # {} /\ status = "Error"
      \/ e.phase # "Stopped" /\ e.finished /\ failures # {} /\ status = "Completed_With_Probe_Failure"
      \/ e.phase # "Stopped" /\ e.finished /\ errors = {} /\ failures = {} /\ status = e.phase
  BY <1>1, <1>2
<1>7. status \in RunPhases
  BY <1>1, <1>6 DEF RunPhases
<1>8. e.phase = "Stopped" \/ ~e.finished => status = e.phase
  BY <1>6
<1>9. status = "Stopped" => e.phase = "Stopped"
  BY <1>6
<1>10. e.finished /\ status = "Completed" => e.phase = "Completed" /\ errors = {} /\ failures = {}
  BY <1>6
<1>11. e.phase = "Completed" /\ errors = {} /\ failures = {} => status = "Completed"
  BY <1>6
<1> QED
  BY <1>4, <1>5, <1>7, <1>8, <1>9, <1>10, <1>11 DEF status

\* The event as it is sent.
LEMMA AsSentFacts ==
  ASSUME TypeOK, NEW e \in EventType
  PROVE  LET a == AsSent(e)
         IN  /\ a \in EventType /\ a.of = e.of /\ a.finished = e.finished
             /\ \A f \in Faults : a.nodes[f] = mergeNode(eventMap[e.of][f], e.nodes[f], e.phase)
             /\ e.phase = "Stopped" \/ ~e.finished => a.phase = e.phase
             /\ a.phase = "Stopped" => e.phase = "Stopped"
             /\ e.finished /\ a.phase = "Completed" =>
                   /\ e.phase = "Completed"
                   /\ \A f \in Faults : a.nodes[f] # Absent =>
                         /\ a.nodes[f].data # NoData
                         /\ a.nodes[f].data.verdict \notin {"Fail", "Error", "Awaited"}
             /\ e.phase = "Completed"
                /\ (\A f \in Faults :
                      /\ a.nodes[f].data.verdict = "Pass"
                      /\ a.nodes[f].phase \notin {"Error", "Completed_With_Probe_Failure"})
                => a.phase = "Completed"
<1> DEFINE nodes == [f \in Faults |-> mergeNode(eventMap[e.of][f], e.nodes[f], e.phase)]
           merged == [e EXCEPT !.nodes = nodes]
           status == getExperimentStatus(merged)
           a == AsSent(e)
<1>1. e.of \in Workflows /\ \A f \in Faults : eventMap[e.of][f] \in NodeType /\ e.nodes[f] \in NodeType
  BY DEF TypeOK, EventType
<1>2. nodes \in [Faults -> NodeType]
  BY <1>1, MergeNode
<1>3. a = [merged EXCEPT !.phase = status]
  BY DEF AsSent
<1>4. \A f \in Faults : nodes[f] = mergeNode(eventMap[e.of][f], e.nodes[f], e.phase)
  OBVIOUS
<1> HIDE DEF nodes
<1>5. /\ merged \in EventType /\ merged.of = e.of /\ merged.finished = e.finished
      /\ merged.phase = e.phase /\ merged.nodes = nodes
  BY <1>2 DEF EventType
<1> HIDE DEF merged
<1>6. /\ status \in RunPhases
      /\ merged.phase = "Stopped" \/ ~merged.finished => status = merged.phase
      /\ status = "Stopped" => merged.phase = "Stopped"
      /\ merged.finished /\ status = "Completed" =>
            /\ merged.phase = "Completed"
            /\ \A f \in Faults : merged.nodes[f] # Absent =>
                  /\ merged.nodes[f].data # NoData
                  /\ merged.nodes[f].data.verdict \notin {"Fail", "Error", "Awaited"}
      /\ merged.phase = "Completed"
         /\ (\A f \in Faults :
               /\ merged.nodes[f].data.verdict = "Pass"
               /\ merged.nodes[f].phase \notin {"Error", "Completed_With_Probe_Failure"})
         => status = "Completed"
  BY <1>5, Status
<1> HIDE DEF status, a
<1>7. /\ a \in EventType /\ a.of = merged.of /\ a.finished = merged.finished
      /\ a.phase = status /\ a.nodes = merged.nodes
  BY <1>3, <1>5, <1>6 DEF EventType
<1>8. \A f \in Faults : a.nodes[f] = mergeNode(eventMap[e.of][f], e.nodes[f], e.phase)
  BY <1>4, <1>5, <1>7
<1>9. /\ a \in EventType /\ a.of = e.of /\ a.finished = e.finished
      /\ e.phase = "Stopped" \/ ~e.finished => a.phase = e.phase
      /\ a.phase = "Stopped" => e.phase = "Stopped"
  BY <1>5, <1>6, <1>7
<1>10. e.finished /\ a.phase = "Completed" =>
          /\ e.phase = "Completed"
          /\ \A f \in Faults : a.nodes[f] # Absent =>
                /\ a.nodes[f].data # NoData
                /\ a.nodes[f].data.verdict \notin {"Fail", "Error", "Awaited"}
  BY <1>5, <1>6, <1>7
<1>11. e.phase = "Completed"
       /\ (\A f \in Faults :
             /\ a.nodes[f].data.verdict = "Pass"
             /\ a.nodes[f].phase \notin {"Error", "Completed_With_Probe_Failure"})
       => a.phase = "Completed"
  BY <1>5, <1>6, <1>7
<1> QED
  BY <1>8, <1>9, <1>10, <1>11 DEF a

\* The sender takes the first event and keeps what it was, in eventMap, until it had finished.
LEMMA SenderTypes ==
  ASSUME TypeOK, stream # <<>>, NEW e, e = Head(stream), SendWorkflowUpdates(AsSent(e))
  PROVE  /\ e \in EventType /\ e = stream[1] /\ Len(stream) >= 1 /\ Len(stream) \in Nat
         /\ stream' \in Seq(EventType) /\ Len(stream') = Len(stream) - 1
         /\ \A i \in 1 .. Len(stream') : i + 1 \in 1 .. Len(stream) /\ stream'[i] = stream[i + 1]
         /\ eventMap' \in [Workflows -> [Faults -> NodeType]]
         /\ \A x \in Workflows : x # e.of => eventMap'[x] = eventMap[x]
         /\ eventMap'[e.of] = IF e.finished THEN NoEvent ELSE AsSent(e).nodes
         /\ UNCHANGED <<wf, engine, inbox>>
<1> DEFINE a == AsSent(e)
<1>1. stream \in Seq(EventType) /\ Len(stream) \in Nat /\ \A i \in 1 .. Len(stream) : stream[i] \in EventType
  BY Types
<1>2. /\ stream' = Tail(stream) /\ UNCHANGED <<wf, engine, inbox>>
      /\ eventMap' = [eventMap EXCEPT ![a.of] = IF a.finished THEN NoEvent ELSE a.nodes]
  BY DEF SendWorkflowUpdates
<1>3. /\ Len(stream) # 0 /\ e = stream[1] /\ stream' \in Seq(EventType)
      /\ Len(stream') = Len(stream) - 1 /\ \A i \in 1 .. Len(stream) - 1 : stream'[i] = stream[i + 1]
  BY <1>1, <1>2, EmptySeq, HeadTailProperties
<1>4. e \in EventType
  BY <1>1, <1>3
<1>5. a \in EventType /\ a.of = e.of /\ a.finished = e.finished
  BY <1>4, AsSentFacts
<1> HIDE DEF a
<1>6. e.of \in Workflows /\ a.nodes \in [Faults -> NodeType]
  BY <1>4, <1>5 DEF EventType
<1>7. NoEvent \in [Faults -> NodeType]
  BY DEF NoEvent, Absent, NoData, NodeType, DataType, NodePhases
<1>8. /\ eventMap' \in [Workflows -> [Faults -> NodeType]]
      /\ \A x \in Workflows : x # e.of => eventMap'[x] = eventMap[x]
      /\ eventMap'[e.of] = IF e.finished THEN NoEvent ELSE a.nodes
  BY <1>2, <1>5, <1>6, <1>7 DEF TypeOK
<1>9. \A i \in 1 .. Len(stream') : i + 1 \in 1 .. Len(stream) /\ stream'[i] = stream[i + 1]
  BY <1>1, <1>3
<1>10. Len(stream) >= 1
  BY <1>1, <1>3
<1> QED
  BY <1>1, <1>2, <1>3, <1>4, <1>8, <1>9, <1>10 DEF a

\* How the sender moves what was heard of a fault: the first event takes eventMap's place.
LEMMA SenderHears ==
  ASSUME TypeOK, stream # <<>>, NEW e, e = Head(stream), SendWorkflowUpdates(AsSent(e)),
         NEW x \in Workflows, NEW f \in Faults
  PROVE  /\ 0 \in Entries(x) /\ 0 \in Entries(x)' /\ Entries(x) \subseteq Nat /\ Entries(x)' \subseteq Nat
         /\ \A i \in Nat \ {0} : /\ i \in Entries(x)' <=> i + 1 \in Entries(x)
                                 /\ i \in Entries(x)' => Heard(x, f, i)' = Heard(x, f, i + 1)
         /\ x # e.of => 1 \notin Entries(x) /\ Heard(x, f, 0)' = Heard(x, f, 0)
         /\ x = e.of => /\ 1 \in Entries(x) /\ Heard(x, f, 1) = e.nodes[f].data
                        /\ Heard(x, f, 0)' =
                              IF e.finished THEN NoData
                              ELSE IF Heard(x, f, 0) # NoData /\ Heard(x, f, 1) = NoData
                                   THEN Heard(x, f, 0) ELSE Heard(x, f, 1)
<1> DEFINE a == AsSent(e)
<1>1. /\ e \in EventType /\ e = stream[1] /\ Len(stream) >= 1 /\ Len(stream) \in Nat
      /\ stream' \in Seq(EventType) /\ Len(stream') = Len(stream) - 1
      /\ \A i \in 1 .. Len(stream') : i + 1 \in 1 .. Len(stream) /\ stream'[i] = stream[i + 1]
  BY SenderTypes
<1>2. /\ x # e.of => eventMap'[x] = eventMap[x]
      /\ x = e.of => eventMap'[x] = IF e.finished THEN NoEvent ELSE a.nodes
  BY SenderTypes
<1>3. a.nodes[f] = mergeNode(eventMap[e.of][f], e.nodes[f], e.phase)
  BY <1>1, AsSentFacts
<1> HIDE DEF a
<1>4. eventMap[e.of][f] \in NodeType /\ e.nodes[f] \in NodeType
  BY <1>1 DEF TypeOK, EventType
<1>5. a.nodes[f].data = IF eventMap[e.of][f].data # NoData /\ e.nodes[f].data = NoData
                        THEN eventMap[e.of][f].data ELSE e.nodes[f].data
  BY <1>3, <1>4, MergeNode
<1>6. NoEvent[f].data = NoData
  BY DEF NoEvent, Absent
<1>7. /\ 0 \in Entries(x) /\ 0 \in Entries(x)' /\ Entries(x) \subseteq Nat /\ Entries(x)' \subseteq Nat
  BY <1>1 DEF Entries
<1>8. ASSUME NEW i \in Nat \ {0}
      PROVE  /\ i \in Entries(x)' <=> i + 1 \in Entries(x)
             /\ i \in Entries(x)' => Heard(x, f, i)' = Heard(x, f, i + 1)
  <2>1. i \in 1 .. Len(stream') <=> i + 1 \in 1 .. Len(stream)
    BY <1>1
  <2>2. i \in 1 .. Len(stream') => stream'[i] = stream[i + 1]
    BY <1>1
  <2>3. i \in Entries(x)' <=> i \in 1 .. Len(stream') /\ stream'[i].of = x
    BY <1>8 DEF Entries
  <2>4. i + 1 \in Entries(x) <=> i + 1 \in 1 .. Len(stream) /\ stream[i + 1].of = x
    BY <1>8 DEF Entries
  <2>5. Heard(x, f, i)' = stream'[i].nodes[f].data
    BY <1>8 DEF Heard
  <2>6. Heard(x, f, i + 1) = stream[i + 1].nodes[f].data
    BY <1>8 DEF Heard
  <2> QED
    BY <2>1, <2>2, <2>3, <2>4, <2>5, <2>6
<1>9. 1 \in Entries(x) <=> x = e.of
  BY <1>1 DEF Entries
<1>10. Heard(x, f, 0) = eventMap[x][f].data /\ Heard(x, f, 0)' = eventMap'[x][f].data
  BY DEF Heard
<1>11. Heard(x, f, 1) = e.nodes[f].data
  BY <1>1 DEF Heard
<1>12. x = e.of => Heard(x, f, 0)' = IF e.finished THEN NoData
                                     ELSE IF Heard(x, f, 0) # NoData /\ Heard(x, f, 1) = NoData
                                          THEN Heard(x, f, 0) ELSE Heard(x, f, 1)
  BY <1>2, <1>5, <1>6, <1>10, <1>11
<1>13. x # e.of => Heard(x, f, 0)' = Heard(x, f, 0)
  BY <1>2, <1>10
<1> QED
  BY <1>7, <1>8, <1>9, <1>11, <1>12, <1>13

\* What the sender leaves true, whether or not the server gets the event.
LEMMA SenderKeeps ==
  ASSUME IInv, stream # <<>>, NEW e, e = Head(stream), SendWorkflowUpdates(AsSent(e)),
         UNCHANGED forgotten, lost' \in SUBSET Workflows, faults' \in 0 .. MaxFaults,
         server' \in [Workflows -> [phase : {"none"} \cup RunPhases, completed : BOOLEAN]],
         lost \subseteq lost', \A x \in Workflows : server[x].completed => server'[x].completed,
         e.finished => server'[e.of].completed \/ e.of \in lost',
         Shown'
  PROVE  IInv'
<1>1. TypeOK /\ Cluster /\ Events /\ History /\ Shown /\ EndIsUnderWay
  BY DEF IInv
<1>2. /\ e \in EventType /\ e = stream[1] /\ Len(stream) >= 1 /\ Len(stream) \in Nat
      /\ stream' \in Seq(EventType) /\ Len(stream') = Len(stream) - 1
      /\ \A i \in 1 .. Len(stream') : i + 1 \in 1 .. Len(stream) /\ stream'[i] = stream[i + 1]
      /\ eventMap' \in [Workflows -> [Faults -> NodeType]]
      /\ \A x \in Workflows : x # e.of => eventMap'[x] = eventMap[x]
      /\ eventMap'[e.of] = IF e.finished THEN NoEvent ELSE AsSent(e).nodes
      /\ UNCHANGED <<wf, engine, inbox>>
  BY <1>1, SenderTypes
<1>3. e.of \in Workflows /\ e.finished \in BOOLEAN
  BY <1>2 DEF EventType
<1>4. TypeOK'
  BY <1>1, <1>2, EventsAssumption DEF TypeOK
<1>5. Cluster'
  <2>1. \A x \in Workflows : WorkflowInv(x)' /\ \A f \in Faults : EngineInv(x, f)'
    BY <1>1, <1>2 DEF Cluster, WorkflowInv, AllEnded, EngineInv
  <2>2. \A i \in 1 .. Len(inbox') : VersionInv(inbox[i])'
    BY <1>1, <1>2 DEF Cluster, VersionInv
  <2> QED
    BY <2>1, <2>2 DEF Cluster
<1>6. Events'
  <2>1. ASSUME NEW i \in 1 .. Len(stream') PROVE EventInv(stream[i])'
    <3>1. i + 1 \in 1 .. Len(stream) /\ stream'[i] = stream[i + 1]
      BY <1>2
    <3>2. EventInv(stream[i + 1])
      BY <1>1, <3>1 DEF Events
    <3> QED
      BY <1>2, <3>1, <3>2, EventInvStays
  <2>2. ASSUME NEW x \in Workflows, NEW f \in Faults PROVE NodeInv(x, f, eventMap[x][f])'
    <3>1. NodeInv(x, f, eventMap[x][f])
      BY <1>1 DEF Events
    <3>2. CASE x # e.of
      BY <1>2, <3>1, <3>2 DEF NodeInv
    <3>3. CASE x = e.of /\ e.finished
      <4>1. eventMap'[x][f].data = NoData
        BY <1>2, <3>3 DEF NoEvent, Absent
      <4> QED
        BY <4>1 DEF NodeInv, NoData
    <3>4. CASE x = e.of /\ ~e.finished
      <4>1. AsSent(e).nodes[f] = mergeNode(eventMap[x][f], e.nodes[f], e.phase)
        BY <1>1, <1>2, <3>4, AsSentFacts
      <4>2. eventMap'[x][f] = mergeNode(eventMap[x][f], e.nodes[f], e.phase)
        BY <1>2, <3>4, <4>1
      <4>3. NodeInv(x, f, e.nodes[f])
        <5>1. 1 \in 1 .. Len(stream)
          BY <1>2
        <5> QED
          BY <1>1, <1>2, <3>4, <5>1 DEF Events, EventInv
      <4>4. eventMap[x][f] \in NodeType /\ e.nodes[f] \in NodeType
        BY <1>1, <1>2 DEF TypeOK, EventType
      <4>5. PICK m : m = mergeNode(eventMap[x][f], e.nodes[f], e.phase)
        OBVIOUS
      <4>6. NodeInv(x, f, m)
        BY <3>1, <4>3, <4>4, <4>5, MergeNodeInv
      <4>7. eventMap'[x][f] = m
        BY <4>2, <4>5
      <4> QED
        BY <1>2, <4>6, <4>7 DEF NodeInv
    <3> QED
      BY <1>3, <3>2, <3>3, <3>4
  <2>3. Silent'
    <3> SUFFICES ASSUME NEW i \in 1 .. Len(stream'), NEW j \in 1 .. Len(stream'), i < j,
                        stream'[i].of = stream'[j].of, Final(stream'[i]), NEW f \in Faults,
                        stream'[i].nodes[f].data = NoData
                 PROVE  stream'[j].nodes[f].data = NoData
      BY DEF Silent, Final
    <3>1. /\ i + 1 \in 1 .. Len(stream) /\ stream'[i] = stream[i + 1]
          /\ j + 1 \in 1 .. Len(stream) /\ stream'[j] = stream[j + 1] /\ i + 1 < j + 1
      BY <1>2
    <3>2. Silent
      BY <1>1 DEF Events
    <3> QED
      BY <3>1, <3>2 DEF Silent
  <2> QED
    BY <2>1, <2>2, <2>3 DEF Events
<1>7. ASSUME NEW x \in Workflows, NEW f \in Faults
      PROVE  /\ 0 \in Entries(x) /\ 0 \in Entries(x)' /\ Entries(x) \subseteq Nat
             /\ Entries(x)' \subseteq Nat
             /\ \A i \in Nat \ {0} : /\ i \in Entries(x)' <=> i + 1 \in Entries(x)
                                     /\ i \in Entries(x)' => Heard(x, f, i)' = Heard(x, f, i + 1)
             /\ x # e.of => 1 \notin Entries(x) /\ Heard(x, f, 0)' = Heard(x, f, 0)
             /\ x = e.of => /\ 1 \in Entries(x) /\ Heard(x, f, 1) = e.nodes[f].data
                            /\ Heard(x, f, 0)' =
                                  IF e.finished THEN NoData
                                  ELSE IF Heard(x, f, 0) # NoData /\ Heard(x, f, 1) = NoData
                                       THEN Heard(x, f, 0) ELSE Heard(x, f, 1)
  BY <1>1, SenderHears
\* A later entry is one place further on in the new history.
<1>8. ASSUME NEW x \in Workflows, NEW f \in Faults, NEW j \in Entries(x), j > 1
      PROVE  j - 1 \in Entries(x)' /\ j - 1 > 0 /\ Heard(x, f, j - 1)' = Heard(x, f, j)
  <2>1. j - 1 \in Nat \ {0} /\ (j - 1) + 1 = j
    BY <1>7, <1>8
  <2> QED
    BY <1>7, <2>1
<1>9. ASSUME "operator" \in Timely, "revert" \in Timely, NEW x \in Workflows, NEW f \in Faults
      PROVE  BlankInv(x, f)'
  <2>1. BlankInv(x, f)
    BY <1>1, <1>9 DEF History
  <2>2. Unheard(x, f)' <=> Unheard(x, f)
    BY <1>2 DEF Unheard
  <2>3. ASSUME BlankOver(x, f) PROVE BlankOver(x, f)'
    <3> SUFFICES ASSUME NEW i \in Entries(x)', Blank(Heard(x, f, i)')
                 PROVE  \E j \in Entries(x)' : j > i /\ Heard(x, f, j)' # NoData /\ ~Blank(Heard(x, f, j)')
      BY DEF BlankOver, Blank
    <3>1. ASSUME NEW j \in Entries(x), j > 1, j - 1 > i, Heard(x, f, j) # NoData, ~Blank(Heard(x, f, j))
          PROVE  \E k \in Entries(x)' : k > i /\ Heard(x, f, k)' # NoData /\ ~Blank(Heard(x, f, k)')
      BY <1>8, <3>1
    <3>2. CASE i # 0
      <4>1. i \in Nat \ {0} /\ i + 1 \in Entries(x) /\ Blank(Heard(x, f, i + 1))
        BY <1>7, <3>2
      <4>2. PICK j \in Entries(x) : j > i + 1 /\ Heard(x, f, j) # NoData /\ ~Blank(Heard(x, f, j))
        BY <2>3, <4>1 DEF BlankOver
      <4>3. j \in Nat /\ j > 1 /\ j - 1 > i
        BY <1>7, <4>1, <4>2
      <4> QED
        BY <3>1, <4>2, <4>3
    <3>3. CASE i = 0
      <4>1. PICK k \in {0, 1} : /\ k \in Entries(x) /\ Blank(Heard(x, f, k))
                                /\ k = 0 => 1 \notin Entries(x) \/ Heard(x, f, 1) = NoData
        <5>1. ~Blank(NoData)
          BY DEF Blank, NoData
        <5>2. CASE x # e.of
          BY <1>7, <3>3, <5>2
        <5>3. CASE x = e.of
          <6>1. /\ ~e.finished /\ 0 \in Entries(x) /\ 1 \in Entries(x)
                /\ \/ Heard(x, f, 0)' = Heard(x, f, 0) /\ Heard(x, f, 1) = NoData
                   \/ Heard(x, f, 0)' = Heard(x, f, 1)
            BY <1>7, <3>3, <5>1, <5>3
          <6>2. CASE Heard(x, f, 0)' = Heard(x, f, 0) /\ Heard(x, f, 1) = NoData
            BY <3>3, <6>1, <6>2
          <6>3. CASE Heard(x, f, 0)' = Heard(x, f, 1)
            BY <3>3, <6>1, <6>3
          <6> QED
            BY <6>1, <6>2, <6>3
        <5> QED
          BY <5>2, <5>3
      <4>2. PICK j \in Entries(x) : j > k /\ Heard(x, f, j) # NoData /\ ~Blank(Heard(x, f, j))
        BY <2>3, <4>1 DEF BlankOver
      <4>3. j # 1
        BY <4>1, <4>2
      <4>4. j \in Nat /\ j > 1 /\ j - 1 > i
        BY <1>7, <3>3, <4>1, <4>2, <4>3
      <4> QED
        BY <3>1, <4>2, <4>4
    <3> QED
      BY <3>2, <3>3
  <2> QED
    BY <1>2, <2>1, <2>2, <2>3 DEF BlankInv
<1>10. ASSUME "revert" \in Timely, NEW x \in Workflows, NEW f \in Faults
       PROVE  PassInv(x, f)'
  <2>1. PassInv(x, f)
    BY <1>1, <1>10 DEF History
  <2>2. Unheard(x, f)' <=> Unheard(x, f)
    BY <1>2 DEF Unheard
  <2>3. ASSUME PassKnown(x, f), ~(x = e.of /\ e.finished) PROVE PassKnown(x, f)'
    <3>1. PICK i \in Entries(x) :
            /\ Heard(x, f, i).verdict = "Pass"
            /\ \A j \in Entries(x) : j > i => Heard(x, f, j) = NoData \/ Heard(x, f, j).verdict = "Pass"
      BY <2>3 DEF PassKnown
    <3>2. i \in Nat
      BY <1>7
    <3>3. ASSUME NEW k \in Entries(x)', k > 0, k + 1 > i
          PROVE  Heard(x, f, k)' = NoData \/ Heard(x, f, k)'.verdict = "Pass"
      <4>1. k \in Nat \ {0}
        BY <1>7, <3>3
      <4>2. k + 1 \in Entries(x) /\ Heard(x, f, k)' = Heard(x, f, k + 1)
        BY <1>7, <4>1
      <4> QED
        BY <3>1, <3>3, <4>2
    <3>4. CASE i > 1
      <4>1. i - 1 \in Entries(x)' /\ i - 1 > 0 /\ Heard(x, f, i - 1)' = Heard(x, f, i)
        BY <1>8, <3>4
      <4>2. \A k \in Entries(x)' : k > i - 1 => k > 0 /\ k + 1 > i
        BY <1>7, <3>2, <3>4
      <4>3. PICK n : n = i - 1
        OBVIOUS
      <4>4. /\ n \in Entries(x)' /\ Heard(x, f, n)' = Heard(x, f, i)
            /\ \A k \in Entries(x)' : k > n => k > 0 /\ k + 1 > i
        BY <4>1, <4>2, <4>3
      <4> QED
        BY <3>1, <3>3, <4>4 DEF PassKnown
    <3>5. CASE i \in {0, 1}
      <4>1. Heard(x, f, 0)'.verdict = "Pass"
        <5>1. NoData.verdict # "Pass"
          BY DEF NoData
        <5>2. CASE x # e.of
          BY <1>7, <3>1, <3>5, <5>2
        <5>3. CASE x = e.of
          <6>1. /\ 1 \in Entries(x)
                /\ Heard(x, f, 0)' = IF Heard(x, f, 0) # NoData /\ Heard(x, f, 1) = NoData
                                     THEN Heard(x, f, 0) ELSE Heard(x, f, 1)
            BY <1>7, <2>3, <5>3
          <6> QED
            BY <3>1, <3>5, <5>1, <6>1
        <5> QED
          BY <5>2, <5>3
      <4>2. \A k \in Entries(x)' : k > 0 => k + 1 > i
        BY <1>7, <3>5
      <4>3. 0 \in Entries(x)'
        BY <1>7
      <4> QED
        BY <3>3, <4>1, <4>2, <4>3 DEF PassKnown
    <3> QED
      BY <3>2, <3>4, <3>5
  <2> QED
    BY <1>2, <2>1, <2>2, <2>3 DEF PassInv
<1>11. History'
  BY <1>9, <1>10 DEF History
<1>12. EndIsUnderWay'
  <2> SUFFICES ASSUME NEW x \in Workflows, wf[x].phase \in Ended, ~server'[x].completed, x \notin lost',
                      ~\E i \in 1 .. Len(inbox) : inbox[i].of = x /\ inbox[i].obj.phase \in Ended
               PROVE  \E i \in 1 .. Len(stream') : stream'[i].of = x /\ stream'[i].finished
    BY <1>2 DEF EndIsUnderWay
  <2>1. ~server[x].completed /\ x \notin lost
    OBVIOUS
  <2>2. PICK i \in 1 .. Len(stream) : stream[i].of = x /\ stream[i].finished
    BY <1>1, <2>1 DEF EndIsUnderWay
  <2>3. i # 1
    BY <1>2, <2>2
  <2>4. i - 1 \in 1 .. Len(stream') /\ stream'[i - 1] = stream[(i - 1) + 1] /\ (i - 1) + 1 = i
    BY <1>2, <2>3
  <2> QED
    BY <2>2, <2>4
<1> QED
  BY <1>4, <1>5, <1>6, <1>11, <1>12 DEF IInv

-----------------------------------------------------------------------------
(* The server *)

\* What reconcileRunPhase makes of the verdicts of a terminal event.
LEMMA Reconcile ==
  ASSUME NEW phase \in RunPhases, NEW nodes
  PROVE  LET r == reconcileRunPhase(phase, nodes)
         IN  /\ r \in RunPhases
             /\ r = "Completed" => phase = "Completed"
             /\ r = "Completed" /\ Faults # {} => \E f \in Faults : nodes[f].data.verdict = "Pass"
             /\ phase = "Completed" /\ (\A f \in Faults : nodes[f].data.verdict = "Pass") =>
                   r = "Completed"
<1> DEFINE with(verdicts) == {f \in Faults : nodes[f].data.verdict \in verdicts}
           all == Cardinality(Faults)
           none == Tally(nodes, {""})
           fail == Tally(nodes, {"Fail"})
           pass == Tally(nodes, {"Pass"})
           r == reconcileRunPhase(phase, nodes)
<1>1. IsFiniteSet(Faults)
  BY EventsAssumption
<1>2. all \in Nat /\ (all = 0 <=> Faults = {})
  BY <1>1, FS_CardinalityType, FS_EmptySet
<1>3. \A verdicts : /\ Tally(nodes, verdicts) \in Nat /\ Tally(nodes, verdicts) <= all
                    /\ Tally(nodes, verdicts) = 0 <=> with(verdicts) = {}
  <2> SUFFICES ASSUME NEW verdicts
               PROVE  /\ Tally(nodes, verdicts) \in Nat /\ Tally(nodes, verdicts) <= all
                      /\ Tally(nodes, verdicts) = 0 <=> with(verdicts) = {}
    OBVIOUS
  <2>1. with(verdicts) \subseteq Faults /\ Tally(nodes, verdicts) = Cardinality(with(verdicts))
    BY DEF Tally
  <2> HIDE DEF with
  <2>2. IsFiniteSet(with(verdicts)) /\ Cardinality(with(verdicts)) <= all
    BY <1>1, <2>1, FS_Subset
  <2> QED
    BY <2>1, <2>2, FS_CardinalityType, FS_EmptySet
<1>4. /\ none \in Nat /\ none <= all /\ (none = 0 <=> with({""}) = {})
      /\ fail \in Nat /\ (fail = 0 <=> with({"Fail"}) = {})
      /\ pass \in Nat /\ (pass = 0 <=> with({"Pass"}) = {})
  BY <1>3
<1>5. r = CASE phase # "Completed" -> phase
            [] phase = "Completed" /\ all - none = 0 ->
                   IF Faults = {} THEN phase ELSE "Completed_Not_Graded"
            [] phase = "Completed" /\ all - none > 0 ->
                   IF fail > 0 \/ pass = 0 THEN "Completed_With_Probe_Failure" ELSE phase
  BY DEF reconcileRunPhase
<1>6. /\ with({""}) = {} <=> \A f \in Faults : nodes[f].data.verdict # ""
      /\ with({"Fail"}) = {} <=> \A f \in Faults : nodes[f].data.verdict # "Fail"
      /\ with({"Pass"}) = {} <=> \A f \in Faults : nodes[f].data.verdict # "Pass"
  OBVIOUS
<1> HIDE DEF with, none, fail, pass, r, all
<1>a. all \in Nat /\ none \in Nat /\ none <= all /\ (all = 0 <=> Faults = {})
  BY <1>2, <1>4
<1>7. \/ phase # "Completed" /\ r = phase
      \/ phase = "Completed" /\ all - none = 0 /\ Faults = {} /\ r = phase
      \/ phase = "Completed" /\ all - none = 0 /\ Faults # {} /\ r = "Completed_Not_Graded"
      \/ /\ phase = "Completed" /\ all - none > 0 /\ (fail > 0 \/ pass = 0)
         /\ r = "Completed_With_Probe_Failure"
      \/ phase = "Completed" /\ all - none > 0 /\ ~(fail > 0 \/ pass = 0) /\ r = phase
  <2>1. CASE phase # "Completed"
    BY <1>5, <2>1
  <2>2. CASE phase = "Completed" /\ all - none = 0
    BY <1>5, <2>2
  <2>3. CASE phase = "Completed" /\ all - none > 0
    <3>1. all - none # 0
      BY <1>a, <2>3
    <3>2. r = IF fail > 0 \/ pass = 0 THEN "Completed_With_Probe_Failure" ELSE phase
      BY <1>5, <2>3, <3>1
    <3> QED
      BY <2>3, <3>2
  <2>4. all - none = 0 \/ all - none > 0
    BY <1>a
  <2> QED
    BY <2>1, <2>2, <2>3, <2>4
<1>8. r \in RunPhases
  BY <1>7 DEF RunPhases
<1>9. r = "Completed" => phase = "Completed"
  BY <1>7
<1>10. r = "Completed" /\ Faults # {} => pass # 0
  BY <1>7
<1>11. ASSUME phase = "Completed", \A f \in Faults : nodes[f].data.verdict = "Pass"
       PROVE  r = "Completed"
  <2>1. none = 0 /\ fail = 0 /\ (pass = 0 => Faults = {})
    BY <1>4, <1>6, <1>11
  <2>2. Faults # {} => all - none # 0
    BY <1>2, <2>1
  <2> QED
    BY <1>a, <1>7, <1>11, <2>1, <2>2
<1> QED
  BY <1>4, <1>6, <1>8, <1>9, <1>10, <1>11 DEF r

\* A terminal event without an engine is the last word: the rest of the stream has none.
LEMMA NothingLater ==
  ASSUME IInv, NEW e, 1 \in 1 .. Len(stream), e = stream[1], Final(e), NEW f \in Faults,
         e.nodes[f].data = NoData
  PROVE  \A j \in Entries(e.of) : j # 0 => Heard(e.of, f, j) = NoData
<1> SUFFICES ASSUME NEW j \in Entries(e.of), j # 0 PROVE Heard(e.of, f, j) = NoData
  OBVIOUS
<1>1. Len(stream) \in Nat /\ Silent
  BY Types DEF IInv, Events
<1>2. j \in 1 .. Len(stream) /\ stream[j].of = e.of /\ Heard(e.of, f, j) = stream[j].nodes[f].data
  BY DEF Entries, Heard
<1>3. CASE j = 1
  BY <1>2, <1>3
<1>4. CASE j > 1
  BY <1>1, <1>2, <1>4 DEF Silent
<1> QED
  BY <1>1, <1>2, <1>3, <1>4

\* What the server is told of a fault in a terminal event.
LEMMA Told ==
  ASSUME IInv, stream # <<>>, NEW e, e = Head(stream), Final(e), NEW f \in Faults,
         1 \in 1 .. Len(stream), e = stream[1], e \in EventType
  PROVE  LET w == e.of
             m == AsSent(e).nodes[f]
         IN  /\ m \in NodeType /\ NodeInv(w, f, m)
             /\ wf[w].nodes[f] # "none" => m # Absent
             /\ {"revert", "operator"} \subseteq Timely => m.data.verdict # ""
             /\ "revert" \in Timely /\ w \notin lost \cup forgotten /\ ~server[w].completed
                /\ wf[w].phase = "Succeeded" /\ engine[w][f].verdict = "Pass" =>
                      m.data.verdict = "Pass"
<1> DEFINE w == e.of
           c == eventMap[w][f]
           n == e.nodes[f]
           m == AsSent(e).nodes[f]
<1>1. TypeOK /\ Cluster /\ Events /\ History
  BY DEF IInv
<1>2. w \in Workflows /\ c \in NodeType /\ n \in NodeType
  BY <1>1 DEF EventType, TypeOK
<1>3. EventInv(e) /\ FinalInv(e) /\ NodeInv(w, f, n) /\ NodeInv(w, f, c)
  BY <1>1, <1>2 DEF Events, EventInv
<1>4. m = mergeNode(c, n, e.phase)
  BY <1>1, AsSentFacts
<1>5. WorkflowInv(w) /\ EngineInv(w, f)
  BY <1>1, <1>2 DEF Cluster
<1>6. n.data = NoData => \A j \in Entries(w) : j # 0 => Heard(w, f, j) = NoData
  BY NothingLater
<1>7. /\ wf[w].nodes[f] # "none" => n # Absent
      /\ n.data = NoData => engine[w][f].stage \in {"none", "gone"}
      /\ "operator" \in Timely => n.data.verdict # ""
      /\ wf[w].phase = "Succeeded" /\ engine[w][f].verdict = "Pass" =>
            n.data = NoData \/ n.data.verdict = "Pass"
  BY <1>3 DEF FinalInv
<1>8. Heard(w, f, 0) = c.data /\ 0 \in Entries(w) /\ Entries(w) \subseteq Nat
  BY DEF Heard, Entries
<1>9. e.phase # "Stopped"
  BY DEF Final
<1>10. "revert" \in Timely => PassInv(w, f)
  BY <1>1, <1>2 DEF History
<1>11. {"revert", "operator"} \subseteq Timely => BlankInv(w, f)
  BY <1>1, <1>2 DEF History
<1> HIDE DEF w, c, n, m
<1>12. m \in NodeType /\ NodeInv(w, f, m)
  BY <1>2, <1>3, <1>4, MergeNode, MergeNodeInv
<1>13. /\ m.data = IF c.data # NoData /\ n.data = NoData THEN c.data ELSE n.data
       /\ n # Absent => m # Absent
  BY <1>2, <1>4, <1>9, MergeNode
<1>14. NoData.verdict = "none"
  BY DEF NoData
<1>15. ASSUME {"revert", "operator"} \subseteq Timely PROVE m.data.verdict # ""
  <2>1. CASE ~(c.data # NoData /\ n.data = NoData)
    BY <1>7, <1>13, <1>15, <2>1
  <2>2. CASE c.data # NoData /\ n.data = NoData
    <3>1. engine[w][f].stage = "gone"
      BY <1>3, <1>7, <2>2 DEF NodeInv
    <3>2. BlankOver(w, f)
      BY <1>5, <1>11, <1>15, <3>1 DEF EngineInv, BlankInv
    <3>3. \A j \in Entries(w) : j > 0 => Heard(w, f, j) = NoData
      BY <1>6, <1>8, <2>2
    <3>4. ~Blank(c.data)
      BY <1>8, <3>2, <3>3 DEF BlankOver
    <3> QED
      BY <1>13, <2>2, <3>4 DEF Blank
  <2> QED
    BY <2>1, <2>2
<1>16. ASSUME "revert" \in Timely, w \notin lost \cup forgotten, ~server[w].completed,
              wf[w].phase = "Succeeded", engine[w][f].verdict = "Pass"
       PROVE  m.data.verdict = "Pass"
  <2>1. CASE n.data # NoData
    BY <1>7, <1>13, <1>16, <2>1
  <2>2. CASE n.data = NoData
    <3>1. wf[w].nodes[f] = "Succeeded" /\ engine[w][f].stage = "gone"
      BY <1>5, <1>7, <1>16, <2>2 DEF WorkflowInv, EngineInv
    <3>2. PassKnown(w, f)
      BY <1>10, <1>16, <3>1 DEF PassInv
    <3>3. PICK i \in Entries(w) : Heard(w, f, i).verdict = "Pass"
      BY <3>2 DEF PassKnown
    <3>4. i = 0
      BY <1>6, <1>14, <2>2, <3>3
    <3>5. c.data.verdict = "Pass" /\ c.data # NoData
      BY <1>8, <1>14, <3>3, <3>4
    <3> QED
      BY <1>13, <2>2, <3>5
  <2> QED
    BY <2>1, <2>2
<1>17. wf[w].nodes[f] # "none" => m # Absent
  BY <1>7, <1>13
<1> QED
  BY <1>12, <1>15, <1>16, <1>17 DEF w, m

\* The server takes the event that is sent.
LEMMA SentKeeps ==
  ASSUME IInv, Sent
  PROVE  IInv'
<1>1. TypeOK /\ Cluster /\ Events /\ Shown
  BY DEF IInv
<1>2. PICK e : e = Head(stream)
  OBVIOUS
<1>3. /\ stream # <<>> /\ SendWorkflowUpdates(AsSent(e)) /\ ChaosExperimentRunEvent(AsSent(e))
      /\ UNCHANGED <<lost, forgotten, faults>>
  BY <1>2 DEF Sent
<1>4. /\ e \in EventType /\ e = stream[1] /\ Len(stream) >= 1 /\ Len(stream) \in Nat
      /\ UNCHANGED <<wf, engine, inbox>>
  BY <1>1, <1>2, <1>3, SenderTypes
<1>5. PICK a : a = AsSent(e)
  OBVIOUS
<1>6. /\ a \in EventType /\ a.of = e.of /\ a.finished = e.finished
      /\ a.phase = "Stopped" => e.phase = "Stopped"
      /\ e.finished /\ a.phase = "Completed" =>
            /\ e.phase = "Completed"
            /\ \A f \in Faults : a.nodes[f] # Absent =>
                  /\ a.nodes[f].data # NoData
                  /\ a.nodes[f].data.verdict \notin {"Fail", "Error", "Awaited"}
      /\ e.phase = "Completed"
         /\ (\A f \in Faults :
               /\ a.nodes[f].data.verdict = "Pass"
               /\ a.nodes[f].phase \notin {"Error", "Completed_With_Probe_Failure"})
         => a.phase = "Completed"
  BY <1>1, <1>4, <1>5, AsSentFacts
<1> DEFINE w == e.of
           r == reconcileRunPhase(a.phase, a.nodes)
<1>7. /\ w \in Workflows /\ e.finished \in BOOLEAN /\ a.phase \in RunPhases
      /\ a.nodes \in [Faults -> NodeType]
  BY <1>4, <1>6 DEF EventType
<1>8. /\ r \in RunPhases
      /\ r = "Completed" => a.phase = "Completed"
      /\ r = "Completed" /\ Faults # {} => \E f \in Faults : a.nodes[f].data.verdict = "Pass"
      /\ a.phase = "Completed" /\ (\A f \in Faults : a.nodes[f].data.verdict = "Pass") =>
            r = "Completed"
  BY <1>7, Reconcile
<1> HIDE DEF r
<1>9. /\ server' \in [Workflows -> [phase : {"none"} \cup RunPhases, completed : BOOLEAN]]
      /\ \A x \in Workflows : x # w \/ server[x].completed => server'[x] = server[x]
      /\ ~server[w].completed =>
            /\ server'[w].completed = e.finished
            /\ server'[w].phase = IF e.finished THEN r ELSE a.phase
  <2> DEFINE new == [phase |-> IF e.finished THEN r ELSE a.phase, completed |-> e.finished]
  <2>1. server' = IF server[w].completed THEN server ELSE [server EXCEPT ![w] = new]
    BY <1>3, <1>5, <1>6 DEF ChaosExperimentRunEvent, r
  <2>2. /\ new \in [phase : {"none"} \cup RunPhases, completed : BOOLEAN]
        /\ new.completed = e.finished /\ new.phase = IF e.finished THEN r ELSE a.phase
    BY <1>7, <1>8
  <2> HIDE DEF new
  <2> QED
    BY <1>1, <1>7, <2>1, <2>2 DEF TypeOK
<1>10. 1 \in 1 .. Len(stream)
  BY <1>4
<1>11. EventInv(e)
  BY <1>1, <1>4, <1>10 DEF Events
<1>12. ASSUME Final(e), NEW f \in Faults
       PROVE  /\ a.nodes[f] \in NodeType /\ NodeInv(w, f, a.nodes[f])
              /\ wf[w].nodes[f] # "none" => a.nodes[f] # Absent
              /\ {"revert", "operator"} \subseteq Timely => a.nodes[f].data.verdict # ""
              /\ "revert" \in Timely /\ w \notin lost \cup forgotten /\ ~server[w].completed
                 /\ wf[w].phase = "Succeeded" /\ engine[w][f].verdict = "Pass" =>
                       a.nodes[f].data.verdict = "Pass"
  BY <1>2, <1>3, <1>4, <1>5, <1>10, <1>12, Told
<1>13. Shown'
  <2> SUFFICES ASSUME NEW x \in Workflows PROVE ServerInv(x)'
    BY DEF Shown
  <2>1. CASE x # w \/ server[x].completed
    <3>1. server'[x] = server[x] /\ ServerInv(x)
      BY <1>1, <1>9, <2>1 DEF Shown
    <3>2. Started(x)' = Started(x)
      BY <1>4 DEF Started
    <3> QED
      BY <1>3, <1>4, <3>1, <3>2 DEF ServerInv
  <2>2. CASE x = w /\ ~server[w].completed /\ ~e.finished
    <3>1. ~server'[x].completed
      BY <1>9, <2>2
    <3> QED
      BY <3>1 DEF ServerInv
  <2>3. CASE x = w /\ ~server[w].completed /\ e.finished
    <3>1. server'[x].phase = r
      BY <1>9, <2>3
    <3>2. wf[w].shutdown \/ wf[w].phase \in Ended
      BY <1>11, <2>3 DEF EventInv
    <3>3. ASSUME {"revert", "operator"} \subseteq Timely, Faults # {}, r = "Completed"
          PROVE  /\ wf[w].phase \in Ended
                 /\ Started(w) # {} /\ \A f \in Started(w) : engine[w][f].verdict = "Pass"
      <4>1. e.phase = "Completed" /\ Final(e) /\ FinalInv(e)
        BY <1>6, <1>8, <1>11, <2>3, <3>3 DEF Final, EventInv
      <4>2. \A f \in Faults : a.nodes[f].data.verdict = "Pass" => engine[w][f].verdict = "Pass" /\ f \in Started(w)
        <5> SUFFICES ASSUME NEW f \in Faults, a.nodes[f].data.verdict = "Pass"
                     PROVE  engine[w][f].verdict = "Pass" /\ f \in Started(w)
          OBVIOUS
        <5>1. NodeInv(w, f, a.nodes[f])
          BY <1>12, <4>1
        <5>2. engine[w][f].verdict = "Pass" /\ engine[w][f].stage # "none"
          BY <5>1 DEF NodeInv, NoData
        <5>3. EngineInv(w, f)
          BY <1>1, <1>7 DEF Cluster
        <5> QED
          BY <5>2, <5>3 DEF EngineInv, Started
      <4>3. ASSUME NEW f \in Started(w) PROVE engine[w][f].verdict = "Pass"
        <5>1. f \in Faults /\ wf[w].nodes[f] # "none"
          BY DEF Started
        <5>2. /\ a.nodes[f] \in NodeType /\ NodeInv(w, f, a.nodes[f]) /\ a.nodes[f] # Absent
              /\ a.nodes[f].data.verdict # ""
          BY <1>12, <3>3, <4>1, <5>1
        <5>3. /\ a.nodes[f].data # NoData
              /\ a.nodes[f].data.verdict \notin {"Fail", "Error", "Awaited"}
          BY <1>6, <1>8, <2>3, <3>3, <5>1, <5>2
        <5>4. a.nodes[f].data.verdict \in {"none", "", "Awaited", "Pass", "Fail", "Error"}
          BY <5>2 DEF NodeType, DataType, Verdicts
        <5>5. a.nodes[f].data.verdict = "Pass"
          BY <5>2, <5>3, <5>4 DEF NodeInv
        <5> QED
          BY <4>2, <5>1, <5>5
      <4> QED
        BY <1>8, <3>3, <4>1, <4>2, <4>3 DEF FinalInv
    <3>4. ASSUME "revert" \in Timely, w \notin lost \cup forgotten, wf[w].phase = "Succeeded",
                 \A f \in Faults : engine[w][f].verdict = "Pass"
          PROVE  r = "Completed"
      <4>1. WorkflowInv(w)
        BY <1>1, <1>7 DEF Cluster
      <4>2. Final(e)
        BY <1>11, <2>3, <3>4, <4>1 DEF EventInv, WorkflowInv, Final
      <4>3. e.phase = "Completed"
        BY <1>11, <3>4, <4>2 DEF EventInv, FinalInv
      <4>4. \A f \in Faults : /\ a.nodes[f].data.verdict = "Pass"
                              /\ a.nodes[f].phase \notin {"Error", "Completed_With_Probe_Failure"}
        <5> SUFFICES ASSUME NEW f \in Faults
                     PROVE  /\ a.nodes[f].data.verdict = "Pass"
                            /\ a.nodes[f].phase \notin {"Error", "Completed_With_Probe_Failure"}
          OBVIOUS
        <5>1. a.nodes[f].data.verdict = "Pass" /\ NodeInv(w, f, a.nodes[f])
          BY <1>12, <2>3, <3>4, <4>2
        <5> QED
          BY <5>1 DEF NodeInv
      <4> QED
        BY <1>6, <1>8, <4>3, <4>4
    <3>5. Started(w)' = Started(w)
      BY <1>4 DEF Started
    <3> QED
      BY <1>3, <1>4, <2>3, <3>1, <3>2, <3>3, <3>4, <3>5 DEF ServerInv
  <2> QED
    BY <1>7, <2>1, <2>2, <2>3
<1>14. /\ lost' \in SUBSET Workflows /\ faults' \in 0 .. MaxFaults /\ lost \subseteq lost'
  BY <1>1, <1>3 DEF TypeOK
<1>15. /\ \A x \in Workflows : server[x].completed => server'[x].completed
       /\ e.finished => server'[w].completed
  BY <1>7, <1>9
<1> QED
  BY <1>2, <1>3, <1>9, <1>13, <1>14, <1>15, SenderKeeps

\* An event is lost.
LEMMA SendFailsKeeps ==
  ASSUME IInv, SendFails
  PROVE  IInv'
<1>1. TypeOK /\ Shown
  BY DEF IInv
<1>2. PICK e : e = Head(stream)
  OBVIOUS
<1>3. /\ stream # <<>> /\ SendWorkflowUpdates(AsSent(e)) /\ UNCHANGED <<server, forgotten>>
      /\ lost' = IF AsSent(e).finished THEN lost \cup {AsSent(e).of} ELSE lost
      /\ faults < MaxFaults /\ faults' = faults + 1
  BY <1>2 DEF SendFails, Fault
<1>4. e \in EventType /\ UNCHANGED <<wf, engine, inbox>>
  BY <1>1, <1>2, <1>3, SenderTypes
<1>5. AsSent(e).of = e.of /\ AsSent(e).finished = e.finished
  BY <1>1, <1>4, AsSentFacts
<1>6. lost' = IF e.finished THEN lost \cup {e.of} ELSE lost
  BY <1>3, <1>5
<1>7. e.of \in Workflows
  BY <1>4 DEF EventType
<1>8. faults' \in 0 .. MaxFaults
  BY <1>1, <1>3, EventsAssumption DEF TypeOK
<1>9. Shown'
  <2> SUFFICES ASSUME NEW x \in Workflows PROVE ServerInv(x)'
    BY DEF Shown
  <2>1. ServerInv(x)
    BY <1>1 DEF Shown
  <2>2. Started(x)' = Started(x)
    BY <1>4 DEF Started
  <2> QED
    BY <1>3, <1>4, <1>6, <2>1, <2>2 DEF ServerInv
<1>10. /\ lost' \in SUBSET Workflows /\ lost \subseteq lost'
       /\ server' \in [Workflows -> [phase : {"none"} \cup RunPhases, completed : BOOLEAN]]
  BY <1>1, <1>3, <1>6, <1>7 DEF TypeOK
<1> QED
  BY <1>2, <1>3, <1>6, <1>8, <1>9, <1>10, SenderKeeps

-----------------------------------------------------------------------------
(* Restarts *)

\* A sequence that SetToSeqs makes of a finite set lists each of its elements.
LEMMA SetToSeqsLists ==
  ASSUME NEW S, IsFiniteSet(S), NEW order \in SetToSeqs(S)
  PROVE  /\ order \in Seq(S) /\ Len(order) \in Nat
         /\ \A i \in 1 .. Len(order) : order[i] \in S
         /\ \A x \in S : \E i \in 1 .. Len(order) : order[i] = x
<1> DEFINE n == Cardinality(S)
<1>1. n \in Nat
  BY FS_CardinalityType
<1>2. order \in [1 .. n -> S] /\ \A i, j \in 1 .. n : i # j => order[i] # order[j]
  BY DEF SetToSeqs
<1>3. order \in Injection(1 .. n, S)
  BY <1>2 DEF Injection, IsInjective
<1>4. IsFiniteSet(1 .. n) /\ Cardinality(1 .. n) = n
  BY <1>1, FS_Interval
<1>5. order \in Surjection(1 .. n, S)
  BY <1>3, <1>4, FS_Injection
<1>6. \A x \in S : \E i \in 1 .. n : order[i] = x
  BY <1>5 DEF Surjection
<1>7. order \in Seq(S) /\ Len(order) = n
  BY <1>1, <1>2
<1> QED
  BY <1>1, <1>2, <1>6, <1>7

\* A restarted subscriber hears of every workflow again.
LEMMA RestartKeeps ==
  ASSUME IInv, Restart
  PROVE  IInv'
<1> DEFINE there == {w \in Workflows : wf[w].phase # "none"}
<1>1. TypeOK /\ Cluster /\ Shown
  BY DEF IInv
<1>2. /\ stream' = <<>> /\ eventMap' = [w \in Workflows |-> NoEvent] /\ forgotten' = there
      /\ UNCHANGED <<wf, engine, server, lost>> /\ faults < MaxFaults /\ faults' = faults + 1
  BY DEF Restart, Fault
<1>3. PICK order \in SetToSeqs(there) :
         inbox' = [i \in 1 .. Len(order) |-> Version(order[i], NoNodes, wf[order[i]])]
  BY DEF Restart
<1>4. there \subseteq Workflows /\ IsFiniteSet(there)
  BY EventsAssumption, FS_Subset
<1>5. /\ Len(order) \in Nat
      /\ \A i \in 1 .. Len(order) : order[i] \in there
      /\ \A x \in there : \E i \in 1 .. Len(order) : order[i] = x
  <2> HIDE DEF there
  <2> QED
    BY <1>4, SetToSeqsLists
<1>6. \A i \in 1 .. Len(order) :
         LET v == Version(order[i], NoNodes, wf[order[i]])
         IN  v \in VersionType /\ v.of = order[i] /\ v.obj = wf[order[i]]
  BY <1>1, <1>4, <1>5 DEF Version, VersionType, NoNodes, NodePhases, TypeOK
<1>7. /\ inbox' \in Seq(VersionType) /\ Len(inbox') = Len(order)
      /\ \A i \in 1 .. Len(inbox') : inbox'[i].of = order[i] /\ inbox'[i].obj = wf[order[i]]
  <2> DEFINE version(i) == Version(order[i], NoNodes, wf[order[i]])
  <2>1. inbox' = [i \in 1 .. Len(order) |-> version(i)] /\ \A i \in 1 .. Len(order) : version(i) \in VersionType
    BY <1>3, <1>6
  <2> HIDE DEF version
  <2>2. inbox' \in Seq(VersionType) /\ Len(inbox') = Len(order)
    BY <1>5, <2>1
  <2>3. \A i \in 1 .. Len(order) : inbox'[i] = version(i)
    BY <2>1
  <2> QED
    BY <1>6, <2>2, <2>3 DEF version
<1> HIDE DEF there
<1>8. Len(stream') = 0 /\ stream' \in Seq(EventType)
  BY <1>2
<1>9. /\ NoEvent \in [Faults -> NodeType] /\ \A f \in Faults : NoEvent[f].data = NoData
      /\ NoData.verdict = "none"
  BY DEF NoEvent, Absent, NoData, NodeType, DataType, NodePhases
<1>10. TypeOK'
  <2>1. eventMap' \in [Workflows -> [Faults -> NodeType]]
    BY <1>2, <1>9
  <2>2. faults' \in 0 .. MaxFaults /\ Len(stream') <= StreamSize + 1
    BY <1>1, <1>2, <1>8, EventsAssumption DEF TypeOK
  <2> QED
    BY <1>1, <1>2, <1>4, <1>7, <1>8, <2>1, <2>2 DEF TypeOK, VersionType
<1>11. Cluster'
  <2>1. \A i \in 1 .. Len(inbox') : VersionInv(inbox[i])'
    BY <1>2, <1>7 DEF VersionInv
  <2>2. \A x \in Workflows : WorkflowInv(x)' /\ \A f \in Faults : EngineInv(x, f)'
    BY <1>1, <1>2 DEF Cluster, WorkflowInv, AllEnded, EngineInv
  <2> QED
    BY <2>1, <2>2 DEF Cluster
<1>12. \A w \in Workflows, f \in Faults : eventMap'[w][f].data = NoData
  BY <1>2, <1>9
<1>13. Events'
  <2>1. \A w \in Workflows, f \in Faults : NodeInv(w, f, eventMap[w][f])'
    BY <1>9, <1>12 DEF NodeInv
  <2>2. Silent' /\ \A i \in 1 .. Len(stream') : EventInv(stream[i])'
    BY <1>8 DEF Silent
  <2> QED
    BY <2>1, <2>2 DEF Events
<1>14. ASSUME NEW w \in Workflows, NEW f \in Faults PROVE BlankInv(w, f)' /\ PassInv(w, f)'
  <2>1. \A i \in Entries(w)' : Heard(w, f, i)' = NoData
    <3>1. \A i \in Entries(w)' : i = 0
      BY <1>8 DEF Entries
    <3>2. Heard(w, f, 0)' = NoData
      BY <1>12 DEF Heard
    <3> QED
      BY <3>1, <3>2
  <2>2. BlankOver(w, f)'
    BY <1>9, <2>1 DEF BlankOver, Blank
  <2>3. ASSUME w \notin forgotten', wf[w].nodes[f] = "Succeeded" PROVE FALSE
    <3>1. wf[w].phase = "none"
      BY <1>2, <2>3 DEF there
    <3>2. wf[w].nodes = NoNodes
      BY <1>1, <3>1 DEF Cluster, WorkflowInv
    <3> QED
      BY <2>3, <3>2 DEF NoNodes
  <2> QED
    BY <1>2, <2>2, <2>3 DEF BlankInv, PassInv
<1>15. History'
  BY <1>14 DEF History
<1>16. Shown'
  <2> SUFFICES ASSUME NEW w \in Workflows PROVE ServerInv(w)'
    BY DEF Shown
  <2>1. ServerInv(w) /\ Started(w)' = Started(w)
    BY <1>1, <1>2 DEF Shown, Started
  <2>2. wf[w].phase = "Succeeded" => w \in forgotten'
    BY <1>2 DEF there
  <2> QED
    BY <1>2, <2>1, <2>2 DEF ServerInv
<1>17. EndIsUnderWay'
  <2> SUFFICES ASSUME NEW w \in Workflows, wf[w].phase \in Ended
               PROVE  \E i \in 1 .. Len(inbox') : inbox'[i].of = w /\ inbox'[i].obj.phase \in Ended
    BY <1>2 DEF EndIsUnderWay
  <2>1. w \in there
    BY DEF there, Ended
  <2>2. PICK i \in 1 .. Len(order) : order[i] = w
    BY <1>5, <2>1
  <2> QED
    BY <1>7, <2>2
<1> QED
  BY <1>10, <1>11, <1>13, <1>15, <1>16, <1>17 DEF IInv

-----------------------------------------------------------------------------
(* The theorems *)

LEMMA InitIInv == Init => IInv
<1> SUFFICES ASSUME Init PROVE IInv
  OBVIOUS
<1>1. /\ \A w \in Workflows : /\ wf[w].phase = "none" /\ wf[w].nodes = NoNodes /\ ~wf[w].shutdown
                              /\ ~server[w].completed
      /\ \A w \in Workflows, f \in Faults :
            /\ engine[w][f].stage = "none" /\ engine[w][f].verdict = "" /\ wf[w].nodes[f] = "none"
            /\ eventMap[w][f].data = NoData
  BY DEF Init, Engine, NoNodes, NoEvent, Absent
<1>2. /\ NoEvent \in [Faults -> NodeType] /\ NoData.verdict = "none"
      /\ Engine("none", "") \in EngineType
  BY DEF NoEvent, Absent, NoData, NodeType, DataType, NodePhases, Engine, EngineType
<1>3. inbox = <<>> /\ stream = <<>> /\ Len(inbox) = 0 /\ Len(stream) = 0
  BY DEF Init
<1>4. TypeOK
  <2>1. [phase |-> "none", shutdown |-> FALSE, nodes |-> [f \in Faults |-> "none"]] \in WorkflowType
    BY DEF WorkflowType, NodePhases
  <2>2. /\ wf \in [Workflows -> WorkflowType]
        /\ engine \in [Workflows -> [Faults -> EngineType]]
        /\ eventMap \in [Workflows -> [Faults -> NodeType]]
        /\ server \in [Workflows -> [phase : {"none"} \cup RunPhases, completed : BOOLEAN]]
    BY <1>2, <2>1 DEF Init
  <2>3. Len(stream) <= StreamSize + 1 /\ faults \in 0 .. MaxFaults
    <3>1. faults = 0 /\ Len(stream) = 0
      BY <1>3 DEF Init
    <3> QED
      BY <3>1, EventsAssumption
  <2>4. /\ inbox \in Seq([of : Workflows, old : [Faults -> NodePhases], obj : WorkflowType])
        /\ stream \in Seq(EventType) /\ lost = {} /\ forgotten = {}
    <3>1. \A S : <<>> \in Seq(S)
      OBVIOUS
    <3>2. lost = {} /\ forgotten = {}
      BY DEF Init
    <3> QED
      BY <1>3, <3>1, <3>2
  <2> QED
    BY <2>2, <2>3, <2>4 DEF TypeOK
<1>5. Cluster
  <2>1. \A w \in Workflows : WorkflowInv(w)
    BY <1>1 DEF WorkflowInv, Ended
  <2>2. \A w \in Workflows, f \in Faults : EngineInv(w, f)
    BY <1>1 DEF EngineInv
  <2>3. \A i \in 1 .. Len(inbox) : VersionInv(inbox[i])
    BY <1>3
  <2> QED
    BY <2>1, <2>2, <2>3 DEF Cluster
<1>6. Events
  <2>1. \A w \in Workflows, f \in Faults : NodeInv(w, f, eventMap[w][f])
    BY <1>1, <1>2 DEF NodeInv
  <2>2. Silent /\ \A i \in 1 .. Len(stream) : EventInv(stream[i])
    BY <1>3 DEF Silent
  <2> QED
    BY <2>1, <2>2 DEF Events
<1>7. History
  BY <1>1 DEF History, BlankInv, PassInv, Over
<1>8. Shown
  BY <1>1 DEF Shown, ServerInv
<1>9. EndIsUnderWay
  BY <1>1 DEF EndIsUnderWay, Ended
<1> QED
  BY <1>4, <1>5, <1>6, <1>7, <1>8, <1>9 DEF IInv

LEMMA StutterKeeps ==
  ASSUME IInv, UNCHANGED vars
  PROVE  IInv'
<1>1. TypeOK' /\ Cluster'
  <2>1. TypeOK /\ Cluster /\ UNCHANGED vars
    BY DEF IInv
  <2>2. TypeOK'
    BY <2>1 DEF vars, TypeOK
  <2>3. \A w \in Workflows : WorkflowInv(w)' /\ \A f \in Faults : EngineInv(w, f)'
    <3>1. UNCHANGED <<wf, engine>> /\ Cluster
      BY <2>1 DEF vars
    <3> QED
      BY <3>1 DEF Cluster, WorkflowInv, AllEnded, EngineInv
  <2>4. \A i \in 1 .. Len(inbox') : VersionInv(inbox[i])'
    BY <2>1 DEF vars, Cluster, VersionInv
  <2> QED
    BY <2>2, <2>3, <2>4 DEF Cluster
<1>2. Onward /\ Grows /\ \A w \in Workflows, f \in Faults : HeardOf(w, f)
  <2>1. Len(inbox) \in Nat
    BY Types DEF IInv
  <2> QED
    BY <2>1 DEF vars, Onward, Grows, HeardOf
<1> QED
  BY <1>1, <1>2, ClusterKeeps DEF vars

\* What was heard of every fault, and what the server was told, is as the invariant says it is
\* in every reachable state.
THEOREM Inductive == Spec => []IInv
<1>1. Init => IInv
  BY InitIInv
<1>2. IInv /\ [Next]_vars => IInv'
  <2> SUFFICES ASSUME IInv, [Next]_vars PROVE IInv'
    OBVIOUS
  <2>1. CASE UNCHANGED vars
    BY <2>1, StutterKeeps
  <2>2. ASSUME NEW w \in Workflows,
               \/ Submitted(w) \/ WorkflowEnds(w) \/ WorkflowTouched(w) \/ StopWorkflow(w)
               \/ \E f \in Faults : FaultScheduled(w, f) \/ FaultRuns(w, f) \/ FaultEnds(w, f)
        PROVE  IInv'
    BY <2>2, WorkflowStepsKeep
  <2>3. ASSUME NEW w \in Workflows,
               EnginesReverted(w) \/ StopChaosEngineState(w) \/ \E f \in Faults : EngineLives(w, f)
        PROVE  IInv'
    BY <2>3, EngineStepsKeep
  <2>4. CASE startWatchWorkflow
    BY <2>4, HandlerKeeps
  <2>5. CASE Sent
    BY <2>5, SentKeeps
  <2>6. CASE SendFails
    BY <2>6, SendFailsKeeps
  <2>7. CASE Restart
    BY <2>7, RestartKeeps
  <2> QED
    BY <2>1, <2>2, <2>3, <2>4, <2>5, <2>6, <2>7 DEF Next
<1> QED
  BY <1>1, <1>2, PTL DEF Spec

\* Every variable keeps its type: no number of versions puts more events into the stream than
\* it holds and the handler waits with, and neither the merge with the previous event nor the
\* corrections of the status make a node or a phase the server does not know.
THEOREM Typing == Spec => []TypeOK
<1>1. IInv => TypeOK
  BY DEF IInv
<1> QED
  BY <1>1, Inductive, PTL

\* The end of a workflow is known to the server, was lost in a failed send, or is still to be
\* handed over, or in the stream: through any restarts, any stops, and any order of versions.
THEOREM EndIsNotDropped == Spec => []EndIsUnderWay
<1>1. IInv => EndIsUnderWay
  BY DEF IInv
<1> QED
  BY <1>1, Inductive, PTL

\* With a revert that waits until the handler has seen the end of the faults, and fault steps
\* that do not give up before the operator picks their engines up, a run of at least one fault
\* that the server shows as cleanly completed did inject chaos, and each fault it started
\* passed, through any failed sends and restarts (getExperimentStatus, reconcileRunPhase).
THEOREM CleanRunPassed ==
  ASSUME {"revert", "operator"} \subseteq Timely, Faults # {}
  PROVE  Spec => []CleanMeansPassed
<1>1. IInv => CleanMeansPassed
  BY DEF IInv, Shown, ServerInv, CleanMeansPassed, Started
<1> QED
  BY <1>1, Inductive, PTL

\* With a revert that waits until the handler has seen the end of the faults, a workflow that
\* succeeded with a pass of every fault is shown as cleanly completed, unless its terminal
\* event was lost or a restart forgot the event before it (mergeNode).
THEOREM PassReaches ==
  ASSUME "revert" \in Timely
  PROVE  Spec => []PassIsReported
<1>1. IInv => PassIsReported
  BY DEF IInv, Shown, ServerInv, PassIsReported
<1> QED
  BY <1>1, Inductive, PTL
==============================================================================
