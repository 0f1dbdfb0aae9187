-------------------------- MODULE AgentRegistryProofs --------------------------
(***************************************************************************)
(* Proofs about AgentRegistry, for any number of ids, names, namespaces,   *)
(* calls under way and faults.                                             *)
(*                                                                         *)
(* The argument: no handler ever moves an agent out of REGISTERED except   *)
(* into DELETED, in the collection or in a copy it holds (Kept).  So every *)
(* live agent is in the partial index, and the index alone separates the   *)
(* names.  What is not in the collection and once was comes back by no     *)
(* write, because ReplaceOne does not insert and an id is issued once.     *)
(***************************************************************************)
EXTENDS AgentRegistry, TLAPS

\* The statuses a document ever has.
Kept == {"REGISTERED", "DELETED"}

\* What is known of a call between its steps.
CallInv(call) ==
    /\ call.pc \in {"helm", "read", "write"} => call.agent \in issued
    /\ call.pc = "write" => call.copy \in Docs /\ call.copy.status \in Kept
    /\ call.result = "undone" =>
          /\ call.agent \in issued
          /\ \/ call.pc = "idle" /\ ~Exists(call.agent)
             \/ call.op = "remove" /\ call.pc \in {"read", "write"}

CallsInv == \A c \in Calls : CallInv(calls[c])

StatusKept == \A a \in Ids : Exists(a) => agents[a].status \in Kept

IInv == TypeOK /\ CallsInv /\ StatusKept /\ OneAgentPerName

-----------------------------------------------------------------------------
(* Lemmas on the operators *)

\* The call of an idle slot is well formed.
LEMMA IdleIsCall == Idle \in CallStates /\ CallInv(Idle)
<1>1. \E ask : ask \in Asks
  <2>1. PICK n \in Names, ns \in Namespaces : TRUE
    BY SomethingToAskFor
  <2>2. [name |-> n, ns |-> ns] \in Asks
    BY <2>1 DEF Asks
  <2> QED
    BY <2>2
<1>2. AnyAsk \in Asks
  BY <1>1 DEF AnyAsk
<1> QED
  BY <1>2 DEF Idle, CallStates, CallInv, Ops, Steps, Results

\* An answered call is well formed, if an undone deployment has no agent left.
LEMMA EndIsCall ==
  ASSUME TypeOK, NEW c \in Calls, NEW result \in Results, Ends(c, result),
         result = "undone" => calls[c].agent \in issued' /\ agents'[calls[c].agent] = NoDoc
  PROVE  /\ calls' \in [Calls -> CallStates]
         /\ CallInv(calls[c])'
         /\ \A d \in Calls \ {c} : calls'[d] = calls[d]
<1> DEFINE e == [Idle EXCEPT !.ask = IF result = "duplicate" THEN calls[c].ask ELSE @,
                             !.agent = IF result = "undone" THEN calls[c].agent ELSE @,
                             !.result = result]
<1>1. calls \in [Calls -> CallStates] /\ calls[c] \in CallStates
  BY DEF TypeOK
<1>2. e \in CallStates /\ e.pc = "idle" /\ e.result = result
      /\ (result = "undone" => e.agent = calls[c].agent)
  BY <1>1, IdleIsCall DEF CallStates, Idle
<1>3. calls' = [calls EXCEPT ![c] = e]
  BY DEF Ends
<1>4. calls'[c] = e
  BY <1>1, <1>3
<1>5. CallInv(calls[c])'
  BY <1>2, <1>4 DEF CallInv, Exists
<1> QED
  BY <1>1, <1>2, <1>3, <1>5

\* No check of an agent's health and no deployment gets past updateAgentStatus.
LEMMA StatusStays ==
  ASSUME NEW doc \in Docs, doc.status \in Kept, NEW to \in {"ACTIVE", "INACTIVE"}
  PROVE  WithStatus(doc, to) = doc
<1>1. CASE doc.status = "REGISTERED"
  BY <1>1 DEF WithStatus, CanBecome
<1>2. CASE doc.status = "DELETED"
  BY <1>2 DEF WithStatus, CanBecome
<1> QED
  BY <1>1, <1>2 DEF Kept

\* What a handler writes back keeps the statuses and never undoes a deletion
\* that its copy has seen.
LEMMA WrittenKept ==
  ASSUME IInv, NEW c \in Calls, calls[c].pc = "write", calls[c].op # "remove",
         NEW doc \in Written(c)
  PROVE  /\ doc \in Docs /\ doc.status \in Kept
         /\ calls[c].copy.status = "DELETED" => doc.status = "DELETED"
<1>1. calls[c].copy \in Docs /\ calls[c].copy.status \in Kept /\ calls[c] \in CallStates
  BY DEF IInv, CallsInv, CallInv, TypeOK
<1>2. CASE calls[c].op = "update"
  <2>1. doc = [calls[c].copy EXCEPT !.name = calls[c].ask.name]
    BY <1>2 DEF Written
  <2>2. calls[c].ask.name \in Names
    BY <1>1 DEF CallStates, Asks
  <2> QED
    BY <1>1, <2>1, <2>2 DEF Docs
<1>3. CASE calls[c].op = "delete"
  <2>1. doc = [calls[c].copy EXCEPT !.status = "DELETED"]
    BY <1>3 DEF Written
  <2> QED
    BY <1>1, <2>1 DEF Docs, Statuses, Kept
<1>4. CASE calls[c].op \in {"deploy", "check"}
  <2>1. doc \in {WithStatus(calls[c].copy, "ACTIVE"), WithStatus(calls[c].copy, "INACTIVE")}
    BY <1>4 DEF Written
  <2>2. doc = calls[c].copy
    BY <1>1, <2>1, StatusStays
  <2> QED
    BY <1>1, <2>2
<1>5. CASE calls[c].op \notin {"update", "delete", "deploy", "check"}
  <2>1. doc = calls[c].copy
    BY <1>5 DEF Written
  <2> QED
    BY <1>1, <2>1
<1> QED
  BY <1>2, <1>3, <1>4, <1>5

\* A step that leaves the collection alone and moves one call to a well-formed
\* state keeps the invariant.
LEMMA OneCallMoves ==
  ASSUME IInv, UNCHANGED <<agents, issued>>, faults' \in 0..MaxFaults,
         NEW c \in Calls, calls' \in [Calls -> CallStates],
         CallInv(calls[c])', \A d \in Calls \ {c} : calls'[d] = calls[d]
  PROVE  IInv'
<1>1. CallsInv'
  BY DEF IInv, CallsInv, CallInv, Exists
<1>2. TypeOK'
  BY DEF IInv, TypeOK
<1>3. StatusKept' /\ OneAgentPerName'
  BY DEF IInv, StatusKept, OneAgentPerName, Exists, Live
<1> QED
  BY <1>1, <1>2, <1>3 DEF IInv

-----------------------------------------------------------------------------
(* The invariant *)

\* Nothing is registered in the initial state.
LEMMA InitIInv == Init => IInv
<1> SUFFICES ASSUME Init PROVE IInv
  OBVIOUS
<1>1. TypeOK
  BY IdleIsCall, FaultsAssumption DEF Init, TypeOK
<1>2. CallsInv
  BY IdleIsCall DEF Init, CallsInv
<1>3. StatusKept /\ OneAgentPerName
  BY DEF Init, StatusKept, OneAgentPerName, Exists, Live
<1> QED
  BY <1>1, <1>2, <1>3 DEF IInv

\* A registration that is answered, or goes on to helm, with an issued id.
LEMMA RegisteredKeeps ==
  ASSUME TypeOK, NEW c \in Calls, calls[c].pc \in {"lookup", "insert"}, CallInv(calls[c]),
         NEW a \in Ids, a \in issued', Registered(c, a)
  PROVE  /\ calls' \in [Calls -> CallStates]
         /\ CallInv(calls[c])'
         /\ \A d \in Calls \ {c} : calls'[d] = calls[d]
<1>1. CASE calls[c].op = "deploy"
  <2> DEFINE call == [calls[c] EXCEPT !.agent = a, !.pc = "helm"]
  <2>1. calls \in [Calls -> CallStates] /\ calls[c] \in CallStates
    BY DEF TypeOK
  <2>2. calls' = [calls EXCEPT ![c] = call]
    BY <1>1 DEF Registered
  <2>3. call \in CallStates /\ call.agent = a /\ call.pc = "helm"
        /\ call.result = calls[c].result
    BY <2>1 DEF CallStates, Steps
  <2>4. call.result # "undone"
    BY <1>1, <2>1, <2>3 DEF CallInv, CallStates
  <2>5. calls'[c] = call
    BY <2>1, <2>2
  <2>6. CallInv(calls[c])'
    BY <2>3, <2>4, <2>5 DEF CallInv
  <2> QED
    BY <2>1, <2>2, <2>3, <2>6
<1>2. CASE calls[c].op # "deploy"
  <2>1. Ends(c, "none")
    BY <1>2 DEF Registered
  <2> QED
    BY <2>1, EndIsCall DEF Results
<1> QED
  BY <1>1, <1>2

\* An agent that was issued and is not in the collection stays out of it, and
\* so do the undone deployments of the calls a step does not touch.
LEMMA OthersKeep ==
  ASSUME IInv, NEW d \in Calls, calls'[d] = calls[d], issued \subseteq issued',
         \A a \in issued : ~Exists(a) => ~Exists(a)'
  PROVE  CallInv(calls[d])'
BY DEF IInv, CallsInv, CallInv

\* A registration that inserts a document.
LEMMA CreateAgentKeeps ==
  ASSUME IInv, NEW c \in Calls, NEW a \in Ids, CreateAgent(c, a)
  PROVE  IInv'
<1>1. TypeOK /\ CallInv(calls[c]) /\ calls[c] \in CallStates
  BY DEF IInv, TypeOK, CallsInv
<1>2. CASE Indexed(a, NewAgent(c))
  <2>1. Ends(c, "none") /\ UNCHANGED <<agents, issued, faults>>
    BY <1>2 DEF CreateAgent
  <2>2. /\ calls' \in [Calls -> CallStates]
        /\ CallInv(calls[c])'
        /\ \A d \in Calls \ {c} : calls'[d] = calls[d]
    BY <1>1, <2>1, EndIsCall DEF Results
  <2> QED
    BY <1>1, <2>1, <2>2, OneCallMoves DEF TypeOK
<1>3. CASE ~Indexed(a, NewAgent(c))
  <2> DEFINE doc == NewAgent(c)
  <2>1. /\ agents' = [agents EXCEPT ![a] = doc]
        /\ issued' = issued \cup {a}
        /\ Registered(c, a)
        /\ UNCHANGED faults
        /\ calls[c].pc = "insert"
        /\ a \notin issued
    BY <1>3 DEF CreateAgent
  <2>2. doc \in Docs /\ doc.status = "REGISTERED"
    BY <1>1 DEF NewAgent, Docs, Statuses, CallStates, Asks
  <2>3. /\ calls' \in [Calls -> CallStates]
        /\ CallInv(calls[c])'
        /\ \A d \in Calls \ {c} : calls'[d] = calls[d]
    BY <1>1, <2>1, RegisteredKeeps
  <2>4. TypeOK'
    BY <1>1, <2>1, <2>2, <2>3 DEF TypeOK
  <2>5. \A b \in issued : ~Exists(b) => ~Exists(b)'
    BY <1>1, <2>1 DEF TypeOK, Exists
  <2>6. CallsInv'
    BY <2>1, <2>3, <2>5, OthersKeep DEF CallsInv
  <2>7. StatusKept'
    BY <1>1, <2>1, <2>2 DEF IInv, StatusKept, Exists, TypeOK, Kept
  <2>8. OneAgentPerName'
    BY <1>1, <1>3, <2>1, <2>2
    DEF IInv, StatusKept, OneAgentPerName, Live, Exists, TypeOK, Kept, Indexed
  <2> QED
    BY <2>4, <2>6, <2>7, <2>8 DEF IInv
<1> QED
  BY <1>2, <1>3

\* A handler that writes its copy back.
LEMMA ReplacesKeeps ==
  ASSUME IInv, NEW c \in Calls, Replaces(c)
  PROVE  IInv'
<1>1. TypeOK /\ CallInv(calls[c]) /\ calls[c] \in CallStates
  BY DEF IInv, TypeOK, CallsInv
<1>2. PICK doc \in Written(c) :
          agents' = IF Refused(c, doc) THEN agents ELSE UpdateAgent(calls[c].agent, doc)
  BY DEF Replaces
<1>3. /\ calls[c].pc = "write" /\ calls[c].op # "remove"
      /\ Ends(c, "none") /\ UNCHANGED <<issued, faults>>
  BY DEF Replaces
<1>4. /\ calls' \in [Calls -> CallStates]
      /\ CallInv(calls[c])'
      /\ \A d \in Calls \ {c} : calls'[d] = calls[d]
  BY <1>1, <1>3, EndIsCall DEF Results
<1>5. CASE agents' = agents
  BY <1>1, <1>3, <1>4, <1>5, OneCallMoves DEF TypeOK
<1>6. CASE agents' # agents
  <2> DEFINE a == calls[c].agent
  <2>1. /\ agents' = [agents EXCEPT ![a] = doc]
        /\ Exists(a) /\ ~Indexed(a, doc)
    BY <1>2, <1>6 DEF UpdateAgent
  <2>2. a \in issued /\ a \in Ids
    BY <1>1, <1>3 DEF CallInv, TypeOK
  <2>3. doc \in Docs /\ doc.status \in Kept
    BY <1>2, <1>3, WrittenKept
  <2>4. TypeOK'
    BY <1>1, <1>3, <1>4, <2>1, <2>2, <2>3 DEF TypeOK
  <2>5. \A b \in issued : ~Exists(b) => ~Exists(b)'
    BY <1>1, <2>1, <2>2 DEF TypeOK, Exists
  <2>6. CallsInv'
    BY <1>3, <1>4, <2>5, OthersKeep DEF CallsInv
  <2>7. StatusKept'
    BY <1>1, <2>1, <2>2, <2>3 DEF IInv, StatusKept, Exists, TypeOK
  <2>8. OneAgentPerName'
    BY <1>1, <2>1, <2>2, <2>3
    DEF IInv, StatusKept, OneAgentPerName, Live, Exists, TypeOK, Kept, Indexed
  <2> QED
    BY <2>4, <2>6, <2>7, <2>8 DEF IInv
<1> QED
  BY <1>5, <1>6

\* The hard delete.
LEMMA RemovesKeeps ==
  ASSUME IInv, NEW c \in Calls, Removes(c)
  PROVE  IInv'
<1>1. TypeOK /\ CallInv(calls[c]) /\ calls[c] \in CallStates
  BY DEF IInv, TypeOK, CallsInv
<1> DEFINE a == calls[c].agent
<1>2. a \in issued /\ a \in Ids
  BY <1>1 DEF Removes, CallInv, TypeOK
<1>3. agents' = [agents EXCEPT ![a] = NoDoc] /\ UNCHANGED <<issued, faults>>
  BY DEF Removes
<1>4. agents'[a] = NoDoc
  BY <1>1, <1>2, <1>3 DEF TypeOK
<1>5. Ends(c, calls[c].result) /\ calls[c].result \in Results
  BY <1>1 DEF Removes, CallStates
<1>6. /\ calls' \in [Calls -> CallStates]
      /\ CallInv(calls[c])'
      /\ \A d \in Calls \ {c} : calls'[d] = calls[d]
  BY <1>1, <1>2, <1>3, <1>4, <1>5, EndIsCall
<1>7. TypeOK'
  BY <1>1, <1>2, <1>3, <1>6 DEF TypeOK
<1>8. \A b \in issued : ~Exists(b) => ~Exists(b)'
  BY <1>1, <1>2, <1>3 DEF TypeOK, Exists
<1>9. CallsInv'
  BY <1>3, <1>6, <1>8, OthersKeep DEF CallsInv
<1>10. \A b \in Ids : Exists(b)' => Exists(b) /\ agents'[b] = agents[b]
  BY <1>1, <1>2, <1>3 DEF TypeOK, Exists
<1>11. StatusKept' /\ OneAgentPerName'
  BY <1>10 DEF IInv, StatusKept, OneAgentPerName, Live, Exists
<1> QED
  BY <1>7, <1>9, <1>11 DEF IInv

\* A step of a call that only moves that call.
LEMMA CallStepKeeps ==
  ASSUME IInv, NEW c \in Calls, UNCHANGED <<agents, issued, faults>>,
         NEW call \in CallStates, CallInv(call), calls' = [calls EXCEPT ![c] = call]
  PROVE  IInv'
<1>1. calls \in [Calls -> CallStates] /\ faults \in 0..MaxFaults
  BY DEF IInv, TypeOK
<1>2. calls' \in [Calls -> CallStates] /\ calls'[c] = call
      /\ \A d \in Calls \ {c} : calls'[d] = calls[d]
  BY <1>1
<1>3. CallInv(calls[c])'
  BY <1>2 DEF CallInv, Exists
<1> QED
  BY <1>1, <1>2, <1>3, OneCallMoves

\* A registration or a deployment is asked for.
LEMMA AskedKeeps ==
  ASSUME IInv, NEW c \in Calls, NEW op \in Ops, NEW ask \in Asks, Asked(c, op, ask)
  PROVE  IInv'
<1> DEFINE call == [Idle EXCEPT !.op = op, !.pc = "lookup", !.ask = ask]
<1>1. call \in CallStates /\ CallInv(call)
  BY IdleIsCall DEF Idle, CallStates, CallInv, Steps, Results
<1>2. calls' = [calls EXCEPT ![c] = call] /\ UNCHANGED <<agents, issued, faults>>
  BY DEF Asked
<1> QED
  BY <1>1, <1>2, CallStepKeeps

\* A request for one agent arrives.
LEMMA AskedOfKeeps ==
  ASSUME IInv, NEW c \in Calls, NEW op \in Ops, NEW a \in Ids, NEW ask \in Asks,
         AskedOf(c, op, a, ask)
  PROVE  IInv'
<1> DEFINE call == [Idle EXCEPT !.op = op, !.pc = "read", !.agent = a, !.ask = ask]
<1>1. call \in CallStates /\ CallInv(call)
  BY IdleIsCall DEF AskedOf, Idle, CallStates, CallInv, Steps, Results
<1>2. calls' = [calls EXCEPT ![c] = call] /\ UNCHANGED <<agents, issued, faults>>
  BY DEF AskedOf
<1> QED
  BY <1>1, <1>2, CallStepKeeps

\* A call that goes to a step with nothing read yet.
LEMMA GoesKeeps ==
  ASSUME IInv, NEW c \in Calls, NEW step \in {"validate", "insert", "read"},
         step = "read" => calls[c].pc = "helm",
         calls[c].pc \in {"lookup", "validate", "helm"},
         Goes(c, step), UNCHANGED <<agents, issued, faults>>
  PROVE  IInv'
<1> DEFINE call == [calls[c] EXCEPT !.pc = step]
<1>1. calls[c] \in CallStates /\ CallInv(calls[c])
  BY DEF IInv, TypeOK, CallsInv
<1>2. call \in CallStates /\ call.pc = step /\ call.agent = calls[c].agent
      /\ call.result = calls[c].result
  BY <1>1 DEF CallStates, Steps
<1>3. calls' = [calls EXCEPT ![c] = call]
  BY DEF Goes
<1>4. CallInv(call)
  BY <1>1, <1>2 DEF CallInv
<1> QED
  BY <1>2, <1>3, <1>4, CallStepKeeps

\* A call that ends without an undone deployment.
LEMMA EndKeeps ==
  ASSUME IInv, NEW c \in Calls, NEW result \in {"none", "duplicate"}, Ends(c, result),
         UNCHANGED <<agents, issued>>, faults' \in 0..MaxFaults
  PROVE  IInv'
<1>1. TypeOK /\ result \in Results /\ result # "undone"
  BY DEF IInv, Results
<1>2. /\ calls' \in [Calls -> CallStates]
      /\ CallInv(calls[c])'
      /\ \A d \in Calls \ {c} : calls'[d] = calls[d]
  BY <1>1, EndIsCall
<1> QED
  BY <1>2, OneCallMoves

\* The idempotency lookup.
LEMMA LookupKeeps ==
  ASSUME IInv, NEW c \in Calls, GetAgentByNamespace(c)
  PROVE  IInv'
<1>1. /\ calls[c].pc = "lookup" /\ UNCHANGED <<agents, issued, faults>>
      /\ \/ Goes(c, "validate")
         \/ \E a \in Ids : Live(a) /\ Registered(c, a)
  BY DEF GetAgentByNamespace, InNamespace
<1>2. CASE Goes(c, "validate")
  BY <1>1, <1>2, GoesKeeps
<1>3. ASSUME NEW a \in Ids, Live(a), Registered(c, a) PROVE IInv'
  <2>1. TypeOK /\ CallInv(calls[c]) /\ a \in issued'
    BY <1>1, <1>3 DEF IInv, CallsInv, TypeOK, Live, Exists
  <2>2. /\ calls' \in [Calls -> CallStates]
        /\ CallInv(calls[c])'
        /\ \A d \in Calls \ {c} : calls'[d] = calls[d]
    BY <1>1, <1>3, <2>1, RegisteredKeeps
  <2> QED
    BY <1>1, <2>1, <2>2, OneCallMoves DEF TypeOK
<1> QED
  BY <1>1, <1>2, <1>3

\* The read of a document.
LEMMA GetAgentKeeps ==
  ASSUME IInv, NEW c \in Calls, GetAgent(c)
  PROVE  IInv'
<1>1. calls[c] \in CallStates /\ CallInv(calls[c]) /\ TypeOK /\ StatusKept
  BY DEF IInv, TypeOK, CallsInv
<1>2. calls[c].pc = "read" /\ UNCHANGED <<agents, issued, faults>>
  BY DEF GetAgent
<1>3. CASE ~Exists(calls[c].agent)
  <2>1. Ends(c, "none")
    BY <1>3 DEF GetAgent
  <2> QED
    BY <1>1, <1>2, <2>1, EndKeeps DEF TypeOK
<1>4. CASE Exists(calls[c].agent)
  <2> DEFINE doc == agents[calls[c].agent]
             call == [calls[c] EXCEPT !.pc = "write", !.copy = doc]
  <2>1. calls' = [calls EXCEPT ![c] = call]
    BY <1>4 DEF GetAgent
  <2>2. doc \in Docs /\ doc.status \in Kept
    BY <1>1, <1>2, <1>4 DEF CallInv, TypeOK, StatusKept, Exists
  <2>3. /\ call \in CallStates /\ call.pc = "write" /\ call.copy = doc
        /\ call.agent = calls[c].agent /\ call.op = calls[c].op
        /\ call.result = calls[c].result
    BY <1>1, <2>2 DEF CallStates, Steps
  <2>4. CallInv(call)
    BY <1>1, <1>2, <2>2, <2>3 DEF CallInv
  <2> QED
    BY <1>2, <2>1, <2>3, <2>4, CallStepKeeps
<1> QED
  BY <1>3, <1>4

\* A failed helm run.
LEMMA DeployFailsKeeps ==
  ASSUME IInv, NEW c \in Calls, DeployFails(c)
  PROVE  IInv'
<1> DEFINE call == [calls[c] EXCEPT !.op = "remove", !.pc = "read", !.result = "undone"]
<1>1. calls[c] \in CallStates /\ CallInv(calls[c])
  BY DEF IInv, TypeOK, CallsInv
<1>2. /\ call \in CallStates /\ call.pc = "read" /\ call.op = "remove"
      /\ call.agent = calls[c].agent
  BY <1>1 DEF CallStates, Steps, Ops, Results
<1>3. CallInv(call)
  BY <1>1, <1>2 DEF CallInv, DeployFails
<1>4. calls' = [calls EXCEPT ![c] = call] /\ UNCHANGED <<agents, issued, faults>>
  BY DEF DeployFails
<1> QED
  BY <1>2, <1>3, <1>4, CallStepKeeps

\* A failed call, and the end of all of them.
LEMMA FaultsKeep ==
  ASSUME IInv, Restart \/ \E c \in Calls : CallFails(c)
  PROVE  IInv'
<1>1. faults \in 0..MaxFaults
  BY DEF IInv, TypeOK
<1>2. ASSUME NEW c \in Calls, CallFails(c) PROVE IInv'
  <2>1. faults' \in 0..MaxFaults
    BY <1>1, <1>2, FaultsAssumption DEF CallFails
  <2> QED
    BY <1>2, <2>1, EndKeeps DEF CallFails
<1>3. CASE Restart
  <2>1. /\ faults' \in 0..MaxFaults
        /\ calls' = [c \in Calls |-> Idle] /\ UNCHANGED <<agents, issued>>
    BY <1>1, <1>3, FaultsAssumption DEF Restart
  <2>2. TypeOK'
    BY <2>1, IdleIsCall DEF IInv, TypeOK
  <2>3. CallsInv'
    BY <2>1, IdleIsCall DEF CallsInv, CallInv, Idle
  <2>4. StatusKept' /\ OneAgentPerName'
    BY <2>1 DEF IInv, StatusKept, OneAgentPerName, Live, Exists
  <2> QED
    BY <2>2, <2>3, <2>4 DEF IInv
<1> QED
  BY <1>2, <1>3

\* Every step keeps the invariant.
LEMMA NextKeeps == IInv /\ [Next]_vars => IInv'
<1> SUFFICES ASSUME IInv, [Next]_vars PROVE IInv'
  OBVIOUS
<1>1. ASSUME NEW c \in Calls, NEW op \in Ops, NEW ask \in Asks, Asked(c, op, ask)
      PROVE  IInv'
  BY <1>1, AskedKeeps
<1>2. ASSUME NEW c \in Calls, NEW op \in Ops, NEW a \in Ids, NEW ask \in Asks,
             AskedOf(c, op, a, ask)
      PROVE  IInv'
  BY <1>2, AskedOfKeeps
<1>3. ASSUME NEW c \in Calls, GetAgentByNamespace(c) PROVE IInv'
  BY <1>3, LookupKeeps
<1>4. ASSUME NEW c \in Calls, ValidateRegistration(c) PROVE IInv'
  <2>1. CASE Goes(c, "insert")
    BY <1>4, <2>1, GoesKeeps DEF ValidateRegistration
  <2>2. CASE Ends(c, "duplicate")
    BY <1>4, <2>2, EndKeeps DEF ValidateRegistration, IInv, TypeOK
  <2> QED
    BY <1>4, <2>1, <2>2 DEF ValidateRegistration
<1>5. ASSUME NEW c \in Calls, NEW a \in Ids, CreateAgent(c, a) PROVE IInv'
  BY <1>5, CreateAgentKeeps
<1>6. ASSUME NEW c \in Calls, DeployWithHelm(c) PROVE IInv'
  BY <1>6, GoesKeeps DEF DeployWithHelm
<1>7. ASSUME NEW c \in Calls, DeployFails(c) PROVE IInv'
  BY <1>7, DeployFailsKeeps
<1>8. ASSUME NEW c \in Calls, GetAgent(c) PROVE IInv'
  BY <1>8, GetAgentKeeps
<1>9. ASSUME NEW c \in Calls, Replaces(c) PROVE IInv'
  BY <1>9, ReplacesKeeps
<1>10. ASSUME NEW c \in Calls, Removes(c) PROVE IInv'
  BY <1>10, RemovesKeeps
<1>11. CASE Restart \/ \E c \in Calls : CallFails(c)
  BY <1>11, FaultsKeep
<1>12. CASE UNCHANGED vars
  BY <1>12 DEF vars, IInv, TypeOK, CallsInv, CallInv, StatusKept, OneAgentPerName, Live, Exists
<1> QED
  BY <1>1, <1>2, <1>3, <1>4, <1>5, <1>6, <1>7, <1>8, <1>9, <1>10, <1>11, <1>12 DEF Next

\* The invariant holds in every reachable state.
LEMMA IInvAlways == Spec => []IInv
<1>1. Init => IInv
  BY InitIInv
<1>2. IInv /\ [Next]_vars => IInv'
  BY NextKeeps
<1> QED
  BY <1>1, <1>2, PTL DEF Spec

-----------------------------------------------------------------------------
(* Theorems *)

\* The variables keep their types, and every document has an id that was issued.
THEOREM Typing == Spec => []TypeOK
<1>1. IInv => TypeOK
  BY DEF IInv
<1> QED
  BY <1>1, IInvAlways, PTL

\* However registrations, renames, stale writes and deletions overlap, a name
\* belongs to at most one live agent of the project.
THEOREM NamesApart == Spec => []OneAgentPerName
<1>1. IInv => OneAgentPerName
  BY DEF IInv
<1> QED
  BY <1>1, IInvAlways, PTL

\* A deployment reported as undone has left no document, and none comes back.
THEOREM UndoneStaysUndone == Spec => []FailedDeployLeavesNone
<1>1. IInv => FailedDeployLeavesNone
  BY DEF IInv, CallsInv, CallInv, FailedDeployLeavesNone
<1> QED
  BY <1>1, IInvAlways, PTL

\* What one step may do to an agent that is not live: nothing, unless a handler
\* that read it alive writes its copy back.
LEMMA RevivalStep ==
  ASSUME IInv, [Next]_vars, NEW b \in issued, ~Live(b), Live(b)'
  PROVE  /\ Exists(b)
         /\ \E c \in Calls : /\ calls[c].agent = b
                             /\ calls[c].pc = "write"
                             /\ calls[c].copy # NoDoc
                             /\ calls[c].copy.status # "DELETED"
<1>1. agents' # agents
  BY DEF Live, Exists
<1>2. TypeOK /\ b \in Ids
  BY DEF IInv, TypeOK
<1>3. ASSUME NEW c \in Calls, NEW a \in Ids, CreateAgent(c, a) PROVE FALSE
  <2>1. a # b /\ agents' = [agents EXCEPT ![a] = NewAgent(c)]
    BY <1>1, <1>3 DEF CreateAgent
  <2> QED
    BY <1>2, <2>1 DEF TypeOK, Live, Exists
<1>4. ASSUME NEW c \in Calls, Removes(c) PROVE FALSE
  <2>1. agents' = [agents EXCEPT ![calls[c].agent] = NoDoc]
    BY <1>4 DEF Removes
  <2> QED
    BY <1>2, <2>1 DEF TypeOK, Live, Exists
<1>5. ASSUME NEW c \in Calls, Replaces(c)
      PROVE  /\ Exists(b)
             /\ calls[c].agent = b
             /\ calls[c].pc = "write"
             /\ calls[c].copy # NoDoc
             /\ calls[c].copy.status # "DELETED"
  <2>1. PICK doc \in Written(c) :
            agents' = IF Refused(c, doc) THEN agents ELSE UpdateAgent(calls[c].agent, doc)
    BY <1>5 DEF Replaces
  <2>2. agents' = [agents EXCEPT ![calls[c].agent] = doc] /\ Exists(calls[c].agent)
    BY <1>1, <2>1 DEF UpdateAgent
  <2>3. calls[c].agent = b /\ agents'[b] = doc
    BY <1>2, <2>2 DEF TypeOK, Live, Exists
  <2>4. calls[c].pc = "write" /\ calls[c].op # "remove"
    BY <1>5 DEF Replaces
  <2>5. calls[c].copy \in Docs
    BY <2>4 DEF IInv, CallsInv, CallInv
  <2>6. calls[c].copy.status # "DELETED"
    BY <2>1, <2>3, <2>4, WrittenKept DEF Live
  <2> QED
    BY <2>2, <2>3, <2>4, <2>5, <2>6, NoDocIsNotADoc
<1>6. \E c \in Calls : Replaces(c)
  BY <1>1, <1>3, <1>4
  DEF Next, vars, Asked, AskedOf, GetAgentByNamespace, ValidateRegistration,
      DeployWithHelm, DeployFails, GetAgent, CallFails, Restart
<1> QED
  BY <1>5, <1>6

\* A hard-deleted agent is gone for good; a soft-deleted one is brought back
\* only by a handler that read it before the deletion.
THEOREM DeletionIsFinal == Spec => DeadOnlyByStaleWriter
<1>1. IInv /\ [Next]_vars =>
        [\A a \in issued : ~Live(a) /\ Live(a)' =>
           /\ Exists(a)
           /\ \E c \in Calls : /\ calls[c].agent = a
                               /\ calls[c].pc = "write"
                               /\ calls[c].copy # NoDoc
                               /\ calls[c].copy.status # "DELETED"]_vars
  BY RevivalStep
<1> QED
  BY <1>1, IInvAlways, PTL DEF Spec, DeadOnlyByStaleWriter

=============================================================================
