---------------------------- MODULE AgentRegistry ----------------------------
(***************************************************************************)
(* The registry of agents of one project                                   *)
(* (graphql/server/pkg/agent_registry): registration, the helm deployment  *)
(* that registers first and deletes again when helm fails, updates, soft   *)
(* and hard deletes, health checks and the sync stamp.  Every handler      *)
(* reads a whole document, works for up to ten seconds or as long as helm  *)
(* takes, and writes the whole document back with ReplaceOne; what guards  *)
(* them from each other is two lookups and one partial unique index.       *)
(*                                                                         *)
(* The Langfuse client is built with an empty configuration                *)
(* (graph/resolver.go), so SyncToLangfuse writes nothing, and nobody       *)
(* starts the health scheduler: neither is an action here.  A health check *)
(* that RegisterAgent starts in the background and one that a user asks    *)
(* for are the same action.  Of helm only the outcome is modelled, and the *)
(* time it takes between two accesses of the collection; the releases it   *)
(* leaves in the cluster are not.                                          *)
(***************************************************************************)
EXTENDS FiniteSets, Naturals

CONSTANTS
    Ids,         \* the UUIDs the server will hand out
    NoDoc,       \* no document with this agentId
    Names, Namespaces,
    Calls,       \* requests and background checks under way at once
    MaxFaults    \* bound: restarts, and calls cut short by a database error or
                 \* a lost client

ASSUME SomethingToAskFor == Names # {} /\ Namespaces # {}
ASSUME FaultsAssumption == MaxFaults \in Nat

VARIABLES
    agents,    \* the collection agentRegistry
    issued,    \* the ids of the documents ever inserted
    calls,     \* where each handler is, what it was asked, what it read
    faults     \* restarts and failures so far

vars == <<agents, issued, calls, faults>>

-----------------------------------------------------------------------------
(* Types *)

Statuses == {"REGISTERED", "VALIDATING", "ACTIVE", "INACTIVE", "DELETED"}

Asks == [name : Names, ns : Namespaces]

Docs == [name : Names, ns : Namespaces, status : Statuses]

ASSUME NoDocIsNotADoc == NoDoc \notin Ids \cup Docs

Ops == {"register", "deploy", "update", "delete", "remove", "sync", "check"}

Steps == {"idle", "lookup", "validate", "insert", "helm", "read", "write"}

Results == {"none", "duplicate", "undone"}

CallStates == [op : Ops, pc : Steps, ask : Asks, agent : Ids \cup {NoDoc},
               copy : Docs \cup {NoDoc}, result : Results]

TypeOK ==
    /\ agents \in [Ids -> Docs \cup {NoDoc}]
    /\ issued \subseteq Ids
    /\ \A a \in Ids : agents[a] # NoDoc => a \in issued
    /\ calls \in [Calls -> CallStates]
    /\ faults \in 0..MaxFaults

-----------------------------------------------------------------------------
(* The collection *)

Exists(a) == agents[a] # NoDoc

Live(a) == Exists(a) /\ agents[a].status # "DELETED"

\* Mutation: no unique index on the names.
Indexed_None(a, doc) == FALSE

\* The partial unique index on (projectId, name): only documents whose status
\* is REGISTERED are in it, before and after the write.
Indexed(a, doc) ==
    /\ doc.status = "REGISTERED"
    /\ \E b \in Ids \ {a} : Exists(b) /\ agents[b].status = "REGISTERED"
                                      /\ agents[b].name = doc.name

\* Mutation: the write inserts what it does not find.
UpdateAgent_Upsert(a, doc) == IF Indexed(a, doc) THEN agents ELSE [agents EXCEPT ![a] = doc]

\* ReplaceOne: the whole document, no upsert, refused by the index.
UpdateAgent(a, doc) ==
    IF Exists(a) /\ ~Indexed(a, doc) THEN [agents EXCEPT ![a] = doc] ELSE agents

\* Mutation: a check may make a registered agent ACTIVE, as the docs have it.
CanBecome_Documented(from) ==
    IF from = "DELETED" THEN {} ELSE {"VALIDATING", "ACTIVE", "INACTIVE", "DELETED"}

\* What updateAgentStatus lets a status become.
CanBecome(from) ==
    CASE from = "REGISTERED" -> {"VALIDATING", "DELETED"}
      [] from = "VALIDATING" -> {"ACTIVE", "INACTIVE", "DELETED"}
      [] from = "ACTIVE"     -> {"INACTIVE", "DELETED"}
      [] from = "INACTIVE"   -> {"ACTIVE", "DELETED"}
      [] from = "DELETED"    -> {}

-----------------------------------------------------------------------------
(* Calls *)

AnyAsk == CHOOSE ask \in Asks : TRUE

Idle == [op |-> "check", pc |-> "idle", ask |-> AnyAsk, agent |-> NoDoc,
         copy |-> NoDoc, result |-> "none"]

Init ==
    /\ agents = [a \in Ids |-> NoDoc]
    /\ issued = {}
    /\ calls = [c \in Calls |-> Idle]
    /\ faults = 0

Goes(c, step) == calls' = [calls EXCEPT ![c].pc = step]

\* The call ends. Its answer stays until the slot is used again: a refusal with
\* what was asked for, an undone deployment with the agent it removed.
Ends(c, result) ==
    calls' = [calls EXCEPT ![c] =
        [Idle EXCEPT !.ask = IF result = "duplicate" THEN calls[c].ask ELSE @,
                     !.agent = IF result = "undone" THEN calls[c].agent ELSE @,
                     !.result = result]]

\* registerAgent or deployAgentWithHelm arrives.
Asked(c, op, ask) ==
    /\ op \in {"register", "deploy"}
    /\ calls[c].pc = "idle"
    /\ calls' = [calls EXCEPT ![c] = [Idle EXCEPT !.op = op, !.pc = "lookup", !.ask = ask]]
    /\ UNCHANGED <<agents, issued, faults>>

\* A request for one agent, or the background check of a new one. An update
\* asks for a name, perhaps the old one; no lookup checks that it is free.
AskedOf(c, op, a, ask) ==
    /\ op \in {"update", "delete", "remove", "sync", "check"}
    /\ IF op = "update" THEN ask.ns = AnyAsk.ns ELSE ask = AnyAsk
    /\ calls[c].pc = "idle"
    /\ a \in issued
    /\ calls' = [calls EXCEPT ![c] = [Idle EXCEPT !.op = op, !.pc = "read", !.agent = a,
                                                  !.ask = ask]]
    /\ UNCHANGED <<agents, issued, faults>>

\* A registration that has its agent: RegisterAgent answers, DeployAgentWithHelm
\* goes on to helm with the agent it was given, new or not.
Registered(c, a) ==
    IF calls[c].op = "deploy"
    THEN calls' = [calls EXCEPT ![c].agent = a, ![c].pc = "helm"]
    ELSE Ends(c, "none")

InNamespace(ns) == {a \in Ids : Live(a) /\ agents[a].ns = ns}

\* The idempotency lookup of RegisterAgent: GetAgentByNamespace, one live agent
\* of the namespace, whichever FindOne returns.
GetAgentByNamespace(c) ==
    /\ calls[c].pc = "lookup"
    /\ \/ \E a \in InNamespace(calls[c].ask.ns) :
              IF agents[a].name = calls[c].ask.name
              THEN Registered(c, a)
              ELSE Goes(c, "validate")
       \/ /\ InNamespace(calls[c].ask.ns) = {}
          /\ Goes(c, "validate")
    /\ UNCHANGED <<agents, issued, faults>>

\* ValidateRegistration: no live agent of the project has the name.
ValidateRegistration(c) ==
    /\ calls[c].pc = "validate"
    /\ IF \E a \in Ids : Live(a) /\ agents[a].name = calls[c].ask.name
       THEN Ends(c, "duplicate")
       ELSE Goes(c, "insert")
    /\ UNCHANGED <<agents, issued, faults>>

\* Mutation: the status of a new agent is left unset.
NewAgent_Unset(c) ==
    [name |-> calls[c].ask.name, ns |-> calls[c].ask.ns, status |-> "UNSET"]

NewAgent(c) ==
    [name |-> calls[c].ask.name, ns |-> calls[c].ask.ns, status |-> "REGISTERED"]

\* The rest of RegisterAgent: a UUID of its own and InsertOne.
CreateAgent(c, a) ==
    /\ calls[c].pc = "insert"
    /\ a \notin issued
    /\ IF Indexed(a, NewAgent(c))
       THEN /\ Ends(c, "none")
            /\ UNCHANGED <<agents, issued>>
       ELSE /\ agents' = [agents EXCEPT ![a] = NewAgent(c)]
            /\ issued' = issued \cup {a}
            /\ Registered(c, a)
    /\ UNCHANGED faults

\* helm upgrade --install succeeds; the resolver goes on to set ACTIVE.
DeployWithHelm(c) ==
    /\ calls[c].pc = "helm"
    /\ Goes(c, "read")
    /\ UNCHANGED <<agents, issued, faults>>

\* helm fails: the resolver removes the agent of the call, whoever registered it.
DeployFails(c) ==
    /\ calls[c].pc = "helm"
    /\ calls' = [calls EXCEPT ![c].op = "remove", ![c].pc = "read", ![c].result = "undone"]
    /\ UNCHANGED <<agents, issued, faults>>

\* GetAgent at the head of every other handler; DeleteAgent then runs helm
\* uninstall, a failure of which it only logs, a health check its two probes.
GetAgent(c) ==
    /\ calls[c].pc = "read"
    /\ IF Exists(calls[c].agent)
       THEN calls' = [calls EXCEPT ![c].pc = "write", ![c].copy = agents[calls[c].agent]]
       ELSE Ends(c, "none")
    /\ UNCHANGED <<agents, issued, faults>>

\* Mutation: the status is written without asking what it was.
WithStatus_Any(doc, to) == [doc EXCEPT !.status = to]

\* What updateAgentStatus writes, on the copy its caller read.
WithStatus(doc, to) == IF to \in CanBecome(doc.status) THEN [doc EXCEPT !.status = to] ELSE doc

\* The documents a handler may write back in place of the copy it read.
Written(c) ==
    LET doc == calls[c].copy IN
    CASE calls[c].op = "update" -> {[doc EXCEPT !.name = calls[c].ask.name]}
      [] calls[c].op = "delete" -> {[doc EXCEPT !.status = "DELETED"]}
      [] calls[c].op = "deploy" -> {WithStatus(doc, "ACTIVE")}
      [] calls[c].op = "check"  -> {WithStatus(doc, "ACTIVE"), WithStatus(doc, "INACTIVE")}
      [] OTHER                  -> {doc}

\* A status that may not be reached is refused before the document is written.
Refused(c, doc) == calls[c].op \in {"deploy", "check"} /\ doc = calls[c].copy

\* The write of UpdateAgent, of the soft DeleteAgent, of updateAgentStatus and
\* of SyncAgentToLangfuse: the copy, over whatever is stored by now.
Replaces(c) ==
    /\ calls[c].pc = "write"
    /\ calls[c].op # "remove"
    /\ \E doc \in Written(c) :
           agents' = IF Refused(c, doc) THEN agents ELSE UpdateAgent(calls[c].agent, doc)
    /\ Ends(c, "none")
    /\ UNCHANGED <<issued, faults>>

\* The write of the hard DeleteAgent.
Removes(c) ==
    /\ calls[c].pc = "write"
    /\ calls[c].op = "remove"
    /\ agents' = [agents EXCEPT ![calls[c].agent] = NoDoc]
    /\ Ends(c, calls[c].result)
    /\ UNCHANGED <<issued, faults>>

\* A database error, or a client that hung up: the context of its request is
\* cancelled, so the clean-up of a failed deployment fails with it.
CallFails(c) ==
    /\ calls[c].pc # "idle"
    /\ \/ /\ faults < MaxFaults
          /\ faults' = faults + 1
       \/ /\ calls[c].pc = "insert" /\ issued = Ids  \* bound: no UUID is left
          /\ UNCHANGED faults
    /\ Ends(c, "none")
    /\ UNCHANGED <<agents, issued>>

\* The server stops and starts again: nothing resumes a call.
Restart ==
    /\ faults < MaxFaults
    /\ faults' = faults + 1
    /\ calls' = [c \in Calls |-> Idle]
    /\ UNCHANGED <<agents, issued>>

Next ==
    \/ \E c \in Calls :
           \/ \E op \in Ops, ask \in Asks : Asked(c, op, ask)
           \/ \E op \in Ops, a \in Ids, ask \in Asks : AskedOf(c, op, a, ask)
           \/ GetAgentByNamespace(c)
           \/ ValidateRegistration(c)
           \/ \E a \in Ids : CreateAgent(c, a)
           \/ DeployWithHelm(c)
           \/ DeployFails(c)
           \/ GetAgent(c)
           \/ Replaces(c)
           \/ Removes(c)
           \/ CallFails(c)
    \/ Restart

Spec == Init /\ [][Next]_vars

-----------------------------------------------------------------------------
(* Safety *)

\* At most one live agent of the project has a name, whatever registrations,
\* renames and stale writes overlap. The lookup alone does not give it: the
\* partial index does, and only because no agent ever leaves REGISTERED alive.
OneAgentPerName ==
    \A a, b \in Ids : Live(a) /\ Live(b) /\ agents[a].name = agents[b].name => a = b

\* A deployment that reports a failed helm run has left no document of its
\* agent, and no handler that read it earlier writes it back.
FailedDeployLeavesNone ==
    \A c \in Calls : calls[c].pc = "idle" /\ calls[c].result = "undone"
                         => calls[c].agent \in issued /\ ~Exists(calls[c].agent)

\* A hard-deleted agent is gone for good, and only a handler that read a
\* soft-deleted one before its deletion brings that one back to life.
DeadOnlyByStaleWriter ==
    [][\A a \in issued : ~Live(a) /\ Live(a)' =>
           /\ Exists(a)
           /\ \E c \in Calls : /\ calls[c].agent = a
                               /\ calls[c].pc = "write"
                               /\ calls[c].copy # NoDoc
                               /\ calls[c].copy.status # "DELETED"]_vars

\* The comment on the idempotency check of RegisterAgent: a registration of a
\* name and namespace that are already registered does not run into the
\* duplicate-name error.
RerunIsAnswered ==
    \A c \in Calls : calls[c].result = "duplicate" =>
        ~ \E a \in InNamespace(calls[c].ask.ns) : agents[a].name = calls[c].ask.name

=============================================================================
