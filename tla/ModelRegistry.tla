---------------------------- MODULE ModelRegistry ----------------------------
(***************************************************************************)
(* The registry of LLM models: MongoDB holds the record of every model and *)
(* LiteLLM the API keys; no transaction spans the two.  Users create,      *)
(* delete and re-key models, the run gate and the delete guard look at one *)
(* another's records, and a pass every two minutes settles what an         *)
(* interruption left behind.  Every call to MongoDB or LiteLLM is a step.  *)
(***************************************************************************)
EXTENDS Integers, FiniteSets

CONSTANTS
    Models,       \* model IDs, a new one for every create
    Aliases,
    Keys,         \* API keys
    Callers,      \* goroutines serving users' requests
    Pass,         \* the goroutine of RunReconciler
    Runners,      \* experiment runs that may be in flight at once
    None,
    Requests,     \* what users ask for: a subset of {"create", "delete", "key"}
    FaultKinds,   \* what may fail: "gateway", "mongo", "crash", "reset", "offline"
    MaxFaults,    \* bound: failures
    Timely        \* no call outlives pendingTimeout or lostGrace

Statuses == {"PENDING", "ACTIVE", "DELETING", "NEEDS_KEY"}

ASSUME RegistryAssumption ==
    /\ None \notin Models \cup Aliases \cup Keys \cup Statuses /\ Pass \notin Callers
    /\ Requests \subseteq {"create", "delete", "key"}
    /\ FaultKinds \subseteq {"gateway", "mongo", "crash", "reset", "offline"}
    /\ MaxFaults \in Nat /\ Timely \in BOOLEAN

VARIABLES
    row,       \* the collection modelConfig
    served,    \* LiteLLM's database: the key of each model it has
    listed,    \* the models the LiteLLM worker that answers has picked up
    online,    \* LiteLLM is connected to its database
    late,      \* AddModel calls nobody waits for any more
    pc, loc,   \* where each goroutine is, and what it holds
    todo,      \* the rows the pass has read and not settled, with their status
    touched,   \* those updated since
    known,     \* what LiteLLM told the pass: its models, and whether it is connected
    using,     \* runs: the model each has been checked for or is using
    faults

pass == <<todo, touched, known>>
vars == <<row, served, listed, online, late, pc, loc, pass, using, faults>>

Procs == Callers \cup {Pass}

\* A row that was never inserted, or was removed for good, has no status.  named is
\* a history field: the model has been ACTIVE.
RowType == [status : Statuses \cup {"new", "gone"}, removed : BOOLEAN,
            alias : Aliases \cup {None}, hint : Keys \cup {None}, aged : BOOLEAN,
            named : BOOLEAN]
LocType == [model : Models \cup {None}, alias : Aliases \cup {None},
            previous : Statuses \cup {None}, key : Keys \cup {None}]
Labels == {"idle", "insert", "add", "mark", "settle", "undo", "free", "note",
           "claim", "guard", "revert", "erase", "finish", "rotate", "readd", "confirm",
           "list", "ping", "rows"}

Recorded(m) == row[m].status \in Statuses
Live(m) == Recorded(m) /\ ~row[m].removed

TypeOK ==
    /\ row \in [Models -> RowType]
    /\ \A m \in Models : row[m].removed => row[m].status = "DELETING"
    /\ served \in [Models -> Keys \cup {None}] /\ late \in [Models -> Keys \cup {None}]
    /\ listed \subseteq Models /\ online \in BOOLEAN
    /\ pc \in [Procs -> Labels] /\ loc \in [Procs -> LocType]
    /\ todo \in [Models -> Statuses \cup {None}] /\ touched \subseteq Models
    /\ known \in [models : SUBSET Models, connected : BOOLEAN]
    /\ using \in [Runners -> [at : {"idle", "checked", "inFlight"}, model : Models \cup {None}]]
    /\ faults \in 0 .. MaxFaults

Nothing == [model |-> None, alias |-> None, previous |-> None, key |-> None]
NoTodo  == [m \in Models |-> None]
NoNews  == [models |-> {}, connected |-> FALSE]

Init ==
    /\ row = [m \in Models |-> [status |-> "new", removed |-> FALSE, alias |-> None,
                                hint |-> None, aged |-> FALSE, named |-> FALSE]]
    /\ served = [m \in Models |-> None] /\ late = [m \in Models |-> None]
    /\ listed = {} /\ online = TRUE
    /\ pc = [p \in Procs |-> "idle"] /\ loc = [p \in Procs |-> Nothing]
    /\ todo = NoTodo /\ touched = {} /\ known = NoNews
    /\ using = [u \in Runners |-> [at |-> "idle", model |-> None]]
    /\ faults = 0

-----------------------------------------------------------------------------
(* The store: every update is guarded and stamps updated_at *)

Fault(kind) == kind \in FaultKinds /\ faults < MaxFaults /\ faults' = faults + 1
NoFault == UNCHANGED faults

Holds(m, guard) == Live(m) /\ row[m].status \in guard

\* The pass compares updated_at: only whether the row changed since matters.
Stamped(m) == touched' = IF todo[m] = None THEN touched ELSE touched \cup {m}

\* A PENDING row ages from created_at, an ACTIVE one from updated_at.
Update(m, guard, new) ==
    IF Holds(m, guard)
    THEN /\ row' = [row EXCEPT ![m] = [new EXCEPT !.aged = @ /\ new.status # "ACTIVE",
                                                  !.named = @ \/ new.status = "ACTIVE"]]
         /\ Stamped(m)
    ELSE UNCHANGED <<row, touched>>

SetStatus(m, guard, status) == Update(m, guard, [row[m] EXCEPT !.status = status])

Remove(m) == /\ row' = IF Holds(m, {"PENDING"}) THEN [row EXCEPT ![m].status = "gone"] ELSE row
             /\ UNCHANGED touched

Goto(p, label) == pc' = [pc EXCEPT ![p] = label] /\ UNCHANGED loc
Hold(p, label, what) == pc' = [pc EXCEPT ![p] = label] /\ loc' = [loc EXCEPT ![p] = what]
\* A caller answers its user; the pass goes on with its next row.
Done(p) == Hold(p, IF p = Pass THEN "rows" ELSE "idle", Nothing)

At(p, label) == pc[p] = label
M(p) == loc[p].model

quietGateway == UNCHANGED <<served, listed, online, late>>
quietStore   == UNCHANGED <<row, touched>>
quietRest    == UNCHANGED <<todo, known, using>>

-----------------------------------------------------------------------------
(* Create *)

CreateBegins(p, a) ==
    /\ At(p, "idle") /\ "create" \in Requests
    /\ \A m \in listed : online => row[m].alias # a
    /\ Hold(p, "insert", [Nothing EXCEPT !.alias = a])
    /\ quietGateway /\ quietStore /\ quietRest /\ NoFault

\* Mutant: the unique index leaves out deleted models.
Taken_Live(a) == \E m \in Models : Live(m) /\ row[m].alias = a
\* The unique index: deleted models keep their alias.
Taken(a) == \E m \in Models : Recorded(m) /\ row[m].alias = a

CreateInserts(p) ==
    LET a == loc[p].alias IN
    /\ At(p, "insert")
    /\ IF Taken(a) THEN Done(p) /\ UNCHANGED row
       ELSE \E m \in Models, k \in Keys :
               /\ row[m].status = "new"
               /\ row' = [row EXCEPT ![m] = [status |-> "PENDING", removed |-> FALSE,
                                             alias |-> a, hint |-> k, aged |-> FALSE,
                                             named |-> FALSE]]
               /\ Hold(p, "add", [Nothing EXCEPT !.model = m, !.key = k])
    /\ quietGateway /\ quietRest /\ NoFault /\ UNCHANGED touched

CreateAdds(p) ==
    /\ At(p, "add")
    /\ served' = [served EXCEPT ![M(p)] = loc[p].key]
    /\ Goto(p, "mark")
    /\ quietStore /\ quietRest /\ NoFault /\ UNCHANGED <<listed, online, late>>

CreateMarks(p) ==
    /\ At(p, "mark")
    /\ SetStatus(M(p), {"PENDING"}, "ACTIVE")
    /\ IF Holds(M(p), {"PENDING"}) THEN Done(p) ELSE Goto(p, "settle")
    /\ quietGateway /\ quietRest /\ NoFault

\* Mutant: any row is good enough.
StillWanted_Any(m) == Recorded(m)
StillWanted(m) == Holds(m, {"ACTIVE"})

\* settleRacedCreate
CreateSettles(p) ==
    /\ At(p, "settle")
    /\ IF StillWanted(M(p)) THEN Done(p) ELSE Goto(p, "undo")
    /\ quietGateway /\ quietStore /\ quietRest /\ NoFault

CreateUndoes(p) ==
    /\ At(p, "undo")
    /\ served' = [served EXCEPT ![M(p)] = None]
    /\ Done(p)
    /\ quietStore /\ quietRest /\ NoFault /\ UNCHANGED <<listed, online, late>>

\* A failed undo is only logged: LiteLLM keeps the model.
UndoFails(p) ==
    /\ At(p, "undo") /\ Fault("gateway")
    /\ Done(p)
    /\ quietGateway /\ quietStore /\ quietRest

\* LiteLLM answered that it holds nothing.
CreateRejected(p) ==
    /\ At(p, "add")
    /\ Goto(p, "free")
    /\ quietGateway /\ quietStore /\ quietRest /\ NoFault

CreateFrees(p) ==
    /\ At(p, "free")
    /\ Remove(M(p)) /\ Done(p)
    /\ quietGateway /\ quietRest /\ NoFault

\* No answer: the call may still be carried out.
AddUnanswered(p) ==
    /\ At(p, "add") \/ At(p, "readd")
    /\ Fault("gateway")
    /\ late' = [late EXCEPT ![M(p)] = loc[p].key]
    /\ Goto(p, "note")
    /\ quietStore /\ quietRest /\ UNCHANGED <<served, listed, online>>

\* recordError: any row, whatever its status, and updated_at with it.
RecordError(p) ==
    /\ At(p, "note")
    /\ Update(M(p), Statuses, row[M(p)]) /\ Done(p)
    /\ quietGateway /\ quietRest /\ NoFault

-----------------------------------------------------------------------------
(* Delete *)

DeleteBegins(p, m) ==
    /\ At(p, "idle") /\ "delete" \in Requests
    /\ Live(m)
    /\ Hold(p, IF row[m].status = "DELETING" THEN "guard" ELSE "claim",
            [Nothing EXCEPT !.model = m, !.previous = row[m].status])
    /\ quietGateway /\ quietStore /\ quietRest /\ NoFault

DeleteClaims(p) ==
    /\ At(p, "claim")
    /\ SetStatus(M(p), {loc[p].previous}, "DELETING")
    /\ IF Holds(M(p), {loc[p].previous}) THEN Goto(p, "guard") ELSE Done(p)
    /\ quietGateway /\ quietRest /\ NoFault

InUse(m) == \E u \in Runners : using[u].at = "inFlight" /\ using[u].model = m

GiveUp(p) == IF loc[p].previous = "DELETING" THEN Done(p) ELSE Goto(p, "revert")

\* experimentsUsing
DeleteGuards(p) ==
    /\ At(p, "guard")
    /\ IF InUse(M(p)) THEN GiveUp(p) ELSE Goto(p, "erase")
    /\ quietGateway /\ quietStore /\ quietRest /\ NoFault

DeleteGuardFails(p) ==
    /\ At(p, "guard") /\ Fault("mongo")
    /\ GiveUp(p)
    /\ quietGateway /\ quietStore /\ quietRest

DeleteReverts(p) ==
    /\ At(p, "revert")
    /\ SetStatus(M(p), {"DELETING"}, loc[p].previous) /\ Done(p)
    /\ quietGateway /\ quietRest /\ NoFault

\* finishDelete, of a Delete and of the pass
Erase(p) ==
    /\ At(p, "erase")
    /\ served' = [served EXCEPT ![M(p)] = None]
    /\ Goto(p, "finish")
    /\ quietStore /\ quietRest /\ NoFault /\ UNCHANGED <<listed, online, late>>

EraseUnanswered(p) ==
    /\ At(p, "erase") /\ Fault("gateway")
    /\ served' \in {served, [served EXCEPT ![M(p)] = None]}
    /\ Goto(p, "note")
    /\ quietStore /\ quietRest /\ UNCHANGED <<listed, online, late>>

\* Mutant: the row is removed whatever became of it.
Removable_Any == Statuses
Removable == {"DELETING"}

Finish(p) ==
    /\ At(p, "finish")
    /\ Update(M(p), Removable, [row[M(p)] EXCEPT !.removed = TRUE]) /\ Done(p)
    /\ quietGateway /\ quietRest /\ NoFault

-----------------------------------------------------------------------------
(* UpdateKey *)

RotateBegins(p, m, k) ==
    /\ At(p, "idle") /\ "key" \in Requests
    /\ Holds(m, {"ACTIVE", "NEEDS_KEY"})
    /\ Hold(p, "rotate", [Nothing EXCEPT !.model = m, !.key = k])
    /\ quietGateway /\ quietStore /\ quietRest /\ NoFault

RotateUpdates(p) ==
    /\ At(p, "rotate")
    /\ IF served[M(p)] = None THEN Goto(p, "readd") /\ UNCHANGED served
       ELSE Goto(p, "confirm") /\ served' = [served EXCEPT ![M(p)] = loc[p].key]
    /\ quietStore /\ quietRest /\ NoFault /\ UNCHANGED <<listed, online, late>>

\* LiteLLM lost the model: it is added again, under its ID.
RotateAdds(p) ==
    /\ At(p, "readd")
    /\ IF served[M(p)] # None THEN Goto(p, "note") /\ UNCHANGED served
       ELSE Goto(p, "confirm") /\ served' = [served EXCEPT ![M(p)] = loc[p].key]
    /\ quietStore /\ quietRest /\ NoFault /\ UNCHANGED <<listed, online, late>>

RotateUnanswered(p) ==
    /\ At(p, "rotate") /\ served[M(p)] # None /\ Fault("gateway")
    /\ served' \in {served, [served EXCEPT ![M(p)] = loc[p].key]}
    /\ Goto(p, "note")
    /\ quietStore /\ quietRest /\ UNCHANGED <<listed, online, late>>

Keyed == {"ACTIVE", "NEEDS_KEY"}

RotateConfirms(p) ==
    /\ At(p, "confirm")
    /\ Update(M(p), Keyed,
              [row[M(p)] EXCEPT !.status = "ACTIVE", !.hint = loc[p].key])
    /\ Done(p)
    /\ quietGateway /\ quietRest /\ NoFault

\* A call to MongoDB fails: reported or logged, and nothing else.
StoreFails(p) ==
    /\ pc[p] \in {"insert", "mark", "settle", "free", "note", "claim", "revert", "finish",
                 "confirm"}
    /\ Fault("mongo")
    /\ Done(p)
    /\ quietGateway /\ quietStore /\ quietRest

-----------------------------------------------------------------------------
(* Reconcile *)

PassReads ==
    /\ At(Pass, "idle") /\ \E m \in Models : Live(m)
    /\ todo' = [m \in Models |-> IF Live(m) THEN row[m].status ELSE None]
    /\ touched' = {} /\ known' = NoNews
    /\ Goto(Pass, "list")
    /\ quietGateway /\ NoFault /\ UNCHANGED <<row, using>>

PassLists ==
    /\ At(Pass, "list")
    /\ known' = [known EXCEPT !.models = IF online THEN listed ELSE {}]
    /\ Goto(Pass, "ping")
    /\ quietGateway /\ quietStore /\ NoFault /\ UNCHANGED <<todo, using>>

PassPings ==
    /\ At(Pass, "ping")
    /\ known' = [known EXCEPT !.connected = online]
    /\ Goto(Pass, "rows")
    /\ quietGateway /\ quietStore /\ NoFault /\ UNCHANGED <<todo, using>>

PassFails ==
    /\ pc[Pass] \in {"list", "ping"} /\ Fault("gateway")
    /\ todo' = NoTodo /\ touched' = {} /\ known' = NoNews
    /\ Goto(Pass, "idle")
    /\ quietGateway /\ UNCHANGED <<row, using>>

\* Mutant: a model LiteLLM does not list is judged without waiting.
Missing_AtOnce(m) == m \notin known.models /\ known.connected
Missing(m) == m \notin known.models /\ known.connected /\ row[m].aged

Unchanged(m) == Holds(m, {todo[m]}) /\ m \notin touched

\* Mutant: a model being registered is left for its create to finish.
Verdict_NoPending(m) ==
    CASE todo[m] = "NEEDS_KEY" /\ m \in known.models -> "ACTIVE"
      [] todo[m] = "ACTIVE" /\ Missing(m) -> "NEEDS_KEY"
      [] OTHER -> "keep"
\* Mutant: only a model that was ACTIVE before is taken back.
Verdict_KeepsLost(m) ==
    CASE todo[m] = "PENDING" /\ m \in known.models -> "ACTIVE"
      [] todo[m] = "PENDING" /\ Missing(m) -> "gone"
      [] OTHER -> "keep"
Verdict(m) ==
    CASE todo[m] \in {"PENDING", "NEEDS_KEY"} /\ m \in known.models -> "ACTIVE"
      [] todo[m] = "PENDING" /\ Missing(m) -> "gone"
      [] todo[m] = "ACTIVE" /\ Missing(m) -> "NEEDS_KEY"
      [] OTHER -> "keep"

PassSettles(m) ==
    /\ At(Pass, "rows") /\ todo[m] \notin {None, "DELETING"}
    /\ row' = IF Verdict(m) # "keep" /\ Unchanged(m)
              THEN [row EXCEPT ![m].status = Verdict(m), ![m].aged = FALSE,
                               ![m].named = @ \/ Verdict(m) = "ACTIVE"] ELSE row
    /\ todo' = [todo EXCEPT ![m] = None] /\ touched' = touched \ {m}
    /\ quietGateway /\ NoFault /\ UNCHANGED <<pc, loc, known, using>>

PassDeletes(m) ==
    /\ At(Pass, "rows") /\ todo[m] = "DELETING"
    /\ Hold(Pass, "erase", [Nothing EXCEPT !.model = m])
    /\ todo' = [todo EXCEPT ![m] = None] /\ touched' = touched \ {m}
    /\ quietGateway /\ NoFault /\ UNCHANGED <<row, known, using>>

PassSkips(m) ==
    /\ At(Pass, "rows") /\ todo[m] \notin {None, "DELETING"} /\ Fault("mongo")
    /\ todo' = [todo EXCEPT ![m] = None] /\ touched' = touched \ {m}
    /\ quietGateway /\ UNCHANGED <<row, pc, loc, known, using>>

PassEnds ==
    /\ At(Pass, "rows") /\ todo = NoTodo
    /\ known' = NoNews
    /\ Goto(Pass, "idle")
    /\ quietGateway /\ quietStore /\ NoFault /\ UNCHANGED <<todo, using>>

-----------------------------------------------------------------------------
(* Runs: ValidateAliases, then the run is created, then it ends *)

RunChecked(u, m) ==
    /\ using[u].at = "idle" /\ Holds(m, {"ACTIVE"})
    /\ using' = [using EXCEPT ![u] = [at |-> "checked", model |-> m]]
    /\ quietGateway /\ quietStore /\ NoFault /\ UNCHANGED <<pc, loc, todo, known>>

RunCreated(u) ==
    /\ using[u].at = "checked"
    /\ using' = [using EXCEPT ![u].at = "inFlight"]
    /\ quietGateway /\ quietStore /\ NoFault /\ UNCHANGED <<pc, loc, todo, known>>

RunEnds(u) ==
    /\ using[u].at = "inFlight"
    /\ using' = [using EXCEPT ![u] = [at |-> "idle", model |-> None]]
    /\ quietGateway /\ quietStore /\ NoFault /\ UNCHANGED <<pc, loc, todo, known>>

-----------------------------------------------------------------------------
(* LiteLLM, time and crashes *)

\* The workers of LiteLLM read its database every 30 seconds.
Poll ==
    /\ listed # {m \in Models : served[m] # None}
    /\ listed' = {m \in Models : served[m] # None}
    /\ quietStore /\ quietRest /\ NoFault /\ UNCHANGED <<served, online, late, pc, loc>>

LateArrives(m) ==
    /\ late[m] # None
    /\ late' = [late EXCEPT ![m] = None]
    /\ served' \in IF served[m] = None THEN {served, [served EXCEPT ![m] = late[m]]} ELSE {served}
    /\ quietStore /\ quietRest /\ NoFault /\ UNCHANGED <<listed, online, pc, loc>>

DatabaseReset ==
    /\ Fault("reset")
    /\ served' = [m \in Models |-> None]
    /\ quietStore /\ quietRest /\ UNCHANGED <<listed, online, late, pc, loc>>

Disconnect ==
    /\ online /\ Fault("offline")
    /\ online' = FALSE
    /\ quietStore /\ quietRest /\ UNCHANGED <<served, listed, late, pc, loc>>

Reconnect ==
    /\ ~online /\ online' = TRUE
    /\ quietStore /\ quietRest /\ NoFault /\ UNCHANGED <<served, listed, late, pc, loc>>

\* The keys of the AddModel calls under way.
Requested(m) == {loc[p].key : p \in {q \in Callers : M(q) = m /\ pc[q] \in {"add", "readd"}}}

\* A row reaches pendingTimeout (PENDING) or lostGrace (ACTIVE).
Age(m) ==
    /\ Holds(m, {"PENDING", "ACTIVE"}) /\ ~row[m].aged
    /\ Timely => /\ late[m] = None /\ Requested(m) = {}
                 /\ (m \in listed <=> served[m] # None)
                 /\ pc[Pass] = "idle"
    /\ row' = [row EXCEPT ![m].aged = TRUE]
    /\ quietGateway /\ quietRest /\ NoFault /\ UNCHANGED <<touched, pc, loc>>

\* The server dies and starts again: its goroutines are gone, a request of theirs
\* may still be carried out.
Crash ==
    /\ Fault("crash")
    /\ pc' = [p \in Procs |-> "idle"] /\ loc' = [p \in Procs |-> Nothing]
    /\ todo' = NoTodo /\ touched' = {} /\ known' = NoNews
    /\ \E sent \in SUBSET {m \in Models : late[m] = None /\ Requested(m) # {}} :
          late' = [m \in Models |-> IF m \in sent THEN CHOOSE k \in Requested(m) : TRUE
                                    ELSE late[m]]
    /\ UNCHANGED <<row, served, listed, online, using>>

-----------------------------------------------------------------------------
CreateStep(p) == CreateInserts(p) \/ CreateAdds(p) \/ CreateMarks(p) \/ CreateSettles(p)
                 \/ CreateUndoes(p) \/ CreateFrees(p)
DeleteStep(p) == DeleteClaims(p) \/ DeleteGuards(p) \/ DeleteReverts(p)
RotateStep(p) == RotateUpdates(p) \/ RotateAdds(p) \/ RotateConfirms(p)
Finishes(p)   == Erase(p) \/ Finish(p) \/ RecordError(p)
CallerStep(p) == CreateStep(p) \/ DeleteStep(p) \/ RotateStep(p) \/ Finishes(p)
PassStep == PassReads \/ PassLists \/ PassPings \/ PassEnds \/ Finishes(Pass)
            \/ \E m \in Models : PassSettles(m) \/ PassDeletes(m)

Request(p) == \/ \E a \in Aliases : CreateBegins(p, a)
              \/ \E m \in Models : DeleteBegins(p, m) \/ \E k \in Keys : RotateBegins(p, m, k)
Trouble(p) == \/ CreateRejected(p) \/ UndoFails(p) \/ AddUnanswered(p) \/ DeleteGuardFails(p)
              \/ EraseUnanswered(p) \/ RotateUnanswered(p) \/ StoreFails(p)
PassTrouble == PassFails \/ EraseUnanswered(Pass) \/ StoreFails(Pass)
               \/ \E m \in Models : PassSkips(m)
Run(u) == RunCreated(u) \/ RunEnds(u) \/ \E m \in Models : RunChecked(u, m)
Outside == Poll \/ DatabaseReset \/ Disconnect \/ Reconnect \/ Crash
           \/ \E m \in Models : LateArrives(m) \/ Age(m)

Next == \/ \E p \in Callers : CallerStep(p) \/ Request(p) \/ Trouble(p)
        \/ PassStep \/ PassTrouble
        \/ \E u \in Runners : Run(u)
        \/ Outside

Spec == Init /\ [][Next]_vars

\* Goroutines run, the pass comes round, LiteLLM polls, connects and answers in the
\* end, time passes.  Users and runs owe nothing.
FairSpec ==
    /\ Spec
    /\ \A p \in Callers : WF_vars(CallerStep(p))
    /\ WF_vars(PassReads \/ PassLists \/ PassPings \/ PassEnds \/ Finishes(Pass))
    /\ \A m \in Models : /\ WF_vars(PassSettles(m)) /\ WF_vars(PassDeletes(m))
                         /\ WF_vars(LateArrives(m)) /\ SF_vars(Age(m))
    /\ WF_vars(Poll) /\ WF_vars(Reconnect)

-----------------------------------------------------------------------------
(* Properties *)

\* LiteLLM never serves two models under one alias, between which it would split
\* the traffic: an alias is only freed when its model cannot reach LiteLLM.
OneServedPerAlias ==
    \A m, q \in Models : m # q /\ served[m] # None /\ served[q] # None
                            => row[m].alias # row[q].alias

\* An alias under which runs could call a model never names another one, also after
\* the model is deleted: no revert, retry or pass lets its record be removed as one
\* LiteLLM never served, which would free the alias.
AliasNamesOneModel ==
    \A m, q \in Models : m # q /\ row[m].named /\ Recorded(q) => row[q].alias # row[m].alias

Quiet == (\A p \in Procs : pc[p] = "idle") /\ late = [m \in Models |-> None]

\* No call failed and none is on its way: LiteLLM holds no model without a live record,
\* whichever of a create and a delete of it came first.
NothingUnrecorded == Quiet /\ faults = 0 => \A m \in Models : served[m] # None => Live(m)

\* What an interrupted create or delete leaves behind is settled by a pass.
IntentSettles ==
    \A m \in Models : Holds(m, {"PENDING", "DELETING"})
                         ~> ~Holds(m, {"PENDING", "DELETING"})

\* The registry does not keep calling ACTIVE a model LiteLLM has lost.
LossIsNoticed ==
    \A m \in Models : (Holds(m, {"ACTIVE"}) /\ served[m] = None)
                         ~> (~Holds(m, {"ACTIVE"}) \/ served[m] # None)

-----------------------------------------------------------------------------
(* What the repository says and interleavings refute: the README has the     *)
(* instance and the trace of each.                                           *)

\* When no call is on its way, a model that is said to need its key is not served.
NeedsKeyIsLost == Quiet => \A m \in Models : Holds(m, {"NEEDS_KEY"}) => served[m] = None

\* A model that a run in flight calls is not deleted from LiteLLM.
InUseIsKept ==
    [][\A m \in Models : InUse(m) /\ served[m] # None => served'[m] # None]_vars

\* The record's key hint is of the key LiteLLM holds.
HintIsOfKey ==
    Quiet => \A m \in Models : Holds(m, {"ACTIVE"}) /\ served[m] # None
                                  => row[m].hint = served[m]

\* A model is removed for good only if LiteLLM does not have it.
FreedIsNotServed == Quiet => \A m \in Models : row[m].status = "gone" => served[m] = None

\* When no call is on its way, LiteLLM serves what is ACTIVE, unless it lost it.
ActiveIsServed == Quiet => \A m \in Models : Holds(m, {"ACTIVE"}) => served[m] # None
=============================================================================
