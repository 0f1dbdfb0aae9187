------------------------ MODULE SequentialBatchProofs ------------------------
(***************************************************************************)
(* That MultiRun implements SequentialBatch: a batch nobody stops, deletes *)
(* or edits runs its runs one at a time, all of them, and closes only      *)
(* then, for any number of runs, goroutines and faults of every kind.      *)
(*                                                                         *)
(* The argument: there is one token.  It is with the goroutine that will   *)
(* create the next run, and exists only while every run created so far has *)
(* been counted; counting the newest run makes it, creating a run takes it *)
(* away.  The chain's goroutines cannot both have it, because a run can be *)
(* counted once, and the reconciler cannot take it from them, because it   *)
(* waits until every run is older than the grace: then no handler is left  *)
(* that could be at work, and no event can start one.                      *)
(***************************************************************************)
EXTENDS MultiRunProofs

\* One batch, and users who do nothing but start it; subscriber, timers and events keep to
\* the reconciler's timeouts.
OneBatch == /\ MaxBatches = 1 /\ UserOps \subseteq {"start"}
            /\ Timely = {"subscriber", "dispatch", "events"}

Created == {r \in Runs : run[r].phase # "None"}

\* The key a run is counted under: a run whose manifest was lost never gets a UID.
KeyOf(r) == <<r, IF wf[r] = "lost" THEN "notify" ELSE "uid">>
AllCounted == \A r \in Created : KeyOf(r) \in state.counted
Short == Cardinality(Created) < MaxRuns

\* Every run is older than the grace, or its workflow was never created: no event can come.
Aged == \A r \in Created : run[r].age = 2 \/ wf[r] = "lost"
HandlersIdle == \A h \in Handlers : pc[h] = "idle"

\* Labels of a handler that counted the newest run, up to its latch or its dispatch.
Dispatching == {"gate", "claim", "sleep", "check", "create"}
Chaining == {"reread", "latch"} \cup Dispatching

RunInv(r) ==
    /\ ~run[r].removed
    /\ run[r].phase = "None" <=> wf[r] = "none"
    /\ run[r].phase # "None" => run[r].batch = 1
    /\ wf[r] = "lost" => ~run[r].uid
    /\ run[r].completed /\ wf[r] # "lost" => run[r].uid
    /\ run[r].phase = "Queued" /\ run[r].age >= 1 => wf[r] = "lost"

BatchInv ==
    /\ state.started \in {0, 1}
    /\ state.started = 0 => Created = {} /\ pc[Reconciler] = "idle" /\ ~state.done
    /\ state.counted \subseteq {KeyOf(r) : r \in Created}
    /\ \A r, s \in Created : {KeyOf(r), KeyOf(s)} \cap state.counted = {} => r = s
    /\ Cardinality(Created) <= MaxRuns
    /\ state.done => ~Short /\ AllCounted

UserInv(u) ==
    /\ pc[u] \in {"idle", "check", "begin", "create"}
    /\ pc[u] \in {"check", "begin"} => state.started = 0 /\ loc[u].en
    /\ pc[u] = "create" => state.started = 1 /\ Created = {} /\ loc[u].started = 1

OneUser == \A u, v \in Users : pc[u] # "idle" /\ pc[v] # "idle" => u = v

HandlerInv(h) ==
    /\ pc[h] \in {"txn", "count"} => loc[h].run \in Created /\ wf[loc[h].run] # "lost"
    /\ pc[h] \in Chaining => AllCounted
    /\ pc[h] = "latch" => ~Short
    /\ pc[h] \in Dispatching => Short
    /\ pc[h] = "create" => loc[h].started = 1

OneChain == \A g, h \in Handlers : pc[g] \in Chaining /\ pc[h] \in Chaining => g = h

\* What the sweep has read is still so when it acts on it.
SweepInv ==
    /\ rec.seen \subseteq Created
    /\ rec.ended \subseteq {KeyOf(r) : r \in Created}
    /\ \A key \in rec.todo : wf[key[1]] = "lost" /\ key = KeyOf(key[1])
    /\ ~rec.busy => \A r \in rec.seen : KeyOf(r) \in rec.ended \cup rec.todo
    /\ rec.ripe => Aged /\ rec.seen = Created

ReconcilerInv ==
    /\ pc[Reconciler] = "list" => rec.started = 1
    /\ pc[Reconciler] \in {"expire", "reread", "check", "create"} => Created # {}
    /\ pc[Reconciler] = "expire" => SweepInv
    /\ pc[Reconciler] \in {"reread", "check", "create"} => Aged /\ AllCounted /\ Short
    /\ pc[Reconciler] = "create" => loc[Reconciler].started = 1

\* All of them: the token is with one goroutine at most, and only when all runs are counted.
Token == /\ exp = [removed |-> FALSE, enabled |-> TRUE]
         /\ \A r \in Runs : RunInv(r)
         /\ BatchInv
         /\ OneUser /\ \A u \in Users : UserInv(u)
         /\ OneChain /\ \A h \in Handlers : HandlerInv(h)
         /\ ReconcilerInv
         /\ Aged => HandlersIdle

BInv == IInv /\ Token

USE RunsAssumption, ProcsAssumption, MaxRunsAssumption, BoundsAssumption

-----------------------------------------------------------------------------
(* Facts about one state *)

LEMMA CreatedFinite == IsFiniteSet(Created) /\ Cardinality(Created) \in Nat
<1>1. Created \in SUBSET Runs
  BY DEF Created
<1> QED BY <1>1, FS_Subset, FS_CardinalityType

\* When all runs are counted, as many keys as runs are: no run is counted under two keys.
LEMMA CountedCard ==
  ASSUME BatchInv, AllCounted
  PROVE  Cardinality(state.counted) = Cardinality(Created)
<1> DEFINE f == [r \in Created |-> KeyOf(r)]
<1>1. state.counted = {KeyOf(r) : r \in Created}
  BY DEF BatchInv, AllCounted
<1>2. f \in Injection(Created, state.counted)
  <2>1. f \in [Created -> state.counted]
    BY <1>1
  <2>2. \A r, s \in Created : KeyOf(r) = KeyOf(s) => r = s
    BY DEF KeyOf
  <2> QED BY <2>1, <2>2 DEF Injection, IsInjective
<1>3. f \in Surjection(Created, state.counted)
  BY <1>1, <1>2 DEF Surjection, Injection
<1>4. ExistsBijection(Created, state.counted)
  BY <1>2, <1>3 DEF ExistsBijection, Bijection
<1> QED BY <1>4, CreatedFinite, FS_Bijection

\* The batch has been begun when it has a run, and when anybody but a user is at work on it.
LEMMA Begun ==
  ASSUME TypeOK, Token
  PROVE  /\ Created # {} => state.started = 1 /\ \A u \in Users : pc[u] = "idle"
         /\ pc[Reconciler] # "idle" => state.started = 1
         /\ Created = {} => HandlersIdle
         /\ \A h \in Handlers : pc[h] # "idle" => ~Aged /\ Created # {}
<1>1. Created # {} => state.started = 1 /\ \A u \in Users : pc[u] = "idle"
  BY DEF Token, BatchInv, UserInv
<1>2. Created = {} => Aged
  BY DEF Aged
<1> QED BY <1>1, <1>2 DEF Token, BatchInv, HandlersIdle

\* Whoever is about to create a run is the only one who can: every run has been counted,
\* and one is missing.
LEMMA CreateAlone ==
  ASSUME TypeOK, Token, NEW p \in Procs, pc[p] = "create"
  PROVE  /\ AllCounted /\ Short /\ ~state.done
         /\ state.started = 1 /\ loc[p].started = 1
         /\ \A u \in Users \ {p} : pc[u] = "idle"
         /\ \A h \in Handlers \ {p} : pc[h] \notin Chaining
         /\ p # Reconciler => /\ pc[Reconciler] \notin {"reread", "check", "create"}
                              /\ pc[Reconciler] = "expire" => ~rec.ripe
<1>1. CASE p \in Users
  <2>1. Created = {} /\ loc[p].started = 1 /\ state.started = 1 /\ \A u \in Users \ {p} : pc[u] = "idle"
    BY <1>1 DEF Token, UserInv, OneUser
  <2>2. AllCounted /\ Short
    BY <2>1, FS_EmptySet DEF AllCounted, Short
  <2>3. \A h \in Handlers : pc[h] = "idle"
    BY <2>1, Begun DEF HandlersIdle
  <2>4. pc[Reconciler] \notin {"expire", "reread", "check", "create"}
    BY <2>1 DEF Token, ReconcilerInv
  <2> QED BY <1>1, <2>1, <2>2, <2>3, <2>4 DEF Token, BatchInv, Chaining, Dispatching
<1>2. CASE p \in Handlers
  <2>1. AllCounted /\ Short /\ loc[p].started = 1
    BY <1>2 DEF Token, HandlerInv, Chaining, Dispatching
  <2>2. \A h \in Handlers \ {p} : pc[h] \notin Chaining
    BY <1>2 DEF Token, OneChain, Chaining, Dispatching
  <2>3. ~Aged /\ Created # {}
    BY <1>2, Begun
  <2>4. state.started = 1 /\ \A u \in Users : pc[u] = "idle"
    BY <2>3, Begun
  <2>5. /\ pc[Reconciler] \notin {"reread", "check", "create"}
        /\ pc[Reconciler] = "expire" => ~rec.ripe
    BY <2>3 DEF Token, ReconcilerInv, SweepInv
  <2> QED BY <2>1, <2>2, <2>4, <2>5 DEF Token, BatchInv
<1>3. CASE p = Reconciler
  <2>1. AllCounted /\ Short /\ Aged /\ Created # {} /\ loc[p].started = 1
    BY <1>3 DEF Token, ReconcilerInv
  <2>2. \A h \in Handlers : pc[h] \notin Chaining
    BY <2>1 DEF Token, HandlersIdle, Chaining, Dispatching
  <2> QED BY <1>3, <2>1, <2>2, Begun DEF Token, BatchInv
<1> QED BY <1>1, <1>2, <1>3 DEF Procs

\* Nothing but the newest run is open: every other run has been counted.
LEMMA OneOpen ==
  ASSUME BInv
  PROVE  /\ \A r, s \in OpenRuns : r = s
         /\ AllCounted => OpenRuns = {}
<1>1. ASSUME NEW r \in OpenRuns PROVE r \in Created /\ KeyOf(r) \notin state.counted
  BY <1>1 DEF OpenRuns, Created, BInv, IInv, CountedRunsEnded, KeyOf
<1> QED BY <1>1 DEF BInv, Token, BatchInv, AllCounted

-----------------------------------------------------------------------------
(* What a step may leave alone *)

Same(q) == pc'[q] = pc[q] /\ loc'[q] = loc[q]

\* No run is created, and no workflow is lost.
SameRuns == /\ Created' = Created
            /\ \A r \in Created : wf'[r] = "lost" <=> wf[r] = "lost"

\* Nobody moves but p.
LEMMA OnlyMoves ==
  ASSUME ControlOK, NEW p \in Procs, NEW label,
         \/ Return(p)
         \/ Goto(p, label) /\ \E v : loc' = [loc EXCEPT ![p] = v]
         \/ Goto(p, label) /\ UNCHANGED loc
  PROVE  \A q \in Procs \ {p} : Same(q)
  BY DEF ControlOK, Return, Goto, Same

\* A step that creates no run and keeps the batch as it is disturbs nobody who does not
\* take part in it.
LEMMA OthersKeep ==
  ASSUME TypeOK, Token, SameRuns, exp' = exp, state'.started = state.started,
         state.counted \subseteq state'.counted,
         \A r \in Runs : RunInv(r)', BatchInv', Aged => Aged', Aged' => HandlersIdle',
         OneUser', \A u \in Users : Same(u) \/ UserInv(u)',
         OneChain', \A h \in Handlers : Same(h) \/ HandlerInv(h)',
         \/ ReconcilerInv'
         \/ Same(Reconciler) /\ rec' = rec
  PROVE  Token'
<1>1. \A r \in Created : KeyOf(r)' = KeyOf(r)
  BY DEF SameRuns, KeyOf
<1>2. AllCounted => AllCounted'
  BY <1>1 DEF AllCounted, SameRuns
<1>3. Short' = Short
  BY DEF Short, SameRuns
<1>4. ASSUME NEW u \in Users PROVE UserInv(u)'
  <2>1. CASE Same(u)
    BY <2>1 DEF Same, SameRuns, Token, UserInv
  <2> QED BY <2>1
<1>5. ASSUME NEW h \in Handlers PROVE HandlerInv(h)'
  <2>1. CASE Same(h)
    BY <1>2, <1>3, <2>1 DEF Same, SameRuns, Token, HandlerInv
  <2> QED BY <2>1
<1>6. ReconcilerInv'
  <2> SUFFICES ASSUME Same(Reconciler), rec' = rec PROVE ReconcilerInv'
    OBVIOUS
  <2>1. ASSUME pc[Reconciler] = "expire" PROVE SweepInv'
    <3>1. SweepInv
      BY <2>1 DEF Token, ReconcilerInv
    <3>2. /\ rec'.seen \subseteq Created'
          /\ rec'.ended \subseteq {KeyOf(r) : r \in Created}'
          /\ ~rec'.busy => \A r \in rec'.seen : KeyOf(r)' \in rec'.ended \cup rec'.todo
          /\ rec'.ripe => Aged' /\ rec'.seen = Created'
      BY <1>1, <3>1 DEF SweepInv, SameRuns
    <3>3. \A key \in rec'.todo : wf'[key[1]] = "lost" /\ key = KeyOf(key[1])'
      <4> SUFFICES ASSUME NEW key \in rec.todo
                   PROVE  wf'[key[1]] = "lost" /\ key = KeyOf(key[1])'
        OBVIOUS
      <4>1. key[1] \in Runs /\ wf[key[1]] = "lost" /\ key = KeyOf(key[1])
        BY <3>1 DEF SweepInv, TypeOK, DataOK, RecType, Keys
      <4>2. key[1] \in Created
        BY <4>1 DEF Token, RunInv, Created
      <4> QED BY <1>1, <4>1, <4>2 DEF SameRuns
    <3> QED BY <3>2, <3>3 DEF SweepInv
  <2> QED BY <1>2, <1>3, <2>1 DEF Same, SameRuns, Token, ReconcilerInv
<1> QED BY <1>4, <1>5, <1>6 DEF Token

\* Users and chains stay one when none joins them.
LEMMA StayOne ==
  ASSUME Token, \A u \in Users : pc'[u] = "idle" \/ pc[u] # "idle",
         \A h \in Handlers : pc'[h] \in Chaining => pc[h] \in Chaining
  PROVE  OneUser' /\ OneChain'
  BY DEF Token, OneUser, OneChain

\* The batch's part is kept by whoever leaves runs and accounting alone.
LEMMA SameBatch ==
  ASSUME Token, SameRuns, state'.started = state.started, state'.counted = state.counted,
         state'.done = state.done, state.started = 0 => pc'[Reconciler] = "idle"
  PROVE  BatchInv'
<1>1. \A r \in Created : KeyOf(r)' = KeyOf(r)
  BY DEF SameRuns, KeyOf
<1>2. /\ state'.started \in {0, 1}
      /\ state'.started = 0 => Created' = {} /\ pc'[Reconciler] = "idle" /\ ~state'.done
      /\ Cardinality(Created') <= MaxRuns
  BY DEF Token, BatchInv, SameRuns
<1>3. state'.counted \subseteq {KeyOf(r) : r \in Created}'
  BY <1>1 DEF Token, BatchInv, SameRuns
<1>4. \A r, s \in Created' : {KeyOf(r)', KeyOf(s)'} \cap state'.counted = {} => r = s
  BY <1>1 DEF Token, BatchInv, SameRuns
<1>5. state'.done => ~Short' /\ AllCounted'
  BY <1>1 DEF Token, BatchInv, SameRuns, Short, AllCounted
<1> QED BY <1>2, <1>3, <1>4, <1>5 DEF BatchInv

\* Nothing happens to runs and workflows.
LEMMA RunsUntouched ==
  ASSUME Token, UNCHANGED <<run, wf>>
  PROVE  SameRuns /\ (\A r \in Runs : RunInv(r)') /\ Aged' = Aged
  BY DEF Token, SameRuns, Created, RunInv, Aged

\* A step of one goroutine that leaves all documents alone, but for the slot counter.
LEMMA MoveKeeps ==
  ASSUME TypeOK, Token, NEW p \in Procs, UNCHANGED <<exp, run, wf>>,
         state'.started = state.started, state'.counted = state.counted, state'.done = state.done,
         \A q \in Procs \ {p} : Same(q),
         p \in Users => UserInv(p)' /\ OneUser',
         p \in Handlers => /\ HandlerInv(p)' /\ pc[p] # "idle"
                           /\ pc'[p] \in Chaining => pc[p] \in Chaining,
         IF p = Reconciler THEN /\ ReconcilerInv'
                                /\ state.started = 0 => pc'[p] = "idle"
                           ELSE rec' = rec
  PROVE  Token'
<1>0. /\ SameRuns /\ (\A r \in Runs : RunInv(r)') /\ Aged' = Aged
      /\ \A u \in Users : u \in Procs
      /\ \A h \in Handlers : h \in Procs
      /\ Reconciler \in Procs
  BY RunsUntouched DEF Procs
<1>1. BatchInv'
  <2>1. state.started = 0 => pc'[Reconciler] = "idle"
    BY <1>0 DEF Token, BatchInv, Same
  <2> QED BY <1>0, <2>1, SameBatch
<1>2. Aged' => HandlersIdle'
  <2>1. CASE p \in Handlers
    BY <1>0, <2>1, Begun
  <2>2. CASE p \notin Handlers
    BY <1>0, <2>2 DEF Token, HandlersIdle, Same
  <2> QED BY <2>1, <2>2
<1>3. OneUser'
  BY <1>0 DEF Token, OneUser, Same
<1>4. OneChain'
  <2>1. \A h \in Handlers : pc'[h] \in Chaining => pc[h] \in Chaining
    BY <1>0 DEF Same
  <2> QED BY <2>1 DEF Token, OneChain
<1>5. /\ \A u \in Users : Same(u) \/ UserInv(u)'
      /\ \A h \in Handlers : Same(h) \/ HandlerInv(h)'
      /\ ReconcilerInv' \/ (Same(Reconciler) /\ rec' = rec)
  BY <1>0
<1> QED BY <1>0, <1>1, <1>2, <1>3, <1>4, <1>5, OthersKeep

-----------------------------------------------------------------------------
(* RunChaosWorkFlow *)

\* A run is created: the token is gone.
LEMMA CreationKeeps ==
  ASSUME OneBatch, TypeOK, TypeOK', Token, NEW p \in Procs, pc[p] = "create",
         NEW r \in Runs, run[r].phase = "None", run' = [run EXCEPT ![r] = NewRun(p)],
         NEW w \in {"active", "lost"}, wf' = [wf EXCEPT ![r] = w],
         UNCHANGED <<exp, state>>, \A q \in Procs \ {p} : Same(q),
         pc'[p] = "idle" \/ (p \in Handlers /\ pc'[p] = "release")
                         \/ (p = Reconciler /\ pc'[p] = "bump"),
         IF p = Reconciler THEN TRUE ELSE rec' = rec
  PROVE  Token'
<1>0. /\ AllCounted /\ Short /\ ~state.done
      /\ state.started = 1 /\ loc[p].started = 1
      /\ \A u \in Users \ {p} : pc[u] = "idle"
      /\ \A h \in Handlers \ {p} : pc[h] \notin Chaining
      /\ p # Reconciler => /\ pc[Reconciler] \notin {"reread", "check", "create"}
                           /\ pc[Reconciler] = "expire" => ~rec.ripe
  BY CreateAlone
<1>t. /\ run \in [Runs -> RunType] /\ wf \in [Runs -> WorkflowStates]
      /\ Users \subseteq Procs /\ Handlers \subseteq Procs /\ Reconciler \in Procs
  BY DEF TypeOK, DataOK, Procs
<1>1. /\ run'[r] = NewRun(p) /\ wf'[r] = w
      /\ \A s \in Runs \ {r} : run'[s] = run[s] /\ wf'[s] = wf[s]
  BY <1>t
<1>2. r \notin Created /\ Created' = Created \cup {r}
  BY <1>1 DEF Created, NewRun
<1>3. \A s \in Created : KeyOf(s)' = KeyOf(s)
  BY <1>1, <1>2 DEF KeyOf, Created
<1>4. \A s \in Runs : RunInv(s)'
  BY <1>0, <1>1 DEF Token, RunInv, NewRun
<1>5. BatchInv'
  <2>1. /\ state'.started = 1 /\ ~state'.done
        /\ Cardinality(Created') <= MaxRuns
    <3>1. Cardinality(Created \cup {r}) = Cardinality(Created) + 1
      BY <1>2, CreatedFinite, FS_AddElement
    <3> QED BY <1>0, <1>2, <3>1, CreatedFinite DEF Short
  <2>2. state'.counted \subseteq {KeyOf(s) : s \in Created}'
    BY <1>2, <1>3 DEF Token, BatchInv
  <2>3. \A s, t \in Created' : {KeyOf(s)', KeyOf(t)'} \cap state'.counted = {} => s = t
    BY <1>0, <1>2, <1>3 DEF AllCounted
  <2> QED BY <2>1, <2>2, <2>3 DEF BatchInv
<1>6. OneUser' /\ \A u \in Users : UserInv(u)'
  <2>1. \A u \in Users : pc'[u] = "idle"
    BY <1>0, <1>t DEF Same
  <2> QED BY <2>1 DEF OneUser, UserInv
<1>7. OneChain' /\ \A h \in Handlers : HandlerInv(h)'
  <2>1. \A h \in Handlers : pc'[h] \notin Chaining
    BY <1>0, <1>t DEF Same, Chaining, Dispatching
  <2>2. ASSUME NEW h \in Handlers, pc'[h] \in {"txn", "count"}
        PROVE  loc'[h].run \in Created' /\ wf'[loc'[h].run] # "lost"
    <3>1. h # p /\ Same(h)
      BY <1>t, <2>2
    <3>2. loc[h].run \in Created /\ wf[loc[h].run] # "lost"
      BY <2>2, <3>1 DEF Same, Token, HandlerInv
    <3> QED BY <1>1, <1>2, <3>1, <3>2 DEF Same, Created
  <2> QED BY <2>1, <2>2 DEF OneChain, HandlerInv, Chaining, Dispatching
<1>8. ReconcilerInv'
  <2>1. CASE p = Reconciler
    BY <2>1 DEF ReconcilerInv
  <2>2. CASE p # Reconciler
    <3>1. Same(Reconciler) /\ rec' = rec
      BY <1>t, <2>2
    <3>2. ASSUME pc[Reconciler] = "expire" PROVE SweepInv'
      <4>1. SweepInv /\ ~rec.ripe
        BY <1>0, <2>2, <3>2 DEF Token, ReconcilerInv
      <4>2. ASSUME NEW key \in rec.todo PROVE wf'[key[1]] = "lost" /\ key = KeyOf(key[1])'
        <5>1. key[1] \in Runs /\ wf[key[1]] = "lost" /\ key = KeyOf(key[1])
          BY <4>1, <4>2 DEF SweepInv, TypeOK, DataOK, RecType, Keys
        <5>2. key[1] \in Created
          BY <5>1 DEF Token, RunInv, Created
        <5> QED BY <1>1, <1>2, <1>3, <5>1, <5>2
      <4>3. /\ rec.seen \subseteq Created'
            /\ rec.ended \subseteq {KeyOf(s) : s \in Created}'
            /\ ~rec.busy => \A s \in rec.seen : KeyOf(s)' \in rec.ended \cup rec.todo
        BY <1>2, <1>3, <4>1 DEF SweepInv
      <4> QED BY <3>1, <4>1, <4>2, <4>3 DEF SweepInv
    <3> QED BY <1>0, <1>2, <2>2, <3>1, <3>2 DEF Same, Token, ReconcilerInv
  <2> QED BY <2>1, <2>2
<1>9. Aged' => HandlersIdle'
  <2> SUFFICES ASSUME Aged' PROVE HandlersIdle'
    OBVIOUS
  <2>1. Aged
    BY <1>1, <1>2 DEF Aged, Created
  <2>2. w = "lost"
    BY <1>1, <1>2 DEF Aged, NewRun
  <2>3. p \notin Handlers
    BY <2>1 DEF Token, HandlersIdle
  <2> QED BY <1>t, <2>1, <2>3 DEF Token, HandlersIdle, Same
<1> QED BY <1>4, <1>5, <1>6, <1>7, <1>8, <1>9 DEF Token

LEMMA RunChaosWorkFlowKeeps ==
  ASSUME OneBatch, TypeOK, TypeOK', Token, NEW p \in Procs,
         RunCheck(p) \/ RunFaults(p) \/ RunCreate(p)
  PROVE  Token'
<1>0. /\ ControlOK /\ Handlers \subseteq Procs /\ Users \subseteq Procs
      /\ p \in Users => p \notin Handlers /\ p # Reconciler
      /\ p \in Handlers => p # Reconciler
  BY DEF TypeOK, Procs
<1>a. ASSUME RunFails(p)
      PROVE  /\ \A q \in Procs \ {p} : Same(q)
             /\ pc'[p] = IF p \in Handlers THEN "release" ELSE "idle"
             /\ p # Reconciler => rec' = rec
  <2>1. \A q \in Procs \ {p} : Same(q)
    BY <1>0, <1>a, OnlyMoves DEF RunFails
  <2> QED BY <1>0, <1>a, <2>1 DEF RunFails, Goto, Return, ControlOK
<1>b. ASSUME IF p = Reconciler THEN Goto(p, "bump") /\ UNCHANGED loc ELSE Return(p)
      PROVE  /\ \A q \in Procs \ {p} : Same(q)
             /\ pc'[p] = IF p = Reconciler THEN "bump" ELSE "idle"
  <2>1. \A q \in Procs \ {p} : Same(q)
    BY <1>0, <1>b, OnlyMoves
  <2> QED BY <1>0, <1>b, <2>1 DEF Goto, Return, ControlOK
<1>c. ASSUME RunFails(p), UNCHANGED <<exp, state, run, wf>>, pc[p] \in {"check", "create"}
      PROVE  Token'
  <2>1. p \in Users => UserInv(p)' /\ OneUser'
    <3>1. p \in Users => \A u \in Users : pc'[u] = "idle" \/ pc[u] # "idle"
      BY <1>0, <1>a, <1>c DEF Same
    <3> QED BY <1>0, <1>a, <1>c, <3>1 DEF UserInv, Token, OneUser
  <2>2. p \in Handlers => HandlerInv(p)' /\ pc'[p] \notin Chaining
    BY <1>a, <1>c DEF HandlerInv, Chaining, Dispatching
  <2>3. p = Reconciler => ReconcilerInv'
    BY <1>0, <1>a, <1>c DEF ReconcilerInv
  <2> QED BY <1>0, <1>a, <1>c, <2>1, <2>2, <2>3, MoveKeeps
<1>d. ASSUME RunProceeds(p), UNCHANGED <<exp, state, run, wf>>, pc[p] = "check"
      PROVE  Token'
  <2>1. \A q \in Procs \ {p} : Same(q)
    BY <1>0, <1>d, OnlyMoves DEF RunProceeds
  <2>2. ASSUME p \in Users PROVE UserInv(p)' /\ OneUser'
    <3>1. state.started = 0 /\ loc[p].en
      BY <1>d, <2>2 DEF Token, UserInv
    <3>2. pc'[p] = "begin" /\ loc' = loc
      BY <1>0, <1>d, <2>2, <3>1 DEF RunProceeds, Goto, ControlOK
    <3>3. \A u \in Users : pc'[u] = "idle" \/ pc[u] # "idle"
      BY <1>0, <1>d, <2>1 DEF Same
    <3> QED BY <1>d, <3>1, <3>2, <3>3 DEF UserInv, Token, OneUser
  <2>3. p \notin Users => pc'[p] = "create" /\ loc'[p].started = state.started
    BY <1>0, <1>d DEF RunProceeds, Goto, ControlOK, LocType
  <2>4. ASSUME p \in Handlers PROVE HandlerInv(p)'
    <3>1. AllCounted /\ Short /\ state.started = 1
      BY <1>d, <2>4, Begun DEF Token, HandlerInv, Chaining, Dispatching
    <3>2. AllCounted' /\ Short'
      BY <1>d, <3>1 DEF AllCounted, Short, Created, KeyOf
    <3> QED BY <1>0, <2>3, <2>4, <3>1, <3>2 DEF HandlerInv
  <2>5. ASSUME p = Reconciler PROVE ReconcilerInv' /\ (state.started = 0 => pc'[p] = "idle")
    <3>1. AllCounted /\ Short /\ Aged /\ Created # {} /\ state.started = 1
      BY <1>d, <2>5, Begun DEF Token, ReconcilerInv
    <3>2. AllCounted' /\ Short' /\ Aged' /\ Created' # {}
      BY <1>d, <3>1 DEF AllCounted, Short, Created, KeyOf, Aged
    <3> QED BY <1>0, <2>3, <2>5, <3>1, <3>2 DEF ReconcilerInv
  <2> QED BY <1>0, <1>d, <2>1, <2>2, <2>4, <2>5, MoveKeeps
          DEF RunProceeds, Chaining, Dispatching
<1>1. CASE RunCheck(p)
  BY <1>1, <1>c, <1>d DEF RunCheck
<1>2. CASE RunCheckBlind(p)
  BY <1>2, <1>d DEF RunCheckBlind
<1>3. CASE RunRefused(p)
  BY <1>3, <1>c DEF RunRefused
<1>4. CASE RunCreate(p)
  <2>1. PICK r \in Runs : /\ run[r].phase = "None" /\ run' = [run EXCEPT ![r] = NewRun(p)]
                          /\ wf' = [wf EXCEPT ![r] = "active"]
    BY <1>4 DEF RunCreate
  <2> QED BY <1>0, <1>4, <1>b, <2>1, CreationKeeps DEF RunCreate
<1>5. CASE RunCreateUndelivered(p)
  <2>1. PICK r \in Runs : /\ run[r].phase = "None" /\ run' = [run EXCEPT ![r] = NewRun(p)]
                          /\ wf' = [wf EXCEPT ![r] = "lost"]
    BY <1>5 DEF RunCreateUndelivered
  <2>2. /\ \A q \in Procs \ {p} : Same(q)
        /\ pc'[p] = "idle" \/ (p \in Handlers /\ pc'[p] = "release")
                           \/ (p = Reconciler /\ pc'[p] = "bump")
        /\ IF p = Reconciler THEN TRUE ELSE rec' = rec
    BY <1>5, <1>a, <1>b DEF RunCreateUndelivered
  <2> QED BY <1>5, <2>1, <2>2, CreationKeeps DEF RunCreateUndelivered
<1> QED BY <1>1, <1>2, <1>3, <1>4, <1>5 DEF RunFaults

-----------------------------------------------------------------------------
(* Users *)

\* Only one user gets to start the batch.
LEMMA UserKeeps ==
  ASSUME OneBatch, TypeOK, TypeOK', Token, NEW u \in Users, UserNext(u)
  PROVE  Token'
<1>0. /\ ControlOK /\ Handlers \subseteq Procs /\ Users \subseteq Procs /\ Reconciler \in Procs
      /\ u \notin Handlers /\ u # Reconciler /\ state \in StateType
      /\ UserInv(u)
  BY DEF TypeOK, DataOK, Procs, Token
<1>1. CASE UserStarts(u)
  <2> DEFINE starting == {v \in Users : pc[v] \in {"check", "begin"}}
  <2>1. state.started = 0 /\ starting = {}
    <3>1. state.started \in {0, 1} /\ state.started + Cardinality(starting) < 1
      BY <1>1 DEF UserStarts, OneBatch, Token, BatchInv
    <3>2. ASSUME NEW v \in starting PROVE FALSE
      <4>1. starting = {v}
        BY DEF Token, OneUser
      <4>2. Cardinality(starting) = 1
        BY <4>1, FS_Singleton
      <4> QED BY <3>1, <4>2
    <3>3. Cardinality(starting) = 0
      BY <3>2, FS_EmptySet
    <3> QED BY <3>1, <3>2, <3>3
  <2>2. \A v \in Users : pc[v] = "idle"
    BY <2>1 DEF Token, UserInv
  <2>3. \A q \in Procs \ {u} : Same(q)
    BY <1>0, <1>1 DEF UserStarts, Goto, ControlOK, Same
  <2>4. pc'[u] = "check" /\ loc'[u].en /\ UNCHANGED <<exp, state, run, wf, rec>>
    BY <1>0, <1>1 DEF UserStarts, Goto, ControlOK, LocType, Token
  <2>5. UserInv(u)' /\ OneUser'
    BY <1>0, <2>1, <2>2, <2>3, <2>4 DEF UserInv, OneUser, Same
  <2> QED BY <1>0, <2>3, <2>4, <2>5, MoveKeeps
<1>2. CASE beginMultiRunBatch(u)
  <2>1. state.started = 0 /\ Created = {} /\ pc[Reconciler] = "idle"
    BY <1>0, <1>2 DEF beginMultiRunBatch, UserInv, Token, BatchInv
  <2>2. /\ \A q \in Procs \ {u} : Same(q)
        /\ pc'[u] = "create" /\ loc'[u].started = 1
        /\ state' = [started |-> 1, launched |-> 0, counted |-> {}, done |-> FALSE]
        /\ UNCHANGED <<exp, run, wf, rec>>
    BY <1>0, <1>2, <2>1 DEF beginMultiRunBatch, Goto, ControlOK, LocType, Same
  <2>3. Created' = {} /\ \A r \in Runs : RunInv(r)'
    BY <2>1, <2>2 DEF Created, Token, RunInv
  <2>4. \A h \in Handlers : pc'[h] = "idle"
    BY <1>0, <2>1, <2>2, Begun DEF HandlersIdle, Same
  <2>5. \A v \in Users \ {u} : pc'[v] = "idle"
    BY <1>0, <1>2, <2>2 DEF beginMultiRunBatch, Same, Token, OneUser
  <2>6. BatchInv'
    BY <2>2, <2>3, FS_EmptySet DEF BatchInv
  <2>7. OneUser' /\ \A v \in Users : UserInv(v)'
    BY <2>2, <2>3, <2>5 DEF OneUser, UserInv
  <2>8. OneChain' /\ (\A h \in Handlers : HandlerInv(h)') /\ HandlersIdle'
    BY <2>4 DEF OneChain, HandlerInv, HandlersIdle, Chaining, Dispatching
  <2>9. ReconcilerInv'
    BY <1>0, <2>1, <2>2 DEF ReconcilerInv, Same
  <2> QED BY <2>2, <2>3, <2>6, <2>7, <2>8, <2>9 DEF Token
<1>3. CASE RunCheck(u) \/ RunFaults(u) \/ RunCreate(u)
  BY <1>0, <1>3, RunChaosWorkFlowKeeps
<1>4. CASE StopReads(u) \/ ProcessExperimentRunStop(u) \/ StopLatches(u) \/ StopFails(u)
  BY <1>0, <1>4 DEF StopReads, ProcessExperimentRunStop, StopLatches, StopFails, UserInv, OneBatch
<1> QED BY <1>1, <1>2, <1>3, <1>4 DEF UserNext, UserStep

-----------------------------------------------------------------------------
(* Events, the chain and its timer *)

\* Counting the newest run makes the token.
LEMMA CountKeeps ==
  ASSUME TypeOK, TypeOK', Token, NEW h \in Handlers, pc[h] = "count",
         Countable(<<loc[h].run, "uid">>),
         state' = [state EXCEPT !.counted = @ \cup {<<loc[h].run, "uid">>}],
         Goto(h, "reread"), UNCHANGED <<exp, run, wf, loc, rec>>
  PROVE  Token'
<1> DEFINE r == loc[h].run
<1>0. /\ ControlOK /\ h \in Procs /\ Handlers \subseteq Procs /\ Users \subseteq Procs
      /\ h # Reconciler /\ h \notin Users /\ Reconciler \in Procs /\ state \in StateType
      /\ SameRuns /\ (\A s \in Runs : RunInv(s)') /\ Aged' = Aged
  BY RunsUntouched DEF TypeOK, DataOK, Procs
<1>1. r \in Created /\ KeyOf(r) = <<r, "uid">> /\ KeyOf(r) \notin state.counted /\ ~state.done
  BY DEF Token, HandlerInv, KeyOf, Countable
<1>2. /\ state'.counted = state.counted \cup {KeyOf(r)}
      /\ state'.done = state.done /\ state'.started = state.started
  BY <1>0, <1>1 DEF StateType
<1>3. \A s \in Runs : KeyOf(s)' = KeyOf(s)
  BY DEF KeyOf
<1>4. Created' = Created
  BY <1>0 DEF SameRuns
<1>5. AllCounted'
  BY <1>1, <1>2, <1>3, <1>4 DEF AllCounted, Token, BatchInv, Created
<1>6. \A q \in Procs \ {h} : Same(q)
  BY <1>0 DEF Goto, ControlOK, Same
<1>7. BatchInv'
  <2>1. /\ state'.started \in {0, 1} /\ ~state'.done /\ Cardinality(Created') <= MaxRuns
        /\ state'.started = 0 => Created' = {} /\ pc'[Reconciler] = "idle" /\ ~state'.done
    BY <1>0, <1>1, <1>2, <1>4, <1>6 DEF Token, BatchInv, Same
  <2>2. state'.counted \subseteq {KeyOf(s) : s \in Created}'
    BY <1>1, <1>2, <1>3, <1>4 DEF Token, BatchInv, Created
  <2>3. \A s, t \in Created' : {KeyOf(s)', KeyOf(t)'} \cap state'.counted = {} => s = t
    BY <1>5 DEF AllCounted
  <2> QED BY <2>1, <2>2, <2>3 DEF BatchInv
<1>8. \A g \in Handlers : pc[g] \notin Chaining
  BY <1>1 DEF Token, HandlerInv, AllCounted
<1>9. OneChain' /\ OneUser'
  BY <1>0, <1>6, <1>8 DEF OneChain, Token, OneUser, Same
<1>10. HandlerInv(h)'
  BY <1>0, <1>5 DEF HandlerInv, Goto, ControlOK, Dispatching
<1>11. ~Aged'
  BY <1>0, Begun
<1> QED BY <1>0, <1>2, <1>6, <1>7, <1>9, <1>10, <1>11, OthersKeep

\* A handler that returns, or fails, holds nothing.
LEMMA ReturnKeeps ==
  ASSUME TypeOK, Token, NEW h \in Handlers, pc[h] # "idle", UNCHANGED <<exp, run, wf, rec>>,
         state'.started = state.started, state'.counted = state.counted, state'.done = state.done,
         Return(h) \/ (Goto(h, "release") /\ UNCHANGED loc)
  PROVE  Token'
<1>1. /\ ControlOK /\ h \in Procs /\ h \notin Users /\ h # Reconciler
  BY DEF TypeOK, Procs
<1>2. (\A q \in Procs \ {h} : Same(q)) /\ pc'[h] \in {"idle", "release"}
  BY <1>1 DEF Return, Goto, ControlOK, Same
<1>3. HandlerInv(h)' /\ pc'[h] \notin Chaining
  BY <1>2 DEF HandlerInv, Chaining, Dispatching
<1> QED BY <1>1, <1>2, <1>3, MoveKeeps

\* So does one that goes on with what it has.
LEMMA GoesOnKeeps ==
  ASSUME TypeOK, Token, NEW h \in Handlers, NEW label,
         UNCHANGED <<exp, run, wf, rec>>,
         state'.started = state.started, state'.counted = state.counted, state'.done = state.done,
         Goto(h, label), (\E v : loc' = [loc EXCEPT ![h] = v]) \/ UNCHANGED loc,
         \/ label = "latch" /\ pc[h] \in Chaining /\ ~Short
         \/ label \in {"gate", "claim", "sleep", "check"} /\ pc[h] \in Chaining /\ Short
  PROVE  Token'
<1>1. /\ ControlOK /\ h \in Procs /\ h \notin Users /\ h # Reconciler /\ pc[h] # "idle"
  BY DEF TypeOK, Procs, Chaining, Dispatching
<1>2. (\A q \in Procs \ {h} : Same(q)) /\ pc'[h] = label
  BY <1>1 DEF Goto, ControlOK, Same
<1>3. AllCounted
  BY DEF Token, HandlerInv
<1>4. AllCounted' /\ Short' = Short
  BY <1>3 DEF AllCounted, Short, Created, KeyOf
<1>5. HandlerInv(h)'
  BY <1>2, <1>4 DEF HandlerInv, Dispatching
<1> QED BY <1>1, <1>2, <1>5, MoveKeeps

LEMMA ChainKeeps ==
  ASSUME OneBatch, TypeOK, TypeOK', Token, NEW h \in Handlers,
         \/ ChainCount(h) \/ ChainReread(h) \/ ChainLatch(h) \/ ChainGate(h) \/ ChainClaim(h)
         \/ TimerFires(h) \/ releaseSlot(h) \/ ChainCountBlind(h) \/ HandlerFails(h)
  PROVE  Token'
<1>0. state \in StateType /\ HandlerInv(h) /\ exp.enabled
  BY DEF TypeOK, DataOK, Token
<1>1. CASE ChainCount(h)
  BY <1>1, CountKeeps, ReturnKeeps DEF ChainCount
<1>2. CASE ChainCountBlind(h)
  BY <1>2, CountKeeps DEF ChainCountBlind
<1>3. CASE ChainReread(h)
  <2>1. pc[h] \in Chaining /\ AllCounted
    BY <1>0, <1>3 DEF ChainReread, Chaining, HandlerInv
  <2>2. Cardinality(state.counted) >= MaxRuns <=> ~Short
    BY <2>1, CountedCard, CreatedFinite DEF Short, Token
  <2> QED BY <1>3, <2>1, <2>2, GoesOnKeeps DEF ChainReread
<1>4. CASE ChainLatch(h)
  <2>1. AllCounted /\ ~Short /\ pc[h] # "idle" /\ h \in Procs /\ h \notin Users /\ h # Reconciler
    BY <1>0, <1>4 DEF ChainLatch, Chaining, HandlerInv, Procs
  <2>2. /\ state'.started = state.started /\ state'.counted = state.counted /\ state'.done
        /\ UNCHANGED <<exp, run, wf, rec>>
    BY <1>0, <1>4 DEF ChainLatch, StateType
  <2>3. /\ \A q \in Procs \ {h} : Same(q)
        /\ pc'[h] = "idle"
    BY <1>4, <2>1 DEF ChainLatch, Return, Same, TypeOK, ControlOK
  <2>4. /\ SameRuns /\ (\A r \in Runs : RunInv(r)') /\ Aged' = Aged
        /\ Handlers \subseteq Procs /\ Users \subseteq Procs /\ Reconciler \in Procs
    BY <2>2, RunsUntouched DEF Procs
  <2>5. BatchInv'
    <3>1. \A r \in Runs : KeyOf(r)' = KeyOf(r)
      BY <2>2 DEF KeyOf
    <3>2. Created' = Created /\ Created \subseteq Runs
      BY <2>2 DEF Created
    <3>3. AllCounted' /\ ~Short'
      BY <2>1, <2>2, <3>1, <3>2 DEF AllCounted, Short
    <3>4. state.started # 0
      BY <2>1, Begun DEF Token, BatchInv
    <3>5. state'.counted \subseteq {KeyOf(r) : r \in Created}'
      BY <2>2, <3>1, <3>2 DEF Token, BatchInv
    <3>6. \A r, s \in Created' : {KeyOf(r)', KeyOf(s)'} \cap state'.counted = {} => r = s
      BY <3>3 DEF AllCounted
    <3>7. state'.started \in {0, 1} /\ Cardinality(Created') <= MaxRuns
      BY <2>2, <3>2 DEF Token, BatchInv
    <3> QED BY <2>2, <3>3, <3>4, <3>5, <3>6, <3>7 DEF BatchInv
  <2>6. HandlerInv(h)' /\ OneUser' /\ OneChain' /\ ~Aged'
    <3>1. \A u \in Users : pc'[u] = "idle" \/ pc[u] # "idle"
      BY <2>1, <2>3, <2>4 DEF Same
    <3>2. \A g \in Handlers : pc'[g] \in Chaining => pc[g] \in Chaining
      BY <2>3, <2>4 DEF Same, Chaining, Dispatching
    <3> QED BY <2>1, <2>3, <2>4, <3>1, <3>2, StayOne, Begun DEF HandlerInv, Chaining, Dispatching
  <2> QED BY <2>1, <2>2, <2>3, <2>4, <2>5, <2>6, OthersKeep
<1>5. CASE ChainGate(h)
  BY <1>0, <1>5, ReturnKeeps, GoesOnKeeps DEF ChainGate, HandlerInv, Chaining, Dispatching
<1>6. CASE ChainClaim(h)
  <2>1. state'.started = state.started /\ state'.counted = state.counted /\ state'.done = state.done
    BY <1>0, <1>6 DEF ChainClaim, StateType
  <2> QED BY <1>0, <1>6, <2>1, ReturnKeeps, GoesOnKeeps
          DEF ChainClaim, HandlerInv, Chaining, Dispatching
<1>7. CASE TimerFires(h)
  BY <1>0, <1>7, ReturnKeeps, GoesOnKeeps DEF TimerFires, HandlerInv, Chaining, Dispatching
<1>8. CASE releaseSlot(h)
  <2>1. state'.started = state.started /\ state'.counted = state.counted /\ state'.done = state.done
    BY <1>0, <1>8 DEF releaseSlot, StateType
  <2> QED BY <1>8, <2>1, ReturnKeeps DEF releaseSlot
<1>9. CASE HandlerFails(h)
  BY <1>9, ReturnKeeps DEF HandlerFails
<1> QED BY <1>1, <1>2, <1>3, <1>4, <1>5, <1>6, <1>7, <1>8, <1>9

\* No event comes for a run that is older than the grace, or was never there.
LEMMA EventReceivedKeeps ==
  ASSUME OneBatch, TypeOK, TypeOK', Token, NEW h \in Handlers,
         NEW r \in Runs, NEW terminal \in BOOLEAN, EventReceived(h, r, terminal)
  PROVE  Token'
<1>0. /\ ControlOK /\ wf \in [Runs -> WorkflowStates] /\ run \in [Runs -> RunType]
      /\ h \in Procs /\ h \notin Users /\ h # Reconciler
      /\ Handlers \subseteq Procs /\ Users \subseteq Procs /\ Reconciler \in Procs
  BY DEF TypeOK, DataOK, Procs
<1>1. wf[r] \in {"active", "finished", "reported"} /\ run[r].age < 2
  BY DEF EventReceived, OneBatch
<1>2. r \in Created /\ RunInv(r)
  BY <1>1 DEF Created, Token, RunInv
<1>3. ~Aged
  BY <1>1, <1>2 DEF Aged
<1>4. /\ UNCHANGED <<exp, state, run, rec>>
      /\ \A s \in Runs : wf'[s] = wf[s] \/ (s = r /\ wf'[s] = "reported")
  BY <1>0 DEF EventReceived
<1>5. SameRuns /\ (\A s \in Runs : RunInv(s)') /\ ~Aged'
  <2>1. Created' = Created
    BY <1>4 DEF Created
  <2>2. \A s \in Runs : wf'[s] = "lost" <=> wf[s] = "lost"
    BY <1>1, <1>4
  <2>3. \A s \in Runs : wf'[s] = "none" <=> wf[s] = "none"
    BY <1>1, <1>4
  <2>4. \A s \in Runs : RunInv(s)'
    BY <1>4, <2>2, <2>3 DEF Token, RunInv
  <2>5. ~Aged'
    BY <1>3, <1>4, <2>1, <2>2 DEF Aged, Created
  <2> QED BY <2>1, <2>2, <2>4, <2>5 DEF SameRuns, Created
<1>6. /\ \A q \in Procs \ {h} : Same(q)
      /\ pc'[h] = "txn" /\ loc'[h].run = r
  BY <1>0 DEF EventReceived, Goto, ControlOK, Same, NothingRead
<1>7. HandlerInv(h)'
  BY <1>2, <1>5, <1>1, <1>6 DEF HandlerInv, SameRuns, Chaining, Dispatching
<1>8. BatchInv'
  BY <1>0, <1>4, <1>5, <1>6, SameBatch DEF Same, Token, BatchInv
<1>9. OneUser' /\ OneChain'
  <2>1. \A u \in Users : pc'[u] = "idle" \/ pc[u] # "idle"
    BY <1>0, <1>6 DEF Same
  <2>2. \A g \in Handlers : pc'[g] \in Chaining => pc[g] \in Chaining
    BY <1>0, <1>6 DEF Same, Chaining, Dispatching
  <2> QED BY <2>1, <2>2, StayOne
<1> QED BY <1>0, <1>3, <1>4, <1>5, <1>6, <1>7, <1>8, <1>9, OthersKeep

LEMMA EventTransactionKeeps ==
  ASSUME OneBatch, TypeOK, TypeOK', Token, NEW h \in Handlers, EventTransaction(h)
  PROVE  Token'
<1> DEFINE r == loc[h].run
<1>0. /\ ControlOK /\ wf \in [Runs -> WorkflowStates] /\ run \in [Runs -> RunType]
      /\ h \in Procs /\ h \notin Users /\ h # Reconciler
      /\ Handlers \subseteq Procs /\ Users \subseteq Procs /\ Reconciler \in Procs
  BY DEF TypeOK, DataOK, Procs
<1>1. /\ r \in Created /\ r \in Runs /\ wf[r] # "lost" /\ RunInv(r)
      /\ UNCHANGED <<exp, state, wf, rec>> /\ pc[h] = "txn"
  BY DEF EventTransaction, Token, HandlerInv, Created
<1>2. ~Aged
  BY <1>1, Begun
<1>3. \/ run' = run
      \/ \E ph \in {"Completed", "Running", "Queued"}, b \in BOOLEAN :
            run' = [run EXCEPT ![r] = Reported(r, ph, b)]
  BY <1>0 DEF EventTransaction, ReportedPhases, ControlOK, LocType
<1>4. SameRuns /\ (\A s \in Runs : RunInv(s)') /\ ~Aged'
  <2>1. CASE run' = run
    BY <1>1, <1>2, <2>1, RunsUntouched
  <2>2. CASE run' # run
    <3>1. PICK ph \in {"Completed", "Running", "Queued"}, b \in BOOLEAN :
             run' = [run EXCEPT ![r] = Reported(r, ph, b)]
      BY <1>3, <2>2
    <3>2. /\ run'[r] = Reported(r, ph, b)
          /\ \A s \in Runs \ {r} : run'[s] = run[s]
      BY <1>0, <1>1, <3>1
    <3>3. Created' = Created
      BY <1>1, <3>2 DEF Created, Reported
    <3>4. \A s \in Runs : RunInv(s)'
      BY <1>1, <3>2 DEF Token, RunInv, Reported, Created
    <3>5. ~Aged'
      BY <1>1, <3>2, <3>3 DEF Aged, Reported
    <3> QED BY <1>1, <3>3, <3>4, <3>5 DEF SameRuns
  <2> QED BY <2>1, <2>2
<1>5. /\ \A q \in Procs \ {h} : Same(q)
      /\ pc'[h] = "idle" \/ (pc'[h] = "count" /\ loc' = loc)
  BY <1>0 DEF EventTransaction, Return, Goto, ControlOK, Same
<1>6. HandlerInv(h)'
  BY <1>1, <1>4, <1>5 DEF HandlerInv, SameRuns, Chaining, Dispatching
<1>7. BatchInv'
  BY <1>0, <1>1, <1>4, <1>5, SameBatch DEF Same, Token, BatchInv
<1>8. OneUser' /\ OneChain'
  <2>1. \A u \in Users : pc'[u] = "idle" \/ pc[u] # "idle"
    BY <1>0, <1>5 DEF Same
  <2>2. \A g \in Handlers : pc'[g] \in Chaining => pc[g] \in Chaining
    BY <1>0, <1>5 DEF Same, Chaining, Dispatching
  <2> QED BY <2>1, <2>2, StayOne
<1> QED BY <1>0, <1>1, <1>2, <1>4, <1>5, <1>6, <1>7, <1>8, OthersKeep

LEMMA HandlerKeeps ==
  ASSUME OneBatch, TypeOK, TypeOK', Token, NEW h \in Handlers, HandlerNext(h)
  PROVE  Token'
<1>1. h \in Procs
  BY DEF Procs
<1> QED BY <1>1, ChainKeeps, EventReceivedKeeps, EventTransactionKeeps, RunChaosWorkFlowKeeps
        DEF HandlerNext, HandlerStep

-----------------------------------------------------------------------------
(* The reconciler *)

\* A sweep that ends holds nothing.
LEMMA SweepOverKeeps ==
  ASSUME TypeOK, Token, UNCHANGED <<exp, state, run, wf>>, Return(Reconciler)
  PROVE  Token'
<1>1. /\ ControlOK /\ Reconciler \in Procs /\ Reconciler \notin Users /\ Reconciler \notin Handlers
  BY DEF TypeOK, Procs
<1>2. (\A q \in Procs \ {Reconciler} : Same(q)) /\ pc'[Reconciler] = "idle"
  BY <1>1 DEF Return, ControlOK, Same
<1>3. ReconcilerInv'
  BY <1>2 DEF ReconcilerInv
<1> QED BY <1>1, <1>2, <1>3, MoveKeeps

\* What the sweep lists: the runs of the batch, each under the key it is counted under.
LEMMA ListKeeps ==
  ASSUME OneBatch, TypeOK, TypeOK', IInv, Token, ReconcileRuns
  PROVE  Token'
<1> DEFINE seen    == {r \in Runs : /\ run[r].phase # "None" /\ ~run[r].removed
                                    /\ run[r].batch >= rec.started}
           ended   == {r \in seen : Ended(r)}
           stalled == {r \in seen \ ended : run[r].phase = "Queued" /\ run[r].age >= 1}
<1>0. /\ ControlOK /\ Reconciler \in Procs /\ Reconciler \notin Users /\ Reconciler \notin Handlers
      /\ rec \in RecType /\ pc[Reconciler] = "list" /\ UNCHANGED <<exp, state, run, wf>>
  BY DEF TypeOK, DataOK, Procs, ReconcileRuns
<1>1. rec.started = 1 /\ state.started = 1
  BY <1>0, Begun DEF Token, ReconcilerInv
<1>2. seen = Created
  BY <1>1 DEF Token, RunInv, Created
<1>3. CASE seen = {}
  BY <1>0, <1>3, SweepOverKeeps DEF ReconcileRuns, SweepOver
<1>4. CASE seen # {}
  <2>1. /\ rec' = [rec EXCEPT !.seen = seen,
                              !.ended = {multiRunRunKey(r) : r \in ended},
                              !.todo = {multiRunRunKey(r) : r \in stalled},
                              !.busy = seen # ended \cup stalled,
                              !.ripe = \A r \in seen : run[r].age = 2]
        /\ Goto(Reconciler, "expire") /\ UNCHANGED loc
    BY <1>4 DEF ReconcileRuns
  <2>2. /\ rec'.seen = Created
        /\ rec'.ended = {multiRunRunKey(r) : r \in ended}
        /\ rec'.todo = {multiRunRunKey(r) : r \in stalled}
        /\ rec'.busy = (Created # ended \cup stalled)
        /\ rec'.ripe => \A r \in Created : run[r].age = 2
    <3> HIDE DEF seen, ended, stalled
    <3> QED BY <1>0, <1>2, <2>1 DEF RecType
  <2>3. ASSUME NEW r \in ended PROVE r \in Created /\ multiRunRunKey(r) = KeyOf(r)
    <3>1. r \in Created /\ r \in Runs /\ RunInv(r)
      BY <1>2, <2>3 DEF Created, Token
    <3>2. run[r].completed
      BY <3>1, <2>3
         DEF Ended, nonTerminalRunPhases, IInv, PhaseAgreesWithCompleted, TypeOK, DataOK, RunType,
             Phases, Created
    <3>3. wf[r] # "lost" <=> run[r].uid
      BY <3>1, <3>2 DEF RunInv, TypeOK, DataOK, RunType
    <3> QED BY <3>1, <3>3 DEF multiRunRunKey, KeyOf
  <2>4. ASSUME NEW r \in stalled PROVE r \in Created /\ wf[r] = "lost" /\ multiRunRunKey(r) = KeyOf(r)
    <3>1. r \in Created /\ r \in Runs /\ RunInv(r)
      BY <1>2, <2>4 DEF Created, Token
    <3>2. wf[r] = "lost" /\ ~run[r].uid
      BY <2>4, <3>1 DEF RunInv
    <3> QED BY <3>1, <3>2 DEF multiRunRunKey, KeyOf
  <2>5. Created' = Created /\ (\A r \in Runs : KeyOf(r)' = KeyOf(r)) /\ Aged' = Aged
    BY <1>0 DEF Created, KeyOf, Aged
  <2>6. SweepInv'
    <3>1. rec'.ended \subseteq {KeyOf(r) : r \in Created}'
      BY <2>2, <2>3, <2>5 DEF Created
    <3>2. \A key \in rec'.todo : wf'[key[1]] = "lost" /\ key = KeyOf(key[1])'
      <4> SUFFICES ASSUME NEW key \in rec'.todo
                   PROVE  wf'[key[1]] = "lost" /\ key = KeyOf(key[1])'
        OBVIOUS
      <4>1. PICK r \in stalled : key = multiRunRunKey(r)
        BY <2>2
      <4>2. key = KeyOf(r) /\ wf[r] = "lost" /\ key[1] = r
        BY <2>4, <4>1 DEF multiRunRunKey
      <4>3. wf'[r] = "lost" /\ KeyOf(r)' = KeyOf(r)
        BY <1>0, <4>2 DEF KeyOf
      <4> QED BY <4>2, <4>3
    <3>3. ~rec'.busy => \A r \in rec'.seen : KeyOf(r)' \in rec'.ended \cup rec'.todo
      <4> SUFFICES ASSUME ~rec'.busy, NEW r \in Created
                   PROVE  KeyOf(r) \in rec'.ended \cup rec'.todo
        BY <2>2, <2>5 DEF Created
      <4>1. r \in ended \/ r \in stalled
        BY <2>2
      <4> QED BY <2>2, <2>3, <2>4, <4>1
    <3>4. rec'.seen \subseteq Created' /\ (rec'.ripe => Aged' /\ rec'.seen = Created')
      BY <2>2, <2>5 DEF Aged
    <3> QED BY <3>1, <3>2, <3>3, <3>4 DEF SweepInv
  <2>7. (\A q \in Procs \ {Reconciler} : Same(q)) /\ pc'[Reconciler] = "expire"
    BY <1>0, <2>1 DEF Goto, ControlOK, Same
  <2>8. ReconcilerInv'
    BY <1>2, <1>4, <2>5, <2>6, <2>7 DEF ReconcilerInv
  <2> QED BY <1>0, <1>1, <2>7, <2>8, MoveKeeps
<1> QED BY <1>3, <1>4

\* A run expires whose workflow was never there, so it is no less aged for that.
LEMMA ExpireKeeps ==
  ASSUME OneBatch, TypeOK, TypeOK', Token, expireStalledQueuedRun
  PROVE  Token'
<1>1. PICK key \in rec.todo :
         /\ run' = [run EXCEPT ![key[1]] = ClosedAs(key[1], "Error")]
         /\ rec' = [rec EXCEPT !.todo = @ \ {key}, !.ended = @ \cup {key}]
  BY DEF expireStalledQueuedRun
<1> DEFINE r == key[1]
<1>0. /\ pc[Reconciler] = "expire" /\ UNCHANGED <<exp, state, wf, pc, loc>> /\ SweepInv
      /\ rec \in RecType /\ run \in [Runs -> RunType] /\ Created # {}
  BY DEF expireStalledQueuedRun, Token, ReconcilerInv, TypeOK, DataOK
<1>2. r \in Runs /\ wf[r] = "lost" /\ key = KeyOf(r)
  BY <1>0 DEF SweepInv, RecType, Keys
<1>3. r \in Created /\ RunInv(r)
  BY <1>2 DEF Token, RunInv, Created
<1>4. /\ run'[r] = ClosedAs(r, "Error")
      /\ \A s \in Runs \ {r} : run'[s] = run[s]
  BY <1>0, <1>1, <1>2
<1>5. Created' = Created
  BY <1>3, <1>4 DEF Created, ClosedAs
<1>6. SameRuns
  BY <1>0, <1>5 DEF SameRuns
<1>7. \A s \in Runs : RunInv(s)'
  BY <1>0, <1>2, <1>3, <1>4 DEF Token, RunInv, ClosedAs, Created
<1>8. Aged' <=> Aged
  BY <1>0, <1>2, <1>4, <1>5 DEF Aged, Created
<1>9. \A s \in Runs : KeyOf(s)' = KeyOf(s)
  BY <1>0 DEF KeyOf
<1>10. SweepInv'
  <2>1. /\ rec'.seen = rec.seen /\ rec'.todo = rec.todo \ {key}
        /\ rec'.ended = rec.ended \cup {key} /\ rec'.busy = rec.busy /\ rec'.ripe = rec.ripe
    BY <1>0, <1>1 DEF RecType
  <2>2. rec'.ended \subseteq {KeyOf(s) : s \in Created}'
    BY <1>0, <1>2, <1>3, <1>5, <1>9, <2>1 DEF SweepInv, Created
  <2>3. \A k \in rec'.todo : wf'[k[1]] = "lost" /\ k = KeyOf(k[1])'
    BY <1>0, <2>1 DEF SweepInv, KeyOf
  <2>4. ~rec'.busy => \A s \in rec'.seen : KeyOf(s)' \in rec'.ended \cup rec'.todo
    BY <1>0, <1>9, <2>1 DEF SweepInv, Created
  <2>5. rec'.seen \subseteq Created' /\ (rec'.ripe => Aged' /\ rec'.seen = Created')
    BY <1>0, <1>5, <1>8, <2>1 DEF SweepInv
  <2> QED BY <2>2, <2>3, <2>4, <2>5 DEF SweepInv
<1>11. ReconcilerInv'
  BY <1>0, <1>5, <1>10 DEF ReconcilerInv
<1>12. BatchInv'
  BY <1>0, <1>6, SameBatch DEF Token, BatchInv
<1>13. /\ OneUser' /\ OneChain' /\ (Aged' => HandlersIdle')
       /\ (\A u \in Users : Same(u)) /\ (\A h \in Handlers : Same(h))
  BY <1>0, <1>8 DEF Token, OneUser, OneChain, HandlersIdle, Same
<1> QED BY <1>0, <1>6, <1>7, <1>8, <1>11, <1>12, <1>13, OthersKeep

\* What the sweep records are all runs, once none of them is in flight.
LEMMA SweptAll ==
  ASSUME TypeOK, Token, Expired, ~rec.busy
  PROVE  /\ SweepInv
         /\ rec.seen = Created => \A r \in Created : KeyOf(r) \in rec.ended
         /\ rec.seen \subseteq Created
<1>1. SweepInv /\ rec.todo = {}
  BY DEF Expired, Token, ReconcilerInv
<1> QED BY <1>1 DEF SweepInv

LEMMA RecordKeeps ==
  ASSUME OneBatch, TypeOK, TypeOK', Token, ReconcileLatches \/ ReconcileRecords
  PROVE  Token'
<1>0. /\ ControlOK /\ Reconciler \in Procs /\ Reconciler \notin Users /\ Reconciler \notin Handlers
      /\ Handlers \subseteq Procs /\ Users \subseteq Procs
      /\ rec \in RecType /\ state \in StateType /\ UNCHANGED <<exp, run, wf>>
      /\ Expired /\ ~rec.busy /\ pc[Reconciler] = "expire"
  BY DEF TypeOK, DataOK, Procs, ReconcileLatches, ReconcileRecords, Expired
<1>1. SweepInv /\ rec.seen \subseteq Created /\ Created # {}
  BY <1>0, SweptAll DEF Token, ReconcilerInv
<1>2. rec.seen = Created
  <2>1. CASE ReconcileRecords
    BY <1>1, <2>1 DEF ReconcileRecords, SweepInv
  <2>2. CASE ReconcileLatches
    <3>1. Cardinality(rec.seen) >= MaxRuns /\ Cardinality(Created) <= MaxRuns
      BY <2>2 DEF ReconcileLatches, Token, BatchInv
    <3>2. /\ Cardinality(rec.seen) \in Nat /\ Cardinality(rec.seen) <= Cardinality(Created)
          /\ Cardinality(Created) = Cardinality(rec.seen) => Created = rec.seen
      BY <1>1, CreatedFinite, FS_Subset, FS_CardinalityType
    <3> QED BY <3>1, <3>2, CreatedFinite
  <2> QED BY <2>1, <2>2
<1>3. \A r \in Created : KeyOf(r) \in rec.ended
  BY <1>0, <1>2, SweptAll
<1>4. /\ state'.counted = state.counted \cup rec.ended /\ state'.started = state.started
      /\ state'.done => state.done \/ ReconcileLatches
  BY <1>0 DEF ReconcileLatches, ReconcileRecords, StateType
<1>5. Created' = Created /\ \A r \in Runs : KeyOf(r)' = KeyOf(r)
  BY <1>0 DEF Created, KeyOf
<1>6. AllCounted'
  BY <1>3, <1>4, <1>5 DEF AllCounted, Created
<1>7. BatchInv'
  <2>1. state'.counted \subseteq {KeyOf(r) : r \in Created}'
    BY <1>1, <1>4, <1>5 DEF SweepInv, Token, BatchInv, Created
  <2>2. \A r, s \in Created' : {KeyOf(r)', KeyOf(s)'} \cap state'.counted = {} => r = s
    BY <1>6 DEF AllCounted
  <2>3. state'.done => ~Short'
    BY <1>2, <1>4, <1>5, CreatedFinite DEF ReconcileLatches, Short, Token, BatchInv
  <2>4. state'.started \in {0, 1} /\ state'.started # 0 /\ Cardinality(Created') <= MaxRuns
    BY <1>1, <1>4, <1>5 DEF Token, BatchInv
  <2> QED BY <1>6, <2>1, <2>2, <2>3, <2>4 DEF BatchInv
<1>8. /\ \A q \in Procs \ {Reconciler} : Same(q)
      /\ \/ pc'[Reconciler] = "idle"
         \/ pc'[Reconciler] = "reread" /\ ReconcileRecords
  BY <1>0 DEF ReconcileLatches, ReconcileRecords, SweepOver, Return, Goto, ControlOK, Same
<1>9. ReconcilerInv'
  <2>1. CASE pc'[Reconciler] = "idle"
    BY <2>1 DEF ReconcilerInv
  <2>2. CASE pc'[Reconciler] = "reread" /\ ReconcileRecords
    <3>1. Aged' /\ Short'
      BY <1>0, <1>1, <1>2, <1>5, <2>2 DEF ReconcileRecords, SweepInv, Aged, Short, Created
    <3> QED BY <1>1, <1>5, <1>6, <2>2, <3>1 DEF ReconcilerInv
  <2> QED BY <1>8, <2>1, <2>2
<1>10. /\ SameRuns /\ (\A r \in Runs : RunInv(r)') /\ Aged' = Aged
       /\ OneUser' /\ OneChain' /\ (Aged' => HandlersIdle')
  BY <1>0, <1>8, RunsUntouched DEF Token, OneUser, OneChain, HandlersIdle, Same
<1> QED BY <1>0, <1>4, <1>7, <1>8, <1>9, <1>10, OthersKeep

LEMMA ReconcilerKeeps ==
  ASSUME OneBatch, TypeOK, TypeOK', IInv, Token, ReconcilerNext
  PROVE  Token'
<1>0. /\ ControlOK /\ Reconciler \in Procs /\ Reconciler \notin Users /\ Reconciler \notin Handlers
      /\ rec \in RecType /\ state \in StateType
  BY DEF TypeOK, DataOK, Procs
<1>1. CASE ReconcileBatches
  <2>1. /\ pc'[Reconciler] = "list" /\ rec'.started = state.started /\ state.started = 1
        /\ \A q \in Procs \ {Reconciler} : Same(q)
    BY <1>0, <1>1 DEF ReconcileBatches, Goto, ControlOK, NothingSwept, Same, Token, BatchInv
  <2> QED BY <1>0, <1>1, <2>1, MoveKeeps DEF ReconcileBatches, ReconcilerInv
<1>2. CASE ExpireFails
  <2>1. /\ rec'.seen = rec.seen /\ rec'.todo \subseteq rec.todo /\ rec'.ended = rec.ended
        /\ rec'.busy /\ rec'.ripe = rec.ripe /\ UNCHANGED <<exp, state, run, wf, pc, loc>>
        /\ pc[Reconciler] = "expire"
    BY <1>0, <1>2 DEF ExpireFails, RecType
  <2>2. /\ Created' = Created /\ Aged' = Aged
        /\ \A r \in Runs : KeyOf(r)' = KeyOf(r)
    BY <2>1 DEF Created, Aged, KeyOf
  <2>3. SweepInv'
    <3>1. SweepInv
      BY <2>1 DEF Token, ReconcilerInv
    <3>2. rec'.ended \subseteq {KeyOf(r) : r \in Created}'
      BY <2>1, <2>2, <3>1 DEF SweepInv, Created
    <3>3. \A key \in rec'.todo : wf'[key[1]] = "lost" /\ key = KeyOf(key[1])'
      BY <2>1, <3>1 DEF SweepInv, KeyOf
    <3> QED BY <2>1, <2>2, <3>1, <3>2, <3>3 DEF SweepInv
  <2>4. ReconcilerInv'
    BY <2>1, <2>2, <2>3 DEF ReconcilerInv, Token
  <2> QED BY <1>0, <2>1, <2>4, MoveKeeps DEF Same, Token, BatchInv
<1>3. CASE ReconcileLeaves \/ ReconcilerFails
  BY <1>3, SweepOverKeeps DEF ReconcileLeaves, ReconcilerFails, SweepOver
<1>4. CASE ReconcileRereads
  <2>1. AllCounted /\ Short /\ Aged /\ Created # {} /\ state.started = 1
    BY <1>4, Begun DEF ReconcileRereads, Token, ReconcilerInv
  <2>2. CASE SweepOver
    BY <1>4, <2>2, SweepOverKeeps DEF ReconcileRereads, SweepOver
  <2>3. CASE ~SweepOver
    <3>1. /\ pc'[Reconciler] = "check" /\ UNCHANGED <<exp, state, run, wf, rec>>
          /\ \A q \in Procs \ {Reconciler} : Same(q)
      BY <1>0, <1>4, <2>3 DEF ReconcileRereads, Goto, ControlOK, Same
    <3>2. AllCounted' /\ Short' /\ Aged' /\ Created' # {}
      BY <2>1, <3>1 DEF AllCounted, Short, Aged, Created, KeyOf
    <3>3. ReconcilerInv'
      BY <3>1, <3>2 DEF ReconcilerInv
    <3> QED BY <1>0, <2>1, <3>1, <3>3, MoveKeeps
  <2> QED BY <2>2, <2>3
<1>5. CASE ReconcileBumps
  <2>1. /\ state'.started = state.started /\ state'.counted = state.counted
        /\ state'.done = state.done /\ UNCHANGED <<exp, run, wf>>
        /\ pc'[Reconciler] = "idle"
        /\ \A q \in Procs \ {Reconciler} : Same(q)
    BY <1>0, <1>5 DEF ReconcileBumps, SweepOver, Return, ControlOK, Same, StateType
  <2>2. ReconcilerInv'
    BY <2>1 DEF ReconcilerInv
  <2> QED BY <1>0, <2>1, <2>2, MoveKeeps
<1> QED BY <1>0, <1>1, <1>2, <1>3, <1>4, <1>5, ListKeeps, ExpireKeeps, RecordKeeps,
           RunChaosWorkFlowKeeps DEF ReconcilerNext, ReconcilerStep

-----------------------------------------------------------------------------
(* Cluster, clock and restarts *)

\* What happens in the cluster or by the clock, to nobody's program.
LEMMA ClockKeeps ==
  ASSUME TypeOK, Token, SameRuns, UNCHANGED <<exp, state, pc, loc, rec>>,
         \A r \in Runs : RunInv(r)', Aged => Aged', Aged' => HandlersIdle
  PROVE  Token'
<1>1. BatchInv'
  BY SameBatch DEF Token, BatchInv
<1>2. /\ OneUser' /\ OneChain' /\ (Aged' => HandlersIdle')
      /\ (\A u \in Users : Same(u)) /\ (\A h \in Handlers : Same(h)) /\ Same(Reconciler)
  BY DEF Token, OneUser, OneChain, HandlersIdle, Same
<1> QED BY <1>1, <1>2, OthersKeep

LEMMA EnvironmentKeeps ==
  ASSUME OneBatch, TypeOK, TypeOK', Token, EnvironmentNext
  PROVE  Token'
<1>0. /\ run \in [Runs -> RunType] /\ wf \in [Runs -> WorkflowStates] /\ ControlOK
      /\ Handlers \subseteq Procs /\ Users \subseteq Procs /\ Reconciler \in Procs
  BY DEF TypeOK, DataOK, Procs
<1>1. CASE ProcessExperimentDelete \/ EditExperiment \/ \E r \in Runs : ProcessExperimentRunDelete(r)
  BY <1>1 DEF ProcessExperimentDelete, EditExperiment, ProcessExperimentRunDelete, OneBatch
<1>a. ASSUME run' = run,
             \A s \in Runs : wf'[s] = wf[s] \/ (wf[s] \notin {"none", "lost"} /\ wf'[s] \notin {"none", "lost"})
      PROVE  SameRuns /\ (\A r \in Runs : RunInv(r)') /\ (Aged' <=> Aged)
  <2>1. Created' = Created
    BY <1>a DEF Created
  <2>2. \A s \in Runs : (wf'[s] = "lost" <=> wf[s] = "lost") /\ (wf'[s] = "none" <=> wf[s] = "none")
    BY <1>a
  <2> QED BY <1>a, <2>1, <2>2 DEF SameRuns, Created, Token, RunInv, Aged
<1>2. ASSUME NEW r \in Runs, WorkflowFinishes(r) \/ EventLost(r) PROVE Token'
  <2>1. /\ run' = run
        /\ \A s \in Runs : wf'[s] = wf[s] \/ (wf[s] \notin {"none", "lost"} /\ wf'[s] \notin {"none", "lost"})
    BY <1>0, <1>2 DEF WorkflowFinishes, EventLost
  <2>2. UNCHANGED <<exp, state, pc, loc, rec>>
    BY <1>2 DEF WorkflowFinishes, EventLost
  <2> QED BY <1>a, <2>1, <2>2, ClockKeeps DEF Token
<1>3. ASSUME NEW r \in Runs, StallTimeoutPasses(r) \/ GracePasses(r) PROVE Token'
  <2>1. PICK a \in {1, 2} : run' = [run EXCEPT ![r].age = a] /\ (GracePasses(r) => a = 2)
    BY <1>3 DEF StallTimeoutPasses, GracePasses
  <2>2. /\ run'[r].phase = run[r].phase /\ run'[r].age = a /\ run'[r].uid = run[r].uid
        /\ run'[r].completed = run[r].completed /\ run'[r].removed = run[r].removed
        /\ run'[r].batch = run[r].batch
        /\ \A s \in Runs \ {r} : run'[s] = run[s]
    BY <1>0, <2>1 DEF RunType
  <2>3. UNCHANGED <<exp, state, wf, pc, loc, rec>>
    BY <1>3 DEF StallTimeoutPasses, GracePasses
  <2>4. Created' = Created /\ SameRuns
    BY <2>2, <2>3 DEF Created, SameRuns
  <2>5. run[r].phase = "Queued" => wf[r] = "lost"
    <3>1. CASE StallTimeoutPasses(r)
      BY <3>1 DEF StallTimeoutPasses, OneBatch
    <3>2. CASE GracePasses(r)
      BY <1>0, <3>2 DEF GracePasses, Token, RunInv, RunType
    <3> QED BY <1>3, <3>1, <3>2
  <2>6. \A s \in Runs : RunInv(s)'
    BY <2>2, <2>3, <2>5 DEF Token, RunInv
  <2>7. Aged => Aged'
    <3>1. CASE StallTimeoutPasses(r)
      BY <2>2, <2>3, <2>4, <2>5, <3>1 DEF StallTimeoutPasses, Aged
    <3>2. CASE GracePasses(r)
      BY <2>1, <2>2, <2>3, <2>4, <3>2 DEF Aged, Created
    <3> QED BY <1>3, <3>1, <3>2
  <2>8. Aged' => HandlersIdle
    <3>1. CASE StallTimeoutPasses(r)
      <4>1. Aged' => Aged
        BY <2>2, <2>3, <2>4, <2>5, <3>1 DEF StallTimeoutPasses, Aged, Created
      <4> QED BY <4>1 DEF Token
    <3>2. CASE GracePasses(r)
      BY <3>2 DEF GracePasses, OneBatch, HandlersIdle
    <3> QED BY <1>3, <3>1, <3>2
  <2> QED BY <2>3, <2>4, <2>6, <2>7, <2>8, ClockKeeps
<1>4. CASE ServerRestarts
  <2>1. /\ run' = run
        /\ \A s \in Runs : wf'[s] = wf[s] \/ (wf[s] \notin {"none", "lost"} /\ wf'[s] \notin {"none", "lost"})
    BY <1>0, <1>4 DEF ServerRestarts
  <2>2. \A q \in Procs : pc'[q] = "idle"
    BY <1>4 DEF ServerRestarts
  <2>3. SameRuns /\ (\A r \in Runs : RunInv(r)') /\ UNCHANGED <<exp, state>>
    BY <1>4, <1>a, <2>1 DEF ServerRestarts
  <2>4. BatchInv'
    BY <1>0, <2>2, <2>3, SameBatch
  <2>5. OneUser' /\ \A u \in Users : UserInv(u)'
    BY <1>0, <2>2 DEF OneUser, UserInv
  <2>6. OneChain' /\ \A h \in Handlers : HandlerInv(h)'
    BY <1>0, <2>2 DEF OneChain, HandlerInv, Chaining, Dispatching
  <2>7. ReconcilerInv' /\ HandlersIdle'
    BY <1>0, <2>2 DEF ReconcilerInv, HandlersIdle
  <2> QED BY <2>3, <2>4, <2>5, <2>6, <2>7 DEF Token
<1> QED BY <1>1, <1>2, <1>3, <1>4 DEF EnvironmentNext

-----------------------------------------------------------------------------
(* The inductive invariant *)

LEMMA InitToken == Init => BInv
<1> SUFFICES ASSUME Init PROVE Token
  BY InitInvariant DEF BInv
<1>1. Created = {} /\ \A p \in Procs : pc[p] = "idle"
  BY DEF Init, Created, FreshRun
<1>2. Handlers \subseteq Procs /\ Users \subseteq Procs /\ Reconciler \in Procs
  BY DEF Procs
<1>3. exp = [removed |-> FALSE, enabled |-> TRUE] /\ \A r \in Runs : RunInv(r)
  BY DEF Init, RunInv, FreshRun
<1>4. BatchInv
  BY <1>1, <1>2, FS_EmptySet DEF Init, BatchInv, NoBatch
<1>5. OneUser /\ OneChain /\ HandlersIdle
  BY <1>1, <1>2 DEF OneUser, OneChain, HandlersIdle, Chaining, Dispatching
<1>6. (\A u \in Users : UserInv(u)) /\ (\A h \in Handlers : HandlerInv(h)) /\ ReconcilerInv
  BY <1>1, <1>2 DEF UserInv, HandlerInv, ReconcilerInv, Chaining, Dispatching
<1> QED BY <1>3, <1>4, <1>5, <1>6 DEF Token

LEMMA NextToken == ASSUME OneBatch PROVE BInv /\ [Next]_vars => BInv'
<1> SUFFICES ASSUME BInv, [Next]_vars PROVE Token'
  BY NextInvariant DEF BInv
<1>0. TypeOK /\ TypeOK' /\ IInv /\ Token
  BY NextInvariant DEF BInv, IInv
<1>1. ASSUME NEW h \in Handlers, HandlerNext(h) PROVE Token'
  BY <1>0, <1>1, HandlerKeeps
<1>2. ASSUME NEW u \in Users, UserNext(u) PROVE Token'
  BY <1>0, <1>2, UserKeeps
<1>3. CASE ReconcilerNext
  BY <1>0, <1>3, ReconcilerKeeps
<1>4. CASE EnvironmentNext
  BY <1>0, <1>4, EnvironmentKeeps
<1>5. CASE UNCHANGED vars
  <2>1. SameRuns /\ (\A r \in Runs : RunInv(r)') /\ Aged' = Aged
    BY <1>0, <1>5, RunsUntouched DEF vars
  <2> QED BY <1>0, <1>5, <2>1, ClockKeeps DEF vars, Token
<1> QED BY <1>1, <1>2, <1>3, <1>4, <1>5 DEF Next

\* One token, and the accounting it keeps: in every reachable state of a batch nobody
\* interferes with, all runs but the newest have been counted, by multirun_batch.go or by
\* multirun_reconciler.go, and one goroutine at most is on its way to create the next.
THEOREM OneToken == ASSUME OneBatch PROVE Spec => []BInv
BY InitToken, NextToken, PTL DEF Spec

\* A batch is latched done (multiRunState.BatchDone) only when it has had all its runs,
\* though chain and reconciler both latch and both decide by what they read earlier.
THEOREM BatchIsNotShort == ASSUME OneBatch PROVE Spec => []BatchNotShort
<1>1. BInv => BatchNotShort
  <2> SUFFICES ASSUME BInv, state.done PROVE Cardinality(BatchRuns(state.started)) >= MaxRuns
    BY DEF BatchNotShort
  <2>1. state.started = 1 /\ ~Short
    BY DEF BInv, Token, BatchInv
  <2>2. BatchRuns(1) = Created
    BY DEF BatchRuns, Created, BInv, Token, RunInv
  <2> QED BY <2>1, <2>2, CreatedFinite DEF Short
<1> QED BY <1>1, OneToken, PTL

-----------------------------------------------------------------------------
(* The refinement *)

\* What a step does to the batch as its user sees it: nothing but perhaps end a run, start
\* one, or close the batch.
Untouched == Created' = Created /\ state'.done = state.done
Creates == \E p \in Procs, r \in Runs :
    /\ pc[p] = "create" /\ run[r].phase = "None"
    /\ run' = [run EXCEPT ![r] = NewRun(p)] /\ state' = state
Closes == state'.done /\ run' = run

LEMMA RunEffect ==
  ASSUME NEW p \in Procs, RunCheck(p) \/ RunFaults(p) \/ RunCreate(p)
  PROVE  Untouched \/ Creates
<1>1. CASE RunCreate(p) \/ RunCreateUndelivered(p)
  BY <1>1 DEF RunCreate, RunCreateUndelivered, Creates
<1>2. CASE ~(RunCreate(p) \/ RunCreateUndelivered(p))
  BY <1>2 DEF RunFaults, RunCheck, RunCheckBlind, RunRefused, Untouched, Created
<1> QED BY <1>1, <1>2

LEMMA StepEffect ==
  ASSUME OneBatch, TypeOK, Token, [Next]_vars
  PROVE  Untouched \/ Creates \/ Closes
<1>0. /\ state \in StateType /\ run \in [Runs -> RunType]
      /\ Handlers \subseteq Procs /\ Users \subseteq Procs /\ Reconciler \in Procs
  BY DEF TypeOK, DataOK, Procs
<1>a. run' = run /\ state'.done = state.done => Untouched
  BY DEF Untouched, Created
<1>1. ASSUME NEW h \in Handlers, HandlerNext(h) PROVE Untouched \/ Creates \/ Closes
  <2>1. CASE EventTransaction(h)
    <3>1. CASE run' = run
      BY <1>a, <2>1, <3>1 DEF EventTransaction
    <3>2. CASE run' # run
      <4>1. PICK ph \in ReportedPhases(h) :
               run' = [run EXCEPT ![loc[h].run] = Reported(loc[h].run, ph, loc[h].terminal)]
        BY <2>1, <3>2 DEF EventTransaction
      <4>2. ph \in {"Completed", "Running", "Queued"} /\ loc[h].run \in Created
        BY <2>1 DEF ReportedPhases, EventTransaction, Token, HandlerInv
      <4> QED BY <1>0, <2>1, <4>1, <4>2 DEF EventTransaction, Untouched, Created, Reported
    <3> QED BY <3>1, <3>2
  <2>2. CASE ChainLatch(h)
    BY <1>0, <2>2 DEF ChainLatch, Closes, StateType
  <2>3. CASE ChainCount(h) \/ ChainCountBlind(h) \/ ChainClaim(h) \/ releaseSlot(h)
    BY <1>0, <1>a, <2>3 DEF ChainCount, ChainCountBlind, ChainClaim, releaseSlot, StateType
  <2>4. CASE \/ ChainReread(h) \/ ChainGate(h) \/ TimerFires(h) \/ HandlerFails(h)
             \/ \E r \in Runs, terminal \in BOOLEAN : EventReceived(h, r, terminal)
    BY <1>a, <2>4 DEF ChainReread, ChainGate, TimerFires, HandlerFails, EventReceived
  <2>5. CASE RunCheck(h) \/ RunFaults(h) \/ RunCreate(h)
    BY <1>0, <2>5, RunEffect
  <2> QED BY <1>1, <2>1, <2>2, <2>3, <2>4, <2>5 DEF HandlerNext, HandlerStep
<1>2. ASSUME NEW u \in Users, UserNext(u) PROVE Untouched \/ Creates \/ Closes
  <2>1. CASE beginMultiRunBatch(u)
    BY <1>0, <1>a, <2>1 DEF beginMultiRunBatch, Token, UserInv, BatchInv, StateType
  <2>2. CASE UserStarts(u)
    BY <1>a, <2>2 DEF UserStarts
  <2>3. CASE RunCheck(u) \/ RunFaults(u) \/ RunCreate(u)
    BY <1>0, <2>3, RunEffect
  <2>4. CASE StopReads(u) \/ ProcessExperimentRunStop(u) \/ StopLatches(u) \/ StopFails(u)
    BY <2>4 DEF StopReads, ProcessExperimentRunStop, StopLatches, StopFails, Token, UserInv, OneBatch
  <2> QED BY <1>2, <2>1, <2>2, <2>3, <2>4 DEF UserNext, UserStep
<1>3. CASE ReconcilerNext
  <2>1. CASE expireStalledQueuedRun
    <3>1. PICK key \in rec.todo : run' = [run EXCEPT ![key[1]] = ClosedAs(key[1], "Error")]
      BY <2>1 DEF expireStalledQueuedRun
    <3>2. SweepInv /\ key[1] \in Runs /\ wf[key[1]] = "lost"
      BY <2>1, <3>1
         DEF expireStalledQueuedRun, Token, ReconcilerInv, SweepInv, TypeOK, DataOK, RecType, Keys
    <3>3. run[key[1]].phase # "None"
      BY <3>2 DEF Token, RunInv
    <3> QED BY <1>0, <2>1, <3>1, <3>2, <3>3
            DEF expireStalledQueuedRun, Untouched, Created, ClosedAs
  <2>2. CASE ReconcileLatches
    BY <1>0, <2>2 DEF ReconcileLatches, Closes, StateType
  <2>3. CASE ReconcileRecords \/ ReconcileBumps
    BY <1>0, <1>a, <2>3 DEF ReconcileRecords, ReconcileBumps, StateType
  <2>4. CASE \/ ReconcileBatches \/ ReconcileRuns \/ ReconcileLeaves \/ ReconcileRereads
             \/ ExpireFails \/ ReconcilerFails
    BY <1>a, <2>4 DEF ReconcileBatches, ReconcileRuns, ReconcileLeaves, ReconcileRereads,
                      ExpireFails, ReconcilerFails
  <2>5. CASE RunCheck(Reconciler) \/ RunFaults(Reconciler) \/ RunCreate(Reconciler)
    BY <1>0, <2>5, RunEffect
  <2> QED BY <1>3, <2>1, <2>2, <2>3, <2>4, <2>5 DEF ReconcilerNext, ReconcilerStep
<1>4. CASE EnvironmentNext
  <2>1. CASE ProcessExperimentDelete \/ EditExperiment \/ \E r \in Runs : ProcessExperimentRunDelete(r)
    BY <2>1 DEF ProcessExperimentDelete, EditExperiment, ProcessExperimentRunDelete, OneBatch
  <2>2. CASE ServerRestarts \/ \E r \in Runs : WorkflowFinishes(r) \/ EventLost(r)
    BY <1>a, <2>2 DEF ServerRestarts, WorkflowFinishes, EventLost
  <2>3. ASSUME NEW r \in Runs, StallTimeoutPasses(r) \/ GracePasses(r) PROVE Untouched
    BY <1>0, <2>3 DEF StallTimeoutPasses, GracePasses, Untouched, Created, RunType
  <2> QED BY <1>4, <2>1, <2>2, <2>3 DEF EnvironmentNext
<1>5. CASE UNCHANGED vars
  BY <1>a, <1>5 DEF vars
<1> QED BY <1>1, <1>2, <1>3, <1>4, <1>5 DEF Next

LEMMA BatchRunsAreCreated == Token => BatchRuns(1) = Created
  BY DEF BatchRuns, Created, Token, RunInv

\* Every step is one of the abstract batch, or none of it.
LEMMA StepRefines ==
  ASSUME OneBatch, BInv, BInv', [Next]_vars
  PROVE  [Sequential!Next]_(Sequential!vars)
<1>0. /\ TypeOK /\ Token /\ Token' /\ IInv'
      /\ run \in [Runs -> RunType] /\ state \in StateType /\ state' \in StateType
  BY DEF BInv, IInv, TypeOK, DataOK
<1>1. BatchRuns(1) = Created /\ BatchRuns(1)' = Created'
  <2>1. BatchRuns(1)' = Created'
    BY <1>0 DEF BatchRuns, Created, Token, RunInv
  <2> QED BY <1>0, <2>1, BatchRunsAreCreated
<1>2. /\ \A r, s \in OpenRuns : r = s
      /\ AllCounted => OpenRuns = {}
  BY OneOpen
<1>3. CASE Untouched
  <2>1. OpenRuns' \subseteq OpenRuns
    <3>1. \A r \in Runs : run[r].completed => run'[r].completed
      BY RunsStep DEF BInv, IInv, RunsMonotone
    <3> QED BY <1>3, <3>1 DEF OpenRuns, Untouched, Created
  <2>2. OpenRuns' = OpenRuns \/ (OpenRuns # {} /\ OpenRuns' = {})
    BY <1>2, <2>1
  <2>3. CASE OpenRuns' = OpenRuns
    BY <1>1, <1>3, <2>3 DEF Untouched, Sequential!vars
  <2>4. CASE OpenRuns # {} /\ OpenRuns' = {}
    <3>1. Sequential!EndRun
      BY <1>1, <1>3, <2>4 DEF Untouched, Sequential!EndRun
    <3> QED BY <3>1 DEF Sequential!Next
  <2> QED BY <2>2, <2>3, <2>4
<1>4. CASE Creates
  <2>1. PICK p \in Procs, r \in Runs :
           /\ pc[p] = "create" /\ run[r].phase = "None"
           /\ run' = [run EXCEPT ![r] = NewRun(p)] /\ state' = state
    BY <1>4 DEF Creates
  <2>2. AllCounted /\ Short /\ ~state.done
    BY <1>0, <2>1, CreateAlone
  <2>3. run'[r] = NewRun(p) /\ \A s \in Runs \ {r} : run'[s] = run[s]
    BY <1>0, <2>1
  <2>4. r \notin Created /\ Created' = Created \cup {r} /\ r \in OpenRuns'
    BY <2>1, <2>3 DEF Created, NewRun, OpenRuns
  <2>5. Cardinality(Created') = Cardinality(Created) + 1
    BY <2>4, CreatedFinite, FS_AddElement
  <2>6. Sequential!StartRun
    BY <1>1, <1>2, <2>1, <2>2, <2>4, <2>5 DEF Short, Sequential!StartRun
  <2> QED BY <2>6 DEF Sequential!Next
<1>5. CASE Closes
  <2>1. Created' = Created /\ OpenRuns' = OpenRuns
    BY <1>5 DEF Closes, Created, OpenRuns
  <2>2. CASE state.done
    BY <1>0, <1>1, <1>5, <2>1, <2>2 DEF Closes, Sequential!vars, StateType
  <2>3. CASE ~state.done
    <3>1. ~Short' /\ AllCounted' /\ Cardinality(Created') <= MaxRuns
      BY <1>0, <1>5 DEF Closes, Token, BatchInv
    <3>2. Cardinality(Created) = MaxRuns
      BY <2>1, <3>1, CreatedFinite DEF Short
    <3>3. OpenRuns' = {}
      <4>1. ASSUME NEW r \in OpenRuns' PROVE FALSE
        <5>1. r \in Created' /\ ~run'[r].completed /\ KeyOf(r)' \in state'.counted
          BY <3>1 DEF OpenRuns, Created, AllCounted
        <5>2. KeyOf(r)'[1] = r
          BY DEF KeyOf
        <5> QED BY <1>0, <5>1, <5>2 DEF IInv, CountedRunsEnded
      <4> QED BY <4>1
    <3>4. Sequential!Close
      BY <1>0, <1>1, <1>5, <2>1, <2>3, <3>2, <3>3 DEF Closes, Sequential!Close, StateType
    <3> QED BY <3>4 DEF Sequential!Next
  <2> QED BY <2>2, <2>3
<1> QED BY <1>0, <1>3, <1>4, <1>5, StepEffect

\* The batch is a sequential batch: advanceMultiRunChain, its timers and the reconciler
\* start one run after the other has ended, never more than the manifest says, and close
\* the batch when the last has ended, whatever calls fail and wherever the server restarts.
THEOREM ImplementsSequential == ASSUME OneBatch PROVE Spec => ImplementsSequentialBatch
<1>1. Init => Sequential!Init
  <2> SUFFICES ASSUME Init PROVE Sequential!Init
    OBVIOUS
  <2>1. Token
    BY InitToken DEF BInv
  <2>2. Created = {} /\ OpenRuns = {} /\ state.done = FALSE
    BY DEF Init, Created, OpenRuns, FreshRun, NoBatch
  <2> QED BY <2>1, <2>2, BatchRunsAreCreated, FS_EmptySet DEF Sequential!Init
<1>2. BInv /\ BInv' /\ [Next]_vars => [Sequential!Next]_(Sequential!vars)
  BY StepRefines
<1> QED BY <1>1, <1>2, OneToken, PTL DEF Spec, ImplementsSequentialBatch, Sequential!Spec
==============================================================================
