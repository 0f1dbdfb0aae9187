------------------------- MODULE ModelRegistryProofs -------------------------
(***************************************************************************)
(* Proofs about ModelRegistry, for any number of models, aliases, keys,    *)
(* goroutines, runs and failures.                                          *)
(*                                                                         *)
(* The argument: an alias is freed by removing a row that is PENDING, so a *)
(* model that runs could name must never be PENDING again.  Only a delete  *)
(* gives a row back the status it had, and only one that took the row out  *)
(* of that status itself, which one delete at a time can have done.  A row *)
(* that is removed as never served has no call on its way that could serve *)
(* it: its own create adds it once, and a row ages only when that call is  *)
(* over (Timely).                                                          *)
(***************************************************************************)
EXTENDS ModelRegistry, TLAPS

\* A delete that took the row out of another status, to which it may return it.
Holder(p) == pc[p] \in {"guard", "revert"} /\ loc[p].previous # "DELETING"

Creating == {"add", "mark", "settle", "undo", "free"}

\* Labels at which a goroutine holds a model.
Holding == Creating \cup {"note", "claim", "guard", "revert", "erase", "finish",
                          "rotate", "readd", "confirm"}

\* LiteLLM has never had the model.
Unserved(m) ==
    ~row[m].named /\ served[m] = None /\ late[m] = None /\ m \notin listed \cup known.models

Local(p) ==
    /\ IF p = Pass THEN pc[p] \in {"idle", "list", "ping", "rows", "erase", "finish", "note"}
                   ELSE pc[p] \notin {"list", "ping", "rows"}
    /\ pc[p] \in Holding => M(p) \in Models /\ row[M(p)].status # "new"
    /\ pc[p] \in {"claim", "guard", "revert"} => loc[p].previous \in Statuses
    /\ pc[p] \in {"claim", "revert"} => loc[p].previous # "DELETING"
    /\ Holder(p) => /\ row[M(p)].status = "DELETING"
                    /\ loc[p].previous = "PENDING" <=> ~row[M(p)].named
    /\ pc[p] \in {"rotate", "readd", "confirm"} => row[M(p)].named
    /\ pc[p] \in {"add", "free"} => Unserved(M(p))

\* Each model has one create, and one delete that may return its row.
Apart ==
    \A p, q \in Procs : p # q /\ M(p) = M(q) =>
        ~(Holder(p) /\ Holder(q)) /\ ~(pc[p] \in Creating /\ pc[q] \in Creating)

RowInv(m) ==
    /\ row[m].named => Recorded(m) /\ row[m].status # "PENDING"
    /\ row[m].status \in {"ACTIVE", "NEEDS_KEY"} => row[m].named
    /\ row[m].status = "new" => Unserved(m) /\ todo[m] = None

OwnAlias ==
    \A m, q \in Models : m # q /\ Recorded(m) /\ Recorded(q) => row[m].alias # row[q].alias

UsersInv ==
    \A u \in Runners :
        using[u].at # "idle" => using[u].model \in Models /\ row[using[u].model].named

Names == (\A p \in Procs : Local(p)) /\ Apart /\ (\A m \in Models : RowInv(m)) /\ OwnAlias
         /\ UsersInv

\* LiteLLM's list was not empty for want of its database.
NeverOffline == faults = 0 \/ "offline" \notin FaultKinds

\* A row that is gone cannot be served, and one that has aged is served only if the list
\* the pass has says so.
Reach(m) ==
    /\ row[m].status = "gone" => served[m] = None /\ late[m] = None
    /\ \A p \in Callers : pc[p] = "add" /\ M(p) = m => row[m].status # "gone" /\ ~row[m].aged
    /\ row[m].aged /\ ~row[m].named =>
          /\ late[m] = None
          /\ served[m] # None => m \in listed
          /\ served[m] # None /\ pc[Pass] \notin {"idle", "list"} => m \in known.models

Reached == Timely /\ NeverOffline => online /\ \A m \in Models : Reach(m)

\* The create of the model will find out that it is not wanted.
Undoing(m) == \E p \in Callers : pc[p] \in {"mark", "settle", "undo"} /\ M(p) = m

\* Without failures and rotations: a delete of a model no run has named is never given up,
\* so that what its create adds behind its back, the create takes back.
CleanModel(m) ==
    /\ late[m] = None
    /\ todo[m] = "DELETING" /\ ~row[m].named => row[m].status = "DELETING"
    /\ served[m] # None /\ ~Live(m) => Undoing(m)

CleanAt(p) ==
    /\ pc[p] \notin {"rotate", "readd", "confirm"}
    /\ pc[p] = "revert" => row[M(p)].named
    /\ pc[p] \in {"guard", "erase", "finish"} /\ ~row[M(p)].named => row[M(p)].status = "DELETING"
    /\ pc[p] = "finish" /\ served[M(p)] # None => ~row[M(p)].named /\ Undoing(M(p))

Unfailing == Timely /\ "key" \notin Requests /\ faults = 0
Clean == Unfailing => (\A m \in Models : CleanModel(m)) /\ \A p \in Procs : CleanAt(p)

IInv == TypeOK /\ Names /\ Reached /\ Clean

-----------------------------------------------------------------------------
(* Steps of one goroutine *)

\* The goroutines other than p stay where they are.
Others(p) == \A q \in Procs \ {p} : pc'[q] = pc[q] /\ loc'[q] = loc[q]

LEMMA HoldMoves ==
  ASSUME TypeOK, NEW p \in Procs, NEW label \in Labels, NEW what \in LocType,
         Hold(p, label, what)
  PROVE  /\ pc' \in [Procs -> Labels] /\ loc' \in [Procs -> LocType]
         /\ pc'[p] = label /\ loc'[p] = what /\ Others(p)
BY DEF TypeOK, Hold, Others

LEMMA GotoMoves ==
  ASSUME TypeOK, NEW p \in Procs, NEW label \in Labels, Goto(p, label)
  PROVE  /\ pc' \in [Procs -> Labels] /\ loc' \in [Procs -> LocType]
         /\ pc'[p] = label /\ loc'[p] = loc[p] /\ Others(p)
BY DEF TypeOK, Goto, Others

LEMMA DoneMoves ==
  ASSUME TypeOK, NEW p \in Procs, Done(p)
  PROVE  /\ pc' \in [Procs -> Labels] /\ loc' \in [Procs -> LocType]
         /\ pc'[p] = (IF p = Pass THEN "rows" ELSE "idle") /\ loc'[p] = Nothing /\ Others(p)
<1>1. Nothing \in LocType
  BY DEF Nothing, LocType
<1>2. (IF p = Pass THEN "rows" ELSE "idle") \in Labels
  BY DEF Labels
<1> QED
  BY <1>1, <1>2, HoldMoves DEF Done

LEMMA FaultCounts ==
  ASSUME TypeOK, NEW kind, Fault(kind)
  PROVE  faults' \in 0 .. MaxFaults /\ faults' # 0 /\ (kind = "offline" => ~NeverOffline')
         /\ (NeverOffline' => NeverOffline)
BY RegistryAssumption DEF Fault, TypeOK, NeverOffline

\* A goroutine begins or ends at most: it is one of those that create or hold only if it
\* was, or if no other is.
Separate(p) ==
    /\ pc'[p] \in Creating => \/ pc[p] \in Creating /\ M(p)' = M(p)
                              \/ \A q \in Procs \ {p} : ~(pc[q] \in Creating /\ M(q) = M(p)')
    /\ Holder(p)' => \/ Holder(p) /\ M(p)' = M(p)
                     \/ \A q \in Procs \ {p} : ~(Holder(q) /\ M(q) = M(p)')

LEMMA ApartStays ==
  ASSUME Apart, NEW p \in Procs, Others(p), Separate(p)
  PROVE  Apart'
<1> SUFFICES ASSUME NEW a \in Procs, NEW b \in Procs, a # b, M(a)' = M(b)'
             PROVE  ~(Holder(a)' /\ Holder(b)')
                    /\ ~(pc'[a] \in Creating /\ pc'[b] \in Creating)
  BY DEF Apart
<1>1. \A q \in Procs \ {p} : /\ M(q)' = M(q) /\ Holder(q)' = Holder(q) /\ pc'[q] = pc[q]
  BY DEF Others, M, Holder
<1>2. CASE a # p /\ b # p
  BY <1>1, <1>2 DEF Apart
<1>3. CASE a = p
  BY <1>1, <1>3 DEF Apart, Separate
<1>4. CASE b = p
  BY <1>1, <1>4 DEF Apart, Separate
<1> QED
  BY <1>2, <1>3, <1>4

\* What the invariant says of a goroutine stays true while its model's row and what LiteLLM
\* has of it change only in these ways.
LEMMA LocalStays ==
  ASSUME NEW q \in Procs, Local(q), pc'[q] = pc[q], loc'[q] = loc[q],
         M(q) \in Models =>
            /\ row[M(q)].status # "new" => row'[M(q)].status # "new"
            /\ row[M(q)].named => row'[M(q)].named
            /\ Holder(q) => row'[M(q)].status = "DELETING" /\ row'[M(q)].named = row[M(q)].named
            /\ pc[q] \in {"add", "free"} => Unserved(M(q))'
  PROVE  Local(q)'
<1>1. M(q)' = M(q) /\ (Holder(q)' <=> Holder(q))
  BY DEF M, Holder
<1>2. pc[q] \in Holding => M(q) \in Models
  BY DEF Local
<1>3. Holder(q) \/ pc[q] \in {"add", "free", "rotate", "readd", "confirm"} => pc[q] \in Holding
  BY DEF Holder, Holding, Creating
<1> QED
  BY <1>1, <1>2, <1>3 DEF Local

\* Whoever could undo the create of a model still can, or need not.
Unwinds(p) ==
    pc[p] \in {"mark", "settle", "undo"} =>
        \/ pc'[p] \in {"mark", "settle", "undo"} /\ M(p)' = M(p)
        \/ served'[M(p)] = None
        \/ \E m \in Models : m = M(p) /\ Live(m)' /\ row'[m].named

LEMMA UndoingStays ==
  ASSUME NEW p \in Procs, Others(p), Unwinds(p), NEW m \in Models, Undoing(m),
         served'[m] # None
  PROVE  Undoing(m)' \/ (Live(m)' /\ row'[m].named)
<1>1. PICK q \in Callers : pc[q] \in {"mark", "settle", "undo"} /\ M(q) = m
  BY DEF Undoing
<1>2. CASE q = p
  BY <1>1, <1>2 DEF Unwinds, Undoing
<1>3. CASE q # p
  <2>1. pc'[q] \in {"mark", "settle", "undo"} /\ M(q)' = m
    BY <1>1, <1>3 DEF Others, M, Procs
  <2> QED
    BY <2>1 DEF Undoing
<1> QED
  BY <1>2, <1>3

\* A step that changes nothing but where one goroutine is.
LEMMA MoveKeeps ==
  ASSUME IInv, NEW p \in Procs,
         UNCHANGED <<row, served, listed, online, late, todo, touched, known, using>>,
         pc' \in [Procs -> Labels], loc' \in [Procs -> LocType], Others(p),
         faults' \in 0 .. MaxFaults, NeverOffline' => NeverOffline,
         Local(p)', Separate(p), pc'[p] # "add",
         p = Pass => pc[p] \notin {"idle", "list"} \/ pc'[p] \in {"idle", "list"},
         Unfailing' => Unfailing /\ CleanAt(p)' /\ Unwinds(p)
  PROVE  IInv'
<1>1. TypeOK /\ Names /\ Reached /\ Clean
  BY DEF IInv
<1>2. TypeOK'
  BY <1>1 DEF TypeOK
<1>3. Names'
  <2>1. \A q \in Procs : Local(q)'
    <3> SUFFICES ASSUME NEW q \in Procs \ {p} PROVE Local(q)'
      OBVIOUS
    <3>1. Local(q) /\ pc'[q] = pc[q] /\ loc'[q] = loc[q] /\ M(q)' = M(q)
      BY <1>1 DEF Names, Others, M
    <3>2. pc[q] \in {"add", "free"} => Unserved(M(q))'
      BY <3>1 DEF Local, Unserved
    <3>3. Holder(q) => row[M(q)].status = "DELETING"
      BY <3>1 DEF Local
    <3> QED
      BY <3>1, <3>2, <3>3, LocalStays
  <2>2. Apart'
    BY <1>1, ApartStays DEF Names
  <2>3. (\A m \in Models : RowInv(m)') /\ OwnAlias' /\ UsersInv'
    BY <1>1 DEF Names, RowInv, OwnAlias, UsersInv, Unserved, Recorded
  <2> QED
    BY <2>1, <2>2, <2>3 DEF Names
<1>4. Reached'
  <2> SUFFICES ASSUME Timely, NeverOffline' PROVE online /\ \A m \in Models : Reach(m)'
    BY DEF Reached
  <2>1. online /\ \A m \in Models : Reach(m)
    BY <1>1 DEF Reached
  <2>2. pc'[Pass] \notin {"idle", "list"} => pc[Pass] \notin {"idle", "list"}
    BY DEF Others, Procs
  <2>3. \A q \in Callers : pc'[q] = "add" => pc[q] = "add" /\ M(q)' = M(q)
    BY DEF Others, Procs, M
  <2> QED
    BY <2>1, <2>2, <2>3 DEF Reach
<1>5. Clean'
  <2> SUFFICES ASSUME Unfailing'
               PROVE  (\A m \in Models : CleanModel(m)') /\ \A q \in Procs : CleanAt(q)'
    BY DEF Clean
  <2>1. /\ \A m \in Models : CleanModel(m)
        /\ \A q \in Procs : CleanAt(q) /\ Local(q)
    BY <1>1 DEF Clean, Names
  <2>2. \A m \in Models : CleanModel(m)'
    BY <2>1, UndoingStays DEF CleanModel, Live, Recorded
  <2>3. \A q \in Procs \ {p} : CleanAt(q)'
    <3> SUFFICES ASSUME NEW q \in Procs \ {p} PROVE CleanAt(q)'
      OBVIOUS
    <3>1. pc'[q] = pc[q] /\ M(q)' = M(q)
      BY DEF Others, M
    <3>2. pc[q] = "finish" => M(q) \in Models
      BY <2>1 DEF Local, Holding
    <3> QED
      BY <2>1, <3>1, <3>2, UndoingStays DEF CleanAt
  <2> QED
    BY <2>2, <2>3
<1> QED
  BY <1>2, <1>3, <1>4, <1>5 DEF IInv

\* A goroutine that is done holds nothing.
LEMMA DoneHoldsNothing ==
  ASSUME TypeOK, NEW p \in Procs, Done(p)
  PROVE  Local(p)' /\ Separate(p) /\ CleanAt(p)' /\ pc'[p] # "add" /\ pc'[p] # "finish"
<1>1. pc'[p] = IF p = Pass THEN "rows" ELSE "idle"
  BY DoneMoves
<1> QED
  BY <1>1 DEF Local, Separate, CleanAt, Holder, Holding, Creating

LEMMA DoneKeeps ==
  ASSUME IInv, NEW p \in Procs, Done(p),
         UNCHANGED <<row, served, listed, online, late, todo, touched, known, using>>,
         faults' \in 0 .. MaxFaults, NeverOffline' => NeverOffline,
         pc[p] \notin {"idle", "list"}, Unfailing' => Unfailing /\ Unwinds(p)
  PROVE  IInv'
<1>1. TypeOK
  BY DEF IInv
<1> QED
  BY <1>1, DoneMoves, DoneHoldsNothing, MoveKeeps

\* Calls to MongoDB that fail, and a failed undo, which is only logged.
LEMMA FailuresKeep ==
  ASSUME IInv, NEW p \in Procs, StoreFails(p) \/ UndoFails(p)
  PROVE  IInv'
<1>1. /\ TypeOK /\ Done(p) /\ (Fault("mongo") \/ Fault("gateway"))
      /\ UNCHANGED <<row, served, listed, online, late, todo, touched, known, using>>
      /\ pc[p] \notin {"idle", "list"}
  BY DEF IInv, StoreFails, UndoFails, At, quietGateway, quietStore, quietRest
<1>2. faults' \in 0 .. MaxFaults /\ faults' # 0 /\ (NeverOffline' => NeverOffline)
  BY <1>1, FaultCounts
<1> QED
  BY <1>1, <1>2, DoneKeeps DEF Unfailing

-----------------------------------------------------------------------------
(* Steps that only move their goroutine *)

LEMMA BeginKeeps ==
  ASSUME IInv, NEW p \in Callers, Request(p)
  PROVE  IInv'
<1>1. /\ TypeOK /\ Names /\ p \in Procs /\ p # Pass
      /\ UNCHANGED <<row, served, listed, online, late, todo, touched, known, using, faults>>
  BY RegistryAssumption DEF IInv, Request, CreateBegins, DeleteBegins, RotateBegins, Procs,
        quietGateway, quietStore, quietRest, NoFault
<1>2. NeverOffline' => NeverOffline
  BY <1>1 DEF NeverOffline
<1>3. CASE \E a \in Aliases : CreateBegins(p, a)
  <2>1. PICK a \in Aliases : CreateBegins(p, a)
    BY <1>3
  <2> DEFINE known1 == [Nothing EXCEPT !.alias = a]
  <2>2. known1 \in LocType /\ Hold(p, "insert", known1) /\ pc[p] = "idle"
    BY <2>1 DEF LocType, Nothing, CreateBegins, At
  <2> HIDE DEF known1
  <2>3. /\ pc' \in [Procs -> Labels] /\ loc' \in [Procs -> LocType]
        /\ pc'[p] = "insert" /\ Others(p)
    BY <1>1, <2>2, HoldMoves DEF Labels
  <2>4. Local(p)' /\ Separate(p) /\ CleanAt(p)' /\ Unwinds(p)
    BY <1>1, <2>2, <2>3 DEF Local, Separate, CleanAt, Unwinds, Holder, Holding, Creating
  <2> QED
    BY <1>1, <1>2, <2>2, <2>3, <2>4, MoveKeeps DEF TypeOK, Unfailing
<1>4. CASE \E m \in Models : DeleteBegins(p, m)
  <2>1. PICK m \in Models : DeleteBegins(p, m)
    BY <1>4
  <2> DEFINE what == [Nothing EXCEPT !.model = m, !.previous = row[m].status]
             label == IF row[m].status = "DELETING" THEN "guard" ELSE "claim"
  <2>2. /\ Hold(p, label, what) /\ pc[p] = "idle" /\ row[m].status \in Statuses
        /\ label \in {"guard", "claim"} /\ (label = "guard" <=> row[m].status = "DELETING")
    BY <2>1 DEF DeleteBegins, At, Live, Recorded
  <2>3. what \in LocType /\ what.model = m /\ what.previous = row[m].status
    BY <2>2 DEF LocType, Nothing
  <2> HIDE DEF what, label
  <2>4. /\ pc' \in [Procs -> Labels] /\ loc' \in [Procs -> LocType]
        /\ pc'[p] = label /\ loc'[p] = what /\ Others(p)
    BY <1>1, <2>2, <2>3, HoldMoves DEF Labels
  <2>5. M(p)' = m /\ loc'[p].previous = row[m].status /\ row' = row
    BY <1>1, <2>3, <2>4 DEF M
  <2>6. Local(p)'
    BY <1>1, <2>2, <2>4, <2>5 DEF Local, Holder, Holding, Creating, Statuses
  <2>7. Separate(p) /\ CleanAt(p)' /\ Unwinds(p)
    BY <1>1, <2>2, <2>4, <2>5 DEF Separate, CleanAt, Unwinds, Holder, Creating
  <2> QED
    BY <1>1, <1>2, <2>2, <2>4, <2>6, <2>7, MoveKeeps DEF TypeOK, Unfailing
<1>5. CASE \E m \in Models, k \in Keys : RotateBegins(p, m, k)
  <2>1. PICK m \in Models, k \in Keys : RotateBegins(p, m, k)
    BY <1>5
  <2> DEFINE what == [Nothing EXCEPT !.model = m, !.key = k]
  <2>2. /\ Hold(p, "rotate", what) /\ pc[p] = "idle" /\ "key" \in Requests
        /\ row[m].status \in {"ACTIVE", "NEEDS_KEY"}
    BY <2>1 DEF RotateBegins, At, Holds
  <2>3. what \in LocType /\ what.model = m
    BY DEF LocType, Nothing
  <2> HIDE DEF what
  <2>4. /\ pc' \in [Procs -> Labels] /\ loc' \in [Procs -> LocType]
        /\ pc'[p] = "rotate" /\ loc'[p] = what /\ Others(p)
    BY <1>1, <2>2, <2>3, HoldMoves DEF Labels
  <2>5. M(p)' = m /\ row' = row /\ row[m].named
    BY <1>1, <2>2, <2>3, <2>4 DEF M, Names, RowInv
  <2>6. Local(p)'
    BY <1>1, <2>2, <2>4, <2>5 DEF Local, Holder, Holding, Creating
  <2>7. Separate(p)
    BY <2>4 DEF Separate, Holder, Creating
  <2> QED
    BY <1>1, <1>2, <2>2, <2>4, <2>6, <2>7, MoveKeeps DEF TypeOK, Unfailing
<1> QED
  BY <1>3, <1>4, <1>5 DEF Request

\* LiteLLM refused the model, or the create sees what became of its row.
LEMMA CreateMovesKeep ==
  ASSUME IInv, NEW p \in Callers, CreateRejected(p) \/ CreateSettles(p)
  PROVE  IInv'
<1>1. /\ TypeOK /\ Names /\ Local(p) /\ p \in Procs /\ p # Pass
      /\ UNCHANGED <<row, served, listed, online, late, todo, touched, known, using, faults>>
  BY RegistryAssumption DEF IInv, Names, CreateRejected, CreateSettles, Procs,
        quietGateway, quietStore, quietRest, NoFault
<1>2. (NeverOffline' => NeverOffline) /\ (Unfailing' => Unfailing) /\ faults' \in 0 .. MaxFaults
  BY <1>1 DEF NeverOffline, Unfailing, TypeOK
<1>3. CASE CreateRejected(p)
  <2>1. pc[p] = "add" /\ Goto(p, "free")
    BY <1>3 DEF CreateRejected, At
  <2>2. /\ pc' \in [Procs -> Labels] /\ loc' \in [Procs -> LocType]
        /\ pc'[p] = "free" /\ loc'[p] = loc[p] /\ Others(p)
    BY <1>1, <2>1, GotoMoves DEF Labels
  <2>3. M(p)' = M(p)
    BY <2>2 DEF M
  <2>4. Local(p)'
    BY <1>1, <2>1, <2>2, <2>3 DEF Local, Holder, Holding, Creating, Unserved
  <2>5. Separate(p) /\ CleanAt(p)' /\ Unwinds(p)
    BY <2>1, <2>2, <2>3 DEF Separate, CleanAt, Unwinds, Holder, Creating
  <2> QED
    BY <1>1, <1>2, <2>1, <2>2, <2>4, <2>5, MoveKeeps
<1>4. CASE CreateSettles(p)
  <2>1. pc[p] = "settle" /\ M(p) \in Models
    BY <1>1, <1>4 DEF CreateSettles, At, Local, Holding, Creating
  <2>2. CASE StillWanted(M(p))
    <3>1. Live(M(p)) /\ row[M(p)].named
      BY <1>1, <2>1, <2>2 DEF StillWanted, Holds, Names, RowInv
    <3>2. Unwinds(p)
      BY <1>1, <2>1, <3>1 DEF Unwinds, Live, Recorded
    <3>3. Done(p)
      BY <1>4, <2>2 DEF CreateSettles
    <3> QED
      BY <1>1, <1>2, <2>1, <3>2, <3>3, DoneKeeps
  <2>3. CASE ~StillWanted(M(p))
    <3>1. Goto(p, "undo")
      BY <1>4, <2>3 DEF CreateSettles
    <3>2. /\ pc' \in [Procs -> Labels] /\ loc' \in [Procs -> LocType]
          /\ pc'[p] = "undo" /\ loc'[p] = loc[p] /\ Others(p)
      BY <1>1, <3>1, GotoMoves DEF Labels
    <3>3. M(p)' = M(p)
      BY <3>2 DEF M
    <3>4. Local(p)'
      BY <1>1, <2>1, <3>2, <3>3 DEF Local, Holder, Holding, Creating
    <3>5. Separate(p) /\ CleanAt(p)' /\ Unwinds(p)
      BY <2>1, <3>2, <3>3 DEF Separate, CleanAt, Unwinds, Holder, Creating
    <3> QED
      BY <1>1, <1>2, <2>1, <3>2, <3>4, <3>5, MoveKeeps
  <2> QED
    BY <2>2, <2>3
<1> QED
  BY <1>3, <1>4

\* experimentsUsing: a delete goes on, or returns the row it took.
LEMMA DeleteGuardsKeep ==
  ASSUME IInv, NEW p \in Callers, DeleteGuards(p) \/ DeleteGuardFails(p)
  PROVE  IInv'
<1>1. /\ TypeOK /\ Names /\ Local(p) /\ p \in Procs /\ p # Pass /\ pc[p] = "guard"
      /\ UNCHANGED <<row, served, listed, online, late, todo, touched, known, using>>
  BY RegistryAssumption DEF IInv, Names, DeleteGuards, DeleteGuardFails, Procs, At,
        quietGateway, quietStore, quietRest
<1>2. /\ faults' \in 0 .. MaxFaults /\ (NeverOffline' => NeverOffline)
      /\ (Unfailing' => Unfailing /\ DeleteGuards(p))
  <2>1. CASE DeleteGuards(p)
    BY <1>1, <2>1 DEF DeleteGuards, NoFault, NeverOffline, Unfailing, TypeOK
  <2>2. CASE DeleteGuardFails(p)
    <3>1. Fault("mongo")
      BY <2>2 DEF DeleteGuardFails
    <3> QED
      BY <1>1, <3>1, FaultCounts DEF Unfailing
  <2> QED
    BY <2>1, <2>2
<1>3. M(p) \in Models /\ loc[p].previous \in Statuses
  BY <1>1 DEF Local, Holding
<1>4. Unwinds(p)
  BY <1>1 DEF Unwinds
<1>5. CASE Goto(p, "erase") /\ DeleteGuards(p)
  <2>1. /\ pc' \in [Procs -> Labels] /\ loc' \in [Procs -> LocType]
        /\ pc'[p] = "erase" /\ loc'[p] = loc[p] /\ Others(p)
    BY <1>1, <1>5, GotoMoves DEF Labels
  <2>2. M(p)' = M(p)
    BY <2>1 DEF M
  <2>3. Local(p)'
    BY <1>1, <2>1, <2>2 DEF Local, Holder, Holding, Creating
  <2>4. Separate(p)
    BY <2>1 DEF Separate, Holder, Creating
  <2>5. Unfailing' => CleanAt(p)'
    BY <1>1, <1>2, <2>1, <2>2 DEF IInv, Clean, CleanAt
  <2> QED
    BY <1>1, <1>2, <1>4, <2>1, <2>3, <2>4, <2>5, MoveKeeps
<1>6. CASE loc[p].previous = "DELETING" /\ Done(p)
  BY <1>1, <1>2, <1>4, <1>6, DoneKeeps
<1>7. CASE loc[p].previous # "DELETING" /\ Goto(p, "revert")
           /\ (DeleteGuards(p) => InUse(M(p)))
  <2>1. /\ pc' \in [Procs -> Labels] /\ loc' \in [Procs -> LocType]
        /\ pc'[p] = "revert" /\ loc'[p] = loc[p] /\ Others(p)
    BY <1>1, <1>7, GotoMoves DEF Labels
  <2>2. M(p)' = M(p) /\ Holder(p) /\ Holder(p)'
    BY <1>1, <1>7, <2>1 DEF M, Holder
  <2>3. Local(p)'
    BY <1>1, <1>7, <2>1, <2>2 DEF Local, Holding, Creating
  <2>4. Separate(p)
    BY <2>1, <2>2 DEF Separate, Creating
  <2>5. Unfailing' => CleanAt(p)'
    <3>1. Unfailing' => row[M(p)].named
      BY <1>1, <1>2, <1>7 DEF InUse, Names, UsersInv
    <3> QED
      BY <1>1, <2>1, <2>2, <3>1 DEF CleanAt
  <2> QED
    BY <1>1, <1>2, <1>4, <2>1, <2>3, <2>4, <2>5, MoveKeeps
<1> QED
  BY <1>5, <1>6, <1>7 DEF DeleteGuards, DeleteGuardFails, GiveUp

-----------------------------------------------------------------------------
(* Steps that write one row *)

\* What the other goroutines may have to say against a new row of m.
Suits(p, m) ==
    /\ \A q \in Procs \ {p} : M(q) = m =>
          /\ Holder(q) => row'[m].status = "DELETING" /\ row'[m].named = row[m].named
          /\ pc[q] \in {"add", "free"} => ~row'[m].named
    /\ row[m].status # "new" => row'[m].status # "new"
    /\ row[m].named => row'[m].named
    /\ Recorded(m)' =>
          \/ Recorded(m) /\ row'[m].alias = row[m].alias
          \/ \A n \in Models \ {m} : Recorded(n) => row[n].alias # row'[m].alias

SuitsClean(p, m) ==
    /\ todo'[m] = "DELETING" /\ ~row'[m].named => row'[m].status = "DELETING"
    /\ served[m] # None /\ ~Live(m)' => Undoing(m)'
    /\ \A q \in Procs \ {p} : M(q) = m =>
          /\ pc[q] \in {"guard", "erase", "finish"} /\ ~row'[m].named =>
                row'[m].status = "DELETING"
          /\ pc[q] = "finish" /\ served[m] # None => ~row'[m].named

LEMMA RowKeeps ==
  ASSUME IInv, NEW p \in Procs, NEW m \in Models,
         UNCHANGED <<served, listed, online, late, known, using, faults>>,
         touched' \subseteq Models, todo' \in [Models -> Statuses \cup {None}],
         \A n \in Models : todo'[n] \in {todo[n], None},
         row' \in [Models -> RowType], \A n \in Models \ {m} : row'[n] = row[n],
         row'[m].removed => row'[m].status = "DELETING",
         pc' \in [Procs -> Labels], loc' \in [Procs -> LocType], Others(p),
         p = Pass => pc[p] \notin {"idle", "list"} \/ pc'[p] \in {"idle", "list"},
         pc'[p] = "add" => M(p)' = m,
         Local(p)', Separate(p), RowInv(m)', Suits(p, m),
         Timely /\ NeverOffline => Reach(m)',
         Unfailing => SuitsClean(p, m) /\ CleanAt(p)' /\ Unwinds(p)
  PROVE  IInv'
<1>1. TypeOK /\ Names /\ Reached /\ Clean /\ None \notin Statuses
  BY RegistryAssumption DEF IInv
<1>2. TypeOK'
  BY <1>1 DEF TypeOK
<1>3. /\ (NeverOffline' <=> NeverOffline) /\ (Unfailing' <=> Unfailing)
  BY DEF NeverOffline, Unfailing
<1>4. Names'
  <2>1. \A q \in Procs : Local(q)'
    <3> SUFFICES ASSUME NEW q \in Procs \ {p} PROVE Local(q)'
      OBVIOUS
    <3>1. Local(q) /\ pc'[q] = pc[q] /\ loc'[q] = loc[q] /\ M(q)' = M(q)
      BY <1>1 DEF Names, Others, M
    <3>2. pc[q] \in {"add", "free"} /\ M(q) \in Models => Unserved(M(q))'
      BY <3>1 DEF Local, Unserved, Suits
    <3>3. Holder(q) => row[M(q)].status = "DELETING"
      BY <3>1 DEF Local
    <3>4. M(q) \in Models =>
            /\ row[M(q)].status # "new" => row'[M(q)].status # "new"
            /\ row[M(q)].named => row'[M(q)].named
            /\ Holder(q) => row'[M(q)].status = "DELETING"
                            /\ row'[M(q)].named = row[M(q)].named
      BY <3>3 DEF Suits
    <3> QED
      BY <3>1, <3>2, <3>4, LocalStays
  <2>2. Apart'
    BY <1>1, ApartStays DEF Names
  <2>3. \A n \in Models : RowInv(n)'
    BY <1>1 DEF Names, RowInv, Unserved, Recorded
  <2>4. OwnAlias'
    BY <1>1 DEF Names, OwnAlias, Suits, Recorded
  <2>5. UsersInv'
    BY <1>1 DEF Names, UsersInv, Suits
  <2> QED
    BY <2>1, <2>2, <2>3, <2>4, <2>5 DEF Names
<1>5. Reached'
  <2> SUFFICES ASSUME Timely, NeverOffline PROVE online' /\ \A n \in Models : Reach(n)'
    BY <1>3 DEF Reached
  <2>1. online' /\ \A n \in Models : Reach(n)
    BY <1>1 DEF Reached
  <2>2. pc'[Pass] \notin {"idle", "list"} => pc[Pass] \notin {"idle", "list"}
    BY DEF Others, Procs
  <2>3. \A n \in Models \ {m} : Reach(n)'
    <3> SUFFICES ASSUME NEW n \in Models \ {m} PROVE Reach(n)'
      OBVIOUS
    <3>1. \A q \in Callers : pc'[q] = "add" /\ M(q)' = n => pc[q] = "add" /\ M(q) = n
      BY DEF Others, Procs, M
    <3> QED
      BY <2>1, <2>2, <3>1 DEF Reach
  <2> QED
    BY <2>1, <2>3
<1>6. Clean'
  <2> SUFFICES ASSUME Unfailing
               PROVE  (\A n \in Models : CleanModel(n)') /\ \A q \in Procs : CleanAt(q)'
    BY <1>3 DEF Clean
  <2>1. /\ \A n \in Models : CleanModel(n)
        /\ \A q \in Procs : CleanAt(q) /\ Local(q)
        /\ SuitsClean(p, m)
    BY <1>1 DEF Clean, Names
  <2>2. \A n \in Models \ {m} : CleanModel(n)'
    <3> SUFFICES ASSUME NEW n \in Models \ {m} PROVE CleanModel(n)'
      OBVIOUS
    <3>1. CleanModel(n) /\ row'[n] = row[n] /\ todo'[n] \in {todo[n], None}
      BY <2>1
    <3>2. Undoing(n) /\ served'[n] # None => Undoing(n)' \/ Live(n)'
      BY UndoingStays
    <3>3. todo'[n] = "DELETING" => todo[n] = "DELETING"
      BY <1>1, <3>1 DEF Statuses
    <3> QED
      BY <3>1, <3>2, <3>3 DEF CleanModel, Live, Recorded
  <2>3. CleanModel(m)'
    BY <2>1 DEF CleanModel, SuitsClean
  <2>4. \A q \in Procs \ {p} : CleanAt(q)'
    <3> SUFFICES ASSUME NEW q \in Procs \ {p} PROVE CleanAt(q)'
      OBVIOUS
    <3>1. pc'[q] = pc[q] /\ M(q)' = M(q) /\ CleanAt(q)
      BY <2>1 DEF Others, M
    <3>2. pc[q] \in {"finish", "guard", "erase", "revert"} => M(q) \in Models
      BY <2>1 DEF Local, Holding, Creating
    <3>3. M(q) \in Models /\ Undoing(M(q)) /\ served'[M(q)] # None /\ ~row'[M(q)].named
            => Undoing(M(q))'
      <4> SUFFICES ASSUME NEW n \in Models, n = M(q), Undoing(n), served'[n] # None,
                          ~row'[n].named
                   PROVE  Undoing(n)'
        BY <3>1
      <4> QED
        BY UndoingStays
    <3>4. CASE M(q) = m
      BY <2>1, <3>1, <3>2, <3>3, <3>4 DEF CleanAt, SuitsClean, Suits
    <3>5. CASE M(q) # m
      BY <3>1, <3>2, <3>3, <3>5 DEF CleanAt
    <3> QED
      BY <3>4, <3>5
  <2> QED
    BY <2>2, <2>3, <2>4
<1> QED
  BY <1>2, <1>4, <1>5, <1>6 DEF IInv

\* A guarded update writes the row of one model, or nothing.
LEMMA UpdateWrites ==
  ASSUME TypeOK, NEW m \in Models, NEW guard, NEW new \in RowType,
         new.removed => new.status = "DELETING", Update(m, guard, new)
  PROVE  /\ touched' \subseteq Models /\ row' \in [Models -> RowType]
         /\ \A n \in Models \ {m} : row'[n] = row[n]
         /\ row'[m].removed => row'[m].status = "DELETING"
         /\ Holds(m, guard) =>
               /\ row'[m].status = new.status /\ row'[m].removed = new.removed
               /\ row'[m].alias = new.alias
               /\ row'[m].named = (new.named \/ new.status = "ACTIVE")
               /\ row'[m].aged => new.aged
         /\ ~Holds(m, guard) => row' = row /\ touched' = touched
<1>1. row \in [Models -> RowType] /\ touched \subseteq Models
      /\ (row[m].removed => row[m].status = "DELETING")
  BY DEF TypeOK
<1> DEFINE r == [new EXCEPT !.aged = @ /\ new.status # "ACTIVE",
                            !.named = @ \/ new.status = "ACTIVE"]
<1>2. CASE Holds(m, guard)
  <2>1. row' = [row EXCEPT ![m] = r] /\ touched' \subseteq Models
    BY <1>1, <1>2 DEF Update, Stamped
  <2>2. /\ r \in RowType /\ r.status = new.status /\ r.removed = new.removed
        /\ r.alias = new.alias /\ r.named = (new.named \/ new.status = "ACTIVE")
        /\ r.aged => new.aged
    BY DEF RowType
  <2> HIDE DEF r
  <2>3. row' \in [Models -> RowType] /\ row'[m] = r /\ \A n \in Models \ {m} : row'[n] = row[n]
    BY <1>1, <2>1, <2>2
  <2> QED
    BY <1>2, <2>1, <2>2, <2>3
<1>3. CASE ~Holds(m, guard)
  BY <1>1, <1>3 DEF Update
<1> QED
  BY <1>2, <1>3

\* A status is set.
LEMMA SetStatusWrites ==
  ASSUME TypeOK, NEW m \in Models, NEW guard, NEW status \in Statuses,
         SetStatus(m, guard, status)
  PROVE  /\ touched' \subseteq Models /\ row' \in [Models -> RowType]
         /\ \A n \in Models \ {m} : row'[n] = row[n]
         /\ row'[m].removed => row'[m].status = "DELETING"
         /\ Holds(m, guard) =>
               /\ row'[m].status = status /\ ~row'[m].removed /\ row'[m].alias = row[m].alias
               /\ row'[m].named = (row[m].named \/ status = "ACTIVE")
               /\ row'[m].aged => row[m].aged
         /\ ~Holds(m, guard) => row' = row /\ touched' = touched
<1> DEFINE new == [row[m] EXCEPT !.status = status]
<1>1. row[m] \in RowType /\ (row[m].removed => row[m].status = "DELETING")
  BY DEF TypeOK
<1>2. Update(m, guard, new)
  BY DEF SetStatus
<1>3. /\ new \in RowType /\ new.status = status /\ new.removed = row[m].removed
      /\ new.alias = row[m].alias /\ new.named = row[m].named /\ new.aged = row[m].aged
  BY <1>1 DEF RowType
<1> HIDE DEF new
<1>4. CASE Holds(m, guard)
  <2>1. ~row[m].removed
    BY <1>4 DEF Holds, Live
  <2> QED
    BY <1>2, <1>3, <1>4, <2>1, UpdateWrites
<1>5. CASE ~Holds(m, guard)
  BY <1>1, <1>2, <1>5 DEF Update, TypeOK
<1> QED
  BY <1>4, <1>5

\* What every step of a caller or the pass leaves alone, at a label that holds a model.
LEMMA AtModel ==
  ASSUME IInv, NEW p \in Procs, pc[p] \in Holding
  PROVE  /\ TypeOK /\ Names /\ Local(p) /\ M(p) \in Models /\ row[M(p)].status # "new"
         /\ RowInv(M(p)) /\ pc[p] \notin {"idle", "list", "insert"}
         /\ row \in [Models -> RowType] /\ row[M(p)] \in RowType
         /\ Timely /\ NeverOffline => Reach(M(p))
         /\ Unfailing => CleanAt(p) /\ CleanModel(M(p)) /\ \A q \in Procs : CleanAt(q)
BY DEF IInv, Names, Local, TypeOK, Reached, Clean, Holding, Creating

\* An update that finds the row in another status: its goroutine moves on or ends.
LEMMA NoUpdateKeeps ==
  ASSUME IInv, NEW p \in Procs, Done(p), pc[p] \in Holding, pc[p] \notin Creating,
         UNCHANGED <<row, served, listed, online, late, todo, touched, known, using, faults>>
  PROVE  IInv'
<1>1. faults' \in 0 .. MaxFaults /\ (NeverOffline' => NeverOffline) /\ (Unfailing' => Unfailing)
  BY DEF IInv, TypeOK, NeverOffline, Unfailing
<1>2. Unwinds(p) /\ pc[p] \notin {"idle", "list"}
  BY DEF Unwinds, Creating, Holding
<1> QED
  BY <1>1, <1>2, DoneKeeps

\* CreateOne inserts the row of a model nobody knows, under an alias nobody has.
LEMMA CreateInsertsKeeps ==
  ASSUME IInv, NEW p \in Callers, CreateInserts(p)
  PROVE  IInv'
<1> DEFINE a == loc[p].alias
<1>1. /\ TypeOK /\ Names /\ Local(p) /\ p \in Procs /\ p # Pass /\ pc[p] = "insert"
      /\ UNCHANGED <<served, listed, online, late, todo, touched, known, using, faults>>
  BY RegistryAssumption DEF IInv, Names, CreateInserts, Procs, At,
        quietGateway, quietRest, NoFault
<1>2. CASE Taken(a)
  <2>1. Done(p) /\ UNCHANGED row
    BY <1>2 DEF CreateInserts
  <2>2. faults' \in 0 .. MaxFaults /\ (NeverOffline' => NeverOffline) /\ (Unfailing' => Unfailing)
    BY <1>1 DEF TypeOK, NeverOffline, Unfailing
  <2> QED
    BY <1>1, <2>1, <2>2, DoneKeeps DEF Unwinds
<1>3. CASE ~Taken(a)
  <2>1. PICK m \in Models, k \in Keys :
               /\ row[m].status = "new"
               /\ row' = [row EXCEPT ![m] = [status |-> "PENDING", removed |-> FALSE,
                                             alias |-> a, hint |-> k, aged |-> FALSE,
                                             named |-> FALSE]]
               /\ Hold(p, "add", [Nothing EXCEPT !.model = m, !.key = k])
    BY <1>3 DEF CreateInserts
  <2> DEFINE new == [status |-> "PENDING", removed |-> FALSE, alias |-> a, hint |-> k,
                     aged |-> FALSE, named |-> FALSE]
             what == [Nothing EXCEPT !.model = m, !.key = k]
  <2>2. loc[p].alias \in Aliases \cup {None}
    BY <1>1 DEF TypeOK, LocType
  <2>3. /\ new \in RowType /\ new.status = "PENDING" /\ ~new.removed /\ new.alias = a
        /\ ~new.aged /\ ~new.named
        /\ what \in LocType /\ what.model = m
    BY <2>2 DEF RowType, LocType, Nothing, Statuses
  <2>4. row' = [row EXCEPT ![m] = new] /\ Hold(p, "add", what)
    BY <2>1
  <2> HIDE DEF new, what
  <2>5. /\ row' \in [Models -> RowType] /\ row'[m] = new
        /\ \A n \in Models \ {m} : row'[n] = row[n]
    BY <1>1, <2>3, <2>4 DEF TypeOK
  <2>6. /\ pc' \in [Procs -> Labels] /\ loc' \in [Procs -> LocType]
        /\ pc'[p] = "add" /\ M(p)' = m /\ Others(p)
    BY <1>1, <2>3, <2>4, HoldMoves DEF Labels, M
  <2>7. Unserved(m) /\ ~row[m].named
    BY <1>1, <2>1 DEF Names, RowInv, Unserved
  <2>8. \A q \in Procs : pc[q] \in Holding => M(q) # m
    BY <1>1, <2>1 DEF Names, Local
  <2>9. Local(p)'
    BY <1>1, <2>3, <2>5, <2>6, <2>7 DEF Local, Holder, Holding, Creating, Unserved
  <2>10. Separate(p)
    BY <2>6, <2>8 DEF Separate, Holder, Holding, Creating
  <2>11. RowInv(m)'
    BY <2>3, <2>5 DEF RowInv, Recorded, Statuses
  <2>12. Suits(p, m)
    <3>1. \A q \in Procs : Holder(q) \/ pc[q] \in {"add", "free"} => M(q) # m
      BY <2>8 DEF Holder, Holding, Creating
    <3>2. \A n \in Models : Recorded(n) => row[n].alias # a
      BY <1>3 DEF Taken
    <3> QED
      BY <2>3, <2>5, <2>7, <3>1, <3>2 DEF Suits
  <2>13. Timely /\ NeverOffline => Reach(m)'
    <3>1. \A q \in Callers \ {p} : pc'[q] = "add" => M(q)' # m
      BY <2>6, <2>8 DEF Others, Holding, Creating, Procs, M
    <3> QED
      BY <1>1, <2>3, <2>5, <2>7, <3>1 DEF Reach, Unserved
  <2>14. Unfailing => SuitsClean(p, m) /\ CleanAt(p)' /\ Unwinds(p)
    <3>1. Unfailing => todo[m] # "DELETING"
      BY <2>1, <2>7 DEF IInv, Clean, CleanModel
    <3>2. \A q \in Procs : pc[q] \in {"guard", "erase", "finish"} => M(q) # m
      BY <2>8 DEF Holding
    <3> QED
      BY <1>1, <2>6, <2>7, <3>1, <3>2 DEF SuitsClean, CleanAt, Unwinds, Unserved
  <2> QED
    BY <1>1, <2>3, <2>5, <2>6, <2>9, <2>10, <2>11, <2>12, <2>13, <2>14, RowKeeps DEF TypeOK
<1> QED
  BY <1>2, <1>3

\* What a step at a label that holds a model has of RowKeeps by itself.
LEMMA RowStepKeeps ==
  ASSUME IInv, NEW p \in Procs, pc[p] \in Holding, NEW m \in Models, M(p) = m,
         UNCHANGED <<served, listed, online, late, todo, known, using, faults>>,
         touched' \subseteq Models,
         row' \in [Models -> RowType], \A n \in Models \ {m} : row'[n] = row[n],
         row'[m].removed => row'[m].status = "DELETING",
         \/ Done(p)
         \/ /\ Goto(p, "guard") /\ Local(p)' /\ Separate(p)
            /\ Unfailing => CleanAt(p)',
         Recorded(m), row'[m].alias = row[m].alias,
         row'[m].status \in Statuses \cup {"gone"}, row[m].named => row'[m].named,
         RowInv(m)',
         \A q \in Procs \ {p} : M(q) = m =>
            /\ Holder(q) => row'[m].status = "DELETING" /\ row'[m].named = row[m].named
            /\ pc[q] \in {"add", "free"} => ~row'[m].named,
         row'[m].aged /\ ~row'[m].named => row[m].aged /\ ~row[m].named,
         row'[m].status = "gone" =>
            served[m] = None /\ late[m] = None /\ \A q \in Procs : pc[q] = "add" => M(q) # m,
         Unfailing => SuitsClean(p, m) /\ Unwinds(p)
  PROVE  IInv'
<1>1. /\ TypeOK /\ (Timely /\ NeverOffline => Reach(m)) /\ pc[p] \notin {"idle", "list"}
      /\ None \notin Statuses
  BY AtModel, RegistryAssumption
<1>2. /\ pc' \in [Procs -> Labels] /\ loc' \in [Procs -> LocType] /\ Others(p)
      /\ pc'[p] # "add" /\ Local(p)' /\ Separate(p) /\ (Unfailing => CleanAt(p)')
  <2>1. CASE Done(p)
    BY <1>1, <2>1, DoneMoves, DoneHoldsNothing
  <2>2. CASE Goto(p, "guard") /\ Local(p)' /\ Separate(p) /\ (Unfailing => CleanAt(p)')
    BY <1>1, <2>2, GotoMoves DEF Labels
  <2> QED
    BY <2>1, <2>2
<1>3. Suits(p, m)
  BY DEF Suits, Statuses
<1>4. Timely /\ NeverOffline => Reach(m)'
  <2> SUFFICES ASSUME Timely, NeverOffline PROVE Reach(m)'
    OBVIOUS
  <2>1. Reach(m)
    BY <1>1
  <2>2. \A q \in Callers : pc'[q] = "add" /\ M(q)' = m => q # p /\ pc[q] = "add" /\ M(q) = m
    BY <1>2 DEF Others, M, Procs
  <2>3. pc'[Pass] \notin {"idle", "list"} => pc[Pass] \notin {"idle", "list"}
    BY <1>1, <1>2 DEF Others, Procs
  <2>4. \A q \in Callers : pc'[q] = "add" /\ M(q)' = m => row'[m].status # "gone" /\ ~row'[m].aged
    <3> SUFFICES ASSUME NEW q \in Callers, pc'[q] = "add", M(q)' = m
                 PROVE  row'[m].status # "gone" /\ ~row'[m].aged
      OBVIOUS
    <3>1. q # p /\ pc[q] = "add" /\ M(q) = m /\ q \in Procs
      BY <2>2 DEF Procs
    <3>2. ~row[m].aged /\ ~row'[m].named
      BY <2>1, <3>1 DEF Reach
    <3> QED
      BY <3>1, <3>2
  <2> QED
    BY <2>1, <2>3, <2>4 DEF Reach
<1>5. todo' \in [Models -> Statuses \cup {None}] /\ \A n \in Models : todo'[n] \in {todo[n], None}
  BY <1>1 DEF TypeOK
<1> QED
  BY <1>1, <1>2, <1>3, <1>4, <1>5, RowKeeps

\* CreateOne marks its model ACTIVE, unless a delete has taken it.
LEMMA CreateMarksKeeps ==
  ASSUME IInv, NEW p \in Callers, CreateMarks(p)
  PROVE  IInv'
<1>0. PICK m \in Models : m = M(p)
  BY AtModel DEF CreateMarks, At, Holding, Creating, Procs
<1>1. /\ p \in Procs /\ p # Pass /\ pc[p] = "mark" /\ pc[p] \in Holding
      /\ SetStatus(m, {"PENDING"}, "ACTIVE")
      /\ UNCHANGED <<served, listed, online, late, todo, known, using, faults>>
  BY <1>0, RegistryAssumption DEF CreateMarks, Procs, At, Holding, Creating,
        quietGateway, quietRest, NoFault
<1>2. /\ TypeOK /\ Names /\ Local(p) /\ m \in Models /\ RowInv(m)
      /\ (Unfailing => CleanAt(p) /\ CleanModel(m) /\ \A q \in Procs : CleanAt(q))
  BY <1>0, <1>1, AtModel
<1>3. CASE Holds(m, {"PENDING"})
  <2>1. /\ touched' \subseteq Models /\ row' \in [Models -> RowType]
        /\ \A n \in Models \ {m} : row'[n] = row[n]
        /\ row'[m].removed => row'[m].status = "DELETING"
        /\ row'[m].status = "ACTIVE" /\ ~row'[m].removed /\ row'[m].alias = row[m].alias
        /\ row'[m].named
    BY <1>1, <1>2, <1>3, SetStatusWrites DEF Statuses
  <2>2. Done(p) /\ row[m].status = "PENDING" /\ Recorded(m)
    BY <1>0, <1>3 DEF CreateMarks, Holds, Live
  <2>3. \A q \in Procs \ {p} : M(q) = m => ~Holder(q) /\ pc[q] \notin {"add", "free"}
    BY <1>0, <1>1, <1>2, <2>2 DEF Names, Local, Apart, Creating
  <2>4. RowInv(m)'
    BY <2>1 DEF RowInv, Recorded, Statuses
  <2>5. Unfailing => SuitsClean(p, m) /\ Unwinds(p)
    <3>1. Live(m)' /\ row'[m].named
      BY <2>1 DEF Live, Recorded, Statuses
    <3>2. Unwinds(p)
      BY <1>0, <1>2, <3>1 DEF Unwinds
    <3>3. ~row[m].named
      BY <1>2, <2>2 DEF RowInv
    <3>4. Unfailing =>
            \A q \in Procs : pc[q] \in {"guard", "erase", "finish"} => M(q) # m
      BY <1>0, <1>2, <2>2, <3>3 DEF CleanAt
    <3> QED
      BY <2>1, <3>1, <3>2, <3>4 DEF SuitsClean
  <2> QED
    BY <1>0, <1>1, <1>2, <2>1, <2>2, <2>3, <2>4, <2>5, RowStepKeeps DEF Statuses
<1>4. CASE ~Holds(m, {"PENDING"})
  <2>1. Goto(p, "settle") /\ UNCHANGED <<row, touched>>
    BY <1>0, <1>1, <1>4 DEF CreateMarks, SetStatus, Update
  <2>2. /\ pc' \in [Procs -> Labels] /\ loc' \in [Procs -> LocType]
        /\ pc'[p] = "settle" /\ loc'[p] = loc[p] /\ Others(p)
    BY <1>1, <1>2, <2>1, GotoMoves DEF Labels
  <2>3. M(p)' = M(p)
    BY <2>2 DEF M
  <2>4. Local(p)'
    BY <1>1, <1>2, <2>1, <2>2, <2>3 DEF Local, Holder, Holding, Creating
  <2>5. Separate(p) /\ CleanAt(p)' /\ Unwinds(p)
    BY <1>1, <2>2, <2>3 DEF Separate, CleanAt, Unwinds, Holder, Creating
  <2>6. faults' \in 0 .. MaxFaults /\ (NeverOffline' => NeverOffline) /\ (Unfailing' => Unfailing)
    BY <1>1, <1>2 DEF TypeOK, NeverOffline, Unfailing
  <2> QED
    BY <1>1, <2>1, <2>2, <2>4, <2>5, <2>6, MoveKeeps
<1> QED
  BY <1>3, <1>4

\* CreateOne frees the alias of a model LiteLLM refused: it never had it.
LEMMA CreateFreesKeeps ==
  ASSUME IInv, NEW p \in Callers, CreateFrees(p)
  PROVE  IInv'
<1>0. PICK m \in Models : m = M(p)
  BY AtModel DEF CreateFrees, At, Holding, Creating, Procs
<1>1. /\ p \in Procs /\ pc[p] = "free" /\ pc[p] \in Holding /\ Remove(m) /\ Done(p)
      /\ UNCHANGED <<served, listed, online, late, todo, touched, known, using, faults>>
  BY <1>0 DEF CreateFrees, Remove, Procs, At, Holding, Creating, quietGateway, quietRest, NoFault
<1>2. /\ TypeOK /\ Names /\ Local(p) /\ m \in Models /\ RowInv(m)
      /\ row \in [Models -> RowType] /\ touched \subseteq Models
      /\ (Unfailing => CleanAt(p) /\ CleanModel(m) /\ \A q \in Procs : CleanAt(q))
  BY <1>0, <1>1, AtModel DEF TypeOK
<1>3. Unwinds(p)
  BY <1>1 DEF Unwinds
<1>4. CASE Holds(m, {"PENDING"})
  <2>1. /\ row' = [row EXCEPT ![m].status = "gone"] /\ row[m].status = "PENDING"
        /\ ~row[m].removed /\ Recorded(m)
    BY <1>1, <1>4 DEF Remove, Holds, Live
  <2>2. /\ row' \in [Models -> RowType] /\ row'[m].status = "gone" /\ ~row'[m].removed
        /\ row'[m].alias = row[m].alias /\ row'[m].named = row[m].named
        /\ row'[m].aged = row[m].aged
        /\ \A n \in Models \ {m} : row'[n] = row[n]
    BY <1>2, <2>1 DEF RowType
  <2>3. Unserved(m)
    BY <1>0, <1>1, <1>2 DEF Local
  <2>4. \A q \in Procs \ {p} : M(q) = m => ~Holder(q) /\ pc[q] \notin {"add", "free"}
    BY <1>0, <1>1, <1>2, <2>1 DEF Names, Local, Apart, Creating
  <2>5. RowInv(m)'
    BY <2>2, <2>3 DEF RowInv, Unserved
  <2>6. Unfailing => SuitsClean(p, m)
    <3>1. Unfailing =>
            \A q \in Procs : pc[q] \in {"guard", "erase", "finish"} => M(q) # m
      BY <1>2, <2>1, <2>3 DEF CleanAt, Unserved
    <3>2. Unfailing => todo[m] # "DELETING"
      BY <1>2, <2>1, <2>3 DEF CleanModel, Unserved
    <3> QED
      BY <1>1, <2>3, <3>1, <3>2 DEF SuitsClean, Unserved
  <2> QED
    BY <1>0, <1>1, <1>2, <1>3, <2>1, <2>2, <2>3, <2>4, <2>5, <2>6, RowStepKeeps DEF Unserved
<1>5. CASE ~Holds(m, {"PENDING"})
  <2>1. UNCHANGED row
    BY <1>1, <1>5 DEF Remove
  <2>2. faults' \in 0 .. MaxFaults /\ (NeverOffline' => NeverOffline) /\ (Unfailing' => Unfailing)
    BY <1>1, <1>2 DEF TypeOK, NeverOffline, Unfailing
  <2> QED
    BY <1>1, <1>3, <2>1, <2>2, DoneKeeps
<1> QED
  BY <1>4, <1>5

\* recordError touches the row and leaves its status.
LEMMA RecordErrorKeeps ==
  ASSUME IInv, NEW p \in Procs, RecordError(p)
  PROVE  IInv'
<1>0. PICK m \in Models : m = M(p)
  BY AtModel DEF RecordError, At, Holding
<1>1. /\ pc[p] = "note" /\ pc[p] \in Holding /\ Update(m, Statuses, row[m]) /\ Done(p)
      /\ UNCHANGED <<served, listed, online, late, todo, known, using, faults>>
  BY <1>0 DEF RecordError, At, Holding, quietGateway, quietRest, NoFault
<1>2. /\ TypeOK /\ Names /\ RowInv(m) /\ row[m] \in RowType
      /\ row[m].removed => row[m].status = "DELETING"
      /\ \A q \in Procs : Local(q)
      /\ (Unfailing => CleanModel(m) /\ \A q \in Procs : CleanAt(q))
  BY <1>0, <1>1, AtModel DEF Names, TypeOK
<1>3. CASE Holds(m, Statuses)
  <2>1. /\ touched' \subseteq Models /\ row' \in [Models -> RowType]
        /\ \A n \in Models \ {m} : row'[n] = row[n]
        /\ row'[m].removed => row'[m].status = "DELETING"
        /\ row'[m].status = row[m].status /\ row'[m].removed = row[m].removed
        /\ row'[m].alias = row[m].alias
        /\ row'[m].named = (row[m].named \/ row[m].status = "ACTIVE")
        /\ row'[m].aged => row[m].aged
    BY <1>1, <1>2, <1>3, UpdateWrites
  <2>2. row'[m].named = row[m].named
    BY <1>2, <2>1 DEF RowInv, RowType
  <2>3. Recorded(m)
    BY <1>3 DEF Holds, Live
  <2>4. RowInv(m)'
    BY <1>2, <2>1, <2>2, <2>3 DEF RowInv, Recorded, Statuses
  <2>5. \A q \in Procs \ {p} : M(q) = m =>
            /\ Holder(q) => row'[m].status = "DELETING" /\ row'[m].named = row[m].named
            /\ pc[q] \in {"add", "free"} => ~row'[m].named
    BY <1>2, <2>1, <2>2 DEF Local, Unserved
  <2>6. Unfailing => SuitsClean(p, m) /\ Unwinds(p)
    <3>1. Unwinds(p)
      BY <1>1 DEF Unwinds
    <3>2. Live(m)' = Live(m) /\ Live(m)
      BY <1>3, <2>1 DEF Live, Recorded, Holds
    <3>3. Unfailing => \A q \in Procs \ {p} : M(q) = m =>
            /\ pc[q] \in {"guard", "erase", "finish"} /\ ~row'[m].named =>
                  row'[m].status = "DELETING"
            /\ pc[q] = "finish" /\ served[m] # None => ~row'[m].named
      BY <1>2, <2>1, <2>2 DEF CleanAt
    <3> QED
      BY <1>1, <1>2, <2>1, <2>2, <3>1, <3>2, <3>3 DEF SuitsClean, CleanModel
  <2>7. row'[m].status \in Statuses
    BY <2>1, <2>3 DEF Recorded
  <2> QED
    BY <1>0, <1>1, <1>2, <2>1, <2>2, <2>3, <2>4, <2>5, <2>6, <2>7, RowStepKeeps
       DEF Statuses
<1>4. CASE ~Holds(m, Statuses)
  <2>1. UNCHANGED <<row, touched>>
    BY <1>1, <1>4 DEF Update
  <2> QED
    BY <1>1, <2>1, NoUpdateKeeps DEF Creating
<1> QED
  BY <1>3, <1>4

\* Delete takes the row out of the status it read.
LEMMA DeleteClaimsKeeps ==
  ASSUME IInv, NEW p \in Callers, DeleteClaims(p)
  PROVE  IInv'
<1>0. PICK m \in Models : m = M(p)
  BY AtModel DEF DeleteClaims, At, Holding, Procs
<1> DEFINE before == loc[p].previous
<1>1. /\ p \in Procs /\ p # Pass /\ pc[p] = "claim" /\ pc[p] \in Holding
      /\ SetStatus(m, {before}, "DELETING")
      /\ UNCHANGED <<served, listed, online, late, todo, known, using, faults>>
  BY <1>0, RegistryAssumption DEF DeleteClaims, At, Holding, Procs, quietGateway, quietRest, NoFault
<1>2. /\ TypeOK /\ Names /\ RowInv(m) /\ row[m] \in RowType
      /\ \A q \in Procs : Local(q)
      /\ before \in Statuses /\ before # "DELETING"
      /\ (Unfailing => CleanModel(m) /\ \A q \in Procs : CleanAt(q))
  BY <1>0, <1>1, AtModel DEF Names, Local
<1>3. Unwinds(p)
  BY <1>1 DEF Unwinds
<1>4. CASE Holds(m, {before})
  <2>1. /\ touched' \subseteq Models /\ row' \in [Models -> RowType]
        /\ \A n \in Models \ {m} : row'[n] = row[n]
        /\ row'[m].removed => row'[m].status = "DELETING"
        /\ row'[m].status = "DELETING" /\ ~row'[m].removed /\ row'[m].alias = row[m].alias
        /\ row'[m].named = (row[m].named \/ FALSE)
        /\ row'[m].aged => row[m].aged
    BY <1>1, <1>2, <1>4, SetStatusWrites DEF Statuses
  <2>2. row'[m].named = row[m].named
    BY <1>2, <2>1 DEF RowType
  <2>3. Recorded(m) /\ row[m].status = before /\ Goto(p, "guard")
    BY <1>0, <1>4 DEF Holds, Live, DeleteClaims
  <2>4. /\ pc'[p] = "guard" /\ loc'[p] = loc[p] /\ M(p)' = m /\ Others(p)
    BY <1>0, <1>1, <1>2, <2>3, GotoMoves DEF Labels, M
  <2>5. Local(p)'
    <3>1. before = "PENDING" <=> ~row'[m].named
      BY <1>2, <2>2, <2>3 DEF RowInv, Statuses, Recorded
    <3> QED
      BY <1>1, <1>2, <2>1, <2>4, <3>1 DEF Local, Holder, Holding, Creating
  <2>6. \A q \in Procs : M(q) = m => ~Holder(q)
    BY <1>2, <2>3 DEF Local
  <2>7. Separate(p)
    BY <2>4, <2>6 DEF Separate, Creating
  <2>8. CleanAt(p)'
    BY <2>1, <2>4 DEF CleanAt
  <2>9. RowInv(m)'
    BY <1>2, <2>1, <2>2, <2>3 DEF RowInv, Recorded, Statuses
  <2>10. \A q \in Procs \ {p} : M(q) = m /\ pc[q] \in {"add", "free"} => ~row'[m].named
    BY <1>2, <2>2 DEF Local, Unserved
  <2>11. Unfailing => SuitsClean(p, m)
    <3>1. Live(m)'
      BY <2>1 DEF Live, Recorded, Statuses
    <3>2. Unfailing => \A q \in Procs \ {p} : M(q) = m /\
            pc[q] = "finish" /\ served[m] # None => ~row'[m].named
      BY <1>2, <2>2 DEF CleanAt
    <3> QED
      BY <2>1, <3>1, <3>2 DEF SuitsClean
  <2> QED
    BY <1>0, <1>1, <1>2, <1>3, <2>1, <2>2, <2>3, <2>5, <2>6, <2>7, <2>8, <2>9, <2>10, <2>11,
       RowStepKeeps DEF Statuses
<1>5. CASE ~Holds(m, {before})
  <2>1. UNCHANGED <<row, touched>> /\ Done(p)
    BY <1>0, <1>1, <1>5 DEF SetStatus, Update, DeleteClaims
  <2> QED
    BY <1>1, <2>1, NoUpdateKeeps DEF Creating
<1> QED
  BY <1>4, <1>5

\* A delete that is given up returns the row: nobody else took it since.
LEMMA DeleteRevertsKeeps ==
  ASSUME IInv, NEW p \in Callers, DeleteReverts(p)
  PROVE  IInv'
<1>0. PICK m \in Models : m = M(p)
  BY AtModel DEF DeleteReverts, At, Holding, Procs
<1> DEFINE before == loc[p].previous
<1>1. /\ p \in Procs /\ pc[p] = "revert" /\ pc[p] \in Holding
      /\ SetStatus(m, {"DELETING"}, before) /\ Done(p)
      /\ UNCHANGED <<served, listed, online, late, todo, known, using, faults>>
  BY <1>0 DEF DeleteReverts, At, Holding, Procs, quietGateway, quietRest, NoFault
<1>2. /\ TypeOK /\ Names /\ RowInv(m) /\ row[m] \in RowType
      /\ \A q \in Procs : Local(q)
      /\ before \in Statuses /\ before # "DELETING" /\ Holder(p)
      /\ before = "PENDING" <=> ~row[m].named
      /\ (Unfailing => CleanModel(m) /\ \A q \in Procs : CleanAt(q))
  BY <1>0, <1>1, AtModel DEF Names, Local, Holder
<1>3. Unwinds(p)
  BY <1>1 DEF Unwinds
<1>4. CASE Holds(m, {"DELETING"})
  <2>1. /\ touched' \subseteq Models /\ row' \in [Models -> RowType]
        /\ \A n \in Models \ {m} : row'[n] = row[n]
        /\ row'[m].removed => row'[m].status = "DELETING"
        /\ row'[m].status = before /\ ~row'[m].removed /\ row'[m].alias = row[m].alias
        /\ row'[m].named = (row[m].named \/ before = "ACTIVE")
        /\ row'[m].aged => row[m].aged
    BY <1>1, <1>2, <1>4, SetStatusWrites
  <2>2. row'[m].named = row[m].named
    BY <1>2, <2>1 DEF RowType
  <2>3. Recorded(m) /\ row'[m].status \in Statuses
    BY <1>2, <1>4, <2>1 DEF Holds, Live
  <2>4. \A q \in Procs \ {p} : M(q) = m => ~Holder(q)
    BY <1>0, <1>1, <1>2 DEF Names, Apart
  <2>5. RowInv(m)'
    BY <1>2, <2>1, <2>2, <2>3 DEF RowInv, Recorded, Statuses
  <2>6. \A q \in Procs \ {p} : M(q) = m /\ pc[q] \in {"add", "free"} => ~row'[m].named
    BY <1>2, <2>2 DEF Local, Unserved
  <2>7. Unfailing => SuitsClean(p, m)
    <3>1. Live(m)'
      BY <2>1, <2>3 DEF Live, Recorded
    <3>2. Unfailing => row[m].named
      BY <1>0, <1>1, <1>2 DEF CleanAt
    <3>3. Unfailing => \A q \in Procs \ {p} : M(q) = m /\
            pc[q] = "finish" /\ served[m] # None => ~row'[m].named
      BY <1>2, <2>2 DEF CleanAt
    <3> QED
      BY <2>2, <3>1, <3>2, <3>3 DEF SuitsClean
  <2> QED
    BY <1>0, <1>1, <1>2, <1>3, <2>1, <2>2, <2>3, <2>4, <2>5, <2>6, <2>7, RowStepKeeps
       DEF Statuses
<1>5. CASE ~Holds(m, {"DELETING"})
  <2>1. UNCHANGED <<row, touched>>
    BY <1>1, <1>5 DEF SetStatus, Update
  <2> QED
    BY <1>1, <2>1, NoUpdateKeeps DEF Creating
<1> QED
  BY <1>4, <1>5

\* finishDelete removes a row that is DELETING.
LEMMA FinishKeeps ==
  ASSUME IInv, NEW p \in Procs, Finish(p)
  PROVE  IInv'
<1>0. PICK m \in Models : m = M(p)
  BY AtModel DEF Finish, At, Holding
<1> DEFINE new == [row[m] EXCEPT !.removed = TRUE]
<1>1. /\ pc[p] = "finish" /\ pc[p] \in Holding /\ Update(m, {"DELETING"}, new) /\ Done(p)
      /\ UNCHANGED <<served, listed, online, late, todo, known, using, faults>>
  BY <1>0 DEF Finish, Removable, At, Holding, quietGateway, quietRest, NoFault
<1>2. /\ TypeOK /\ Names /\ RowInv(m) /\ row[m] \in RowType
      /\ \A q \in Procs : Local(q)
      /\ (Unfailing => CleanModel(m) /\ \A q \in Procs : CleanAt(q))
  BY <1>0, <1>1, AtModel DEF Names
<1>3. CASE Holds(m, {"DELETING"})
  <2>1. /\ new \in RowType /\ new.status = "DELETING" /\ new.alias = row[m].alias
        /\ new.named = row[m].named /\ new.aged = row[m].aged
    BY <1>2, <1>3 DEF RowType, Holds
  <2> HIDE DEF new
  <2>2. /\ touched' \subseteq Models /\ row' \in [Models -> RowType]
        /\ \A n \in Models \ {m} : row'[n] = row[n]
        /\ row'[m].status = "DELETING" /\ row'[m].alias = row[m].alias
        /\ row'[m].named = (row[m].named \/ FALSE)
        /\ row'[m].aged => row[m].aged
    BY <1>1, <1>2, <1>3, <2>1, UpdateWrites
  <2>3. row'[m].named = row[m].named
    BY <1>2, <2>2 DEF RowType
  <2>4. Recorded(m)
    BY <1>3 DEF Holds, Live
  <2>5. RowInv(m)'
    BY <1>2, <1>3, <2>2, <2>3 DEF RowInv, Recorded, Statuses, Holds
  <2>6. \A q \in Procs \ {p} : M(q) = m =>
            /\ Holder(q) => row'[m].status = "DELETING" /\ row'[m].named = row[m].named
            /\ pc[q] \in {"add", "free"} => ~row'[m].named
    BY <1>2, <2>2, <2>3 DEF Local, Unserved
  <2>7. Unwinds(p)
    BY <1>1 DEF Unwinds
  <2>8. Unfailing => SuitsClean(p, m)
    <3>1. Unfailing /\ served[m] # None => Undoing(m) /\ ~row'[m].named
      BY <1>0, <1>1, <1>2, <2>3 DEF CleanAt
    <3>2. Others(p)
      BY <1>1, <1>2, DoneMoves
    <3>3. Unfailing /\ served[m] # None => Undoing(m)'
      BY <1>1, <2>7, <3>1, <3>2, UndoingStays
    <3>4. Unfailing => \A q \in Procs \ {p} : M(q) = m /\
            pc[q] = "finish" /\ served[m] # None => ~row'[m].named
      BY <1>2, <2>3 DEF CleanAt
    <3> QED
      BY <2>2, <3>3, <3>4 DEF SuitsClean
  <2> QED
    BY <1>0, <1>1, <1>2, <2>2, <2>3, <2>4, <2>5, <2>6, <2>7, <2>8, RowStepKeeps DEF Statuses
<1>4. CASE ~Holds(m, {"DELETING"})
  <2>1. UNCHANGED <<row, touched>>
    BY <1>1, <1>4 DEF Update
  <2> QED
    BY <1>1, <2>1, NoUpdateKeeps DEF Creating
<1> QED
  BY <1>3, <1>4

\* UpdateKey marks a model ACTIVE that has been before.
LEMMA RotateConfirmsKeeps ==
  ASSUME IInv, NEW p \in Callers, RotateConfirms(p)
  PROVE  IInv'
<1>0. PICK m \in Models : m = M(p)
  BY AtModel DEF RotateConfirms, At, Holding, Procs
<1> DEFINE new == [row[m] EXCEPT !.status = "ACTIVE", !.hint = loc[p].key]
<1>1. /\ p \in Procs /\ pc[p] = "confirm" /\ pc[p] \in Holding /\ Update(m, Keyed, new) /\ Done(p)
      /\ UNCHANGED <<served, listed, online, late, todo, known, using, faults>>
  BY <1>0 DEF RotateConfirms, At, Holding, Procs, quietGateway, quietRest, NoFault
<1>2. /\ TypeOK /\ Names /\ RowInv(m) /\ row[m] \in RowType /\ row[m].named
      /\ \A q \in Procs : Local(q)
      /\ ~Unfailing
  BY <1>0, <1>1, AtModel DEF Names, Local, CleanAt
<1>3. CASE Holds(m, Keyed)
  <2>1. loc[p].key \in Keys \cup {None} /\ ~row[m].removed
    BY <1>1, <1>2, <1>3 DEF TypeOK, LocType, Holds, Live
  <2>2. /\ new \in RowType /\ new.status = "ACTIVE" /\ ~new.removed /\ new.alias = row[m].alias
        /\ new.named
    BY <1>2, <2>1 DEF RowType, Statuses
  <2> HIDE DEF new
  <2>3. /\ touched' \subseteq Models /\ row' \in [Models -> RowType]
        /\ \A n \in Models \ {m} : row'[n] = row[n]
        /\ row'[m].status = "ACTIVE" /\ ~row'[m].removed /\ row'[m].alias = row[m].alias
        /\ row'[m].named
    BY <1>1, <1>2, <1>3, <2>2, UpdateWrites
  <2>4. Recorded(m) /\ row[m].status # "DELETING"
    BY <1>3 DEF Holds, Live, Keyed
  <2>5. RowInv(m)'
    BY <2>3 DEF RowInv, Recorded, Statuses
  <2>6. \A q \in Procs : M(q) = m => ~Holder(q) /\ pc[q] \notin {"add", "free"}
    BY <1>2, <2>4 DEF Local, Unserved
  <2> QED
    BY <1>0, <1>1, <1>2, <2>3, <2>4, <2>5, <2>6, RowStepKeeps DEF Statuses
<1>4. CASE ~Holds(m, Keyed)
  <2>1. UNCHANGED <<row, touched>>
    BY <1>1, <1>4 DEF Update
  <2> QED
    BY <1>1, <2>1, NoUpdateKeeps DEF Creating
<1> QED
  BY <1>3, <1>4

-----------------------------------------------------------------------------
(* Steps that no goroutine has to move for *)

\* What holds of a goroutine that stays where it is.
LEMMA StandsStill ==
  ASSUME IInv, NEW p \in Procs, UNCHANGED <<pc, loc>>
  PROVE  /\ pc' \in [Procs -> Labels] /\ loc' \in [Procs -> LocType]
         /\ Others(p) /\ Separate(p) /\ Unwinds(p)
         /\ \A q \in Procs : M(q)' = M(q)
         /\ \A m \in Models : Undoing(m)' <=> Undoing(m)
<1>1. TypeOK /\ \A q \in Procs : M(q)' = M(q)
  BY DEF IInv, M
<1>2. Others(p) /\ Separate(p) /\ Unwinds(p)
  BY <1>1 DEF Others, Separate, Unwinds, Holder
<1>3. \A m \in Models : Undoing(m)' <=> Undoing(m)
  BY <1>1 DEF Undoing, Procs
<1> QED
  BY <1>1, <1>2, <1>3 DEF TypeOK

\* A row gets old: with Timely, when no call that could serve its model is on its way.
LEMMA AgeKeeps ==
  ASSUME IInv, NEW m \in Models, Age(m)
  PROVE  IInv'
<1>0. Pass \in Procs
  BY DEF Procs
<1>1. /\ Live(m) /\ row[m].status \in {"PENDING", "ACTIVE"}
      /\ row' = [row EXCEPT ![m].aged = TRUE]
      /\ UNCHANGED <<served, listed, online, late, todo, touched, known, using, faults, pc, loc>>
  BY DEF Age, Holds, quietGateway, quietRest, NoFault
<1>2. /\ TypeOK /\ Names /\ RowInv(m) /\ row[m] \in RowType /\ Local(Pass)
      /\ (Timely /\ NeverOffline => Reach(m))
      /\ (Unfailing => CleanModel(m) /\ \A q \in Procs : CleanAt(q))
  BY <1>0 DEF IInv, Names, TypeOK, Reached, Clean
<1>3. /\ row' \in [Models -> RowType] /\ \A n \in Models \ {m} : row'[n] = row[n]
      /\ row'[m].status = row[m].status /\ row'[m].removed = row[m].removed
      /\ row'[m].alias = row[m].alias /\ row'[m].named = row[m].named /\ row'[m].aged
  BY <1>1, <1>2 DEF TypeOK, RowType
<1>4. Recorded(m) /\ Recorded(m)' /\ Live(m)'
  BY <1>1, <1>3 DEF Live, Recorded
<1>5. RowInv(m)'
  BY <1>1, <1>2, <1>3, <1>4 DEF RowInv, Unserved
<1>6. \A q \in Procs : Local(q) /\ (Holder(q) => row[M(q)].status = "DELETING")
                       /\ (pc[q] \in {"add", "free"} => Unserved(M(q)))
  BY <1>2 DEF Names, Local
<1>7. Local(Pass)'
  <2>1. pc[Pass] \notin {"add", "free"}
    BY <1>2 DEF Local
  <2> QED
    BY <1>0, <1>1, <1>3, <1>6, <2>1, LocalStays
<1>8. Suits(Pass, m)
  BY <1>3, <1>4, <1>6, <1>1 DEF Suits, Unserved
<1>9. Timely /\ NeverOffline => Reach(m)'
  <2> SUFFICES ASSUME Timely PROVE Reach(m)'
    OBVIOUS
  <2>1. late[m] = None /\ Requested(m) = {} /\ (m \in listed <=> served[m] # None)
        /\ pc[Pass] = "idle"
    BY DEF Age
  <2>2. \A q \in Callers : ~(pc[q] = "add" /\ M(q) = m)
    BY <2>1 DEF Requested
  <2>3. row'[m].status # "gone"
    BY <1>1, <1>3
  <2> QED
    BY <1>1, <2>1, <2>2, <2>3 DEF Reach, M
<1>10. Unfailing => SuitsClean(Pass, m) /\ CleanAt(Pass)'
  <2> SUFFICES ASSUME Unfailing PROVE SuitsClean(Pass, m) /\ CleanAt(Pass)'
    OBVIOUS
  <2>1. SuitsClean(Pass, m)
    BY <1>1, <1>2, <1>3, <1>4 DEF SuitsClean, CleanModel, CleanAt
  <2>2. pc[Pass] \in Holding => M(Pass) \in Models
    BY <1>2 DEF Local
  <2>3. /\ CleanAt(Pass) /\ M(Pass)' = M(Pass) /\ pc'[Pass] = pc[Pass]
        /\ \A n \in Models : Undoing(n)' <=> Undoing(n)
    BY <1>0, <1>1, <1>2, StandsStill
  <2>4. \A n \in Models : row'[n].status = row[n].status /\ row'[n].named = row[n].named
    BY <1>3
  <2> QED
    BY <1>1, <2>1, <2>2, <2>3, <2>4 DEF CleanAt, Holding
<1>11. /\ pc' \in [Procs -> Labels] /\ loc' \in [Procs -> LocType]
       /\ Others(Pass) /\ Separate(Pass) /\ Unwinds(Pass)
  BY <1>0, <1>1, StandsStill
<1>12. /\ touched' \subseteq Models /\ todo' \in [Models -> Statuses \cup {None}]
       /\ \A n \in Models : todo'[n] \in {todo[n], None}
  BY <1>1, <1>2 DEF TypeOK
<1>13. /\ row'[m].removed => row'[m].status = "DELETING"
       /\ pc'[Pass] # "add" /\ (pc[Pass] \notin {"idle", "list"} \/ pc'[Pass] \in {"idle", "list"})
  BY <1>1, <1>2, <1>3 DEF Local, TypeOK
<1> QED
  BY <1>0, <1>1, <1>3, <1>5, <1>7, <1>8, <1>9, <1>10, <1>11, <1>12, <1>13, RowKeeps

\* The pass settles a row: what it removes LiteLLM does not serve, what it makes ACTIVE is
\* in LiteLLM's list.
LEMMA PassSettlesKeeps ==
  ASSUME IInv, NEW m \in Models, PassSettles(m)
  PROVE  IInv'
<1>0. Pass \in Procs /\ None \notin Statuses
  BY RegistryAssumption DEF Procs
<1>1. /\ pc[Pass] = "rows" /\ todo[m] \notin {None, "DELETING"}
      /\ todo' = [todo EXCEPT ![m] = None] /\ touched' = touched \ {m}
      /\ UNCHANGED <<served, listed, online, late, known, using, faults, pc, loc>>
  BY DEF PassSettles, At, quietGateway, NoFault
<1>2. /\ TypeOK /\ Names /\ RowInv(m) /\ row[m] \in RowType
      /\ (row[m].removed => row[m].status = "DELETING")
      /\ (Timely /\ NeverOffline => Reach(m))
      /\ (Unfailing => CleanModel(m) /\ \A q \in Procs : CleanAt(q))
  BY <1>0 DEF IInv, Names, TypeOK, Reached, Clean
<1>3. \A q \in Procs : Local(q) /\ (Holder(q) => row[M(q)].status = "DELETING")
                       /\ (Holder(q) /\ loc[q].previous = "PENDING" => ~row[M(q)].named)
                       /\ (pc[q] \in {"add", "free"} => Unserved(M(q)))
  BY <1>2 DEF Names, Local
<1>4. Local(Pass)' /\ CleanAt(Pass)'
  BY <1>1, <1>3, <1>0 DEF Local, CleanAt, Holder, Holding, Creating
<1>5. /\ pc' \in [Procs -> Labels] /\ loc' \in [Procs -> LocType]
      /\ Others(Pass) /\ Separate(Pass) /\ Unwinds(Pass)
      /\ \A n \in Models : Undoing(n)' <=> Undoing(n)
  BY <1>0, <1>1, StandsStill
<1>6. /\ touched' \subseteq Models /\ todo' \in [Models -> Statuses \cup {None}]
      /\ todo'[m] = None /\ \A n \in Models : todo'[n] \in {todo[n], None}
  BY <1>1, <1>2 DEF TypeOK
<1>7. ASSUME row' \in [Models -> RowType], \A n \in Models \ {m} : row'[n] = row[n],
             row'[m].removed => row'[m].status = "DELETING",
             RowInv(m)', Suits(Pass, m), Timely /\ NeverOffline => Reach(m)',
             Unfailing => SuitsClean(Pass, m)
      PROVE  IInv'
  BY <1>0, <1>1, <1>4, <1>5, <1>6, <1>7, RowKeeps
<1>8. CASE row' = row
  <2>1. RowInv(m)' /\ Suits(Pass, m)
    BY <1>1, <1>2, <1>3, <1>8 DEF RowInv, Suits, Unserved, Recorded, Names
  <2>2. Timely /\ NeverOffline => Reach(m)'
    BY <1>1, <1>2, <1>8 DEF Reach, M
  <2>3. Unfailing => SuitsClean(Pass, m)
    BY <1>0, <1>1, <1>2, <1>5, <1>6, <1>8
       DEF SuitsClean, CleanModel, CleanAt, Live, Recorded, Statuses
  <2> QED
    BY <1>2, <1>7, <1>8, <2>1, <2>2, <2>3 DEF TypeOK
<1>9. CASE row' # row
  <2>1. /\ Live(m) /\ row[m].status = todo[m] /\ Verdict(m) # "keep"
        /\ row' = [row EXCEPT ![m].status = Verdict(m), ![m].aged = FALSE,
                              ![m].named = @ \/ Verdict(m) = "ACTIVE"]
    BY <1>9 DEF PassSettles, Unchanged, Holds
  <2>2. /\ ~row[m].removed /\ row[m].status # "DELETING" /\ Recorded(m)
        /\ \A q \in Procs : M(q) = m => ~Holder(q)
    BY <1>1, <1>3, <2>1 DEF Live
  <2>3. \/ Verdict(m) = "ACTIVE" /\ m \in known.models
        \/ Verdict(m) = "gone" /\ row[m].status = "PENDING" /\ m \notin known.models
           /\ row[m].aged
        \/ Verdict(m) = "NEEDS_KEY" /\ row[m].status = "ACTIVE"
    BY <2>1 DEF Verdict, Missing
  <2>4. /\ row' \in [Models -> RowType] /\ \A n \in Models \ {m} : row'[n] = row[n]
        /\ row'[m].status = Verdict(m) /\ ~row'[m].removed /\ row'[m].alias = row[m].alias
        /\ ~row'[m].aged /\ row'[m].named = (row[m].named \/ Verdict(m) = "ACTIVE")
    <3>1. Verdict(m) \in Statuses \cup {"new", "gone"}
      BY <2>3 DEF Statuses
    <3> HIDE DEF Verdict
    <3> QED
      BY <1>2, <2>1, <2>2, <3>1 DEF TypeOK, RowType
  <2> HIDE DEF Verdict
  <2>5. CASE Verdict(m) = "gone"
    <3>1. ~row[m].named /\ ~row'[m].named
      BY <1>2, <2>3, <2>4, <2>5 DEF RowInv, RowType
    <3>2. RowInv(m)'
      BY <2>4, <2>5, <3>1 DEF RowInv
    <3>3. Suits(Pass, m)
      BY <2>2, <2>4, <2>5, <3>1 DEF Suits, Recorded, Statuses
    <3>4. Timely /\ NeverOffline =>
             served[m] = None /\ late[m] = None
             /\ \A q \in Callers : ~(pc[q] = "add" /\ M(q) = m)
      BY <1>1, <1>2, <2>3, <2>5, <3>1 DEF Reach
    <3>5. Timely /\ NeverOffline => Reach(m)'
      BY <1>1, <2>4, <3>4 DEF Reach, M
    <3>6. Unfailing => SuitsClean(Pass, m)
      <4>1. Unfailing => served[m] = None
        BY <3>4 DEF Unfailing, NeverOffline
      <4>2. Unfailing =>
              \A q \in Procs : M(q) = m => pc[q] \notin {"guard", "erase", "finish"}
        BY <1>2, <2>2, <3>1 DEF CleanAt
      <4> QED
        BY <1>0, <1>6, <4>1, <4>2 DEF SuitsClean, Statuses
    <3> QED
      BY <1>7, <2>4, <3>2, <3>3, <3>5, <3>6
  <2>6. CASE Verdict(m) # "gone"
    <3>1. row'[m].named /\ row'[m].status \in {"ACTIVE", "NEEDS_KEY"}
      BY <1>2, <2>3, <2>4, <2>6 DEF RowInv
    <3>2. Recorded(m)' /\ Live(m)'
      BY <2>4, <3>1 DEF Live, Recorded, Statuses
    <3>3. RowInv(m)'
      BY <3>1, <3>2 DEF RowInv
    <3>4. \A q \in Procs : M(q) = m => pc[q] \notin {"add", "free"}
      BY <1>2, <1>3, <2>3, <2>6 DEF Unserved, RowInv
    <3>5. Suits(Pass, m)
      BY <2>2, <2>4, <3>1, <3>4 DEF Suits
    <3>6. Reach(m)'
      <4>1. \A q \in Callers : ~(pc[q] = "add" /\ M(q) = m)
        BY <3>4 DEF Procs
      <4> QED
        BY <1>1, <2>4, <3>1, <4>1 DEF Reach, M
    <3>7. Unfailing => SuitsClean(Pass, m)
      BY <1>0, <1>2, <1>6, <2>2, <3>1, <3>2 DEF SuitsClean, CleanAt, Statuses
    <3> QED
      BY <1>7, <2>4, <3>3, <3>5, <3>6, <3>7
  <2> QED
    BY <2>5, <2>6
<1> QED
  BY <1>8, <1>9

-----------------------------------------------------------------------------
(* Steps of LiteLLM *)

\* A step that changes what LiteLLM has, or may yet get, of one model.
LEMMA ServeKeeps ==
  ASSUME IInv, NEW p \in Procs, NEW m \in Models,
         UNCHANGED <<row, listed, online, todo, touched, known, using>>,
         served' \in [Models -> Keys \cup {None}], late' \in [Models -> Keys \cup {None}],
         \A n \in Models \ {m} : served'[n] = served[n] /\ late'[n] = late[n],
         faults' \in 0 .. MaxFaults, NeverOffline' => NeverOffline,
         pc' \in [Procs -> Labels], loc' \in [Procs -> LocType], Others(p),
         p = Pass => pc[p] \notin {"idle", "list"} \/ pc'[p] \in {"idle", "list"},
         pc'[p] # "add", Local(p)', Separate(p),
         \/ served'[m] = None /\ late'[m] = None
         \/ /\ row[m].status # "new"
            /\ \A q \in Procs \ {p} : M(q) = m => pc[q] \notin {"add", "free"},
         Timely /\ NeverOffline => Reach(m)',
         Unfailing' => /\ Unfailing /\ CleanModel(m)' /\ CleanAt(p)' /\ Unwinds(p)
                       /\ \A q \in Procs \ {p} :
                             M(q) = m /\ pc[q] = "finish" /\ served'[m] # None =>
                                ~row[m].named /\ Undoing(m)'
  PROVE  IInv'
<1>1. TypeOK /\ Names /\ Reached /\ Clean
  BY DEF IInv
<1>2. TypeOK'
  BY <1>1 DEF TypeOK
<1>3. Names'
  <2>1. \A q \in Procs : Local(q)'
    <3> SUFFICES ASSUME NEW q \in Procs \ {p} PROVE Local(q)'
      OBVIOUS
    <3>1. Local(q) /\ pc'[q] = pc[q] /\ loc'[q] = loc[q] /\ M(q)' = M(q)
      BY <1>1 DEF Names, Others, M
    <3>2. pc[q] \in {"add", "free"} => Unserved(M(q)) /\ M(q) \in Models
      BY <3>1 DEF Local, Holding, Creating
    <3>3. \A n \in Models : Unserved(n) /\ n # m => Unserved(n)'
      BY DEF Unserved
    <3>4. pc[q] \in {"add", "free"} /\ M(q) = m => Unserved(m)'
      BY <3>2 DEF Unserved
    <3>5. pc[q] \in {"add", "free"} => Unserved(M(q))'
      BY <3>1, <3>2, <3>3, <3>4
    <3>6. Holder(q) => row[M(q)].status = "DELETING"
      BY <3>1 DEF Local
    <3> QED
      BY <3>1, <3>5, <3>6, LocalStays
  <2>2. Apart'
    BY <1>1, ApartStays DEF Names
  <2>3. (\A n \in Models : RowInv(n)') /\ OwnAlias' /\ UsersInv'
    BY <1>1 DEF Names, RowInv, OwnAlias, UsersInv, Unserved, Recorded
  <2> QED
    BY <2>1, <2>2, <2>3 DEF Names
<1>4. Reached'
  <2> SUFFICES ASSUME Timely, NeverOffline PROVE online' /\ \A n \in Models : Reach(n)'
    BY DEF Reached
  <2>1. online' /\ \A n \in Models : Reach(n)
    BY <1>1 DEF Reached
  <2>2. pc'[Pass] \notin {"idle", "list"} => pc[Pass] \notin {"idle", "list"}
    BY DEF Others, Procs
  <2>3. \A q \in Callers : pc'[q] = "add" => pc[q] = "add" /\ M(q)' = M(q)
    BY DEF Others, Procs, M
  <2>4. \A n \in Models \ {m} : Reach(n)'
    BY <2>1, <2>2, <2>3 DEF Reach
  <2> QED
    BY <2>1, <2>4
<1>5. Clean'
  <2> SUFFICES ASSUME Unfailing'
               PROVE  (\A n \in Models : CleanModel(n)') /\ \A q \in Procs : CleanAt(q)'
    BY DEF Clean
  <2>1. /\ \A n \in Models : CleanModel(n)
        /\ \A q \in Procs : CleanAt(q) /\ Local(q)
    BY <1>1 DEF Clean, Names
  <2>2. \A n \in Models \ {m} : CleanModel(n)'
    BY <2>1, UndoingStays DEF CleanModel, Live, Recorded
  <2>3. \A q \in Procs \ {p} : CleanAt(q)'
    <3> SUFFICES ASSUME NEW q \in Procs \ {p} PROVE CleanAt(q)'
      OBVIOUS
    <3>1. pc'[q] = pc[q] /\ M(q)' = M(q)
      BY DEF Others, M
    <3>2. pc[q] = "finish" => M(q) \in Models
      BY <2>1 DEF Local, Holding
    <3>3. pc[q] = "finish" /\ served'[M(q)] # None => ~row[M(q)].named /\ Undoing(M(q))'
      <4>1. \A n \in Models \ {m} : Undoing(n) /\ served'[n] # None /\ ~row[n].named
                                       => Undoing(n)'
        BY UndoingStays
      <4> QED
        BY <2>1, <3>1, <3>2, <4>1 DEF CleanAt
    <3> QED
      BY <2>1, <3>1, <3>2, <3>3 DEF CleanAt
  <2> QED
    BY <2>2, <2>3
<1> QED
  BY <1>2, <1>3, <1>4, <1>5 DEF IInv

\* LiteLLM takes a model on: only its own create is under way, and its row is not old.
LEMMA CreateAddsKeeps ==
  ASSUME IInv, NEW p \in Callers, CreateAdds(p)
  PROVE  IInv'
<1>0. PICK m \in Models : m = M(p)
  BY AtModel DEF CreateAdds, At, Holding, Creating, Procs
<1>1. /\ p \in Procs /\ p # Pass /\ pc[p] = "add" /\ pc[p] \in Holding
      /\ served' = [served EXCEPT ![m] = loc[p].key] /\ Goto(p, "mark")
      /\ UNCHANGED <<row, listed, online, late, todo, touched, known, using, faults>>
  BY <1>0, RegistryAssumption DEF CreateAdds, At, Procs, Holding, Creating,
     quietStore, quietRest, NoFault
<1>2. /\ TypeOK /\ Names /\ Local(p) /\ row[m].status # "new" /\ Unserved(m)
      /\ (Timely /\ NeverOffline => Reach(m))
      /\ (Unfailing => CleanModel(m))
  BY <1>0, <1>1, AtModel DEF Local
<1>3. /\ served' \in [Models -> Keys \cup {None}] /\ late' \in [Models -> Keys \cup {None}]
      /\ \A n \in Models \ {m} : served'[n] = served[n] /\ late'[n] = late[n]
      /\ faults' \in 0 .. MaxFaults /\ (NeverOffline' => NeverOffline)
      /\ (Unfailing' => Unfailing)
  BY <1>1, <1>2 DEF TypeOK, LocType, NeverOffline, Unfailing
<1>4. /\ pc' \in [Procs -> Labels] /\ loc' \in [Procs -> LocType]
      /\ pc'[p] = "mark" /\ loc'[p] = loc[p] /\ Others(p) /\ M(p)' = m
  BY <1>0, <1>1, <1>2, GotoMoves DEF Labels, M
<1>5. Local(p)' /\ Separate(p) /\ CleanAt(p)' /\ Unwinds(p)
  BY <1>0, <1>1, <1>2, <1>4
     DEF Local, Separate, CleanAt, Unwinds, Holder, Holding, Creating
<1>6. \A q \in Procs \ {p} : M(q) = m => pc[q] \notin {"add", "free"}
  BY <1>0, <1>1, <1>2 DEF Names, Apart, Creating
<1>7. Timely /\ NeverOffline => Reach(m)'
  <2> SUFFICES ASSUME Timely, NeverOffline PROVE Reach(m)'
    OBVIOUS
  <2>1. row[m].status # "gone" /\ ~row[m].aged
    BY <1>0, <1>1, <1>2 DEF Reach
  <2> QED
    BY <1>1, <2>1 DEF Reach
<1>8. Undoing(m)' /\ ~row[m].named
  BY <1>2, <1>4 DEF Undoing, Unserved
<1>9. Unfailing' => CleanModel(m)'
  BY <1>1, <1>2, <1>3, <1>8 DEF CleanModel
<1> QED
  BY <1>1, <1>2, <1>3, <1>4, <1>5, <1>6, <1>7, <1>8, <1>9, ServeKeeps

\* LiteLLM gives a model up: settleRacedCreate, or the erase of a delete.
LEMMA RemovesKeep ==
  ASSUME IInv, NEW p \in Procs, CreateUndoes(p) \/ Erase(p) \/ EraseUnanswered(p),
         p = Pass => ~CreateUndoes(p)
  PROVE  IInv'
<1>0. PICK m \in Models : m = M(p)
  BY AtModel DEF CreateUndoes, Erase, EraseUnanswered, At, Holding, Creating
<1>1. /\ pc[p] \in {"undo", "erase"} /\ pc[p] \in Holding
      /\ UNCHANGED <<row, listed, online, late, todo, touched, known, using>>
  BY DEF CreateUndoes, Erase, EraseUnanswered, At, Holding, Creating, quietStore, quietRest
<1>2. /\ TypeOK /\ Names /\ Local(p) /\ row[m].status # "new" /\ None \in Keys \cup {None}
      /\ (Timely /\ NeverOffline => Reach(m))
      /\ (Unfailing => CleanModel(m) /\ CleanAt(p))
      /\ \A q \in Procs : pc[q] \in {"add", "free"} => Unserved(M(q))
  BY <1>0, <1>1, AtModel DEF Names, Local
<1>3. /\ served' = [served EXCEPT ![m] = None] \/ (served' = served /\ EraseUnanswered(p))
      /\ served' \in [Models -> Keys \cup {None}] /\ late' \in [Models -> Keys \cup {None}]
      /\ \A n \in Models \ {m} : served'[n] = served[n] /\ late'[n] = late[n]
  BY <1>0, <1>1, <1>2 DEF TypeOK, CreateUndoes, Erase, EraseUnanswered
<1>4. /\ faults' \in 0 .. MaxFaults /\ (NeverOffline' => NeverOffline)
      /\ (Unfailing' => Unfailing /\ ~EraseUnanswered(p))
  <2>1. CASE EraseUnanswered(p)
    <3>1. Fault("gateway")
      BY <2>1 DEF EraseUnanswered
    <3> QED
      BY <1>2, <3>1, FaultCounts DEF Unfailing
  <2>2. CASE ~EraseUnanswered(p)
    BY <1>2, <2>2 DEF CreateUndoes, Erase, NoFault, TypeOK, NeverOffline, Unfailing
  <2> QED
    BY <2>1, <2>2
<1>5. /\ pc' \in [Procs -> Labels] /\ loc' \in [Procs -> LocType] /\ Others(p)
      /\ \/ pc'[p] \in {"rows", "idle"} /\ CreateUndoes(p) /\ p # Pass
         \/ pc'[p] \in {"finish", "note"} /\ M(p)' = m
      /\ p = Pass => pc'[p] # "idle"
      /\ Local(p)' /\ Separate(p)
  <2>1. CASE CreateUndoes(p)
    <3>1. Done(p) /\ p # Pass
      BY <2>1 DEF CreateUndoes
    <3> QED
      BY <1>2, <2>1, <3>1, DoneMoves, DoneHoldsNothing
  <2>2. CASE ~CreateUndoes(p)
    <3>1. PICK label \in {"finish", "note"} : Goto(p, label)
      BY <2>2 DEF Erase, EraseUnanswered
    <3>2. /\ pc' \in [Procs -> Labels] /\ loc' \in [Procs -> LocType]
          /\ pc'[p] = label /\ loc'[p] = loc[p] /\ Others(p)
      BY <1>2, <3>1, GotoMoves DEF Labels
    <3>3. M(p)' = m
      BY <1>0, <3>2 DEF M
    <3> QED
      BY <1>0, <1>1, <1>2, <3>1, <3>2, <3>3
         DEF Local, Separate, Holder, Holding, Creating
  <2> QED
    BY <2>1, <2>2
<1>6. Timely /\ NeverOffline => Reach(m)'
  <2> SUFFICES ASSUME Timely, NeverOffline PROVE Reach(m)'
    OBVIOUS
  <2>1. Reach(m) /\ served'[m] \in {served[m], None}
    BY <1>2, <1>3 DEF TypeOK
  <2>2. \A q \in Callers : pc'[q] = "add" => pc[q] = "add" /\ M(q)' = M(q)
    BY <1>5 DEF Others, Procs, M
  <2>3. pc'[Pass] \notin {"idle", "list"} => pc[Pass] \notin {"idle", "list"}
    BY <1>1, <1>5 DEF Others, Procs
  <2> QED
    BY <1>1, <2>1, <2>2, <2>3 DEF Reach
<1>7. Unfailing' => /\ CleanModel(m)' /\ CleanAt(p)' /\ Unwinds(p) /\ served'[m] = None
  <2> SUFFICES ASSUME Unfailing' PROVE CleanModel(m)' /\ CleanAt(p)' /\ Unwinds(p)
                                       /\ served'[m] = None
    OBVIOUS
  <2>1. served'[m] = None
    BY <1>2, <1>3, <1>4 DEF TypeOK
  <2>2. Unwinds(p)
    BY <1>0, <2>1 DEF Unwinds
  <2>3. CleanModel(m)'
    BY <1>1, <1>2, <1>4, <2>1 DEF CleanModel
  <2>4. CleanAt(p)'
    <3>1. CASE CreateUndoes(p)
      BY <1>2, <3>1, DoneHoldsNothing DEF CreateUndoes
    <3>2. CASE Erase(p)
      <4>1. pc'[p] = "finish" /\ M(p)' = m /\ pc[p] = "erase"
        BY <1>2, <1>5, <3>2, GotoMoves DEF Erase, CreateUndoes, At, Labels
      <4>2. ~row[m].named => row[m].status = "DELETING"
        BY <1>0, <1>2, <1>4, <4>1 DEF CleanAt
      <4> QED
        BY <1>1, <2>1, <4>1, <4>2 DEF CleanAt
    <3> QED
      BY <1>4, <3>1, <3>2
  <2> QED
    BY <2>1, <2>2, <2>3, <2>4
<1>8. \/ served'[m] = None /\ late'[m] = None
      \/ /\ row[m].status # "new"
         /\ \A q \in Procs \ {p} : M(q) = m => pc[q] \notin {"add", "free"}
  <2>1. CASE \E q \in Procs \ {p} : M(q) = m /\ pc[q] \in {"add", "free"}
    <3>1. served[m] = None /\ late[m] = None
      BY <1>2, <2>1 DEF Unserved
    <3> QED
      BY <1>1, <1>2, <1>3, <3>1 DEF TypeOK
  <2>2. CASE ~\E q \in Procs \ {p} : M(q) = m /\ pc[q] \in {"add", "free"}
    BY <1>2, <2>2
  <2> QED
    BY <2>1, <2>2
<1>9. pc'[p] # "add"
  BY <1>5
<1>10. p = Pass => pc[p] \notin {"idle", "list"}
  BY <1>1
<1> QED
  BY <1>1, <1>3, <1>4, <1>5, <1>6, <1>7, <1>8, <1>9, <1>10, ServeKeeps

\* UpdateKey writes to LiteLLM, or adds the model again: it has been ACTIVE.
LEMMA RotatesKeep ==
  ASSUME IInv, NEW p \in Callers,
         RotateUpdates(p) \/ RotateAdds(p) \/ RotateUnanswered(p)
         \/ (AddUnanswered(p) /\ pc[p] = "readd")
  PROVE  IInv'
<1>0. PICK m \in Models : m = M(p)
  BY AtModel DEF RotateUpdates, RotateAdds, RotateUnanswered, AddUnanswered, At, Holding, Procs
<1>1. /\ p \in Procs /\ p # Pass /\ pc[p] \in {"rotate", "readd"} /\ pc[p] \in Holding
      /\ UNCHANGED <<row, listed, online, todo, touched, known, using>>
  BY RegistryAssumption DEF RotateUpdates, RotateAdds, RotateUnanswered, AddUnanswered, At,
     Procs, Holding, quietStore, quietRest
<1>2. /\ TypeOK /\ Names /\ Local(p) /\ row[m].named /\ RowInv(m)
      /\ (Timely /\ NeverOffline => Reach(m))
      /\ ~Unfailing
  BY <1>0, <1>1, AtModel DEF Names, Local, CleanAt
<1>3. /\ served' \in [Models -> Keys \cup {None}] /\ late' \in [Models -> Keys \cup {None}]
      /\ \A n \in Models \ {m} : served'[n] = served[n] /\ late'[n] = late[n]
  <2>1. loc[p].key \in Keys \cup {None}
    BY <1>1, <1>2 DEF TypeOK, LocType
  <2>2. /\ served' = served \/ served' = [served EXCEPT ![m] = loc[p].key]
        /\ late' = late \/ late' = [late EXCEPT ![m] = loc[p].key]
    BY <1>0 DEF RotateUpdates, RotateAdds, RotateUnanswered, AddUnanswered
  <2> QED
    BY <1>2, <2>1, <2>2 DEF TypeOK
<1>4. /\ faults' \in 0 .. MaxFaults /\ (NeverOffline' => NeverOffline) /\ ~Unfailing'
  <2>1. CASE Fault("gateway")
    BY <1>2, <2>1, FaultCounts DEF Unfailing
  <2>2. CASE NoFault
    BY <1>2, <2>2 DEF NoFault, TypeOK, NeverOffline, Unfailing
  <2> QED
    BY <2>1, <2>2 DEF RotateUpdates, RotateAdds, RotateUnanswered, AddUnanswered
<1>5. PICK label \in {"readd", "confirm", "note"} : Goto(p, label)
  BY DEF RotateUpdates, RotateAdds, RotateUnanswered, AddUnanswered
<1>6. /\ pc' \in [Procs -> Labels] /\ loc' \in [Procs -> LocType]
      /\ pc'[p] = label /\ loc'[p] = loc[p] /\ Others(p) /\ M(p)' = m
  BY <1>0, <1>1, <1>2, <1>5, GotoMoves DEF Labels, M
<1>7. Local(p)' /\ Separate(p)
  BY <1>0, <1>1, <1>2, <1>5, <1>6 DEF Local, Separate, Holder, Holding, Creating
<1>8. /\ row[m].status # "new" /\ row[m].status # "gone"
      /\ \A q \in Procs : M(q) = m => pc[q] \notin {"add", "free"}
  BY <1>2 DEF RowInv, Recorded, Statuses, Names, Local, Unserved
<1>9. Reach(m)'
  <2>1. \A q \in Callers : ~(pc'[q] = "add" /\ M(q)' = m)
    BY <1>5, <1>6, <1>8 DEF Others, Procs, M
  <2> QED
    BY <1>1, <1>2, <1>8, <2>1 DEF Reach
<1> QED
  BY <1>1, <1>3, <1>4, <1>5, <1>6, <1>7, <1>8, <1>9, ServeKeeps

\* A create is not answered: its call may be carried out later.
LEMMA AddUnansweredKeeps ==
  ASSUME IInv, NEW p \in Callers, AddUnanswered(p)
  PROVE  IInv'
<1>0. PICK m \in Models : m = M(p)
  BY AtModel DEF AddUnanswered, At, Holding, Creating, Procs
<1>1. CASE pc[p] = "readd"
  BY <1>1, RotatesKeep
<1>2. CASE pc[p] = "add"
  <2>1. /\ p \in Procs /\ p # Pass /\ pc[p] \in Holding /\ Fault("gateway")
        /\ late' = [late EXCEPT ![m] = loc[p].key] /\ Goto(p, "note")
        /\ UNCHANGED <<row, served, listed, online, todo, touched, known, using>>
    BY <1>0, <1>2, RegistryAssumption DEF AddUnanswered, Procs, Holding, Creating,
       quietStore, quietRest
  <2>2. /\ TypeOK /\ Names /\ Local(p) /\ row[m].status # "new"
        /\ (Timely /\ NeverOffline => Reach(m))
    BY <1>0, <2>1, AtModel
  <2>3. /\ served' \in [Models -> Keys \cup {None}] /\ late' \in [Models -> Keys \cup {None}]
        /\ \A n \in Models \ {m} : served'[n] = served[n] /\ late'[n] = late[n]
    BY <2>1, <2>2 DEF TypeOK, LocType
  <2>4. faults' \in 0 .. MaxFaults /\ (NeverOffline' => NeverOffline) /\ ~Unfailing'
    BY <2>1, <2>2, FaultCounts DEF Unfailing
  <2>5. /\ pc' \in [Procs -> Labels] /\ loc' \in [Procs -> LocType]
        /\ pc'[p] = "note" /\ loc'[p] = loc[p] /\ Others(p) /\ M(p)' = m
    BY <1>0, <2>1, <2>2, GotoMoves DEF Labels, M
  <2>6. Local(p)' /\ Separate(p)
    BY <1>0, <2>1, <2>2, <2>5 DEF Local, Separate, Holder, Holding, Creating
  <2>7. \A q \in Procs \ {p} : M(q) = m => pc[q] \notin {"add", "free"}
    BY <1>0, <1>2, <2>1, <2>2 DEF Names, Apart, Creating
  <2>8. Timely /\ NeverOffline => Reach(m)'
    <3> SUFFICES ASSUME Timely, NeverOffline PROVE Reach(m)'
      OBVIOUS
    <3>1. row[m].status # "gone" /\ ~row[m].aged
      BY <1>0, <1>2, <2>2 DEF Reach
    <3> QED
      BY <2>1, <3>1 DEF Reach
  <2> QED
    BY <2>1, <2>2, <2>3, <2>4, <2>5, <2>6, <2>7, <2>8, ServeKeeps
<1> QED
  BY <1>1, <1>2 DEF AddUnanswered, At

\* A call nobody waits for arrives: no row that is gone or old has one.
LEMMA LateArrivesKeeps ==
  ASSUME IInv, NEW m \in Models, LateArrives(m)
  PROVE  IInv'
<1>0. Pass \in Procs
  BY DEF Procs
<1>1. /\ late[m] # None /\ late' = [late EXCEPT ![m] = None]
      /\ served' = served \/ served' = [served EXCEPT ![m] = late[m]]
      /\ UNCHANGED <<row, listed, online, todo, touched, known, using, faults, pc, loc>>
  BY DEF LateArrives, quietStore, quietRest, NoFault
<1>2. /\ TypeOK /\ Names /\ RowInv(m) /\ Local(Pass) /\ ~Unfailing /\ ~Unfailing'
      /\ (Timely /\ NeverOffline => Reach(m))
      /\ \A q \in Procs : pc[q] \in {"add", "free"} => Unserved(M(q))
  BY <1>0, <1>1 DEF IInv, Names, Local, Reached, Clean, CleanModel, Unfailing
<1>3. /\ served' \in [Models -> Keys \cup {None}] /\ late' \in [Models -> Keys \cup {None}]
      /\ \A n \in Models \ {m} : served'[n] = served[n] /\ late'[n] = late[n]
      /\ faults' \in 0 .. MaxFaults /\ (NeverOffline' => NeverOffline)
  BY <1>1, <1>2 DEF TypeOK, NeverOffline
<1>4. /\ row[m].status # "new"
      /\ \A q \in Procs : M(q) = m => pc[q] \notin {"add", "free"}
  BY <1>1, <1>2 DEF RowInv, Unserved
<1>5. Local(Pass)'
  <2>1. pc[Pass] \notin {"add", "free"} /\ (Holder(Pass) => row[M(Pass)].status = "DELETING")
    BY <1>2 DEF Local
  <2> QED
    BY <1>0, <1>1, <1>2, <2>1, LocalStays
<1>6. Timely /\ NeverOffline => Reach(m)'
  BY <1>1, <1>2, <1>4 DEF Reach, M, Procs
<1>7. /\ pc' \in [Procs -> Labels] /\ loc' \in [Procs -> LocType]
      /\ Others(Pass) /\ Separate(Pass)
  BY <1>0, <1>1, StandsStill
<1>8. pc'[Pass] # "add" /\ (pc[Pass] \notin {"idle", "list"} \/ pc'[Pass] \in {"idle", "list"})
  BY <1>1, <1>2 DEF Local
<1> QED
  BY <1>0, <1>1, <1>2, <1>3, <1>4, <1>5, <1>6, <1>7, <1>8, ServeKeeps

\* LiteLLM's workers and its database, the runs, and a row the pass cannot read: no goroutine
\* moves and no row is written.
LEMMA OutsideKeeps ==
  ASSUME IInv, UNCHANGED <<row, late, pc, loc, known>>,
         served' \in [Models -> Keys \cup {None}], listed' \subseteq Models, online' \in BOOLEAN,
         \A m \in Models : /\ served'[m] \in {served[m], None}
                           /\ m \in listed' => m \in listed \/ served[m] # None
                           /\ m \in listed /\ served'[m] # None => m \in listed',
         todo' \in [Models -> Statuses \cup {None}], touched' \subseteq Models,
         \A m \in Models : todo'[m] \in {todo[m], None},
         using' \in [Runners -> [at : {"idle", "checked", "inFlight"}, model : Models \cup {None}]],
         UsersInv', faults' \in 0 .. MaxFaults,
         Timely /\ NeverOffline' => NeverOffline /\ (online => online'),
         Unfailing' => Unfailing
  PROVE  IInv'
<1>1. TypeOK /\ Names /\ Reached /\ Clean /\ None \notin Statuses
  BY RegistryAssumption DEF IInv
<1>2. TypeOK'
  BY <1>1 DEF TypeOK
<1>3. \A q \in Procs : M(q)' = M(q)
  BY DEF M
<1>4. \A m \in Models : (Undoing(m)' <=> Undoing(m)) /\ (Unserved(m) => Unserved(m)')
  BY <1>3 DEF Undoing, Procs, Unserved
<1>5. Names'
  <2>1. \A q \in Procs : Local(q)'
    <3> SUFFICES ASSUME NEW q \in Procs PROVE Local(q)'
      OBVIOUS
    <3>1. Local(q) /\ (pc[q] \in {"add", "free"} => Unserved(M(q)))
          /\ (Holder(q) => row[M(q)].status = "DELETING")
      BY <1>1 DEF Names, Local
    <3> QED
      BY <1>3, <1>4, <3>1, LocalStays
  <2>2. Apart'
    BY <1>1, <1>3 DEF Names, Apart, Holder
  <2>3. (\A m \in Models : RowInv(m)') /\ OwnAlias'
    BY <1>1, <1>4 DEF Names, RowInv, OwnAlias, Recorded
  <2> QED
    BY <2>1, <2>2, <2>3 DEF Names
<1>6. Reached'
  BY <1>1, <1>3 DEF Reached, Reach, Procs
<1>7. Clean'
  <2> SUFFICES ASSUME Unfailing'
               PROVE  (\A m \in Models : CleanModel(m)') /\ \A q \in Procs : CleanAt(q)'
    BY DEF Clean
  <2>1. /\ \A m \in Models : CleanModel(m)
        /\ \A q \in Procs : CleanAt(q) /\ Local(q)
    BY <1>1 DEF Clean, Names
  <2>2. \A m \in Models : CleanModel(m)'
    <3> SUFFICES ASSUME NEW m \in Models PROVE CleanModel(m)'
      OBVIOUS
    <3>1. todo'[m] = "DELETING" => todo[m] = "DELETING"
      BY <1>1 DEF Statuses
    <3> QED
      BY <1>4, <2>1, <3>1 DEF CleanModel, Live, Recorded
  <2>3. \A q \in Procs : CleanAt(q)'
    <3> SUFFICES ASSUME NEW q \in Procs PROVE CleanAt(q)'
      OBVIOUS
    <3>1. pc[q] = "finish" => M(q) \in Models
      BY <2>1 DEF Local, Holding
    <3> QED
      BY <1>3, <1>4, <2>1, <3>1 DEF CleanAt
  <2> QED
    BY <2>2, <2>3
<1> QED
  BY <1>2, <1>5, <1>6, <1>7 DEF IInv

\* The pass goes on to another label: what it knows is what LiteLLM lists, or what it knew.
LEMMA PassMovesKeep ==
  ASSUME IInv, UNCHANGED <<row, served, listed, online, late, using>>,
         todo' \in [Models -> Statuses \cup {None}], touched' \subseteq Models,
         known' \in [models : SUBSET Models, connected : BOOLEAN],
         pc' \in [Procs -> Labels], loc' \in [Procs -> LocType], Others(Pass),
         pc[Pass] \in {"idle", "list", "ping", "rows"},
         pc'[Pass] \in {"idle", "list", "ping", "rows", "erase"}, Local(Pass)',
         known'.models \subseteq known.models \cup listed,
         Timely /\ NeverOffline /\ pc'[Pass] \notin {"idle", "list"} =>
            \/ listed \subseteq known'.models
            \/ known.models \subseteq known'.models /\ pc[Pass] \notin {"idle", "list"},
         \A m \in Models : todo'[m] # None => \/ todo'[m] = todo[m]
                                              \/ row[m].status = todo'[m] /\ Recorded(m),
         faults' \in 0 .. MaxFaults, NeverOffline' => NeverOffline,
         Unfailing' => Unfailing /\ CleanAt(Pass)'
  PROVE  IInv'
<1>0. Pass \in Procs
  BY DEF Procs
<1>1. TypeOK /\ Names /\ Reached /\ Clean /\ None \notin Statuses
  BY RegistryAssumption DEF IInv
<1>2. TypeOK'
  BY <1>1 DEF TypeOK
<1>3. \A q \in Procs \ {Pass} : M(q)' = M(q) /\ pc'[q] = pc[q] /\ loc'[q] = loc[q]
  BY DEF M, Others
<1>4. \A m \in Models : Unserved(m) => Unserved(m)'
  BY DEF Unserved
<1>5. \A q \in Callers : q \in Procs \ {Pass}
  BY RegistryAssumption DEF Procs
<1>6. \A m \in Models : Undoing(m)' <=> Undoing(m)
  BY <1>3, <1>5 DEF Undoing
<1>7. Names'
  <2>1. \A q \in Procs : Local(q)'
    <3> SUFFICES ASSUME NEW q \in Procs \ {Pass} PROVE Local(q)'
      OBVIOUS
    <3>1. Local(q) /\ (pc[q] \in {"add", "free"} => Unserved(M(q)))
          /\ (Holder(q) => row[M(q)].status = "DELETING")
      BY <1>1 DEF Names, Local
    <3> QED
      BY <1>3, <1>4, <3>1, LocalStays
  <2>2. Apart'
    <3>1. Separate(Pass)
      BY DEF Separate, Holder, Creating
    <3> QED
      BY <1>0, <1>1, <3>1, ApartStays DEF Names
  <2>3. (\A m \in Models : RowInv(m)') /\ OwnAlias' /\ UsersInv'
    <3>1. \A m \in Models : row[m].status = "new" => todo'[m] = None
      BY <1>1 DEF Names, RowInv, Recorded, Statuses
    <3> QED
      BY <1>1, <1>4, <3>1 DEF Names, RowInv, OwnAlias, UsersInv, Recorded
  <2> QED
    BY <2>1, <2>2, <2>3 DEF Names
<1>8. Reached'
  <2> SUFFICES ASSUME Timely, NeverOffline PROVE online' /\ \A m \in Models : Reach(m)'
    BY DEF Reached
  <2>1. online' /\ \A m \in Models : Reach(m)
    BY <1>1 DEF Reached
  <2> QED
    BY <1>3, <1>5, <2>1 DEF Reach
<1>9. Clean'
  <2> SUFFICES ASSUME Unfailing'
               PROVE  (\A m \in Models : CleanModel(m)') /\ \A q \in Procs : CleanAt(q)'
    BY DEF Clean
  <2>1. /\ \A m \in Models : CleanModel(m)
        /\ \A q \in Procs : CleanAt(q) /\ Local(q)
    BY <1>1 DEF Clean, Names
  <2>2. \A m \in Models : CleanModel(m)'
    <3> SUFFICES ASSUME NEW m \in Models PROVE CleanModel(m)'
      OBVIOUS
    <3>1. todo'[m] = "DELETING" => todo[m] = "DELETING" \/ row[m].status = "DELETING"
      BY <1>1 DEF Statuses
    <3> QED
      BY <1>6, <2>1, <3>1 DEF CleanModel, Live, Recorded
  <2>3. \A q \in Procs \ {Pass} : CleanAt(q)'
    <3> SUFFICES ASSUME NEW q \in Procs \ {Pass} PROVE CleanAt(q)'
      OBVIOUS
    <3>1. pc[q] = "finish" => M(q) \in Models
      BY <2>1 DEF Local, Holding
    <3> QED
      BY <1>3, <1>6, <2>1, <3>1 DEF CleanAt
  <2> QED
    BY <2>2, <2>3
<1> QED
  BY <1>2, <1>7, <1>8, <1>9 DEF IInv

\* The pass reads the collection, then LiteLLM's list, then whether it is connected, and ends.
LEMMA PassLooksKeep ==
  ASSUME IInv, PassReads \/ PassLists \/ PassPings \/ PassEnds \/ PassFails
  PROVE  IInv'
<1>1. /\ TypeOK /\ Pass \in Procs /\ NoNews \in [models : SUBSET Models, connected : BOOLEAN]
      /\ NoTodo \in [Models -> Statuses \cup {None}] /\ \A m \in Models : NoTodo[m] = None
      /\ {} \subseteq Models
  BY DEF IInv, Procs, NoNews, NoTodo
<1>2. /\ UNCHANGED <<row, served, listed, online, late, using>>
      /\ pc[Pass] \in {"idle", "list", "ping", "rows"}
  BY DEF PassReads, PassLists, PassPings, PassEnds, PassFails, At,
     quietGateway, quietStore, NoFault
<1>3. PICK label \in {"idle", "list", "ping", "rows"} : Goto(Pass, label)
  BY DEF PassReads, PassLists, PassPings, PassEnds, PassFails
<1>4. /\ pc' \in [Procs -> Labels] /\ loc' \in [Procs -> LocType]
      /\ pc'[Pass] = label /\ Others(Pass)
  BY <1>1, <1>3, GotoMoves DEF Labels
<1>5. Local(Pass)' /\ CleanAt(Pass)'
  BY <1>3, <1>4 DEF Local, CleanAt, Holder, Holding, Creating
<1>6. /\ faults' \in 0 .. MaxFaults /\ (NeverOffline' => NeverOffline)
      /\ (Unfailing' => Unfailing)
  <2>1. CASE PassFails
    <3>1. Fault("gateway")
      BY <2>1 DEF PassFails
    <3> QED
      BY <1>1, <3>1, FaultCounts DEF Unfailing
  <2>2. CASE NoFault
    BY <1>1, <2>2 DEF NoFault, TypeOK, NeverOffline, Unfailing
  <2> QED
    BY <2>1, <2>2 DEF PassReads, PassLists, PassPings, PassEnds
<1>7. ASSUME todo' \in [Models -> Statuses \cup {None}], touched' \subseteq Models,
             known' \in [models : SUBSET Models, connected : BOOLEAN],
             known'.models \subseteq known.models \cup listed,
             Timely /\ NeverOffline /\ pc'[Pass] \notin {"idle", "list"} =>
                \/ listed \subseteq known'.models
                \/ known.models \subseteq known'.models /\ pc[Pass] \notin {"idle", "list"},
             \A m \in Models : todo'[m] # None => \/ todo'[m] = todo[m]
                                                  \/ row[m].status = todo'[m] /\ Recorded(m)
      PROVE  IInv'
  BY <1>2, <1>3, <1>4, <1>5, <1>6, <1>7, PassMovesKeep
<1>8. CASE PassReads
  <2>1. /\ todo' = [m \in Models |-> IF Live(m) THEN row[m].status ELSE None]
        /\ touched' = {} /\ known' = NoNews /\ Goto(Pass, "list")
    BY <1>8 DEF PassReads
  <2>2. pc'[Pass] = "list"
    BY <1>1, <2>1, GotoMoves DEF Labels
  <2>3. \A m \in Models : Live(m) => row[m].status \in Statuses /\ Recorded(m)
    BY DEF Live, Recorded
  <2> QED
    BY <1>1, <1>7, <2>1, <2>2, <2>3 DEF NoNews
<1>9. CASE PassLists
  <2>1. /\ known' = [known EXCEPT !.models = IF online THEN listed ELSE {}]
        /\ UNCHANGED <<todo, touched>>
    BY <1>9 DEF PassLists, quietStore
  <2>2. /\ known' \in [models : SUBSET Models, connected : BOOLEAN]
        /\ known'.models = IF online THEN listed ELSE {}
    BY <1>1, <2>1 DEF TypeOK
  <2>3. Timely /\ NeverOffline => online
    BY DEF IInv, Reached
  <2> QED
    BY <1>1, <1>7, <2>1, <2>2, <2>3 DEF TypeOK
<1>10. CASE PassPings
  <2>1. /\ known' = [known EXCEPT !.connected = online] /\ UNCHANGED <<todo, touched>>
        /\ pc[Pass] = "ping"
    BY <1>10 DEF PassPings, quietStore, At
  <2>2. /\ known' \in [models : SUBSET Models, connected : BOOLEAN]
        /\ known'.models = known.models
    BY <1>1, <2>1 DEF TypeOK
  <2> QED
    BY <1>1, <1>7, <2>1, <2>2 DEF TypeOK
<1>11. CASE PassEnds \/ PassFails
  <2>1. /\ known' = NoNews /\ Goto(Pass, "idle")
        /\ (todo' = todo \/ todo' = NoTodo) /\ (touched' = touched \/ touched' = {})
    BY <1>11 DEF PassEnds, PassFails, quietStore
  <2>2. pc'[Pass] = "idle"
    BY <1>1, <2>1, GotoMoves DEF Labels
  <2>3. todo' \in [Models -> Statuses \cup {None}] /\ touched' \subseteq Models
    BY <1>1, <2>1 DEF TypeOK
  <2>4. \A m \in Models : todo'[m] # None => todo'[m] = todo[m]
    BY <1>1, <2>1
  <2> QED
    BY <1>1, <1>7, <2>1, <2>2, <2>3, <2>4 DEF NoNews
<1> QED
  BY <1>8, <1>9, <1>10, <1>11

\* The pass takes up a delete that somebody left.
LEMMA PassDeletesKeeps ==
  ASSUME IInv, NEW m \in Models, PassDeletes(m)
  PROVE  IInv'
<1>1. /\ TypeOK /\ Names /\ Pass \in Procs /\ pc[Pass] = "rows" /\ todo[m] = "DELETING"
      /\ UNCHANGED <<row, served, listed, online, late, using, known, faults>>
      /\ todo' = [todo EXCEPT ![m] = None] /\ touched' = touched \ {m}
  BY DEF IInv, Procs, PassDeletes, At, quietGateway, NoFault
<1> DEFINE what == [Nothing EXCEPT !.model = m]
<1>2. what \in LocType /\ what.model = m /\ Hold(Pass, "erase", what)
  BY DEF LocType, Nothing, PassDeletes
<1> HIDE DEF what
<1>3. /\ pc' \in [Procs -> Labels] /\ loc' \in [Procs -> LocType]
      /\ pc'[Pass] = "erase" /\ loc'[Pass] = what /\ Others(Pass) /\ M(Pass)' = m
  BY <1>1, <1>2, HoldMoves DEF Labels, M
<1>4. row[m].status # "new" /\ todo'[m] = None
  BY <1>1, RegistryAssumption DEF Names, RowInv, TypeOK, Statuses
<1>5. Local(Pass)'
  BY <1>1, <1>3, <1>4 DEF Local, Holder, Holding, Creating
<1>6. Unfailing' => Unfailing /\ CleanAt(Pass)'
  <2>1. Unfailing' => Unfailing
    BY <1>1 DEF Unfailing
  <2>2. Unfailing => (~row[m].named => row[m].status = "DELETING")
    BY <1>1 DEF IInv, Clean, CleanModel
  <2> QED
    BY <1>1, <1>3, <2>1, <2>2 DEF CleanAt
<1>7. /\ todo' \in [Models -> Statuses \cup {None}] /\ touched' \subseteq Models
      /\ \A n \in Models : todo'[n] # None => todo'[n] = todo[n]
      /\ known' \in [models : SUBSET Models, connected : BOOLEAN]
      /\ faults' \in 0 .. MaxFaults /\ (NeverOffline' => NeverOffline)
  BY <1>1 DEF TypeOK, NeverOffline
<1> QED
  BY <1>1, <1>3, <1>5, <1>6, <1>7, PassMovesKeep

\* LiteLLM's workers poll, its database is reset, it loses its database and is connected
\* again, and the pass skips a row it cannot read.
LEMMA GatewayKeeps ==
  ASSUME IInv, \/ Poll \/ DatabaseReset \/ Disconnect \/ Reconnect
               \/ \E m \in Models : PassSkips(m)
  PROVE  IInv'
<1>1. TypeOK /\ UsersInv /\ Reached
  BY DEF IInv, Names
<1>2. UNCHANGED <<row, late, pc, loc, known, using>>
  BY DEF Poll, DatabaseReset, Disconnect, Reconnect, PassSkips, quietStore, quietRest, quietGateway
<1>3. UsersInv'
  BY <1>1, <1>2 DEF UsersInv
<1>4. CASE NoFault
  <2>1. faults' \in 0 .. MaxFaults /\ (NeverOffline' => NeverOffline) /\ (Unfailing' => Unfailing)
    BY <1>1, <1>4 DEF NoFault, TypeOK, NeverOffline, Unfailing
  <2>2. CASE Poll
    <3>1. /\ listed' = {m \in Models : served[m] # None}
          /\ UNCHANGED <<served, online, todo, touched>>
      BY <2>2 DEF Poll, quietStore, quietRest
    <3> QED
      BY <1>1, <1>2, <1>3, <2>1, <3>1, OutsideKeeps DEF TypeOK
  <2>3. CASE Reconnect
    <3>1. online' = TRUE /\ UNCHANGED <<served, listed, todo, touched>>
      BY <2>3 DEF Reconnect, quietStore, quietRest
    <3> QED
      BY <1>1, <1>2, <1>3, <2>1, <3>1, OutsideKeeps DEF TypeOK
  <2>4. CASE ~Poll /\ ~Reconnect
    <3>1. \E kind : Fault(kind)
      BY <2>4 DEF DatabaseReset, Disconnect, PassSkips
    <3> QED
      BY <1>1, <1>4, <3>1, FaultCounts DEF NoFault, Fault, TypeOK
  <2> QED
    BY <2>2, <2>3, <2>4
<1>5. CASE DatabaseReset
  <2>1. /\ Fault("reset") /\ served' = [m \in Models |-> None]
        /\ UNCHANGED <<listed, online, todo, touched>>
    BY <1>5 DEF DatabaseReset, quietStore, quietRest
  <2>2. faults' \in 0 .. MaxFaults /\ (NeverOffline' => NeverOffline) /\ ~Unfailing'
    BY <1>1, <2>1, FaultCounts DEF Unfailing
  <2> QED
    BY <1>1, <1>2, <1>3, <2>1, <2>2, OutsideKeeps DEF TypeOK
<1>6. CASE Disconnect
  <2>1. /\ Fault("offline") /\ online' = FALSE /\ UNCHANGED <<served, listed, todo, touched>>
    BY <1>6 DEF Disconnect, quietStore, quietRest
  <2>2. faults' \in 0 .. MaxFaults /\ ~NeverOffline' /\ ~Unfailing'
    BY <1>1, <2>1, FaultCounts DEF Unfailing
  <2> QED
    BY <1>1, <1>2, <1>3, <2>1, <2>2, OutsideKeeps DEF TypeOK
<1>7. CASE \E m \in Models : PassSkips(m)
  <2>1. PICK m \in Models : PassSkips(m)
    BY <1>7
  <2>2. /\ Fault("mongo") /\ UNCHANGED <<served, listed, online>>
        /\ todo' = [todo EXCEPT ![m] = None] /\ touched' = touched \ {m}
    BY <2>1 DEF PassSkips, quietGateway
  <2>3. faults' \in 0 .. MaxFaults /\ (NeverOffline' => NeverOffline) /\ ~Unfailing'
    BY <1>1, <2>2, FaultCounts DEF Unfailing
  <2> QED
    BY <1>1, <1>2, <1>3, <2>2, <2>3, OutsideKeeps DEF TypeOK
<1> QED
  BY <1>4, <1>5, <1>6, <1>7 DEF Poll, Reconnect

\* Runs name a model that is ACTIVE, then use it and end.
LEMMA RunKeeps ==
  ASSUME IInv, NEW u \in Runners, Run(u)
  PROVE  IInv'
<1>1. /\ TypeOK /\ Names
      /\ UNCHANGED <<row, served, listed, online, late, pc, loc, todo, touched, known, faults>>
  BY DEF IInv, Run, RunCreated, RunEnds, RunChecked, quietGateway, quietStore, NoFault
<1>2. /\ faults' \in 0 .. MaxFaults /\ (NeverOffline' => NeverOffline) /\ (Unfailing' => Unfailing)
  BY <1>1 DEF TypeOK, NeverOffline, Unfailing
<1>3. /\ using' \in [Runners -> [at : {"idle", "checked", "inFlight"}, model : Models \cup {None}]]
      /\ UsersInv'
  <2>1. CASE RunCreated(u)
    BY <1>1, <2>1 DEF RunCreated, TypeOK, Names, UsersInv
  <2>2. CASE RunEnds(u)
    BY <1>1, <2>2 DEF RunEnds, TypeOK, Names, UsersInv
  <2>3. CASE \E m \in Models : RunChecked(u, m)
    <3>1. PICK m \in Models : RunChecked(u, m)
      BY <2>3
    <3>2. /\ row[m].named
          /\ using' = [using EXCEPT ![u] = [at |-> "checked", model |-> m]]
      BY <1>1, <3>1 DEF RunChecked, Holds, Names, RowInv
    <3> QED
      BY <1>1, <3>2 DEF TypeOK, Names, UsersInv
  <2> QED
    BY <2>1, <2>2, <2>3 DEF Run
<1> QED
  BY <1>1, <1>2, <1>3, OutsideKeeps DEF TypeOK

\* The server restarts: only calls of a create or a rotation may still arrive, and the rows
\* of these are neither gone nor old.
LEMMA CrashKeeps ==
  ASSUME IInv, Crash
  PROVE  IInv'
<1>1. /\ TypeOK /\ Names /\ Reached
      /\ UNCHANGED <<row, served, listed, online, using>>
      /\ Fault("crash") /\ todo' = NoTodo /\ touched' = {} /\ known' = NoNews
      /\ \A p \in Procs : pc'[p] = "idle" /\ loc'[p] = Nothing
  BY DEF IInv, Crash
<1>2. PICK sent \in SUBSET {m \in Models : late[m] = None /\ Requested(m) # {}} :
        late' = [m \in Models |-> IF m \in sent THEN CHOOSE k \in Requested(m) : TRUE
                                  ELSE late[m]]
  BY DEF Crash
<1>3. faults' \in 0 .. MaxFaults /\ (NeverOffline' => NeverOffline) /\ ~Unfailing'
  BY <1>1, FaultCounts DEF Unfailing
<1>4. ASSUME NEW m \in sent
      PROVE  /\ \E q \in Callers : M(q) = m /\ pc[q] \in {"add", "readd"}
             /\ (CHOOSE k \in Requested(m) : TRUE) \in Keys \cup {None}
             /\ row[m].status # "new"
             /\ Timely /\ NeverOffline =>
                   row[m].status # "gone" /\ (row[m].aged => row[m].named)
  <2>1. PICK q \in Callers : M(q) = m /\ pc[q] \in {"add", "readd"}
    BY <1>2 DEF Requested
  <2>2. \A k \in Requested(m) : k \in Keys \cup {None}
    BY <1>1 DEF Requested, TypeOK, LocType, Procs
  <2>3. (CHOOSE k \in Requested(m) : TRUE) \in Requested(m)
    BY <1>2
  <2>4. Local(q) /\ m \in Models /\ RowInv(m)
    BY <1>1, <1>2 DEF Names, Procs
  <2>5. pc[q] = "readd" => row[m].named
    BY <2>1, <2>4 DEF Local
  <2>6. pc[q] = "add" => Unserved(m) /\ row[m].status # "new"
    BY <2>1, <2>4 DEF Local, Holding, Creating
  <2>7. row[m].named => Recorded(m)
    BY <2>4 DEF RowInv
  <2>8. Timely /\ NeverOffline => Reach(m)
    BY <1>1, <2>4 DEF Reached
  <2> QED
    BY <2>1, <2>2, <2>3, <2>5, <2>6, <2>7, <2>8 DEF Reach, Recorded, Statuses
<1>5. TypeOK'
  <2>1. late' \in [Models -> Keys \cup {None}]
    BY <1>1, <1>2, <1>4 DEF TypeOK
  <2>2. pc' \in [Procs -> Labels] /\ loc' \in [Procs -> LocType]
    BY DEF Crash, Labels, LocType, Nothing
  <2>3. todo' \in [Models -> Statuses \cup {None}] /\ touched' \subseteq Models
        /\ known' \in [models : SUBSET Models, connected : BOOLEAN]
    BY <1>1 DEF NoTodo, NoNews
  <2> QED
    BY <1>1, <1>3, <2>1, <2>2, <2>3 DEF TypeOK
<1>6. Names'
  <2>1. \A p \in Procs : Local(p)' /\ ~Holder(p)' /\ pc'[p] \notin Creating
    BY <1>1 DEF Local, Holder, Holding, Creating
  <2>2. Apart'
    BY <2>1 DEF Apart
  <2>3. \A m \in Models : RowInv(m)'
    <3> SUFFICES ASSUME NEW m \in Models PROVE RowInv(m)'
      OBVIOUS
    <3>1. RowInv(m)
      BY <1>1 DEF Names
    <3>2. row[m].status = "new" => late'[m] = late[m]
      BY <1>2, <1>4
    <3> QED
      BY <1>1, <3>1, <3>2 DEF RowInv, Unserved, NoTodo, NoNews, Recorded
  <2> QED
    BY <1>1, <2>1, <2>2, <2>3 DEF Names, OwnAlias, UsersInv, Recorded
<1>7. Reached'
  <2> SUFFICES ASSUME Timely, NeverOffline PROVE online' /\ \A m \in Models : Reach(m)'
    BY <1>3 DEF Reached
  <2> SUFFICES ASSUME NEW m \in Models PROVE Reach(m)'
    BY <1>1 DEF Reached
  <2>1. Reach(m)
    BY <1>1 DEF Reached
  <2>2. row[m].status = "gone" \/ (row[m].aged /\ ~row[m].named) => late'[m] = late[m]
    BY <1>2, <1>4
  <2>3. pc'[Pass] = "idle" /\ \A q \in Callers : pc'[q] = "idle"
    BY <1>1 DEF Procs
  <2> QED
    BY <1>1, <2>1, <2>2, <2>3 DEF Reach
<1> QED
  BY <1>3, <1>5, <1>6, <1>7 DEF IInv, Clean

-----------------------------------------------------------------------------
(* The inductive invariant *)

LEMMA InitHolds == Init => IInv
<1> SUFFICES ASSUME Init PROVE IInv
  OBVIOUS
<1>1. TypeOK
  BY RegistryAssumption
     DEF Init, TypeOK, RowType, LocType, Nothing, NoTodo, NoNews, Labels, Statuses
<1>2. Names
  BY DEF Init, Names, Local, Apart, RowInv, OwnAlias, UsersInv, Unserved, Recorded, Statuses,
         Holder, Holding, Creating, NoTodo, NoNews
<1>3. Reached
  BY DEF Init, Reached, Reach, Procs
<1>4. Clean
  BY RegistryAssumption DEF Init, Clean, CleanModel, CleanAt, NoTodo, Statuses
<1> QED
  BY <1>1, <1>2, <1>3, <1>4 DEF IInv

LEMMA StutterKeeps == IInv /\ UNCHANGED vars => IInv'
<1> SUFFICES ASSUME IInv, UNCHANGED vars PROVE IInv'
  OBVIOUS
<1>1. /\ UNCHANGED <<row, served, listed, online, late, pc, loc, todo, touched, known, using, faults>>
  BY DEF vars, pass
<1>2. TypeOK /\ UsersInv
  BY DEF IInv, Names
<1>3. UsersInv' /\ (NeverOffline' => NeverOffline) /\ (Unfailing' => Unfailing)
  BY <1>1, <1>2 DEF UsersInv, NeverOffline, Unfailing
<1> QED
  BY <1>1, <1>2, <1>3, OutsideKeeps DEF TypeOK

LEMMA NextKeeps == IInv /\ [Next]_vars => IInv'
<1> SUFFICES ASSUME IInv, [Next]_vars PROVE IInv'
  OBVIOUS
<1>0. Callers \subseteq Procs /\ Pass \in Procs /\ Pass \notin Callers
  BY RegistryAssumption DEF Procs
<1>1. ASSUME NEW p \in Callers, CreateStep(p) PROVE IInv'
  BY <1>0, <1>1, CreateInsertsKeeps, CreateAddsKeeps, CreateMarksKeeps, CreateMovesKeep,
     RemovesKeep, CreateFreesKeeps DEF CreateStep
<1>2. ASSUME NEW p \in Callers, DeleteStep(p) \/ RotateStep(p) PROVE IInv'
  BY <1>2, DeleteClaimsKeeps, DeleteGuardsKeep, DeleteRevertsKeeps, RotatesKeep,
     RotateConfirmsKeeps DEF DeleteStep, RotateStep
<1>3. ASSUME NEW p \in Procs, Finishes(p) \/ EraseUnanswered(p) \/ StoreFails(p) PROVE IInv'
  <2>1. pc[p] = "erase" => ~CreateUndoes(p)
    BY DEF CreateUndoes, At
  <2>2. Erase(p) \/ EraseUnanswered(p) => pc[p] = "erase"
    BY DEF Erase, EraseUnanswered, At
  <2> QED
    BY <1>3, <2>1, <2>2, RemovesKeep, FinishKeeps, RecordErrorKeeps, FailuresKeep DEF Finishes
<1>4. ASSUME NEW p \in Callers, Request(p) \/ Trouble(p) PROVE IInv'
  BY <1>0, <1>3, <1>4, BeginKeeps, CreateMovesKeep, FailuresKeep, AddUnansweredKeeps,
     DeleteGuardsKeep, RotatesKeep DEF Trouble
<1>5. ASSUME PassStep \/ PassTrouble PROVE IInv'
  BY <1>0, <1>3, <1>5, PassLooksKeep, PassSettlesKeeps, PassDeletesKeeps, GatewayKeeps
     DEF PassStep, PassTrouble
<1>6. ASSUME Outside PROVE IInv'
  BY <1>6, GatewayKeeps, CrashKeeps, LateArrivesKeeps, AgeKeeps DEF Outside
<1> QED
  BY <1>0, <1>1, <1>2, <1>3, <1>4, <1>5, <1>6, RunKeeps, StutterKeeps DEF Next, CallerStep

\* The registry's invariant (IInv above): what rows, LiteLLM's database, the calls a client
\* gave up on and the goroutines of service.go and reconcile.go have to do with one another,
\* whatever fails and in every order of their MongoDB and HTTP calls.
THEOREM Inductive == Spec => []IInv
BY InitHolds, NextKeeps, PTL DEF Spec

-----------------------------------------------------------------------------
(* What follows *)

\* Every variable of the registry keeps its type: statuses, the labels of the goroutines
\* of service.go and reconcile.go, and what they hold.
THEOREM Typing == Spec => []TypeOK
<1>1. IInv => TypeOK
  BY DEF IInv
<1> QED
  BY <1>1, Inductive, PTL

\* An alias that runs could name never names a second model, whatever fails and however late
\* calls are: deletes (service.go, Delete), which return a row to the status it had, never
\* leave a model that was ACTIVE to be freed by a create or by the pass.
THEOREM AliasStaysWithItsModel == Spec => []AliasNamesOneModel
<1>1. IInv => AliasNamesOneModel
  BY DEF IInv, Names, RowInv, OwnAlias, AliasNamesOneModel
<1> QED
  BY <1>1, Inductive, PTL

\* If no call outlives the grace periods and LiteLLM's list is never empty for want of its
\* database, LiteLLM never serves two models under one alias: the pass (reconcile.go) and a
\* failed create free an alias only when LiteLLM cannot serve its model.
THEOREM OneServed ==
  ASSUME Timely, "offline" \notin FaultKinds
  PROVE  Spec => []OneServedPerAlias
<1>1. IInv => OneServedPerAlias
  <2> SUFFICES ASSUME IInv, NEW m \in Models, NEW q \in Models, m # q,
                      served[m] # None, served[q] # None
               PROVE  row[m].alias # row[q].alias
    BY DEF OneServedPerAlias
  <2>1. \A n \in Models : served[n] # None => Recorded(n)
    BY DEF IInv, Reached, NeverOffline, Reach, Names, RowInv, Unserved, TypeOK, RowType, Recorded
  <2> QED
    BY <2>1 DEF IInv, Names, OwnAlias
<1> QED
  BY <1>1, Inductive, PTL

\* While no call fails and keys are not rotated, LiteLLM holds no model without a live record
\* once nothing is under way: a create that lost its row to a delete takes its model back
\* (settleRacedCreate), and a delete that has begun to erase is not given up.
THEOREM NothingIsLeft ==
  ASSUME Timely, "key" \notin Requests
  PROVE  Spec => []NothingUnrecorded
<1>1. IInv => NothingUnrecorded
  <2> SUFFICES ASSUME IInv, Quiet, faults = 0, NEW m \in Models, served[m] # None
               PROVE  Live(m)
    BY DEF NothingUnrecorded
  <2>1. CleanModel(m)
    BY DEF IInv, Clean, Unfailing
  <2>2. ~Undoing(m)
    BY DEF Quiet, Undoing, Procs
  <2> QED
    BY <2>1, <2>2 DEF CleanModel
<1> QED
  BY <1>1, Inductive, PTL
==============================================================================
