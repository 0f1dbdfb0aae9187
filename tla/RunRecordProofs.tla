--------------------------- MODULE RunRecordProofs ---------------------------
(***************************************************************************)
(* Proofs about RunRecord, for any number of runs, goroutines, faults and  *)
(* any length of the list of copies.                                       *)
(*                                                                         *)
(* The argument: whoever has closed a run's document and not yet its copy  *)
(* is past the point where the document could still be open, because a     *)
(* document that is completed is written by nobody but another stop or     *)
(* expiry, and one that exists is never created again.                     *)
(***************************************************************************)
EXTENDS RunRecord, SequenceTheorems, TLAPS

\* A run nobody has created is open in both records.
Untouched ==
    \A r \in Runs : run[r].phase = "None" =>
        ~run[r].completed /\ ~run[r].uid /\ ~copy[r].completed

OnlyDeletable == \A r \in Runs : run[r].removed => r \in Deletable

\* What a goroutine knows of its run.
Known(p) ==
    /\ pc[p] \in {"txn", "doc", "copy"} => loc[p].run \in Runs /\ loc[p].phase # "None"
    /\ pc[p] \in {"doc", "copy"} => run[loc[p].run].phase # "None"
    /\ pc[p] = "copy" /\ loc[p].run \notin Deletable => run[loc[p].run].completed

Records == Untouched /\ OnlyDeletable /\ CopyNeverAhead
IInv == TypeOK /\ Records /\ \A p \in Procs : Known(p)

\* A copy that is shown as over is not reopened by this step.
StaysClosed == \A r \in Runs : copy[r].completed => copy'[r].completed

-----------------------------------------------------------------------------
(* Lemmas on the parts *)

\* $push with $slice keeps a list of runs of bounded length.
LEMMA PushedIsList ==
  ASSUME NEW r \in Runs, recent \in Seq(Runs), Len(recent) <= RecentRuns
  PROVE  Pushed(r) \in Seq(Runs) /\ Len(Pushed(r)) <= RecentRuns
<1> DEFINE s == <<r>> \o recent
           n == IF Len(recent) < RecentRuns THEN Len(recent) + 1 ELSE RecentRuns
<1>1. <<r>> \in Seq(Runs) /\ Len(<<r>>) = 1 /\ <<r>>[1] = r
  OBVIOUS
<1>2. s \in Seq(Runs) /\ Len(s) = 1 + Len(recent)
  BY <1>1, ConcatProperties
<1>3. n \in Nat \ {0} /\ n <= Len(s) /\ n <= RecentRuns
  BY <1>2, RecordAssumption
<1> HIDE DEF s, n
<1>4. \A i \in 1 .. n : s[i] \in Runs
  BY <1>2, <1>3, ElementOfSeq
<1>5. SubSeq(s, 1, n) \in Seq(Runs) /\ Len(SubSeq(s, 1, n)) = n
  BY <1>3, <1>4, SubSeqProperties
<1> QED
  BY <1>3, <1>5 DEF Pushed, s, n

\* Where a goroutine goes, the others stay.
LEMMA GotoMoves ==
  ASSUME TypeOK, NEW p \in Procs, NEW label \in {"idle", "create", "txn", "doc", "copy"},
         NEW known \in LocType, Goto(p, label, known)
  PROVE  /\ pc' \in [Procs -> {"idle", "create", "txn", "doc", "copy"}]
         /\ loc' \in [Procs -> LocType]
         /\ pc'[p] = label /\ loc'[p] = known
         /\ \A q \in Procs \ {p} : pc'[q] = pc[q] /\ loc'[q] = loc[q]
BY DEF TypeOK, Goto

LEMMA ReturnMoves ==
  ASSUME TypeOK, NEW p \in Procs, Return(p)
  PROVE  /\ pc' \in [Procs -> {"idle", "create", "txn", "doc", "copy"}]
         /\ loc' \in [Procs -> LocType]
         /\ pc'[p] = "idle"
         /\ \A q \in Procs \ {p} : pc'[q] = pc[q] /\ loc'[q] = loc[q]
<1>1. Nothing \in LocType
  BY DEF Nothing, LocType, Phases
<1> QED
  BY <1>1 DEF TypeOK, Return

\* No run is forgotten or reopened: what the other goroutines know stays true.
LEMMA KnownStays ==
  ASSUME TypeOK, \A q \in Procs : Known(q),
         \A r \in Runs : /\ run[r].phase # "None" => run'[r].phase # "None"
                         /\ run[r].completed => run'[r].completed,
         NEW p \in Procs, Known(p)',
         \A q \in Procs \ {p} : pc'[q] = pc[q] /\ loc'[q] = loc[q]
  PROVE  \A q \in Procs : Known(q)'
<1> SUFFICES ASSUME NEW q \in Procs \ {p} PROVE Known(q)'
  OBVIOUS
<1> QED
  BY DEF Known

\* A step of the cluster or of a failing call writes neither record.
LEMMA RecordsStay ==
  ASSUME IInv, UNCHANGED <<run, copy, recent, total>>,
         wf' \in [Runs -> {"none", "active", "lost", "finished", "reported"}],
         pc' \in [Procs -> {"idle", "create", "txn", "doc", "copy"}],
         loc' \in [Procs -> LocType], faults' \in 0 .. MaxFaults,
         \A p \in Procs : Known(p)'
  PROVE  IInv' /\ StaysClosed
<1>1. TypeOK /\ Records
  BY DEF IInv
<1>2. TypeOK'
  BY <1>1 DEF TypeOK, Listed
<1>3. Records'
  BY <1>1 DEF Records, Untouched, OnlyDeletable, CopyNeverAhead
<1> QED
  BY <1>2, <1>3 DEF IInv, StaysClosed

LEMMA FailKeeps ==
  ASSUME IInv, NEW p \in Procs, Return(p), UNCHANGED <<run, copy, recent, total, wf>>,
         faults' \in 0 .. MaxFaults
  PROVE  IInv' /\ StaysClosed
<1>1. TypeOK /\ \A q \in Procs : Known(q)
  BY DEF IInv
<1>2. Known(p)'
  BY <1>1, ReturnMoves DEF Known
<1>3. \A q \in Procs : Known(q)'
  BY <1>1, <1>2, ReturnMoves, KnownStays
<1> QED
  BY <1>1, <1>3, ReturnMoves, RecordsStay DEF TypeOK

-----------------------------------------------------------------------------
(* RunChaosWorkFlow *)

LEMMA StartReadsKeeps ==
  ASSUME IInv, NEW s \in Starters, StartReads(s)
  PROVE  IInv' /\ StaysClosed
<1> DEFINE known == [Nothing EXCEPT !.total = total]
<1>1. TypeOK /\ (\A q \in Procs : Known(q)) /\ s \in Procs
  BY DEF IInv, Procs
<1>2. Goto(s, "create", known) /\ UNCHANGED <<run, copy, recent, total, wf, faults>>
  BY DEF StartReads
<1>3. known \in LocType
  BY <1>1 DEF TypeOK, LocType, Nothing, Phases
<1> HIDE DEF known
<1>4. Known(s)'
  BY <1>1, <1>2, <1>3, GotoMoves DEF Known
<1>5. \A q \in Procs : Known(q)'
  BY <1>1, <1>2, <1>3, <1>4, GotoMoves, KnownStays
<1> QED
  BY <1>1, <1>2, <1>3, <1>5, GotoMoves, RecordsStay DEF TypeOK

\* Both records of a run that was not there.
LEMMA CreationKeeps ==
  ASSUME IInv, NEW p \in Procs, NEW r \in Runs, run[r].phase = "None", Return(p),
         NEW new \in RunType, new.phase # "None", ~new.removed,
         NEW shown \in CopyType, ~shown.completed,
         run' = [run EXCEPT ![r] = new], copy' = [copy EXCEPT ![r] = shown],
         recent' = Pushed(r), total' \in Nat,
         wf' \in [Runs -> {"none", "active", "lost", "finished", "reported"}],
         UNCHANGED faults
  PROVE  IInv' /\ StaysClosed
<1>1. /\ TypeOK /\ Records /\ (\A q \in Procs : Known(q))
      /\ run \in [Runs -> RunType] /\ copy \in [Runs -> CopyType]
  BY DEF IInv, TypeOK
<1>2. /\ run' \in [Runs -> RunType] /\ copy' \in [Runs -> CopyType]
      /\ run'[r] = new /\ copy'[r] = shown
      /\ \A q \in Runs \ {r} : run'[q] = run[q] /\ copy'[q] = copy[q]
  BY <1>1
<1>3. TypeOK'
  BY <1>1, <1>2, ReturnMoves, PushedIsList DEF TypeOK
<1>4. ~run[r].completed /\ ~copy[r].completed
  BY <1>1 DEF Records, Untouched
<1>5. Records'
  <2>1. Untouched'
    BY <1>1, <1>2 DEF Records, Untouched
  <2>2. OnlyDeletable'
    BY <1>1, <1>2 DEF Records, OnlyDeletable
  <2>3. CopyNeverAhead'
    BY <1>1, <1>2 DEF Records, CopyNeverAhead
  <2> QED
    BY <2>1, <2>2, <2>3 DEF Records
<1>6. \A q \in Procs : Known(q)'
  <2>1. \A q \in Runs : /\ run[q].phase # "None" => run'[q].phase # "None"
                        /\ run[q].completed => run'[q].completed
    BY <1>2, <1>4
  <2>2. Known(p)'
    BY <1>1, ReturnMoves DEF Known
  <2> QED
    BY <1>1, <2>1, <2>2, ReturnMoves, KnownStays
<1>7. StaysClosed
  BY <1>2, <1>4 DEF StaysClosed
<1> QED
  BY <1>3, <1>5, <1>6, <1>7 DEF IInv

LEMMA StartCreatesKeeps ==
  ASSUME IInv, NEW s \in Starters, StartCreates(s)
  PROVE  IInv' /\ StaysClosed
<1>1. PICK r \in ServerRuns, fate \in {"active", "lost"} :
          /\ run[r].phase = "None"
          /\ run' = [run EXCEPT ![r] = [phase |-> "Queued", completed |-> FALSE, uid |-> FALSE,
                                        removed |-> FALSE, seq |-> loc[s].total + 1]]
          /\ copy' = [copy EXCEPT ![r] = [phase |-> "Queued", completed |-> FALSE, uid |-> FALSE]]
          /\ recent' = Pushed(r)
          /\ wf' = [wf EXCEPT ![r] = fate]
  BY DEF StartCreates
<1>2. TypeOK /\ s \in Procs /\ r \in Runs
  BY DEF IInv, Procs, Runs
<1>3. loc[s].total \in Nat /\ wf' \in [Runs -> {"none", "active", "lost", "finished", "reported"}]
  BY <1>1, <1>2 DEF TypeOK, LocType
<1> DEFINE new == [phase |-> "Queued", completed |-> FALSE, uid |-> FALSE,
                   removed |-> FALSE, seq |-> loc[s].total + 1]
           shown == [phase |-> "Queued", completed |-> FALSE, uid |-> FALSE]
<1>4. /\ new \in RunType /\ new.phase # "None" /\ ~new.removed
      /\ shown \in CopyType /\ ~shown.completed
  BY <1>3 DEF RunType, CopyType, Phases
<1>5. total' \in Nat /\ Return(s) /\ UNCHANGED faults
  BY <1>3 DEF StartCreates
<1>6. run' = [run EXCEPT ![r] = new] /\ copy' = [copy EXCEPT ![r] = shown]
  BY <1>1
<1> HIDE DEF new, shown
<1> QED
  BY <1>1, <1>2, <1>3, <1>4, <1>5, <1>6, CreationKeeps

LEMMA StartFailsKeeps ==
  ASSUME IInv, NEW s \in Starters, StartFails(s)
  PROVE  IInv' /\ StaysClosed
<1>1. s \in Procs /\ Return(s) /\ UNCHANGED <<run, copy, recent, total, wf>>
  BY DEF StartFails, Procs
<1>2. faults' \in 0 .. MaxFaults
  BY RecordAssumption DEF StartFails, Fault, IInv, TypeOK
<1> QED
  BY <1>1, <1>2, FailKeeps

-----------------------------------------------------------------------------
(* ChaosExperimentRunEvent *)

LEMMA EventReceivedKeeps ==
  ASSUME IInv, NEW h \in Handlers, NEW r \in Runs, NEW phase \in {"Queued", "Running", "Ended"},
         EventReceived(h, r, phase)
  PROVE  IInv' /\ StaysClosed
<1> DEFINE known == [Nothing EXCEPT !.run = r, !.phase = phase,
                                    !.total = IF run[r].phase = "None" THEN total ELSE 0]
<1>1. TypeOK /\ (\A q \in Procs : Known(q)) /\ h \in Procs
  BY DEF IInv, Procs
<1>2. Goto(h, "txn", known) /\ UNCHANGED <<run, copy, recent, total, faults>>
  BY DEF EventReceived
<1>3. known \in LocType /\ known.run = r /\ known.phase = phase
  BY <1>1 DEF TypeOK, LocType, Nothing, Phases
<1> HIDE DEF known
<1>4. Known(h)'
  BY <1>1, <1>2, <1>3, GotoMoves DEF Known
<1>5. \A q \in Procs : Known(q)'
  BY <1>1, <1>2, <1>3, <1>4, GotoMoves, KnownStays
<1>6. wf' \in [Runs -> {"none", "active", "lost", "finished", "reported"}]
  BY <1>1 DEF EventReceived, TypeOK
<1> QED
  BY <1>1, <1>2, <1>3, <1>5, <1>6, GotoMoves, RecordsStay DEF TypeOK

LEMMA EventOfNewRunKeeps ==
  ASSUME IInv, NEW h \in Handlers, EventOfNewRun(h)
  PROVE  IInv' /\ StaysClosed
<1> DEFINE r == loc[h].run
           new == [phase |-> loc[h].phase, completed |-> Terminal(h),
                   uid |-> TRUE, removed |-> FALSE, seq |-> loc[h].total + 1]
           shown == [phase |-> loc[h].phase, completed |-> FALSE, uid |-> TRUE]
<1>1. TypeOK /\ h \in Procs /\ pc[h] = "txn" /\ run[r].phase = "None"
  BY DEF IInv, Procs, EventOfNewRun
<1>2. r \in Runs /\ loc[h].phase # "None" /\ loc[h].phase \in Phases /\ loc[h].total \in Nat
  BY <1>1 DEF IInv, Known, TypeOK, LocType
<1>3. /\ new \in RunType /\ new.phase # "None" /\ ~new.removed
      /\ shown \in CopyType /\ ~shown.completed
  BY <1>2 DEF RunType, CopyType, Terminal
<1>4. /\ run' = [run EXCEPT ![r] = new] /\ copy' = [copy EXCEPT ![r] = shown]
      /\ recent' = Pushed(r) /\ total' \in Nat /\ Return(h) /\ UNCHANGED faults
  BY <1>2 DEF EventOfNewRun
<1>5. wf' \in [Runs -> {"none", "active", "lost", "finished", "reported"}]
  BY <1>1 DEF EventOfNewRun, TypeOK
<1> HIDE DEF r, new, shown
<1> QED
  BY <1>1, <1>2, <1>3, <1>4, <1>5, CreationKeeps

\* What the transaction commits to both records leaves the copy behind the document.
LEMMA EventOfKnownRunKeeps ==
  ASSUME IInv, NEW h \in Handlers, EventOfKnownRun(h)
  PROVE  IInv' /\ StaysClosed
<1> DEFINE r == loc[h].run
<1>1. /\ TypeOK /\ Records /\ (\A q \in Procs : Known(q)) /\ h \in Procs
      /\ run \in [Runs -> RunType] /\ copy \in [Runs -> CopyType]
      /\ pc[h] = "txn" /\ run[r].phase # "None"
      /\ Return(h) /\ UNCHANGED <<recent, total, wf, faults>>
  BY DEF IInv, TypeOK, Procs, EventOfKnownRun
<1>2. r \in Runs /\ loc[h].phase # "None" /\ loc[h].phase \in Phases
  BY <1>1 DEF Known, TypeOK, LocType
<1>3. run[r] \in RunType /\ copy[r] \in CopyType
  BY <1>1, <1>2
<1>4. \/ UNCHANGED run
      \/ /\ ~run[r].completed
         /\ run' = [run EXCEPT ![r] = [phase |-> loc[h].phase, completed |-> Terminal(h),
                                       uid |-> TRUE, removed |-> FALSE, seq |-> run[r].seq]]
  BY DEF EventOfKnownRun
<1>5. \/ UNCHANGED copy
      \/ /\ copy[r].completed => Terminal(h)
         /\ Terminal(h) => run[r].completed \/ run'[r].completed
         /\ copy' = [copy EXCEPT ![r] = EventCopy(h)]
  <2>1. CASE copy' = copy
    BY <2>1
  <2>2. CASE copy' # copy
    <3>1. /\ Commits(h) /\ CopyUpdatable(r, Terminal(h))
          /\ copy' = [copy EXCEPT ![r] = EventCopy(h)]
          /\ run' = IF run[r].completed THEN run
                    ELSE [run EXCEPT ![r] = [phase |-> loc[h].phase, completed |-> Terminal(h),
                                             uid |-> TRUE, removed |-> FALSE,
                                             seq |-> run[r].seq]]
      BY <2>2 DEF EventOfKnownRun
    <3>2. ~run[r].completed => run'[r].completed = Terminal(h)
      BY <1>1, <1>2, <3>1
    <3> QED
      BY <3>1, <3>2 DEF CopyUpdatable
  <2> QED
    BY <2>1, <2>2
<1>6. /\ run' \in [Runs -> RunType]
      /\ \A q \in Runs \ {r} : run'[q] = run[q]
      /\ run'[r].phase # "None" /\ (run[r].completed => run'[r].completed)
      /\ run'[r].removed => run[r].removed
  <2>1. CASE UNCHANGED run
    BY <1>1, <2>1
  <2>2. CASE run' # run
    <3> DEFINE new == [phase |-> loc[h].phase, completed |-> Terminal(h),
                       uid |-> TRUE, removed |-> FALSE, seq |-> run[r].seq]
    <3>1. ~run[r].completed /\ run' = [run EXCEPT ![r] = new]
      BY <1>4, <2>2
    <3>2. new \in RunType /\ new.phase # "None" /\ ~new.removed
      BY <1>2, <1>3 DEF RunType, Terminal
    <3> HIDE DEF new
    <3> QED
      BY <1>1, <1>2, <3>1, <3>2
  <2> QED
    BY <2>1, <2>2
<1>7. EventCopy(h) \in CopyType /\ EventCopy(h).completed = Terminal(h)
  BY <1>2 DEF EventCopy, CopyType, Terminal
<1>8. /\ copy' \in [Runs -> CopyType]
      /\ \A q \in Runs \ {r} : copy'[q] = copy[q]
      /\ copy[r].completed => copy'[r].completed
      /\ copy'[r].completed => copy[r].completed \/ run'[r].completed
  BY <1>1, <1>2, <1>3, <1>5, <1>6, <1>7
<1> HIDE DEF r
<1>9. TypeOK'
  BY <1>1, <1>6, <1>8, ReturnMoves DEF TypeOK, Listed
<1>10. Records'
  <2>1. Untouched'
    BY <1>1, <1>2, <1>6, <1>8 DEF Records, Untouched
  <2>2. OnlyDeletable'
    BY <1>1, <1>2, <1>6 DEF Records, OnlyDeletable
  <2>3. CopyNeverAhead'
    BY <1>1, <1>2, <1>6, <1>8 DEF Records, CopyNeverAhead
  <2> QED
    BY <2>1, <2>2, <2>3 DEF Records
<1>11. \A q \in Procs : Known(q)'
  <2>1. \A q \in Runs : /\ run[q].phase # "None" => run'[q].phase # "None"
                        /\ run[q].completed => run'[q].completed
    BY <1>6
  <2>2. Known(h)'
    BY <1>1, ReturnMoves DEF Known
  <2> QED
    BY <1>1, <2>1, <2>2, ReturnMoves, KnownStays
<1>12. StaysClosed
  BY <1>2, <1>8 DEF StaysClosed
<1> QED
  BY <1>9, <1>10, <1>11, <1>12 DEF IInv

LEMMA EventFailsKeeps ==
  ASSUME IInv, NEW h \in Handlers, EventFails(h)
  PROVE  IInv' /\ StaysClosed
<1>1. h \in Procs /\ Return(h) /\ UNCHANGED <<run, copy, recent, total, wf>>
  BY DEF EventFails, Procs
<1>2. faults' \in 0 .. MaxFaults
  BY RecordAssumption DEF EventFails, Fault, IInv, TypeOK
<1> QED
  BY <1>1, <1>2, FailKeeps

-----------------------------------------------------------------------------
(* ProcessExperimentRunStop and expireStalledQueuedRun *)

\* A stop and an expiry know a run that exists.
LEMMA CloseBeginsKeeps ==
  ASSUME IInv, NEW c \in Closers, NEW r \in Runs, StopBegins(c, r) \/ ExpireBegins(c, r)
  PROVE  IInv' /\ StaysClosed
<1>1. /\ TypeOK /\ Records /\ (\A q \in Procs : Known(q)) /\ c \in Procs
      /\ UNCHANGED <<run, copy, recent, total, wf, faults>>
  BY DEF IInv, Procs, StopBegins, ExpireBegins
<1>2. run[r].phase # "None" /\ run[r].uid \in BOOLEAN
  BY <1>1 DEF StopBegins, ExpireBegins, Records, Untouched, TypeOK, RunType
<1>3. \E phase \in {"Stopped", "Error"}, u \in BOOLEAN :
          Goto(c, "doc", [Nothing EXCEPT !.run = r, !.phase = phase, !.byUid = u])
  BY <1>2 DEF StopBegins, ExpireBegins
<1>4. PICK phase \in {"Stopped", "Error"}, u \in BOOLEAN :
          Goto(c, "doc", [Nothing EXCEPT !.run = r, !.phase = phase, !.byUid = u])
  BY <1>3
<1> DEFINE known == [Nothing EXCEPT !.run = r, !.phase = phase, !.byUid = u]
<1>5. known \in LocType /\ known.run = r /\ known.phase # "None" /\ Goto(c, "doc", known)
  BY <1>4 DEF LocType, Nothing, Phases
<1> HIDE DEF known
<1>6. Known(c)'
  BY <1>1, <1>2, <1>5, GotoMoves DEF Known
<1>7. \A q \in Procs : Known(q)'
  BY <1>1, <1>5, <1>6, GotoMoves, KnownStays
<1> QED
  BY <1>1, <1>5, <1>7, GotoMoves, RecordsStay DEF TypeOK

\* The document is closed, unless its run was deleted.
LEMMA CloseDocKeeps ==
  ASSUME IInv, NEW c \in Closers, CloseDoc(c)
  PROVE  IInv' /\ StaysClosed
<1> DEFINE r == loc[c].run
<1>1. /\ TypeOK /\ Records /\ (\A q \in Procs : Known(q)) /\ c \in Procs
      /\ run \in [Runs -> RunType] /\ copy \in [Runs -> CopyType]
      /\ pc[c] = "doc" /\ loc[c] \in LocType
      /\ Goto(c, "copy", loc[c]) /\ UNCHANGED <<copy, recent, total, wf, faults>>
      /\ run' = IF Closes(c) THEN [run EXCEPT ![r].phase = loc[c].phase, ![r].completed = TRUE]
                ELSE run
  BY DEF IInv, TypeOK, Procs, CloseDoc
<1>2. /\ r \in Runs /\ loc[c].phase # "None" /\ loc[c].phase \in Phases
      /\ run[r].phase # "None"
  BY <1>1 DEF Known, TypeOK, LocType
<1>3. run[r] \in RunType
  BY <1>1, <1>2
<1>4. r \notin Deletable => Closes(c)
  BY <1>1, <1>2 DEF Closes, Records, OnlyDeletable
<1>5. /\ run' \in [Runs -> RunType]
      /\ \A q \in Runs \ {r} : run'[q] = run[q]
      /\ run'[r].phase # "None" /\ (run[r].completed => run'[r].completed)
      /\ run'[r].removed = run[r].removed
      /\ r \notin Deletable => run'[r].completed
  BY <1>1, <1>2, <1>3, <1>4 DEF RunType
<1> HIDE DEF r
<1>6. TypeOK'
  BY <1>1, <1>5, GotoMoves DEF TypeOK, Listed
<1>7. Records'
  <2>1. Untouched'
    BY <1>1, <1>2, <1>5 DEF Records, Untouched
  <2>2. OnlyDeletable'
    BY <1>1, <1>2, <1>5 DEF Records, OnlyDeletable
  <2>3. CopyNeverAhead'
    BY <1>1, <1>2, <1>5 DEF Records, CopyNeverAhead
  <2> QED
    BY <2>1, <2>2, <2>3 DEF Records
<1>8. \A q \in Procs : Known(q)'
  <2>1. \A q \in Runs : /\ run[q].phase # "None" => run'[q].phase # "None"
                        /\ run[q].completed => run'[q].completed
    BY <1>5
  <2>2. Known(c)'
    BY <1>1, <1>2, <1>5, GotoMoves DEF Known, r
  <2> QED
    BY <1>1, <2>1, <2>2, GotoMoves, KnownStays
<1> QED
  BY <1>1, <1>6, <1>7, <1>8 DEF IInv, StaysClosed

\* The copy follows a document that is closed.
LEMMA CloseCopyKeeps ==
  ASSUME IInv, NEW c \in Closers, CloseCopy(c)
  PROVE  IInv' /\ StaysClosed
<1> DEFINE r == loc[c].run
<1>1. /\ TypeOK /\ Records /\ (\A q \in Procs : Known(q)) /\ c \in Procs
      /\ copy \in [Runs -> CopyType] /\ pc[c] = "copy" /\ loc[c] \in LocType
      /\ Return(c) /\ UNCHANGED <<run, recent, total, wf, faults>>
      /\ \/ copy' = [copy EXCEPT ![r] = ClosedCopy(c)]
         \/ UNCHANGED copy
  BY DEF IInv, TypeOK, Procs, CloseCopy
<1>2. /\ r \in Runs /\ loc[c].phase \in Phases /\ run[r].phase # "None"
      /\ r \notin Deletable => run[r].completed
  BY <1>1 DEF Known, LocType
<1>3. ClosedCopy(c) \in CopyType /\ ClosedCopy(c).completed
  <2>1. copy[r] \in CopyType
    BY <1>1, <1>2
  <2> QED
    BY <1>2, <2>1 DEF ClosedCopy, CopyType
<1>4. /\ copy' \in [Runs -> CopyType]
      /\ \A q \in Runs \ {r} : copy'[q] = copy[q]
      /\ copy[r].completed => copy'[r].completed
  BY <1>1, <1>2, <1>3
<1> HIDE DEF r
<1>5. TypeOK'
  BY <1>1, <1>4, ReturnMoves DEF TypeOK, Listed
<1>6. Records'
  <2>1. Untouched'
    BY <1>1, <1>2, <1>4 DEF Records, Untouched
  <2>2. OnlyDeletable'
    BY <1>1 DEF Records, OnlyDeletable
  <2>3. CopyNeverAhead'
    BY <1>1, <1>2, <1>4 DEF Records, CopyNeverAhead
  <2> QED
    BY <2>1, <2>2, <2>3 DEF Records
<1>7. \A q \in Procs : Known(q)'
  <2>1. Known(c)'
    BY <1>1, ReturnMoves DEF Known
  <2> QED
    BY <1>1, <2>1, ReturnMoves, KnownStays
<1>8. StaysClosed
  BY <1>2, <1>4 DEF StaysClosed
<1> QED
  BY <1>5, <1>6, <1>7, <1>8 DEF IInv

LEMMA CloseCopyFailsKeeps ==
  ASSUME IInv, NEW c \in Closers, CloseCopyFails(c)
  PROVE  IInv' /\ StaysClosed
<1>1. c \in Procs /\ Return(c) /\ UNCHANGED <<run, copy, recent, total, wf>>
  BY DEF CloseCopyFails, Procs
<1>2. faults' \in 0 .. MaxFaults
  BY RecordAssumption DEF CloseCopyFails, Fault, IInv, TypeOK
<1> QED
  BY <1>1, <1>2, FailKeeps

-----------------------------------------------------------------------------
(* Deletes, and the cluster *)

LEMMA DeleteKeeps ==
  ASSUME IInv, NEW r \in Runs, ProcessExperimentRunDelete(r)
  PROVE  IInv' /\ StaysClosed
<1>1. /\ TypeOK /\ Records /\ (\A q \in Procs : Known(q)) /\ run \in [Runs -> RunType]
      /\ r \in Deletable /\ run' = [run EXCEPT ![r].removed = TRUE]
      /\ UNCHANGED <<copy, recent, total, wf, pc, loc, faults>>
  BY DEF IInv, TypeOK, ProcessExperimentRunDelete
<1>2. /\ run' \in [Runs -> RunType]
      /\ \A q \in Runs : /\ run'[q].phase = run[q].phase /\ run'[q].uid = run[q].uid
                         /\ run'[q].completed = run[q].completed
      /\ \A q \in Runs \ {r} : run'[q].removed = run[q].removed
  BY <1>1 DEF RunType
<1>3. TypeOK'
  BY <1>1, <1>2 DEF TypeOK, Listed
<1>4. Records'
  BY <1>1, <1>2 DEF Records, Untouched, OnlyDeletable, CopyNeverAhead
<1>5. \A q \in Procs : Known(q)'
  BY <1>1, <1>2 DEF Known
<1> QED
  BY <1>1, <1>3, <1>4, <1>5 DEF IInv, StaysClosed

LEMMA ClusterKeeps ==
  ASSUME IInv, NEW r \in Runs, CronFires(r) \/ WorkflowFinishes(r)
  PROVE  IInv' /\ StaysClosed
<1>1. /\ TypeOK /\ \A q \in Procs : Known(q)
      /\ UNCHANGED <<run, copy, recent, total, pc, loc, faults>>
  BY DEF IInv, CronFires, WorkflowFinishes
<1>2. wf' \in [Runs -> {"none", "active", "lost", "finished", "reported"}]
  BY <1>1 DEF TypeOK, CronFires, WorkflowFinishes
<1>3. \A q \in Procs : Known(q)'
  BY <1>1 DEF Known
<1> QED
  BY <1>1, <1>2, <1>3, RecordsStay DEF TypeOK

-----------------------------------------------------------------------------
LEMMA InitHolds == Init => IInv
<1> SUFFICES ASSUME Init PROVE IInv
  OBVIOUS
<1>1. TypeOK
  <2>1. recent \in Seq(Runs) /\ Len(recent) = 0
    BY DEF Init
  <2>2. Nothing \in LocType
    BY DEF Nothing, LocType, Phases
  <2> QED
    BY <2>1, <2>2, RecordAssumption DEF Init, TypeOK, RunType, CopyType, Phases
<1>2. Records
  BY DEF Init, Records, Untouched, OnlyDeletable, CopyNeverAhead
<1>3. \A p \in Procs : Known(p)
  BY DEF Init, Known
<1> QED
  BY <1>1, <1>2, <1>3 DEF IInv

\* Every step keeps the invariant, and no step reopens a copy.
LEMMA StepKeeps ==
  ASSUME IInv, [Next]_vars
  PROVE  IInv' /\ StaysClosed
<1>1. CASE \E s \in Starters : StarterNext(s)
  BY <1>1, StartReadsKeeps, StartCreatesKeeps, StartFailsKeeps DEF StarterNext
<1>2. CASE \E h \in Handlers : HandlerNext(h)
  BY <1>2, EventReceivedKeeps, EventOfNewRunKeeps, EventOfKnownRunKeeps, EventFailsKeeps
     DEF HandlerNext, HandlerStep
<1>3. CASE \E c \in Closers : CloserNext(c)
  BY <1>3, CloseBeginsKeeps, CloseDocKeeps, CloseCopyKeeps, CloseCopyFailsKeeps
     DEF CloserNext, CloserStep
<1>4. CASE \E r \in Runs : ProcessExperimentRunDelete(r) \/ CronFires(r) \/ WorkflowFinishes(r)
  BY <1>4, DeleteKeeps, ClusterKeeps
<1>5. CASE UNCHANGED vars
  <2>1. /\ UNCHANGED <<run, copy, recent, total, wf, pc, loc, faults>>
        /\ TypeOK /\ \A q \in Procs : Known(q)
    BY <1>5 DEF vars, IInv
  <2>2. \A q \in Procs : Known(q)'
    BY <2>1 DEF Known
  <2> QED
    BY <2>1, <2>2, RecordsStay DEF TypeOK
<1> QED
  BY <1>1, <1>2, <1>3, <1>4, <1>5 DEF Next

\* The invariant is inductive.
LEMMA Inductive == Spec => []IInv
<1>1. IInv /\ [Next]_vars => IInv'
  BY StepKeeps
<1> QED
  BY <1>1, InitHolds, PTL DEF Spec

(* Runs, copies and the list of copies keep their types: recent_experiment_run_details *)
(* never outgrows its $slice.                                                          *)
THEOREM Typing == Spec => []TypeOK
<1>1. IInv => TypeOK
  BY DEF IInv
<1> QED
  BY <1>1, Inductive, PTL

(* ChaosExperimentRunEvent, ProcessExperimentRunStop and expireStalledQueuedRun: the   *)
(* UI never shows a run as over, one that nobody may delete, whose document is open.   *)
THEOREM CopyIsNeverAhead == Spec => []CopyNeverAhead
<1>1. IInv => CopyNeverAhead
  BY DEF IInv, Records
<1> QED
  BY <1>1, Inductive, PTL

(* No event, stop, expiry or start, in any order, makes the UI show a run as open      *)
(* again.                                                                              *)
THEOREM OverStaysOver == Spec => CopyStaysClosed
<1>1. IInv /\ [Next]_vars => [\A r \in Runs : copy[r].completed => copy'[r].completed]_vars
  BY StepKeeps DEF StaysClosed
<1> QED
  BY <1>1, Inductive, PTL DEF Spec, CopyStaysClosed
==============================================================================
