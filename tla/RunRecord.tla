------------------------------ MODULE RunRecord ------------------------------
(***************************************************************************)
(* The two records of an experiment run: its document in the collection of *)
(* runs, and the denormalised copy the UI reads, one of the last few in    *)
(* the experiment's recent_experiment_run_details.  Starting a run and a   *)
(* subscriber's event write both in one transaction; a stop and an expiry  *)
(* write them one after the other; a delete writes the document only.      *)
(*                                                                         *)
(* A run is started by the server, which gives it its notify_id, or by the *)
(* cluster (a cron workflow): the server meets that one in its first event.*)
(* Phase "Ended" stands for the phases a terminal event can report.        *)
(***************************************************************************)
EXTENDS Integers, Sequences

CONSTANTS
    ServerRuns,   \* runs RunChaosWorkFlow creates
    ClusterRuns,  \* runs the target cluster creates
    NoRun,
    Starters,     \* goroutines in RunChaosWorkFlow
    Handlers,     \* goroutines handling a subscriber's event
    Closers,      \* goroutines stopping a run (users) or expiring it (the reconciler)
    RecentRuns,   \* length of recent_experiment_run_details, 10 in the code
    Deletable,    \* the runs users may delete
    FaultKinds,   \* what may fail: "start", "event", "copy"
    MaxFaults     \* bound: failed calls

Runs == ServerRuns \cup ClusterRuns

ASSUME RecordAssumption == /\ ServerRuns \cap ClusterRuns = {} /\ NoRun \notin Runs
                           /\ RecentRuns \in Nat \ {0} /\ MaxFaults \in Nat
                           /\ Deletable \subseteq Runs
                           /\ FaultKinds \subseteq {"start", "event", "copy"}

VARIABLES
    run,      \* the run documents
    copy,     \* the copies kept for the UI
    recent,   \* the runs that have one, newest first
    total,    \* total_experiment_runs of the experiment
    wf,       \* the Argo workflow of each run
    pc, loc,  \* where each goroutine is, and what it read or was told
    faults

vars == <<run, copy, recent, total, wf, pc, loc, faults>>

Procs  == Starters \cup Handlers \cup Closers
Phases == {"None", "Queued", "Running", "Ended", "Error", "Stopped"}

RunType  == [phase : Phases, completed : BOOLEAN, uid : BOOLEAN, removed : BOOLEAN, seq : Nat]
CopyType == [phase : Phases, completed : BOOLEAN, uid : BOOLEAN]
LocType  == [run : Runs \cup {NoRun}, phase : Phases, total : Nat, byUid : BOOLEAN]

Listed(r) == \E i \in 1 .. Len(recent) : recent[i] = r

TypeOK ==
    /\ run \in [Runs -> RunType] /\ copy \in [Runs -> CopyType]
    /\ recent \in Seq(Runs) /\ Len(recent) <= RecentRuns
    /\ total \in Nat
    /\ wf \in [Runs -> {"none", "active", "lost", "finished", "reported"}]
    /\ pc \in [Procs -> {"idle", "create", "txn", "doc", "copy"}]
    /\ loc \in [Procs -> LocType]
    /\ faults \in 0 .. MaxFaults

Nothing == [run |-> NoRun, phase |-> "None", total |-> 0, byUid |-> FALSE]

Init ==
    /\ run = [r \in Runs |-> [phase |-> "None", completed |-> FALSE, uid |-> FALSE,
                              removed |-> FALSE, seq |-> 0]]
    /\ copy = [r \in Runs |-> [phase |-> "None", completed |-> FALSE, uid |-> FALSE]]
    /\ recent = <<>>
    /\ total = 0
    /\ wf = [r \in Runs |-> "none"]
    /\ pc = [p \in Procs |-> "idle"]
    /\ loc = [p \in Procs |-> Nothing]
    /\ faults = 0

Fault(kind) == kind \in FaultKinds /\ faults < MaxFaults /\ faults' = faults + 1
Return(p) == pc' = [pc EXCEPT ![p] = "idle"] /\ loc' = [loc EXCEPT ![p] = Nothing]
Goto(p, label, known) == pc' = [pc EXCEPT ![p] = label] /\ loc' = [loc EXCEPT ![p] = known]

\* Mutant: the $slice is missing.
Pushed_Unsliced(r) == <<r>> \o recent
\* $push at position 0 with a $slice; a copy that falls off is gone.
Pushed(r) == SubSeq(<<r>> \o recent, 1, IF Len(recent) < RecentRuns THEN Len(recent) + 1
                                        ELSE RecentRuns)

-----------------------------------------------------------------------------
(* RunChaosWorkFlow *)

StartReads(s) ==
    /\ pc[s] = "idle"
    /\ \E r \in ServerRuns : run[r].phase = "None"
    /\ Goto(s, "create", [Nothing EXCEPT !.total = total])
    /\ UNCHANGED <<run, copy, recent, total, wf, faults>>

\* One transaction; its counter and its sequence number come from the read above.
StartCreates(s) ==
    /\ pc[s] = "create"
    /\ \E r \in ServerRuns, fate \in {"active", "lost"} :
          /\ run[r].phase = "None"
          /\ run' = [run EXCEPT ![r] = [phase |-> "Queued", completed |-> FALSE, uid |-> FALSE,
                                        removed |-> FALSE, seq |-> loc[s].total + 1]]
          /\ copy' = [copy EXCEPT ![r] = [phase |-> "Queued", completed |-> FALSE, uid |-> FALSE]]
          /\ recent' = Pushed(r)
          /\ wf' = [wf EXCEPT ![r] = fate]
    /\ total' = loc[s].total + 1
    /\ Return(s)
    /\ UNCHANGED faults

StartFails(s) ==
    /\ pc[s] = "create" /\ Fault("start")
    /\ Return(s)
    /\ UNCHANGED <<run, copy, recent, total, wf>>

-----------------------------------------------------------------------------
(* ChaosExperimentRunEvent *)

\* Events of a run are repeated and may overtake one another.  The counter read here
\* is used for a run the server does not know yet.
EventReceived(h, r, phase) ==
    /\ pc[h] = "idle"
    /\ wf[r] \in IF phase = "Ended" THEN {"finished", "reported"}
                 ELSE {"active", "finished", "reported"}
    /\ wf' = IF phase = "Ended" THEN [wf EXCEPT ![r] = "reported"] ELSE wf
    /\ Goto(h, "txn", [Nothing EXCEPT !.run = r, !.phase = phase,
                                 !.total = IF run[r].phase = "None" THEN total ELSE 0])
    /\ UNCHANGED <<run, copy, recent, total, faults>>

Terminal(h) == loc[h].phase = "Ended"

\* A run the server has never heard of: both records are created.  The copy
\* starts as not completed, the document as the event says.
EventOfNewRun(h) ==
    LET r == loc[h].run IN
    /\ pc[h] = "txn" /\ run[r].phase = "None"
    /\ run' = [run EXCEPT ![r] = [phase |-> loc[h].phase, completed |-> Terminal(h),
                                  uid |-> TRUE, removed |-> FALSE, seq |-> loc[h].total + 1]]
    /\ copy' = [copy EXCEPT ![r] = [phase |-> loc[h].phase, completed |-> FALSE, uid |-> TRUE]]
    /\ recent' = Pushed(r)
    /\ total' = loc[h].total + 1
    /\ Return(h)
    /\ UNCHANGED <<wf, faults>>

CopyUpdatable(r, terminal) == Listed(r) /\ (terminal \/ ~copy[r].completed)

\* Mutant: the terminal event of a completed run is discarded like the others.
Commits_Open(h) == ~run[loc[h].run].completed
\* A non-terminal event of a completed run is discarded as a duplicate, the whole
\* transaction with it; a terminal one still commits what it wrote to the copy.
Commits(h) == Terminal(h) \/ ~run[loc[h].run].completed

\* Mutant: the copy is left open, as the one of a new run is.
EventCopy_Open(h) == [phase |-> loc[h].phase, uid |-> TRUE, completed |-> FALSE]
EventCopy(h) == [phase |-> loc[h].phase, uid |-> TRUE, completed |-> Terminal(h)]

EventOfKnownRun(h) ==
    LET r == loc[h].run IN
    /\ pc[h] = "txn" /\ run[r].phase # "None"
    /\ IF Commits(h)
       THEN /\ copy' = IF CopyUpdatable(r, Terminal(h))
                       THEN [copy EXCEPT ![r] = EventCopy(h)] ELSE copy
            /\ run' = IF run[r].completed THEN run
                      ELSE [run EXCEPT ![r] = [phase |-> loc[h].phase, completed |-> Terminal(h),
                                               uid |-> TRUE, removed |-> FALSE,
                                               seq |-> run[r].seq]]
       ELSE UNCHANGED <<copy, run>>
    /\ Return(h)
    /\ UNCHANGED <<recent, total, wf, faults>>

EventFails(h) ==
    /\ pc[h] = "txn" /\ Fault("event")
    /\ Return(h)
    /\ UNCHANGED <<run, copy, recent, total, wf>>

-----------------------------------------------------------------------------
(* ProcessExperimentRunStop and expireStalledQueuedRun *)

\* A stop names the run by its Argo UID; which phase it is in does not matter.
StopBegins(c, r) ==
    /\ pc[c] = "idle"
    /\ run[r].uid
    /\ Goto(c, "doc", [Nothing EXCEPT !.run = r, !.phase = "Stopped", !.byUid = TRUE])
    /\ UNCHANGED <<run, copy, recent, total, wf, faults>>

\* The reconciler saw the run Queued for too long.
ExpireBegins(c, r) ==
    /\ pc[c] = "idle"
    /\ run[r].phase = "Queued" /\ ~run[r].removed
    /\ Goto(c, "doc", [Nothing EXCEPT !.run = r, !.phase = "Error", !.byUid = run[r].uid])
    /\ UNCHANGED <<run, copy, recent, total, wf, faults>>

Closes(c) == loc[c].phase = "Stopped" => ~run[loc[c].run].removed

\* Mutant: the copy is written before the document.
CloseDoc_CopyFirst(c) ==
    LET r == loc[c].run IN
    /\ pc[c] = "doc"
    /\ copy' = [copy EXCEPT ![r].phase = loc[c].phase, ![r].completed = TRUE]
    /\ Goto(c, "copy", loc[c])
    /\ UNCHANGED <<run, recent, total, wf, faults>>

CloseDoc(c) ==
    LET r == loc[c].run IN
    /\ pc[c] = "doc"
    /\ run' = IF Closes(c) THEN [run EXCEPT ![r].phase = loc[c].phase, ![r].completed = TRUE]
              ELSE run
    /\ Goto(c, "copy", loc[c])
    /\ UNCHANGED <<copy, recent, total, wf, faults>>

ClosedCopy(c) == [copy[loc[c].run] EXCEPT !.phase = loc[c].phase, !.completed = TRUE]

\* The copy is found by the UID or by the notify_id, as the document was.
CloseCopy(c) ==
    LET r == loc[c].run IN
    /\ pc[c] = "copy"
    /\ copy' = IF Listed(r) /\ (loc[c].byUid => copy[r].uid)
               THEN [copy EXCEPT ![r] = ClosedCopy(c)] ELSE copy
    /\ Return(c)
    /\ UNCHANGED <<run, recent, total, wf, faults>>

\* A failed update of the copy is only logged.
CloseCopyFails(c) ==
    /\ pc[c] = "copy" /\ Fault("copy")
    /\ Return(c)
    /\ UNCHANGED <<run, copy, recent, total, wf>>

-----------------------------------------------------------------------------
(* ProcessExperimentRunDelete, and the cluster *)

ProcessExperimentRunDelete(r) ==
    /\ r \in Deletable
    /\ run[r].uid /\ ~run[r].removed
    /\ run' = [run EXCEPT ![r].removed = TRUE]
    /\ UNCHANGED <<copy, recent, total, wf, pc, loc, faults>>

CronFires(r) ==
    /\ r \in ClusterRuns /\ wf[r] = "none"
    /\ wf' = [wf EXCEPT ![r] = "active"]
    /\ UNCHANGED <<run, copy, recent, total, pc, loc, faults>>

WorkflowFinishes(r) ==
    /\ wf[r] = "active"
    /\ wf' = [wf EXCEPT ![r] = "finished"]
    /\ UNCHANGED <<run, copy, recent, total, pc, loc, faults>>

-----------------------------------------------------------------------------
StarterNext(s) == StartReads(s) \/ StartCreates(s) \/ StartFails(s)
HandlerStep(h) == EventOfNewRun(h) \/ EventOfKnownRun(h)
HandlerNext(h) == \/ HandlerStep(h) \/ EventFails(h)
                  \/ \E r \in Runs, phase \in {"Queued", "Running", "Ended"} :
                        EventReceived(h, r, phase)
CloserStep(c) == CloseDoc(c) \/ CloseCopy(c)
CloserNext(c) == \/ CloserStep(c) \/ CloseCopyFails(c)
                 \/ \E r \in Runs : StopBegins(c, r) \/ ExpireBegins(c, r)

Next == \/ \E s \in Starters : StarterNext(s)
        \/ \E h \in Handlers : HandlerNext(h)
        \/ \E c \in Closers : CloserNext(c)
        \/ \E r \in Runs : ProcessExperimentRunDelete(r) \/ CronFires(r) \/ WorkflowFinishes(r)

Spec == Init /\ [][Next]_vars

\* Goroutines run, workflows end, and the terminal event of a run is delivered
\* at least once.  Users, cron and repetitions owe nothing.
FairSpec ==
    /\ Spec
    /\ \A h \in Handlers : WF_vars(HandlerStep(h))
    /\ \A c \in Closers : WF_vars(CloserStep(c))
    /\ \A r \in Runs : /\ WF_vars(WorkflowFinishes(r))
                       /\ SF_vars(/\ wf[r] = "finished"
                                  /\ \E h \in Handlers : EventReceived(h, r, "Ended"))

-----------------------------------------------------------------------------
(* Properties *)

\* The UI never shows a run as over while its document still holds it open:
\* every writer closes the document first, or both together.  (A stop of a run that
\* was deleted writes the copy alone.)
CopyNeverAhead == \A r \in Runs \ Deletable : copy[r].completed => run[r].completed

\* Once the UI shows a run as over it keeps showing that, whatever late, repeated
\* or overtaken event comes in.
CopyStaysClosed == [][\A r \in Runs : copy[r].completed => copy'[r].completed]_vars

\* A run of the server that has ended is shown as over, or has left the list, once
\* its workflow reported, even if a stop or an expiry failed half way.
CopyFollowsRun ==
    \A r \in ServerRuns \ Deletable : (run[r].completed /\ wf[r] = "reported")
                             ~> (copy[r].completed \/ ~Listed(r))

-----------------------------------------------------------------------------
(* What the repository says and interleavings refute: the README has the     *)
(* instance and the trace of each.                                           *)

Writing == \E p \in Handlers \cup Closers : pc[p] # "idle"

\* Nobody is writing, no call failed: every listed copy shows whether its run is over.
CopyAgrees ==
    ~Writing /\ faults = 0 =>
        \A r \in Runs : Listed(r) => copy[r].completed = run[r].completed

\* The terminal event does not touch a copy whose run is completed already.
StopIsNotReconciled ==
    [][\A r \in Runs : (run[r].completed /\ ~copy[r].completed /\ copy'[r].completed)
                          => \E c \in Closers : pc[c] = "copy" /\ loc[c].run = r]_vars

\* The sequence number of a run is its own.
SequenceIsUnique == \A r, q \in Runs : r # q /\ run[r].seq = run[q].seq => run[r].seq = 0

\* A stop of a deleted run does not run ahead of its document either.
CopyOfDeletedNeverAhead == \A r \in Deletable : copy[r].completed => run[r].completed

\* A deleted run stays deleted.
DeletedStaysDeleted == [][\A r \in Runs : run[r].removed => run'[r].removed]_vars
=============================================================================
