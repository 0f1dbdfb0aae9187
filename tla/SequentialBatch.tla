--------------------------- MODULE SequentialBatch ---------------------------
(***************************************************************************)
(* What a sequential multi-run batch promises its user: its runs are       *)
(* started one after the other, each when the previous one has ended, N of *)
(* them in all, and the batch closes when the last one has ended.          *)
(***************************************************************************)
EXTENDS Naturals

CONSTANT N   \* runs of the batch, at least one


VARIABLES started,  \* runs started so far
          running,  \* one of them has not ended yet
          closed    \* the batch is over

vars == <<started, running, closed>>

TypeOK == started \in 0 .. N /\ running \in BOOLEAN /\ closed \in BOOLEAN

Init == started = 0 /\ running = FALSE /\ closed = FALSE

StartRun == /\ ~running /\ ~closed /\ started < N
            /\ started' = started + 1
            /\ running' = TRUE
            /\ UNCHANGED closed

EndRun == running /\ running' = FALSE /\ UNCHANGED <<started, closed>>

Close == /\ started = N /\ ~running /\ ~closed
         /\ closed' = TRUE
         /\ UNCHANGED <<started, running>>

Next == StartRun \/ EndRun \/ Close

Spec == Init /\ [][Next]_vars

\* Once begun, the batch is carried through; whether it begins is the user's choice.
FairSpec == /\ Spec
            /\ WF_vars(StartRun /\ started > 0)
            /\ WF_vars(EndRun)
            /\ WF_vars(Close)
=============================================================================
