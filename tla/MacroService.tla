---------------------------- MODULE MacroService ----------------------------
(***************************************************************************)
(* What the macro dispatcher promises, with no lock, flag or condition     *)
(* variable: jobs run one at a time in the order they were accepted; a     *)
(* cancellation drops every waiting job and dooms the running one, which   *)
(* may begin at most one more unit; and the service is only closed when    *)
(* no undoomed job runs.                                                   *)
(***************************************************************************)
EXTENDS Integers, Sequences

CONSTANT Macros

VARIABLES
    pending,    \* accepted, not begun
    active,     \* <<>> or <<m>>: the job that runs
    doomed,     \* the active job was cancelled
    overrun,    \* units the active job began since
    open        \* jobs may be begun

vars == <<pending, active, doomed, overrun, open>>

TypeOK ==
    /\ pending \in Seq(Macros)
    /\ active \in Seq(Macros) /\ Len(active) <= 1
    /\ doomed \in BOOLEAN
    /\ overrun \in {0, 1}
    /\ open \in BOOLEAN

Init ==
    /\ pending = <<>>
    /\ active = <<>>
    /\ doomed = FALSE
    /\ overrun = 0
    /\ open = TRUE

Accept(m) ==
    /\ open
    /\ pending' = Append(pending, m)
    /\ UNCHANGED <<active, doomed, overrun, open>>

CancelAll ==
    /\ pending' = <<>>
    /\ doomed' = (active # <<>>)
    /\ UNCHANGED <<active, overrun, open>>

Begin ==
    /\ open
    /\ active = <<>>
    /\ pending # <<>>
    /\ active' = <<Head(pending)>>
    /\ pending' = Tail(pending)
    /\ UNCHANGED <<doomed, overrun, open>>

(* One unit of the active job: with it the job may end, by an exception.   *)
Unit(ends) ==
    /\ active # <<>>
    /\ doomed => overrun = 0
    /\ active' = IF ends THEN <<>> ELSE active
    /\ doomed' = (doomed /\ ~ends)
    /\ overrun' = IF doomed /\ ~ends THEN 1 ELSE 0
    /\ UNCHANGED <<pending, open>>

Finish ==
    /\ active # <<>>
    /\ active' = <<>>
    /\ doomed' = FALSE
    /\ overrun' = 0
    /\ UNCHANGED <<pending, open>>

Close ==
    /\ pending = <<>>
    /\ active # <<>> => doomed
    /\ open' = FALSE
    /\ UNCHANGED <<pending, active, doomed, overrun>>

End == Finish \/ Unit(TRUE)

Next ==
    \/ \E m \in Macros : Accept(m)
    \/ CancelAll
    \/ Begin
    \/ Unit(FALSE)
    \/ End
    \/ Close

Spec == Init /\ [][Next]_vars

(* A waiting job is eventually begun or dropped, a begun one ends.         *)
FairSpec == Spec /\ WF_vars(Begin) /\ WF_vars(End)
=============================================================================
