------------------------------- MODULE Timeline -------------------------------
(***************************************************************************)
(* What the user of an undo history sees: a sequence of states and a       *)
(* cursor in it.  A change cuts off what lies after the cursor and is the  *)
(* next step; undo and redo move the cursor by one.  The oldest steps are  *)
(* forgotten beyond a limit.                                               *)
(***************************************************************************)
EXTENDS Naturals, Sequences

CONSTANTS
  States,
  Limit      (* The steps that can be undone at most. *)

VARIABLES
  steps,     (* The states one can go to, oldest first. *)
  cursor     (* The one we are at.                      *)

timelineVars == <<steps, cursor>>

TimelineInit == cursor = 1 /\ \E s \in States : steps = <<s>>

\* The steps once s has been committed at the cursor.
Committed(s) ==
  LET kept == Append(SubSeq(steps, 1, cursor), s)
  IN  IF Len(kept) > Limit + 1 THEN Tail(kept) ELSE kept

Differs(s) == s # steps[cursor]

Commit(s) == Differs(s) /\ steps' = Committed(s) /\ cursor' = Len(steps')
Undo == cursor > 1 /\ cursor' = cursor - 1 /\ UNCHANGED steps
Redo == cursor < Len(steps) /\ cursor' = cursor + 1 /\ UNCHANGED steps

\* An undo commits first what was written since the last step, and so takes
\* that back.
CommitAndUndo(s) == Differs(s) /\ steps' = Committed(s) /\ cursor' = Len(steps') - 1

\* The history is cleared, or begins, at s.
StartOver(s) == steps' = <<s>> /\ cursor' = 1

TimelineNext ==
  \/ \E s \in States : Commit(s) \/ CommitAndUndo(s) \/ StartOver(s)
  \/ Undo
  \/ Redo

TimelineSpec == TimelineInit /\ [][TimelineNext]_timelineVars
=============================================================================
