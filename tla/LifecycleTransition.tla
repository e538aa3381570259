------------------------ MODULE LifecycleTransition ------------------------
(***************************************************************************)
(* How one sequence of transition commands changes a workflow_lifecycles   *)
(* row and what it adds to activity_logs: the pure part of                 *)
(* LifecycleTransitionService, command by command, under the row lock.     *)
(*                                                                         *)
(* A row is [status, sub, pause]; a view of it is [status, sub].  Python's *)
(* None is Unset; the "none" of both enums is a value like any other.      *)
(* Every caller leaves update_lifecycle at "not a snapshot", and           *)
(* record_activity and require_lifecycle_row at True, so a command does    *)
(* not carry them; scope errors (an id that is no UUID, another tenant)    *)
(* reject the whole sequence before any write and are not modelled.        *)
(***************************************************************************)
EXTENDS Naturals, Sequences

Unset == "unset"

Statuses == {"none", "pending_review", "processing", "completed", "failed"}

PauseTypes == {"system_error", "business_exception"}

Snapshots == {"action", "exception", "info"}

Transitions == {"status_change", "sub_status_change"}

IsSnapshot(type) == type \in Snapshots

\* A faulty variant of OrElse.
KeepUnset(a, b) == a

\* a or b, where only None is falsy.
OrElse(a, b) == IF a = Unset THEN b ELSE a

View(row) == [status |-> row.status, sub |-> row.sub]

\* A command without from_* overrides and without a pause_type.
Command(type, status, sub) ==
  [type |-> type, status |-> status, sub |-> sub,
   fromStatus |-> Unset, fromSub |-> Unset, pause |-> Unset]

Commands(subs) ==
  [type : Snapshots \cup Transitions,
   status : Statuses \cup {Unset}, sub : subs \cup {Unset},
   fromStatus : Statuses \cup {Unset}, fromSub : subs \cup {Unset},
   pause : PauseTypes \cup {Unset}]

-----------------------------------------------------------------------------
\* Faulty variants of the operators below, used as mutants.
NeverResume(command, current, pause) == command.status
KeepPauseUnlessFailed(row, status, sub, pause) ==
  [status |-> OrElse(status, row.status), sub |-> OrElse(sub, row.sub),
   pause |-> OrElse(pause, row.pause)]
DropSub(row, status, sub, pause) ==
  [status |-> OrElse(status, row.status), sub |-> row.sub, pause |-> pause]

\* The pause of the whole sequence: Unset without an EXCEPTION command, else
\* the first pause_type an EXCEPTION names, else system_error.
PauseOf(commands) ==
  LET failures == {n \in DOMAIN commands : commands[n].type = "exception"}
      named == {n \in failures : commands[n].pause # Unset}
      first == CHOOSE n \in named : \A m \in named : n <= m
  IN IF failures = {} THEN Unset
     ELSE IF named = {} THEN "system_error"
     ELSE commands[first].pause

\* The state a sequence starts from, decided by its first command.
Current(command, row) ==
  IF IsSnapshot(command.type) THEN View(row)
  ELSE [status |-> OrElse(command.fromStatus, row.status),
        sub |-> OrElse(command.fromSub, row.sub)]

\* A sub-status that moves without a failure takes the row out of review.
TargetStatus(command, current, pause) ==
  IF /\ command.status = Unset
     /\ command.sub # Unset
     /\ pause = Unset
     /\ current.status = "pending_review"
    THEN "processing"
    ELSE command.status

\* UPDATE of the columns that are given; pause_type is set, or cleared.
Updated(row, status, sub, pause) ==
  [status |-> OrElse(status, row.status), sub |-> OrElse(sub, row.sub), pause |-> pause]

Entry(number, type, before, after) ==
  [number |-> number, type |-> type, before |-> before, after |-> after]

\* A transaction: the row as it was locked, the row as it has written it,
\* the state the next transition starts from, the log as it will be, and
\* the commands: all of them, and those still to apply.
Open(number, row, log, commands) ==
  [number |-> number, locked |-> View(row), row |-> row,
   current |-> Current(Head(commands), row), log |-> log,
   pause |-> PauseOf(commands), wrote |-> FALSE,
   sent |-> commands, todo |-> commands]

\* A snapshot logs, and goes on from, the row as it was locked.
ApplySnapshot(tx) ==
  [tx EXCEPT !.current = tx.locked,
             !.log = Append(@, Entry(tx.number, Head(tx.todo).type, tx.locked, tx.locked)),
             !.todo = Tail(@)]

ApplyTransition(tx) ==
  LET command == Head(tx.todo)
      status == TargetStatus(command, tx.current, tx.pause)
      after == [status |-> OrElse(status, tx.current.status),
                sub |-> OrElse(command.sub, tx.current.sub)]
      writes == status # Unset \/ command.sub # Unset
  IN [tx EXCEPT !.current = after,
                !.log = Append(@, Entry(tx.number, command.type, tx.current, after)),
                !.row = IF writes THEN Updated(@, status, command.sub, tx.pause) ELSE @,
                !.wrote = @ \/ writes,
                !.todo = Tail(@)]

Apply(tx) ==
  IF IsSnapshot(Head(tx.todo).type) THEN ApplySnapshot(tx) ELSE ApplyTransition(tx)

\* Before the commit: a failure that wrote no status still writes its pause.
Paused(tx) ==
  IF tx.pause # Unset /\ ~tx.wrote THEN [tx.row EXCEPT !.pause = tx.pause] ELSE tx.row
=============================================================================
