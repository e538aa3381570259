---------------------------- MODULE LifecycleLog ----------------------------
(***************************************************************************)
(* One workflow_lifecycles row, its activity_logs rows, and the callers    *)
(* that move it: graph runs, webhooks, the portal.  A caller reads the row *)
(* in a transaction of its own, decides, and sends a command sequence in   *)
(* another, which holds the row lock from its first statement to its       *)
(* commit.  Whatever happened in between, the sequence is applied.         *)
(***************************************************************************)
EXTENDS LifecycleTransition

CONSTANTS Callers,      \* processes that write the lifecycle
          Workflows,    \* names of workflows
          Subs,         \* sub-statuses
          Requests,     \* Requests[f][v]: what callers of f that read v may send
          Idle,         \* no view, no transaction
          MaxTransactions   \* how many sequences a behaviour may commit

Views == [status : Statuses, sub : Subs]

ASSUME SubsAssumption == "none" \in Subs /\ Unset \notin Subs
ASSUME IdleAssumption == Idle \notin Callers
ASSUME MaxAssumption == MaxTransactions \in Nat

\* Each request is a sequence of commands, not empty (an empty one returns
\* at once).
ASSUME RequestsAssumption ==
  \A f \in Workflows, v \in Views :
    \A r \in Requests[f][v] : r \in Seq(Commands(Subs)) /\ r # <<>>

\* Step n of request r starts from the row in the column that the first
\* command may override by from: it does not, and no snapshot put the state
\* back to the locked row after a transition had left it.
StartsFromRow(r, n, from) ==
  /\ IsSnapshot(r[1].type) \/ from = Unset
  /\ \A i, j \in DOMAIN r :
       i < j /\ j < n /\ ~IsSnapshot(r[i].type) => ~IsSnapshot(r[j].type)

\* What the audit trail relies on its callers for: a transition names each
\* column, or starts from the row in it.
Careful(r) ==
  \A n \in DOMAIN r : ~IsSnapshot(r[n].type) =>
    /\ r[n].status # Unset \/ StartsFromRow(r, n, r[1].fromStatus)
    /\ r[n].sub # Unset \/ StartsFromRow(r, n, r[1].fromSub)

ASSUME CarefulAssumption ==
  \A f \in Workflows, v \in Views : \A r \in Requests[f][v] : Careful(r)

\* A transition that names neither column would write nothing, not even the
\* pause: every caller names one.
NamesColumn(r) == \A n \in DOMAIN r :
  IsSnapshot(r[n].type) \/ r[n].status # Unset \/ r[n].sub # Unset

ASSUME NamesAssumption ==
  \A f \in Workflows, v \in Views : \A r \in Requests[f][v] : NamesColumn(r)

VARIABLES workflow,   \* the workflow of the lifecycle
          row,        \* the row, as committed
          trail,      \* the activity_logs rows, as committed
          view,       \* view[c]: {} or {what c has read and not yet used}
          holder,     \* the caller whose transaction has the row lock
          tx          \* that transaction

logVars == <<workflow, row, trail, view, holder, tx>>

Rows == [status : Statuses, sub : Subs, pause : PauseTypes \cup {Unset}]

Entries == [number : Nat, type : Snapshots \cup Transitions, before : Views, after : Views]

Transactions ==
  [number : Nat, locked : Views, row : Rows, current : Views, log : Seq(Entries),
   pause : PauseTypes \cup {Unset}, wrote : BOOLEAN,
   sent : Seq(Commands(Subs)), todo : Seq(Commands(Subs))]

LogTypeOK ==
  /\ workflow \in Workflows
  /\ row \in Rows
  /\ trail \in Seq(Entries)
  /\ view \in [Callers -> SUBSET Views]
  /\ holder \in Callers \cup {Idle}
  /\ holder # Idle => tx \in Transactions

Committed == IF trail = <<>> THEN 0 ELSE trail[Len(trail)].number

LogInit ==
  /\ workflow \in Workflows
  /\ row = [status |-> "none", sub |-> "none", pause |-> Unset]
  /\ trail = <<>>
  /\ view = [c \in Callers |-> {}]
  /\ holder = Idle
  /\ tx = Idle

\* read_lifecycle_row_by_id; readers do not wait for the row lock.
Read(c) == /\ holder # c
           /\ view' = [view EXCEPT ![c] = {View(row)}]
           /\ UNCHANGED <<workflow, row, trail, holder, tx>>

\* SELECT FOR UPDATE, which waits for the lock.
Begin(c) ==
  /\ holder = Idle
  /\ Committed < MaxTransactions
  /\ \E v \in view[c] : \E r \in Requests[workflow][v] :
       tx' = Open(Committed + 1, row, trail, r)
  /\ holder' = c
  /\ view' = [view EXCEPT ![c] = {}]
  /\ UNCHANGED <<workflow, row, trail>>

StepCommand ==
  /\ holder # Idle
  /\ tx.todo # <<>>
  /\ tx' = Apply(tx)
  /\ UNCHANGED <<workflow, row, trail, view, holder>>

Commit ==
  /\ holder # Idle
  /\ tx.todo = <<>>
  /\ row' = Paused(tx)
  /\ trail' = tx.log
  /\ holder' = Idle
  /\ tx' = Idle
  /\ UNCHANGED <<workflow, view>>

\* Any statement fails, or the process dies: callers log it and go on.
Rollback ==
  /\ holder # Idle
  /\ holder' = Idle
  /\ tx' = Idle
  /\ UNCHANGED <<workflow, row, trail, view>>

LogNext ==
  \/ \E c \in Callers : Read(c) \/ Begin(c)
  \/ StepCommand \/ Commit \/ Rollback

LogSpec == LogInit /\ [][LogNext]_logVars

-----------------------------------------------------------------------------
IsTransition(entry) == entry.type \in Transitions

\* Position n of a log holds its last entry of the set.
LastOf(entries, n, Test(_)) ==
  /\ n \in DOMAIN entries /\ Test(entries[n])
  /\ \A m \in DOMAIN entries : m > n => ~Test(entries[m])

\* The last transition of a log says what the row holds.
Tells(entries, r) ==
  \A n \in DOMAIN entries : LastOf(entries, n, IsTransition) => entries[n].after = View(r)

(* Whatever the callers read and whichever of them wins, the last status or *)
(* sub-status change in activity_logs ends where the row is.                *)
TrailTellsRow == Tells(trail, row)

Decides(entry) == IsTransition(entry) \/ entry.type = "exception"

(* A row carries a pause exactly while the last transaction that logged a   *)
(* transition or an exception logged an exception: any later progress       *)
(* clears it, a note does not.                                              *)
PausedWhileFailed ==
  row.pause # Unset <=>
    \E n \in DOMAIN trail :
      /\ LastOf(trail, n, Decides)
      /\ \E m \in DOMAIN trail : trail[m].number = trail[n].number /\ trail[m].type = "exception"

(* A row whose sub-status moves leaves pending_review, unless the sequence  *)
(* asks for a review or records a failure: work that goes on is never left  *)
(* waiting for a reviewer, whatever status its caller had read.             *)
ReviewEndsOnProgress ==
  [][row'.sub # row.sub /\ row'.status = "pending_review" =>
       \/ row'.pause # Unset
       \/ \E n \in DOMAIN tx.sent : tx.sent[n].status = "pending_review"]_row
=============================================================================
