---------------------------- MODULE LifecycleStore ----------------------------
(***************************************************************************)
(* The rows of workflow_lifecycles and how the program finds one: every     *)
(* workflow keeps its cycle of a load here, looks it up by the load (or, in *)
(* Communications, by the thread of a mail) and inserts one when it finds   *)
(* none.  A row is named by its place in lifecycles; 0 stands for None.     *)
(*                                                                         *)
(* Left out: tenants (every look-up is within one) and the ids that do not  *)
(* parse.                                                                   *)
(***************************************************************************)
EXTENDS LifecycleRequests, FiniteSets, SequencesExt

VARIABLES lifecycles, \* workflow_lifecycles: the workflow, the load and the state of each row
          recent      \* the rows by updated_at, the newest first

Flows == {"ratecon", "driver_assignment", "appointment_scheduling"}

\* The server defaults of status, sub_status and pause_type.
NewRow == [status |-> "none", sub |-> "none", pause |-> Unset]

Cycles == DOMAIN lifecycles
Sub(c) == lifecycles[c].row.sub
Status(c) == lifecycles[c].row.status

\* _fetch_lifecycle_id, or None: the row updated last.
Newest(ids) ==
  IF ids = {} THEN 0
  ELSE recent[CHOOSE i \in DOMAIN recent :
                recent[i] \in ids /\ \A j \in 1..(i - 1) : recent[j] \notin ids]

OfLoad(flow, load) == {c \in Cycles : lifecycles[c].flow = flow /\ lifecycles[c].load = load}

\* Faulty variant, used as a mutant.
ShipmentOnly(flow, load) == Newest(OfLoad(flow, load))

\* A cancelled ratecon is not found; a cancelled pod_lifecycle is.
ShipmentFirst(flow, load) ==
  Newest({c \in OfLoad(flow, load) : flow = "ratecon" => Sub(c) # "cancelled"})

\* find_latest_non_cancelled_lifecycle_id.
FindLatest(flow, load) == Newest({c \in OfLoad(flow, load) : Sub(c) # "cancelled"})

FindExisting(flow, load) ==
  IF flow \in {"ratecon", "pod_lifecycle"} THEN ShipmentFirst(flow, load)
  ELSE Newest(OfLoad(flow, load))

FindInProgress(flow, load, statuses, excluded) ==
  Newest({c \in OfLoad(flow, load) : Status(c) \in statuses /\ Sub(c) \notin excluded})

\* With the statuses and the terminal sub-statuses of DRIVER_ASSIGNMENT_CANCEL_POLICY.
ActiveDriver(load) ==
  FindInProgress("driver_assignment", load, {"processing", "pending_review"},
                 {"uploaded_to_tms"})

HasSuccess(load) ==
  \E c \in OfLoad("driver_assignment", load) : Sub(c) = "uploaded_to_tms"

\* find_awaiting_customer_reply_lifecycle_id.
AwaitingReply(load) ==
  Newest({c \in OfLoad("appointment_scheduling", load) : Sub(c) = "awaiting_customer_reply"})

\* find_awaiting_customer_reply_by_appt_subject_token: the token in the subject
\* is the reference of a load.
AwaitingToken(token) ==
  Newest({c \in Cycles : /\ lifecycles[c].flow = "appointment_scheduling"
                         /\ Sub(c) = "awaiting_customer_reply"
                         /\ lifecycles[c].load = token})

CheckExists(flow, load) == FindExisting(flow, load)

\* read_correlation_by_id: the load of a row.
Correlation(c) == lifecycles[c].load

InsertLifecycle(flow, load) ==
  /\ lifecycles' = Append(lifecycles, [flow |-> flow, load |-> load, row |-> NewRow])
  /\ recent' = <<Len(lifecycles) + 1>> \o recent

\* The row moves to the front, the rows before it one place back.
Touched(c) ==
  LET place == CHOOSE i \in DOMAIN recent : recent[i] = c IN
  [i \in 1..Len(recent) |->
     IF i = 1 THEN c ELSE IF i <= place THEN recent[i - 1] ELSE recent[i]]

\* A transaction of LifecycleTransitionService on a row; <<>> is none.
Transition(c, commands) ==
  IF commands = <<>> THEN UNCHANGED <<lifecycles, recent>>
  ELSE /\ lifecycles' = [lifecycles EXCEPT ![c].row = AfterSequence(@, commands)]
       /\ recent' = Touched(c)

\* A look-up and the insertion that follows when nothing is found; the row
\* that either gives is FindExisting's, or else the last.
ResolveOrCreate(flow, load) ==
  IF FindExisting(flow, load) # 0 THEN UNCHANGED <<lifecycles, recent>>
  ELSE InsertLifecycle(flow, load)

ResolvedTo(flow, load) ==
  LET found == FindExisting(flow, load) IN IF found # 0 THEN found ELSE Len(lifecycles) + 1
=============================================================================
