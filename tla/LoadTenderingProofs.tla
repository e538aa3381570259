------------------------ MODULE LoadTenderingProofs ------------------------
(***************************************************************************)
(* Proofs about LoadTendering for any loads, threads, schedules, bounds    *)
(* and failures: its types, that no carrier is skipped, that a tender is   *)
(* escalated by the last one only, that reminders are scheduled once and   *)
(* go with their carrier, and that late timers change nothing.             *)
(***************************************************************************)
EXTENDS LoadTendering, LifecycleRequestsProofs

\* Nothing is ahead of the attempt of the lifecycle.
Past ==
  /\ \A i \in DOMAIN queue : queue[i].attempt <= attempt
  /\ \A m \in DOMAIN mails : mails[m].attempt <= attempt
  /\ \A t \in tasks \cup pending : t.attempt <= attempt
  /\ run.item.attempt <= attempt /\ run.attempt <= attempt /\ marked <= attempt

\* What a mail may be taken for.
Carriers == {"carrier_email_received", "ack_received"}

Mailed == \A m \in DOMAIN mails : mails[m].at # "arrived" => mails[m].event \in Carriers

\* Only reminders have a step of the schedule.
Slotted(item) == item.event = "reminder_due" => item.slot \in Slots

\* What brings a run to a node.
Errand ==
  /\ Slotted(run.item) /\ \A i \in DOMAIN queue : Slotted(queue[i])
  /\ run.failover => run.at \in {"read", "send", "warn", "log"}
  /\ run.at \in {"idle", "record", "skip"} => run.item.event = "tender_created"
  /\ run.at \in {"carrier", "schedule", "mark"} => run.item.event = "carrier_email_received"
  /\ run.at \in {"guard", "classify"} => run.item.event = "ack_received"
  /\ run.at = "read" /\ ~run.failover => run.item.event # "ack_received"
  /\ run.at \in {"remind", "update"} => run.item.event = "reminder_due"
  /\ run.at \in {"route", "advance", "bump"} =>
       run.item.event \in {"ack_received", "escalation_due"}

\* The attempt a run is about: its item's, and the live one once it has
\* asked; it gives up on the last carrier only.
Aimed ==
  /\ run.at \in {"record", "read"} /\ ~run.failover => run.attempt = run.item.attempt
  /\ run.at \in {"guard", "classify"} => run.attempt = run.item.attempt
  /\ run.at \in {"carrier", "schedule", "mark"} => run.attempt = attempt
  /\ FTL /\ run.at \in {"remind", "update"} => run.item.attempt = attempt
  /\ FTL /\ run.at \in {"route", "advance", "bump"} =>
       /\ run.attempt = run.item.attempt
       /\ Timer(run.item) => run.item.attempt = attempt
  /\ run.at \in {"advance", "bump"} => FTL
  /\ FTL /\ run.at \in {"escalate", "notify", "escalated"} => attempt = load.carriers

\* Nor has the row been escalated, nor is it about to be, before the last.
Steady == Subs \ {"escalated"}

Patient ==
  FTL /\ attempt # load.carriers =>
    row.sub \in Steady /\ run.todo \in Seq(Commands(Steady))

\* A timer that got past its first look found no answer, and none comes.
Unanswered ==
  Timer(run.item) /\ ~(run.at = "read" /\ ~run.failover) => ~Acked

\* Each attempt's batch is marked before the run ends.
Marked ==
  FTL /\ "mark" \notin Failing =>
    /\ \A i \in DOMAIN batches :
         batches[i] <= marked \/ (run.at = "mark" /\ batches[i] = run.attempt)
    /\ \A i, j \in DOMAIN batches : batches[i] = batches[j] /\ batches[i] # 0 => i = j

\* What is on the lifecycle goes before the attempt does.
Live ==
  FTL /\ ~({"cancel", "revoke"} \subseteq Failing) =>
    \A t \in pending \cap tasks :
      t.attempt = attempt /\ (run.at = "bump" => t.attempt # run.attempt)

IInv == TypeOK /\ Past /\ Mailed /\ Errand /\ Aimed /\ Patient /\ Unanswered /\ Marked /\ Live

-----------------------------------------------------------------------------
(* The row.                                                                 *)

Rows == RowsOf(Subs)

\* The sub-statuses that are no step of the routing guide.
Named == {"none", "tender_created", "tender_sent_to_tenant", "tender_sent_to_carrier",
          "accepted", "rejected", "resolved_manually"}

(* What a tender sets, but for escalated.                                   *)
LEMMA SubsNamed ==
  /\ Named \subseteq Steady
  /\ \A n \in 1..3 : TenantSubs[n] \in Steady /\ CarrierSubs[n] \in Steady
  /\ \A n \in 1..2 : ReminderSubs[n] \in Steady
  /\ Attempts = 1..3 /\ Ceiling = 3 /\ DOMAIN ReminderSubs = 1..2
  /\ Subs = Steady \cup {"escalated"}
<1>1. Attempts = 1..3 /\ Ceiling = 3
  BY DEF Attempts, Ceiling, TenantSubs
<1>2. /\ DOMAIN TenantSubs = 1..3 /\ DOMAIN CarrierSubs = 1..3 /\ DOMAIN ReminderSubs = 1..2
      /\ \A n \in 1..3 : TenantSubs[n] # "escalated" /\ CarrierSubs[n] # "escalated"
      /\ \A n \in 1..2 : ReminderSubs[n] # "escalated"
  BY DEF TenantSubs, CarrierSubs, ReminderSubs
<1>3. /\ \A n \in 1..3 : /\ TenantSubs[n] \in Range(TenantSubs)
                         /\ CarrierSubs[n] \in Range(CarrierSubs)
      /\ \A n \in 1..2 : ReminderSubs[n] \in Range(ReminderSubs)
  BY <1>2 DEF Range
<1>4. QED
  BY <1>1, <1>2, <1>3 DEF Subs, Steady, Named

(* What a load, an attempt and a slot may be.                               *)
LEMMA Numbers ==
  ASSUME TypeOK
  PROVE  /\ load.carriers \in 1..3 /\ attempt \in 1..load.carriers /\ attempt \in 1..3
         /\ run.attempt \in 1..3 /\ run.item.attempt \in 1..3 /\ marked \in 0..3
         /\ Slots \subseteq 1..2 /\ TenantSub(attempt) \in Steady
         /\ CarrierSub(run.attempt) \in Steady
<1>1. load.carriers \in 1..3 /\ attempt \in 1..load.carriers /\ run.attempt \in 1..3
      /\ run.item.attempt \in 1..3 /\ marked \in 0..3
  BY LoadsAssumption, SubsNamed DEF TypeOK, Runs, Items
<1>2. attempt \in 1..3
  BY <1>1
<1>3. Slots \subseteq 1..2
  BY SlotsAssumption DEF ReminderSubs
<1>4. QED
  BY <1>1, <1>2, <1>3, SubsNamed, Zenon DEF TenantSub, CarrierSub, Named

(* What the nodes decide are sequences of commands, and none escalates.     *)
LEMMA Sent ==
  ASSUME NEW subs, Steady \subseteq subs
  PROVE  /\ \A v : TenderCreated(v) \subseteq Seq(Commands(subs))
         /\ \A category : FailureOf(category) \in Seq(Commands(subs))
         /\ \A v : Resolve(v) \subseteq Seq(Commands(subs))
         /\ <<Exception>> \in Seq(Commands(subs))
         /\ \A status \in Statuses, sub \in subs :
              <<StatusChange(status, sub)>> \in Seq(Commands(subs))
         /\ \A sub \in subs : <<SubChange(Unset, sub)>> \in Seq(Commands(subs))
         /\ \A sub \in subs : <<Action, SubChange(Unset, sub)>> \in Seq(Commands(subs))
         /\ \A v : \A sub \in subs :
              <<Action, TenderReviewStep(v, sub)>> \in Seq(Commands(subs))
<1>1. Named \subseteq subs
  BY SubsNamed
<1>2. /\ Action \in Commands(subs) /\ Exception \in Commands(subs)
      /\ \A status \in Statuses, sub \in subs : StatusChange(status, sub) \in Commands(subs)
      /\ \A sub \in subs : SubChange(Unset, sub) \in Commands(subs)
  BY DEF Action, Exception, StatusChange, SubChange, Command, Commands, Snapshots, Transitions
<1>3. \A v : \A sub \in subs : TenderReviewStep(v, sub) \in Commands(subs)
  BY <1>2 DEF TenderReviewStep, Statuses
<1>4. From(Fresh, StatusChange("processing", "tender_created")) \in Commands(subs)
  BY <1>1 DEF Named, From, Fresh, StatusChange, Command, Commands, Transitions, Statuses
<1>5. \A v : TenderCreated(v) \subseteq Seq(Commands(subs))
  <2>1. <<Action, From(Fresh, StatusChange("processing", "tender_created"))>>
          \in Seq(Commands(subs))
    BY <1>2, <1>4, Joined2
  <2>2. QED
    BY <2>1, Zenon DEF TenderCreated
<1>6. "resolved_manually" \in subs
  BY <1>1 DEF Named
<1>7. /\ \A category : FailureOf(category) \in Seq(Commands(subs))
      /\ \A v : Resolve(v) \subseteq Seq(Commands(subs))
  BY <1>6, AnywhereTyped
<1>8. QED
  BY <1>2, <1>3, <1>5, <1>7, Joined1, Joined2, Zenon

(* Every step writes a row of the same sub-statuses, and so is what it is   *)
(* about to write; with all of them, a matter of types, and without         *)
(* escalated, of every step but the one that escalates.                     *)
LEMMA RowKept ==
  ASSUME TypeOK, Errand, NEW subs, Steady \subseteq subs, row \in RowsOf(subs),
         run.todo \in Seq(Commands(subs)), [Next]_vars, RecordEscalation => "escalated" \in subs
  PROVE  row' \in RowsOf(subs) /\ run'.todo \in Seq(Commands(subs))
<1> DEFINE S == Seq(Commands(subs))
<1>1. \A s \in S : AfterSequence(row, s) \in RowsOf(subs)
  BY AfterSequenceTyped
<1>2. /\ Idle.todo = <<>> /\ \A item, at : Begun(item, at).todo = <<>>
      /\ <<>> \in S /\ \A at : [run EXCEPT !.at = at].todo = run.todo
      /\ \A c : [run EXCEPT !.at = "write", !.todo = c].todo = c
  BY DEF Idle, Begun, TypeOK, Runs
<1>3. /\ <<Exception>> \in S /\ \A category : FailureOf(category) \in S
      /\ \A v : Resolve(v) \subseteq S /\ TenderCreated(v) \subseteq S
  BY Sent
<1>4. Named \subseteq subs /\ {TenantSub(attempt), CarrierSub(run.attempt)} \subseteq subs
  BY SubsNamed, Numbers
<1>5. /\ <<Action, SubChange(Unset, TenantSub(attempt))>> \in S
      /\ <<SubChange(Unset, CarrierSub(run.attempt))>> \in S
      /\ <<StatusChange("completed", "resolved_manually")>> \in S
      /\ run.decision \in Named => <<StatusChange("completed", run.decision)>> \in S
  BY <1>4, Sent DEF Named, Statuses
<1>6. run.decision \in Named
  BY DEF TypeOK, Runs, Named
<1>7. \A v : \A n \in 1..2 : <<Action, TenderReviewStep(v, ReminderSubs[n])>> \in S
  BY Sent, SubsNamed
<1>8. \A v : "escalated" \in subs => TenderEscalated(v) \subseteq S
  <2>1. "escalated" \in subs => \A v : <<Action, TenderReviewStep(v, "escalated")>> \in S
    BY Sent
  <2>2. QED
    BY <2>1, Zenon DEF TenderEscalated, When
<1> HIDE DEF S
<1> SUFFICES row' \in RowsOf(subs) /\ run'.todo \in S
  BY DEF S
<1>9. run.todo \in S
  BY DEF S
<1>10. /\ End => run'.todo \in S
       /\ \A at : Goto(at) => run'.todo \in S
       /\ \A c \in S : Write(c) => run'.todo \in S
       /\ \A c \in S : Committed(c) => row' \in RowsOf(subs)
  BY <1>1, <1>2, <1>9, Zenon DEF End, Goto, Write, Committed
<1>11. Fail => row' \in RowsOf(subs) /\ run'.todo \in S
  BY <1>3, <1>10, Zenon DEF Fail
<1>12. OnlyRun => row' = row
  BY Zenon DEF OnlyRun
<1>13. CASE UNCHANGED vars \/ Ingress \/ \E t \in tasks : Fire(t)
  BY <1>9, <1>13, Zenon DEF vars, Ingress, Arrive, ReadMail, EnqueueMail, LinkMail, Fire
<1>14. CASE Portal
  BY <1>3, <1>1, <1>9, <1>14, Zenon DEF Portal
<1>15. CASE Take
  <2>1. (\E at : run' = Begun(Head(queue), at)) /\ row' = row
    BY <1>15 DEF Take
  <2>2. QED
    BY <1>2, <2>1
<1>16. CASE Raise
  BY <1>10, <1>12, <1>16, Zenon DEF Raise
<1>17. CASE RecordCreated \/ SafeNodeFails \/ SkipTender \/ LogTender \/ RecordCarrier
  BY <1>3, <1>5, <1>10, <1>11, <1>17, Zenon
  DEF RecordCreated, SafeNodeFails, SkipTender, LogTender, RecordCarrier
<1>18. CASE Read
  <2>1. run' = Idle \/ \E at : run' = [run EXCEPT !.attempt = attempt, !.at = at]
    BY <1>18, Zenon DEF Read, End
  <2>2. run'.todo = <<>> \/ run'.todo = run.todo
    BY <1>2, <2>1 DEF TypeOK, Runs
  <2>3. QED
    BY <1>2, <1>9, <1>12, <1>18, <2>2, Zenon DEF Read
<1>19. CASE SendTender \/ Schedule \/ Mark \/ Advance \/ Escalate
  BY <1>10, <1>19, Zenon DEF SendTender, Schedule, ScheduleAll, ScheduleFails, Flagged, Mark,
     Advance, Escalate
<1>20. CASE RecordWarnings
  <2>1. row' = row \/ row' = AfterSequence(row, <<Exception>>)
    BY <1>20, Zenon DEF RecordWarnings
  <2>2. QED
    BY <1>1, <1>3, <1>10, <1>20, <2>1, Zenon DEF RecordWarnings
<1>21. CASE Remind \/ Route \/ Notify
  BY <1>10, <1>12, <1>21, Zenon DEF Remind, Route, Notify
<1>22. CASE UpdateReminder
  <2>1. run.at = "update"
    BY <1>22, Zenon DEF UpdateReminder
  <2>2. run.item.slot \in 1..2
    BY <2>1, Numbers DEF Errand, Slotted
  <2>3. <<Action, TenderReviewStep(row, ReminderSubs[run.item.slot])>> \in S
    BY <1>7, <2>2
  <2>4. QED
    BY <1>10, <1>12, <1>22, <2>3, Zenon DEF UpdateReminder
<1>23. CASE Guard
  BY <1>3, <1>10, <1>23, Zenon DEF Guard
<1>24. CASE Classify
  <2>1. run'.todo = run.todo \/ End
    BY <1>24 DEF Classify, TypeOK, Runs
  <2>2. QED
    BY <1>9, <1>10, <1>12, <1>24, <2>1, Zenon DEF Classify
<1>25. CASE Bump
  <2>1. run'.todo = run.todo
    BY <1>25 DEF Bump, TypeOK, Runs
  <2>2. QED
    BY <1>9, <1>25, <2>1, Zenon DEF Bump
<1>26. CASE RecordEscalation
  BY <1>8, <1>10, <1>12, <1>26, Zenon DEF RecordEscalation
<1>27. CASE RecordAck
  BY <1>5, <1>6, <1>10, <1>27, Zenon DEF RecordAck
<1>28. CASE WriteRow
  BY <1>9, <1>10, <1>28, Zenon DEF WriteRow
<1>29. QED
  BY <1>13, <1>14, <1>15, <1>16, <1>17, <1>18, <1>19, <1>20, <1>21, <1>22, <1>23, <1>24, <1>25,
     <1>26, <1>27, <1>28, Zenon DEF Next, Node

-----------------------------------------------------------------------------
(* The run.                                                                 *)

\* Which node comes after which, within a run; read and bump apart.
Follows(a, b) ==
  \/ a = "record" /\ b = "read"
  \/ a = "send" /\ b = "warn"
  \/ a = "warn" /\ b = "log"
  \/ a = "carrier" /\ b = "schedule"
  \/ a = "schedule" /\ b = "mark"
  \/ a = "remind" /\ b = "update"
  \/ a = "update" /\ b = "write"
  \/ a = "guard" /\ b = "classify"
  \/ a = "classify" /\ b \in {"ack", "route"}
  \/ a = "route" /\ b \in {"advance", "escalate", "ack"}
  \/ a = "advance" /\ b = "bump"
  \/ a = "escalate" /\ b = "notify"
  \/ a = "notify" /\ b = "escalated"
  \/ a = "escalated" /\ b = "write"
  \/ a = "ack" /\ b = "write"

\* The run is the same one, and is now there.
SameRun == /\ run'.item = run.item /\ run'.attempt = run.attempt
           /\ run'.failover = run.failover

\* It is over, or goes on to the node that follows.
Hop ==
  /\ run.at # "idle"
  /\ load' = load /\ attempt' = attempt /\ queue' = queue /\ mails' = mails
  /\ outside' = outside
  /\ \/ run' = Idle
     \/ SameRun /\ run' \in Runs /\ Follows(run.at, run'.at)
  /\ run'.at = "advance" => FTL /\ run.attempt < load.carriers
  /\ run'.at = "escalate" => (FTL => ~(run.attempt < load.carriers))

(* So do all steps of a run but the first and those that read the attempt.  *)
LEMMA RunHops ==
  ASSUME TypeOK, Errand, Node \/ Raise, ~Read, ~Bump
  PROVE  Hop
<1>1. run \in Runs /\ row \in Rows /\ run.todo \in Seq(Commands(Subs))
  BY DEF TypeOK, Runs, Rows, RowsOf
<1>2. run'.todo \in Seq(Commands(Subs))
  <2>1. [Next]_vars
    BY Zenon DEF Next
  <2>2. Steady \subseteq Subs /\ "escalated" \in Subs
    BY SubsNamed
  <2>3. QED
    BY <1>1, <2>1, <2>2, RowKept DEF Rows
<1> DEFINE Fixed == /\ load' = load /\ attempt' = attempt /\ queue' = queue /\ mails' = mails
                    /\ outside' = outside
<1>3. /\ OnlyRun => Fixed
      /\ OnlyRow => Fixed
  BY Zenon DEF OnlyRun, OnlyRow, metaVars, mailVars
<1>4. ASSUME Fixed, run.at # "idle", End
      PROVE  Hop
  BY <1>4 DEF Hop, End, Idle, Begun
<1>5. ASSUME Fixed, run.at # "idle", NEW at \in Nodes \ {"advance", "escalate"},
             Follows(run.at, at), Goto(at)
      PROVE  Hop
  <2>1. run' \in Runs /\ SameRun /\ run'.at = at
    BY <1>1, <1>5 DEF Runs, Goto, SameRun
  <2>2. QED
    BY <1>5, <2>1, Zenon DEF Hop
<1>6. ASSUME Fixed, run.at \in {"update", "escalated", "ack"}, NEW c, Write(c)
      PROVE  Hop
  <2>1. run'.todo = c /\ SameRun /\ run'.at = "write"
    BY <1>1, <1>6 DEF Runs, Write, SameRun
  <2>2. run' \in Runs
    BY <1>1, <1>2, <1>6, <2>1 DEF Runs, Nodes, Write
  <2>3. QED
    BY <1>6, <2>1, <2>2 DEF Hop, Follows
<1> HIDE DEF Fixed
<1>7. CASE Raise
  BY <1>3, <1>4, <1>7 DEF Raise
<1>8. CASE WriteRow \/ SafeNodeFails \/ SkipTender \/ LogTender
  <2>1. Fixed /\ End
    BY <1>3, <1>8, Zenon DEF WriteRow, SafeNodeFails, SkipTender, LogTender, Fail
  <2>2. run.at # "idle"
    BY <1>8 DEF WriteRow, SafeNodeFails, SkipTender, LogTender
  <2>3. QED
    BY <1>4, <2>1, <2>2
<1>9. CASE RecordCreated \/ RecordWarnings \/ RecordCarrier \/ Notify \/ Guard \/ Remind
  <2>1. Fixed
    BY <1>3, <1>9, Zenon
    DEF RecordCreated, RecordWarnings, RecordCarrier, Notify, Guard, Remind
  <2>2. run.at \in {"record", "warn", "carrier", "notify", "guard", "remind"}
    BY <1>9, Zenon DEF RecordCreated, RecordWarnings, RecordCarrier, Notify, Guard, Remind
  <2>3. End \/ \E at \in {"read", "log", "schedule", "escalated", "classify", "update"} :
                 Follows(run.at, at) /\ Goto(at)
    BY <1>9, Zenon
    DEF RecordCreated, RecordWarnings, RecordCarrier, Notify, Guard, Remind, Follows
  <2>4. {"read", "log", "schedule", "escalated", "classify", "update"}
          \subseteq Nodes \ {"advance", "escalate"}
    BY DEF Nodes
  <2>5. QED
    BY <1>4, <1>5, <2>1, <2>2, <2>3, <2>4
<1>10. CASE SendTender \/ Schedule \/ Mark \/ Advance \/ Escalate
  <2>1. Fixed
    BY <1>10, Zenon
    DEF SendTender, Schedule, Mark, Advance, Escalate, Fixed, metaVars, mailVars
  <2>2. run.at \in {"send", "schedule", "mark", "advance", "escalate"}
    BY <1>10, Zenon DEF SendTender, Schedule, Mark, Advance, Escalate
  <2>3. End \/ \E at \in {"warn", "mark", "bump", "notify"} : Follows(run.at, at) /\ Goto(at)
    BY <1>10, Zenon
    DEF SendTender, Schedule, ScheduleAll, ScheduleFails, Flagged, Mark, Advance, Escalate,
        Follows
  <2>4. {"warn", "mark", "bump", "notify"} \subseteq Nodes \ {"advance", "escalate"}
    BY DEF Nodes
  <2>5. QED
    BY <1>4, <1>5, <2>1, <2>2, <2>3, <2>4
<1>11. CASE UpdateReminder \/ RecordEscalation \/ RecordAck
  <2>1. Fixed
    BY <1>3, <1>11, Zenon
    DEF UpdateReminder, RecordEscalation, RecordAck, Fixed, metaVars, mailVars
  <2>2. run.at \in {"update", "escalated", "ack"}
    BY <1>11, Zenon DEF UpdateReminder, RecordEscalation, RecordAck
  <2>3. End \/ \E c : Write(c)
    BY <1>11, Zenon DEF UpdateReminder, RecordEscalation, RecordAck
  <2>4. QED
    BY <1>4, <1>6, <2>1, <2>2, <2>3
<1>12. CASE Classify
  <2>1. Fixed /\ run.at = "classify"
    BY <1>3, <1>12, Zenon DEF Classify
  <2>2. CASE End
    BY <1>4, <2>1, <2>2
  <2>3. CASE \E at \in {"ack", "route"}, d \in {"accepted", "rejected"} :
               run' = [run EXCEPT !.at = at, !.decision = d]
    <3>1. run' \in Runs /\ SameRun /\ run'.at \in {"ack", "route"}
      BY <1>1, <2>3 DEF Runs, SameRun, Nodes
    <3>2. QED
      BY <2>1, <3>1 DEF Hop, Follows, Fixed
  <2>4. QED
    BY <1>12, <2>2, <2>3, Zenon DEF Classify
<1>13. CASE Route
  <2>1. Fixed /\ run.at = "route"
    BY <1>3, <1>13, Zenon DEF Route
  <2>2. ASSUME NEW at \in {"advance", "escalate", "ack"}, Goto(at)
        PROVE  run' \in Runs /\ SameRun /\ run'.at = at
    BY <1>1, <2>2 DEF Goto, Runs, SameRun, Nodes
  <2>3. \/ HasNext(run.attempt) /\ Goto("advance")
        \/ ~HasNext(run.attempt) /\ Goto("escalate")
        \/ Goto("ack")
    BY <1>13, Zenon DEF Route
  <2>4. QED
    BY <2>1, <2>2, <2>3 DEF Hop, Follows, Fixed, HasNext
<1>14. QED
  BY <1>7, <1>8, <1>9, <1>10, <1>11, <1>12, <1>13, Zenon DEF Node

(* A revocation leaves no task that is both on the lifecycle and in Celery, *)
(* of those it is about, if the two do not both fail.                       *)
LEMMA Revoked ==
  ASSUME NEW matching \in SUBSET pending, Revoke(matching)
  PROVE  /\ tasks' \subseteq tasks /\ pending' \subseteq pending
         /\ ~({"cancel", "revoke"} \subseteq Failing) =>
              pending' \cap tasks' \subseteq (pending \cap tasks) \ matching
BY DEF Revoke

\* How a step treats the attempt and the tasks.
Timing ==
  /\ attempt' \in 1..load.carriers /\ attempt <= attempt' /\ load' = load
  /\ run.at # "bump" => attempt' = attempt
  /\ tasks' \subseteq Tasks /\ pending' \subseteq Tasks
  /\ \A t \in tasks' \cup pending' : t \in tasks \cup pending \/ t.attempt = run.attempt
  /\ marked' \in {marked, run.attempt}

(* The attempt grows, to one the tenant allows, and tasks are those of the  *)
(* run's attempt or those there were.                                       *)
LEMMA Timed ==
  ASSUME TypeOK, Past, Aimed, [Next]_vars
  PROVE  Timing
<1>1. /\ load.carriers \in 1..3 /\ attempt \in 1..load.carriers /\ run.attempt \in 1..3
      /\ run.attempt <= attempt /\ pending \subseteq Tasks /\ tasks \subseteq Tasks
  BY Numbers DEF TypeOK, Past
<1>2. ASSUME load' = load, attempt' = attempt, tasks' \subseteq tasks, pending' \subseteq pending,
             marked' \in {marked, run.attempt}
      PROVE  Timing
  BY <1>1, <1>2 DEF Timing
<1>3. CASE UNCHANGED vars \/ Ingress \/ Portal \/ Take \/ Raise
  <2>1. /\ load' = load /\ attempt' = attempt /\ tasks' = tasks /\ pending' = pending
        /\ marked' = marked
    <3>1. CASE Take
      BY <3>1 DEF Take, metaVars, timerVars
    <3>2. QED
      BY <1>3, <3>1, Zenon
      DEF vars, Ingress, Arrive, ReadMail, EnqueueMail, LinkMail, Portal, Raise, OnlyRun,
          metaVars, timerVars
  <2>2. QED
    BY <1>2, <2>1
<1>4. CASE \E t \in tasks : Fire(t)
  <2>1. /\ load' = load /\ attempt' = attempt /\ pending' = pending /\ marked' = marked
        /\ \E t : tasks' = tasks \ {t}
    BY <1>4, Zenon DEF Fire, metaVars
  <2>2. QED
    BY <1>2, <2>1
<1>5. CASE RecordCreated \/ Read \/ SafeNodeFails \/ SkipTender \/ SendTender \/ RecordWarnings
             \/ LogTender \/ RecordCarrier \/ Remind \/ UpdateReminder \/ Guard \/ Classify
             \/ Route \/ Notify \/ RecordEscalation \/ WriteRow
  <2>1. /\ load' = load /\ attempt' = attempt /\ tasks' = tasks /\ pending' = pending
        /\ marked' = marked
    BY <1>5, Zenon
    DEF RecordCreated, Read, SafeNodeFails, SkipTender, SendTender, RecordWarnings, LogTender,
        RecordCarrier, Remind, UpdateReminder, Guard, Classify, Route, Notify,
        RecordEscalation, WriteRow, OnlyRun, OnlyRow, metaVars, timerVars
  <2>2. QED
    BY <1>2, <2>1
<1>6. CASE Mark
  <2>1. /\ load' = load /\ attempt' = attempt /\ tasks' = tasks /\ pending' = pending
        /\ marked' \in {run.attempt, marked}
    BY <1>6 DEF Mark, timerVars
  <2>2. QED
    BY <1>2, <2>1
<1>7. CASE Advance \/ Escalate \/ RecordAck
  <2>1. load' = load /\ attempt' = attempt /\ marked' = marked
    BY <1>7, Zenon DEF Advance, Escalate, RecordAck, metaVars
  <2>2. Revoke(pending) \/ Revoke(OfAttempt(run.attempt))
    BY <1>7, Zenon DEF Advance, Escalate, RecordAck
  <2>3. OfAttempt(run.attempt) \subseteq pending
    BY DEF OfAttempt
  <2>4. tasks' \subseteq tasks /\ pending' \subseteq pending
    BY <2>2, <2>3, Revoked
  <2>5. QED
    BY <1>2, <2>1, <2>4
<1>8. CASE Schedule
  <2> DEFINE batch == [slot : Slots \cup {Escalation}, attempt : {run.attempt},
                       batch : {Len(batches) + 1}]
  <2>1. /\ load' = load /\ attempt' = attempt /\ marked' = marked
    BY <1>8, Zenon DEF Schedule, metaVars
  <2>2. batch \subseteq Tasks /\ \A t \in batch : t.attempt = run.attempt
    <3>1. Len(batches) + 1 \in Nat /\ run.attempt \in Attempts
      BY <1>1, SubsNamed, LenProperties DEF TypeOK
    <3>2. QED
      BY <3>1 DEF Tasks
  <2> HIDE DEF batch
  <2>3. \/ tasks' = tasks /\ pending' = pending
        \/ ScheduleAll(batch) \/ ScheduleFails(batch)
    BY <1>8, Zenon DEF Schedule, timerVars, batch
  <2>4. tasks' \subseteq tasks \cup batch /\ pending' \subseteq pending \cup batch
    BY <2>3 DEF ScheduleAll, ScheduleFails
  <2>5. QED
    BY <1>1, <2>1, <2>2, <2>4 DEF Timing
<1>9. CASE Bump
  <2>1. /\ load' = load /\ tasks' = tasks /\ pending' = pending /\ marked' = marked
        /\ attempt' = NextAttempt(run.attempt) /\ run.at = "bump"
    BY <1>9, Zenon DEF Bump, timerVars
  <2>2. attempt' \in 1..load.carriers /\ attempt <= attempt'
    BY <1>1, <2>1 DEF NextAttempt
  <2>3. QED
    BY <1>1, <2>1, <2>2 DEF Timing
<1>10. QED
  BY <1>3, <1>4, <1>5, <1>6, <1>7, <1>8, <1>9, Zenon DEF Next, Node

\* Nothing of the run is ahead of the attempt.
RunPast == run.item.attempt <= attempt /\ run.attempt <= attempt

(* A run that hops is still where it should be.                             *)
LEMMA HopKept ==
  ASSUME TypeOK, Past, Errand, Aimed, Hop
  PROVE  Errand' /\ Aimed' /\ RunPast'
<1>1. /\ load.carriers \in 1..3 /\ attempt \in 1..load.carriers /\ run.attempt \in 1..3
      /\ run.item.attempt \in 1..3 /\ run.attempt <= attempt /\ run.item.attempt <= attempt
  BY Numbers DEF Past
<1>2. load' = load /\ attempt' = attempt /\ queue' = queue
  BY DEF Hop
<1>3. CASE run' = Idle
  <2>1. run'.at = "idle" /\ run'.item.event = "tender_created" /\ ~run'.failover
        /\ run'.attempt = 1 /\ run'.item.attempt = 1
    BY <1>3 DEF Idle, Begun, Created, Item
  <2>2. Errand'
    BY <1>2, <2>1 DEF Errand, Slotted
  <2>3. Aimed'
    BY <2>1 DEF Aimed
  <2>4. QED
    BY <1>1, <1>2, <2>1, <2>2, <2>3 DEF RunPast
<1>4. CASE SameRun /\ Follows(run.at, run'.at)
  <2>1. Errand'
    BY <1>2, <1>4 DEF Errand, Slotted, SameRun, Follows
  <2>2. Aimed'
    <3>1. (FTL' <=> FTL) /\ (Timer(run.item)' <=> Timer(run.item))
      BY <1>2, <1>4, Zenon DEF FTL, Timer, SameRun
    <3>2. run'.at = "escalate" /\ FTL => attempt = load.carriers
      BY <1>1 DEF Hop
    <3>3. run'.at = "advance" => FTL
      BY DEF Hop
    <3>4. run.at \in {"guard", "classify"} => ~Timer(run.item)
      BY DEF Errand, Timer
    <3>5. /\ run'.item = run.item /\ run'.attempt = run.attempt
          /\ run'.failover <=> run.failover
      BY <1>4, Zenon DEF SameRun
    <3> HIDE DEF FTL, Timer
    <3>6. QED
      BY <1>2, <1>4, <3>1, <3>2, <3>3, <3>4, <3>5 DEF Aimed, Follows, Errand
  <2>3. QED
    BY <1>1, <1>2, <1>4, <2>1, <2>2 DEF RunPast, SameRun
<1>5. QED
  BY <1>3, <1>4 DEF Hop

(* No run is a run.                                                         *)
LEMMA NoRun ==
  /\ Idle \in Runs /\ Idle.at = "idle" /\ Idle.item.event = "tender_created"
  /\ ~Idle.failover /\ Idle.attempt = 1 /\ Idle.item.attempt = 1 /\ Created \in Items
<1>1. Created \in Items
  BY SubsNamed DEF Created, Item, Items, Events
<1>2. Idle \in Runs
  BY <1>1 DEF Idle, Begun, Runs, Nodes, Items
<1>3. QED
  BY <1>1, <1>2 DEF Idle, Begun, Created, Item

(* The first step of a run, and the two that read the attempt.              *)
LEMMA TakeKept ==
  ASSUME TypeOK, Past, Errand, Take
  PROVE  /\ Errand' /\ Aimed' /\ RunPast' /\ run' \in Runs /\ queue' \in Seq(Items)
         /\ \A i \in DOMAIN queue' : i + 1 \in DOMAIN queue /\ queue'[i] = queue[i + 1]
         /\ run'.item \in Items /\ run'.todo = <<>> /\ run'.at # "mark" /\ run'.at # "bump"
         /\ ~(run'.at = "read" /\ ~run'.failover) => ~Timer(run'.item)
<1> DEFINE item == Head(queue)
           at == CASE item.event = "tender_created" -> "record"
                   [] item.event = "ack_received" -> "guard"
                   [] OTHER -> "read"
<1>1. queue \in Seq(Items) /\ queue # <<>>
  BY DEF TypeOK, Take
<1>2. /\ item \in Items /\ item = queue[1] /\ 1 \in DOMAIN queue
      /\ queue' \in Seq(Items)
      /\ \A i \in DOMAIN queue' : i + 1 \in DOMAIN queue /\ queue'[i] = queue[i + 1]
  BY <1>1, HeadTailProperties, LenProperties DEF Take
<1>3. /\ run' = Begun(item, at) /\ load' = load /\ attempt' = attempt
  BY DEF Take, metaVars
<1>4. item.attempt <= attempt /\ Slotted(item)
  BY <1>2 DEF Past, Errand
<1>5. \A i \in DOMAIN queue' : Slotted(queue'[i])
  BY <1>2 DEF Errand
<1>6. /\ item.event = "tender_created" => at = "record"
      /\ item.event = "ack_received" => at = "guard"
      /\ item.event \notin {"tender_created", "ack_received"} => at = "read"
  OBVIOUS
<1>7. item.event \in Events /\ item.attempt \in Attempts
  BY <1>2 DEF Items
<1> HIDE DEF item, at
<1>8. /\ run'.item = item /\ run'.at = at /\ run'.attempt = item.attempt
      /\ ~run'.failover /\ run'.todo = <<>>
  BY <1>3 DEF Begun
<1>9. Errand'
  BY <1>4, <1>5, <1>6, <1>7, <1>8 DEF Errand, Slotted
<1>10. Aimed' /\ RunPast'
  BY <1>3, <1>4, <1>6, <1>8 DEF Aimed, RunPast
<1>11. run' \in Runs
  BY <1>2, <1>3, <1>6, <1>7 DEF Begun, Runs, Nodes
<1>12. ~(run'.at = "read") => ~Timer(run'.item)
  BY <1>6, <1>8 DEF Timer
<1>13. QED
  BY <1>2, <1>6, <1>8, <1>9, <1>10, <1>11, <1>12

LEMMA ReadKept ==
  ASSUME TypeOK, Past, Errand, Aimed, Read
  PROVE  /\ Errand' /\ Aimed' /\ RunPast' /\ run' \in Runs
         /\ run'.at \notin {"read", "mark", "bump", "update", "advance"}
         /\ run'.item = run.item \/ ~Timer(run'.item)
         /\ Timer(run'.item) /\ ~run.failover => ~Completed
<1>1. /\ run \in Runs /\ attempt \in 1..3 /\ attempt \in Attempts /\ attempt \in 1..load.carriers
  BY Numbers, SubsNamed DEF TypeOK
<1>2. /\ load' = load /\ attempt' = attempt /\ queue' = queue /\ run.at = "read"
  BY Zenon DEF Read, OnlyRun, metaVars
<1>3. PICK at \in Branches(run) :
        IF at = "idle" THEN End ELSE run' = [run EXCEPT !.attempt = attempt, !.at = at]
  BY DEF Read
<1>4. CASE at = "idle"
  <2>1. run'.at = "idle" /\ run'.item.event = "tender_created" /\ ~run'.failover
        /\ run'.attempt = 1 /\ run'.item.attempt = 1 /\ run' \in Runs
    BY <1>3, <1>4, NoRun DEF End
  <2>2. Errand' /\ Aimed' /\ RunPast'
    BY <1>1, <1>2, <2>1 DEF Errand, Aimed, Slotted, RunPast
  <2>3. QED
    BY <2>1, <2>2 DEF Timer
<1>5. CASE at # "idle"
  <2>1. /\ run'.item = run.item /\ run'.at = at /\ run'.attempt = attempt
        /\ (run'.failover <=> run.failover) /\ run' = [run EXCEPT !.attempt = attempt, !.at = at]
    BY <1>1, <1>3, <1>5 DEF Runs
  <2>2. /\ run.failover => at = "send"
        /\ ~run.failover =>
             \/ run.item.event = "carrier_email_received" /\ at = "carrier"
             \/ run.item.event = "tender_created" /\ at \in {"send", "skip"}
             \/ /\ Timer(run.item) /\ ~Stale(run) /\ ~Completed
                /\ \/ run.item.event = "reminder_due" /\ at = "remind"
                   \/ run.item.event = "escalation_due" /\ at = "route"
    <3>1. run.item.event \in Events
      BY <1>1 DEF Runs, Items
    <3>2. CASE run.failover
      BY <3>2 DEF Branches
    <3>3. CASE ~run.failover
      <4>1. run.item.event # "ack_received"
        BY <1>2, <3>3 DEF Errand
      <4> HIDE DEF Stale, Completed
      <4>2. QED
        BY <1>5, <3>1, <3>3, <4>1 DEF Branches, Events, Timer
    <3>4. QED
      BY <3>2, <3>3
  <2>3. Errand'
    BY <1>2, <2>1, <2>2 DEF Errand, Slotted
  <2>4. ~run.failover => run.attempt = run.item.attempt
    BY <1>2 DEF Aimed
  <2>5. Aimed'
    BY <1>2, <2>1, <2>2, <2>4 DEF Aimed, FTL, Timer, Stale
  <2>6. run' \in Runs /\ RunPast'
    <3>1. at \in Nodes /\ at \notin {"read", "mark", "bump", "update", "advance"}
      BY <2>2 DEF Nodes
    <3>2. run' \in Runs
      BY <1>1, <2>1, <3>1 DEF Runs
    <3>3. RunPast'
      BY <1>1, <1>2, <2>1 DEF RunPast, Past
    <3>4. QED
      BY <3>2, <3>3
  <2>7. QED
    BY <2>1, <2>2, <2>3, <2>5, <2>6 DEF Timer
<1>6. QED
  BY <1>4, <1>5

LEMMA BumpKept ==
  ASSUME TypeOK, Past, Errand, Aimed, Bump
  PROVE  /\ Errand' /\ Aimed' /\ RunPast' /\ run' \in Runs /\ run.at = "bump"
         /\ run'.at # "mark" /\ run'.at # "bump" /\ run'.item = run.item
<1>1. Timing
  BY Timed, Zenon DEF Next, Node
<1>2. /\ load' = load /\ queue' = queue /\ run.at = "bump"
      /\ run' = [run EXCEPT !.at = "read", !.attempt = attempt', !.failover = TRUE]
  BY Zenon DEF Bump
<1>3. /\ attempt' \in 1..load.carriers /\ attempt <= attempt' /\ load.carriers \in 1..3
      /\ run.item.attempt <= attempt /\ run.item.attempt \in 1..3 /\ attempt \in 1..3
  BY <1>1, Numbers DEF Timing, Past
<1>4. /\ run'.item = run.item /\ run'.at = "read" /\ run'.attempt = attempt'
      /\ run'.failover
  BY <1>2 DEF TypeOK, Runs
<1>5. run' \in Runs
  <2>1. attempt' \in Attempts
    BY <1>3, SubsNamed
  <2>2. QED
    BY <1>2, <2>1 DEF TypeOK, Runs, Nodes
<1>6. run.item.event \in {"ack_received", "escalation_due"}
  BY <1>2 DEF Errand
<1>7. Errand'
  BY <1>2, <1>4, <1>6 DEF Errand, Slotted
<1>8. Aimed'
  BY <1>4 DEF Aimed
<1>9. RunPast'
  BY <1>3, <1>4 DEF RunPast
<1>10. QED
  BY <1>2, <1>4, <1>5, <1>7, <1>8, <1>9

(* An item behind the queue.                                                *)
LEMMA Enqueued ==
  ASSUME TypeOK, Past, Errand, NEW item \in Items, Slotted(item), item.attempt <= attempt,
         queue' = Append(queue, item), attempt' = attempt
  PROVE  /\ queue' \in Seq(Items)
         /\ \A i \in DOMAIN queue' : queue'[i].attempt <= attempt' /\ Slotted(queue'[i])
<1>1. queue \in Seq(Items)
  BY DEF TypeOK
<1>2. /\ queue' \in Seq(Items)
      /\ \A i \in DOMAIN queue' : queue'[i] = item \/ (i \in DOMAIN queue /\ queue'[i] = queue[i])
  BY <1>1, AppendProperties, LenProperties
<1>3. QED
  BY <1>2 DEF Past, Errand

(* A mail that has been read is one.                                        *)
LEMMA ReadTyped ==
  ASSUME NEW r \in Mails, NEW n \in Attempts, NEW e \in Events,
         NEW a \in {"skipped", "retired", "passed"}
  PROVE  [r EXCEPT !.event = e, !.attempt = n, !.at = a] \in Mails
BY DEF Mails

(* The mails stay mails, none ahead of the attempt.                         *)
LEMMA MailsKept ==
  ASSUME TypeOK, Past, Mailed, Ingress
  PROVE  /\ mails' \in Seq(Mails) /\ Mailed'
         /\ \A m \in DOMAIN mails' : mails'[m].attempt <= attempt
<1> DEFINE Kept == /\ mails' \in Seq(Mails)
                   /\ \A n \in DOMAIN mails' :
                        /\ mails'[n].attempt <= attempt
                        /\ mails'[n].at # "arrived" => mails'[n].event \in Carriers
<1> SUFFICES Kept
  BY DEF Mailed
<1>1. mails \in Seq(Mails) /\ attempt \in Attempts /\ attempt \in 1..3
  BY Numbers, SubsNamed DEF TypeOK
<1>2. /\ Len(mails) \in Nat /\ DOMAIN mails = 1..Len(mails)
      /\ \A m \in DOMAIN mails : mails[m] \in Mails /\ mails[m].attempt <= attempt
      /\ \A m \in DOMAIN mails : mails[m].at # "arrived" => mails[m].event \in Carriers
  BY <1>1, LenProperties, ElementOfSeq DEF Past, Mailed
<1>3. CASE \E t \in Threads : Arrive(t)
  <2>1. PICK t \in Threads : Arrive(t)
    BY <1>3
  <2> DEFINE mail == [thread |-> t, event |-> "none", attempt |-> 1, at |-> "arrived",
                      run |-> "none"]
  <2>2. mail \in Mails /\ mail.attempt <= attempt /\ mail.at = "arrived"
    BY <1>1, SubsNamed DEF Mails
  <2>3. mails' = Append(mails, mail)
    BY <2>1, Zenon DEF Arrive
  <2> HIDE DEF mail
  <2>4. QED
    BY <1>1, <1>2, <2>2, <2>3, AppendProperties, LenProperties
<1>4. ASSUME NEW m \in DOMAIN mails, NEW mail \in Mails, mail.attempt <= attempt,
             mail.event \in Carriers, mails' = [mails EXCEPT ![m] = mail]
      PROVE  Kept
  <2>1. mails' \in Seq(Mails)
    BY <1>1, <1>2, <1>4, ExceptSeq
  <2>2. QED
    BY <1>2, <1>4, <2>1
<1>5. ASSUME NEW m \in DOMAIN mails, NEW event \in Carriers,
             ReadMail(m, event)
      PROVE  Kept
  <2> DEFINE at == IF event = "ack_received" THEN AckVerdict(m) ELSE CarrierVerdict(m)
             mail == [mails[m] EXCEPT !.event = event, !.attempt = attempt, !.at = at]
  <2>1. at \in {"skipped", "retired", "passed"}
    BY DEF AckVerdict, CarrierVerdict
  <2>2. mails' = [mails EXCEPT ![m] = mail]
    BY <1>5, Zenon DEF ReadMail
  <2> HIDE DEF at
  <2>3. mail \in Mails /\ mail.attempt <= attempt /\ mail.event \in Carriers
    <3>1. mails[m] \in Mails /\ attempt <= attempt /\ event \in Events
      BY <1>1, <1>2 DEF Events, Carriers
    <3> DEFINE r == mails[m]
    <3>2. mail = [r EXCEPT !.event = event, !.attempt = attempt, !.at = at]
      OBVIOUS
    <3>3. r \in Mails /\ attempt \in Attempts
      BY <1>1, <3>1
    <3> HIDE DEF mail, r
    <3>4. mail \in Mails
      BY <2>1, <3>1, <3>2, <3>3, ReadTyped, Zenon
    <3>5. mail.attempt = attempt /\ mail.event = event
      BY <3>2, <3>3 DEF Mails
    <3>6. QED
      BY <1>1, <3>4, <3>5
  <2> HIDE DEF mail
  <2>4. QED
    BY <1>4, <2>2, <2>3
<1>6. ASSUME NEW m \in DOMAIN mails, EnqueueMail(m)
      PROVE  Kept
  <2> DEFINE mail == [mails[m] EXCEPT !.at = "queued"]
  <2>1. mails' = [mails EXCEPT ![m] = mail]
    BY <1>6, Zenon DEF EnqueueMail
  <2>2. mail \in Mails /\ mail.attempt <= attempt /\ mail.event \in Carriers
    BY <1>2, <1>6, Zenon DEF Mails, EnqueueMail
  <2> HIDE DEF mail
  <2>3. QED
    BY <1>4, <2>1, <2>2
<1>7. ASSUME NEW m \in DOMAIN mails, LinkMail(m)
      PROVE  Kept
  <2>1. PICK linked : mails' = [i \in DOMAIN mails |->
                        [mails[i] EXCEPT !.at = IF i = m THEN "linked" ELSE @,
                                         !.run = IF i \in linked THEN mails[m].event ELSE @]]
    BY <1>7, Zenon DEF LinkMail
  <2>2. /\ DOMAIN mails' = 1..Len(mails)
        /\ \A i \in DOMAIN mails :
             mails'[i] = [mails[i] EXCEPT !.at = IF i = m THEN "linked" ELSE @,
                                          !.run = IF i \in linked THEN mails[m].event ELSE @]
    BY <1>2, <2>1
  <2>3. mails[m].event \in Events \cup {"none"}
    BY <1>2 DEF Mails
  <2>4. ASSUME NEW i \in DOMAIN mails
        PROVE  /\ mails'[i] \in Mails
               /\ mails'[i].attempt = mails[i].attempt
               /\ mails'[i].event = mails[i].event
               /\ mails'[i].at \in {"linked", mails[i].at}
    <3>1. mails[i] \in Mails
      BY <1>2
    <3>2. QED
      BY <2>2, <2>3, <3>1, ZenonT(30) DEF Mails
  <2>5. mails' \in Seq(Mails)
    <3>1. mails' = [i \in 1..Len(mails) |-> mails'[i]]
      BY <2>1, <2>2
    <3>2. QED
      BY <1>2, <2>4, <3>1
  <2>6. mails[m].at # "arrived"
    BY <1>7 DEF LinkMail
  <2>7. \A i \in DOMAIN mails : mails'[i].at # "arrived" => mails[i].event \in Carriers
    <3>1. ASSUME NEW i \in DOMAIN mails, i # m
          PROVE  mails'[i].at = mails[i].at
      <4>1. mails[i] \in Mails
        BY <1>2
      <4>2. QED
        BY <2>2, <3>1, <4>1 DEF Mails
    <3>2. QED
      BY <1>2, <2>6, <3>1
  <2>8. QED
    BY <1>2, <2>2, <2>4, <2>5, <2>7
<1>8. QED
  BY <1>3, <1>5, <1>6, <1>7, Zenon DEF Ingress, Carriers

(* The ingress worker, the timers and the portal leave the run alone.       *)
Beside == Ingress \/ (\E t \in tasks : Fire(t)) \/ Portal \/ UNCHANGED vars

LEMMA BesideKept ==
  ASSUME TypeOK, Past, Mailed, Errand, Aimed, Beside
  PROVE  /\ run' = run /\ load' = load /\ attempt' = attempt
         /\ queue' \in Seq(Items) /\ mails' \in Seq(Mails)
         /\ \A i \in DOMAIN queue' : queue'[i].attempt <= attempt' /\ Slotted(queue'[i])
         /\ \A m \in DOMAIN mails' : mails'[m].attempt <= attempt'
<1>1. run' = run /\ load' = load /\ attempt' = attempt
  BY Zenon
  DEF Beside, Ingress, Arrive, ReadMail, EnqueueMail, LinkMail, Fire, Portal, vars, metaVars
<1>2. mails' \in Seq(Mails) /\ \A m \in DOMAIN mails' : mails'[m].attempt <= attempt'
  <2>1. ~Ingress => mails' = mails
    BY Zenon DEF Beside, Fire, Portal, vars, mailVars
  <2>2. QED
    BY <1>1, <2>1, MailsKept DEF TypeOK, Past
<1>3. ASSUME queue' = queue
      PROVE  /\ queue' \in Seq(Items)
             /\ \A i \in DOMAIN queue' : queue'[i].attempt <= attempt' /\ Slotted(queue'[i])
  BY <1>1, <1>3 DEF TypeOK, Past, Errand
<1>4. ASSUME NEW m \in DOMAIN mails, EnqueueMail(m)
      PROVE  /\ queue' \in Seq(Items)
             /\ \A i \in DOMAIN queue' : queue'[i].attempt <= attempt' /\ Slotted(queue'[i])
  <2> DEFINE item == Item(mails[m].event, mails[m].thread, mails[m].attempt, Escalation)
  <2>1. mails[m] \in Mails /\ mails[m].attempt <= attempt
    BY ElementOfSeq, LenProperties DEF TypeOK, Past
  <2>2. mails[m].event \in Carriers
    BY <1>4 DEF EnqueueMail, Mailed
  <2>3. item \in Items /\ Slotted(item) /\ item.attempt <= attempt
    BY <2>1, <2>2 DEF Mails, Item, Items, Slotted, Carriers, Events
  <2>4. queue' = Append(queue, item)
    BY <1>4, Zenon DEF EnqueueMail
  <2> HIDE DEF item
  <2>5. QED
    BY <1>1, <2>3, <2>4, Enqueued
<1>5. ASSUME NEW t \in tasks, Fire(t)
      PROVE  /\ queue' \in Seq(Items)
             /\ \A i \in DOMAIN queue' : queue'[i].attempt <= attempt' /\ Slotted(queue'[i])
  <2> DEFINE item == Item(IF t.slot = Escalation THEN "escalation_due" ELSE "reminder_due",
                          NoThread, t.attempt, t.slot)
  <2>1. t \in Tasks /\ t.attempt <= attempt
    BY DEF TypeOK, Past
  <2>2. item \in Items /\ Slotted(item) /\ item.attempt <= attempt
    BY <2>1 DEF Tasks, Item, Items, Slotted, Events
  <2>3. queue' = Append(queue, item)
    BY <1>5, Zenon DEF Fire
  <2> HIDE DEF item
  <2>4. QED
    BY <1>1, <2>2, <2>3, Enqueued
<1>6. CASE Portal \/ UNCHANGED vars \/ \E t \in Threads : Arrive(t)
  BY <1>1, <1>2, <1>3, <1>6, Zenon DEF Portal, vars, Arrive
<1>7. ASSUME NEW m \in DOMAIN mails, NEW event, ReadMail(m, event) \/ LinkMail(m)
      PROVE  queue' = queue
  BY <1>7, Zenon DEF ReadMail, LinkMail
<1>8. QED
  BY <1>1, <1>2, <1>3, <1>4, <1>5, <1>6, <1>7, Zenon DEF Beside, Ingress

(* So nothing gets ahead of the attempt, no run loses its errand, and each  *)
(* is about the attempt it should be about.                                 *)
LEMMA PathKept ==
  ASSUME TypeOK, Past, Mailed, Errand, Aimed, [Next]_vars
  PROVE  /\ run' \in Runs /\ queue' \in Seq(Items) /\ mails' \in Seq(Mails)
         /\ Past' /\ Mailed' /\ Errand' /\ Aimed'
<1>1. Timing
  BY Timed
<1>2. /\ attempt' \in 1..load.carriers /\ attempt <= attempt' /\ load.carriers \in 1..3
      /\ attempt \in 1..3 /\ run.attempt \in 1..3 /\ run.attempt <= attempt
      /\ marked \in 0..3 /\ marked <= attempt /\ load' = load
  BY <1>1, Numbers DEF Timing, Past
<1>3. \A t \in tasks' \cup pending' : t.attempt <= attempt'
  <2>1. \A t \in tasks \cup pending : t.attempt \in 1..3 /\ t.attempt <= attempt
    BY SubsNamed DEF TypeOK, Tasks, Past
  <2>2. QED
    BY <1>1, <1>2, <2>1 DEF Timing
<1>4. marked' <= attempt'
  BY <1>1, <1>2 DEF Timing
<1>5. SUFFICES /\ run' \in Runs /\ queue' \in Seq(Items) /\ mails' \in Seq(Mails)
               /\ \A i \in DOMAIN queue' : queue'[i].attempt <= attempt'
               /\ \A m \in DOMAIN mails' : mails'[m].attempt <= attempt'
               /\ RunPast' /\ Mailed' /\ Errand' /\ Aimed'
  BY <1>3, <1>4 DEF Past, RunPast
<1>6. ASSUME mails' = mails
      PROVE  /\ mails' \in Seq(Mails) /\ Mailed'
             /\ \A m \in DOMAIN mails' : mails'[m].attempt <= attempt'
  <2>1. mails \in Seq(Mails) /\ \A m \in DOMAIN mails : mails[m] \in Mails
    BY ElementOfSeq, LenProperties DEF TypeOK
  <2>2. \A m \in DOMAIN mails : mails[m].attempt \in 1..3 /\ mails[m].attempt <= attempt
    BY <2>1, SubsNamed DEF Mails, Past
  <2>3. Mailed'
    BY <1>6, Zenon DEF Mailed
  <2>4. QED
    BY <1>2, <1>6, <2>1, <2>2, <2>3
<1>7. ASSUME queue' = queue
      PROVE  /\ queue' \in Seq(Items)
             /\ \A i \in DOMAIN queue' : queue'[i].attempt <= attempt'
  <2>1. queue \in Seq(Items) /\ \A i \in DOMAIN queue : queue[i] \in Items
    BY ElementOfSeq, LenProperties DEF TypeOK
  <2>2. \A i \in DOMAIN queue : queue[i].attempt \in 1..3 /\ queue[i].attempt <= attempt
    BY <2>1, SubsNamed DEF Items, Past
  <2>3. QED
    BY <1>2, <1>7, <2>1, <2>2
<1>8. CASE Beside
  <2>1. /\ run' = run /\ load' = load /\ attempt' = attempt
        /\ queue' \in Seq(Items) /\ mails' \in Seq(Mails)
        /\ \A i \in DOMAIN queue' : queue'[i].attempt <= attempt' /\ Slotted(queue'[i])
        /\ \A m \in DOMAIN mails' : mails'[m].attempt <= attempt'
    BY <1>8, BesideKept
  <2>2. Mailed'
    <3>1. ~Ingress => mails' = mails
      BY <1>8, Zenon DEF Beside, Fire, Portal, vars, mailVars
    <3>2. QED
      BY <1>6, <3>1, MailsKept
  <2>3. Errand'
    BY <2>1 DEF Errand, Slotted
  <2>4. Aimed' /\ RunPast'
    BY <2>1 DEF Aimed, FTL, Timer, RunPast, Past
  <2>5. QED
    BY <2>1, <2>2, <2>3, <2>4 DEF TypeOK
<1>9. CASE Take
  <2>1. mails' = mails /\ attempt' = attempt
    BY <1>9 DEF Take, mailVars, metaVars
  <2>2. /\ Errand' /\ Aimed' /\ RunPast' /\ run' \in Runs /\ queue' \in Seq(Items)
        /\ \A i \in DOMAIN queue' : i + 1 \in DOMAIN queue /\ queue'[i] = queue[i + 1]
    BY <1>9, TakeKept
  <2>3. QED
    BY <1>6, <2>1, <2>2 DEF Past
<1>10. CASE Read \/ Bump
  <2>1. mails' = mails /\ queue' = queue
    BY <1>10, Zenon DEF Read, Bump, OnlyRun, mailVars
  <2>2. Errand' /\ Aimed' /\ RunPast' /\ run' \in Runs
    BY <1>10, ReadKept, BumpKept
  <2>3. QED
    BY <1>6, <1>7, <2>1, <2>2
<1>11. CASE (Node \/ Raise) /\ ~Read /\ ~Bump
  <2>1. Hop
    BY <1>11, RunHops
  <2>2. Errand' /\ Aimed' /\ RunPast'
    BY <2>1, HopKept
  <2>3. run' \in Runs
    BY <2>1, NoRun DEF Hop
  <2>4. mails' = mails /\ queue' = queue
    BY <2>1 DEF Hop
  <2>5. QED
    BY <1>6, <1>7, <2>2, <2>3, <2>4
<1>12. QED
  BY <1>8, <1>9, <1>10, <1>11, Zenon DEF Next, Beside

-----------------------------------------------------------------------------
(* The rest of the state.                                                   *)

(* Only schedule_tender_reminders makes a batch, of the attempt of its run. *)
LEMMA Batched ==
  ASSUME TypeOK, [Next]_vars
  PROVE  /\ ~Schedule => batches' = batches
         /\ batches' \in {batches, Append(batches, run.attempt), Append(batches, 0)}
         /\ batches' \in Seq(0..Ceiling)
<1>1. ~Schedule => batches' = batches
  <2>1. CASE Take
    BY <2>1 DEF Take, timerVars
  <2>2. CASE ~Take /\ ~Schedule
    BY <2>2, Zenon
    DEF Next, Node, vars, Ingress, Arrive, ReadMail, EnqueueMail, LinkMail, Fire, Portal, Raise,
        RecordCreated, Read, SafeNodeFails, SkipTender, SendTender, RecordWarnings, LogTender,
        RecordCarrier, Mark, Remind, UpdateReminder, Guard, Classify, Route, Advance, Bump,
        Escalate, Notify, RecordEscalation, RecordAck, WriteRow, OnlyRun, OnlyRow, timerVars
  <2>3. QED
    BY <2>1, <2>2
<1>2. batches' \in {batches, Append(batches, run.attempt), Append(batches, 0)}
  <2>1. Schedule => batches' \in {batches, Append(batches, run.attempt), Append(batches, 0)}
    BY Zenon DEF Schedule, timerVars, ScheduleAll, ScheduleFails
  <2>2. QED
    BY <1>1, <2>1
<1>3. batches \in Seq(0..Ceiling) /\ run.attempt \in 0..Ceiling /\ 0 \in 0..Ceiling
  BY Numbers, SubsNamed DEF TypeOK
<1>4. Append(batches, run.attempt) \in Seq(0..Ceiling) /\ Append(batches, 0) \in Seq(0..Ceiling)
  BY <1>3, AppendProperties
<1>5. QED
  BY <1>1, <1>2, <1>3, <1>4, Zenon

(* Every step keeps the types.                                              *)
LEMMA Typed ==
  ASSUME TypeOK, Past, Mailed, Errand, Aimed, [Next]_vars
  PROVE  TypeOK'
<1>1. Timing /\ run' \in Runs /\ queue' \in Seq(Items) /\ mails' \in Seq(Mails)
  BY Timed, PathKept
<1>2. row' \in Rows
  <2>1. row \in Rows /\ run.todo \in Seq(Commands(Subs))
    BY DEF TypeOK, Runs, Rows, RowsOf
  <2>2. Steady \subseteq Subs /\ "escalated" \in Subs
    BY SubsNamed
  <2>3. QED
    BY <2>1, <2>2, RowKept DEF Rows
<1>3. load' \in Loads /\ attempt' \in 1..load'.carriers /\ marked' \in 0..Ceiling
  BY <1>1, Numbers, SubsNamed DEF TypeOK, Timing
<1>4. pending' \in SUBSET Tasks /\ tasks' \in SUBSET Tasks
  BY <1>1 DEF Timing
<1>5. batches' \in Seq(0..Ceiling)
  BY Batched
<1>6. tendered' \in BOOLEAN
  <2>1. CASE Take
    BY <2>1 DEF Take, mailVars, TypeOK
  <2>2. CASE ~Take
    <3>1. tendered' = tendered \/ tendered' = TRUE
      BY <2>2, Zenon
      DEF Next, Node, vars, Ingress, Arrive, ReadMail, EnqueueMail, LinkMail, Fire, Portal,
          Raise, RecordCreated, Read, SafeNodeFails, SkipTender, SendTender, RecordWarnings,
          LogTender, RecordCarrier, Schedule, Mark, Remind, UpdateReminder, Guard, Classify,
          Route, Advance, Bump, Escalate, Notify, RecordEscalation, RecordAck, WriteRow,
          OnlyRun, OnlyRow, mailVars
    <3>2. QED
      BY <3>1, Zenon DEF TypeOK
  <2>3. QED
    BY <2>1, <2>2
<1>7. outside' \in Nat
  <2>1. CASE Beside
    <3>1. outside' = outside \/ outside' = outside + 1
      BY <2>1, Zenon
      DEF Beside, Ingress, Arrive, ReadMail, EnqueueMail, LinkMail, Fire, Portal, vars
    <3>2. QED
      BY <3>1 DEF TypeOK
  <2>2. CASE Take
    BY <2>2 DEF Take, TypeOK
  <2>3. CASE Read \/ Bump
    BY <2>3, Zenon DEF Read, Bump, OnlyRun, TypeOK
  <2>4. CASE (Node \/ Raise) /\ ~Read /\ ~Bump
    <3>1. outside' = outside
      BY <2>4, RunHops, Zenon DEF Hop
    <3>2. QED
      BY <3>1 DEF TypeOK
  <2>5. QED
    BY <2>1, <2>2, <2>3, <2>4, Zenon DEF Next, Beside
<1>8. QED
  BY <1>1, <1>2, <1>3, <1>4, <1>5, <1>6, <1>7, Zenon DEF TypeOK, Rows, RowsOf

(* Before the last carrier no step escalates the row, nor prepares to.      *)
LEMMA StaysPatient ==
  ASSUME TypeOK, Past, Errand, Aimed, Patient, [Next]_vars
  PROVE  Patient'
<1>1. SUFFICES ASSUME FTL', attempt' # load'.carriers
               PROVE  row'.sub \in Steady /\ run'.todo \in Seq(Commands(Steady))
  BY DEF Patient
<1>2. Timing
  BY Timed
<1>3. FTL /\ attempt # load.carriers
  BY <1>1, <1>2, Numbers DEF Timing, FTL
<1>4. row.sub \in Steady /\ run.todo \in Seq(Commands(Steady))
  BY <1>3 DEF Patient
<1>5. row \in RowsOf(Steady)
  BY <1>4 DEF TypeOK, RowsOf
<1>6. ~RecordEscalation
  BY <1>3 DEF RecordEscalation, Aimed
<1>7. row' \in RowsOf(Steady) /\ run'.todo \in Seq(Commands(Steady))
  BY <1>4, <1>5, <1>6, RowKept
<1>8. QED
  BY <1>7 DEF RowsOf

-----------------------------------------------------------------------------
(* Reminders.                                                               *)

(* The attempt of a batch is marked before the next batch.                  *)
LEMMA StaysMarked ==
  ASSUME TypeOK, Past, Aimed, Errand, Marked, [Next]_vars
  PROVE  Marked'
<1>1. Timing
  BY Timed
<1>2. /\ batches \in Seq(0..Ceiling) /\ Ceiling = 3 /\ marked \in 0..3 /\ run.attempt \in 1..3
      /\ marked <= attempt /\ attempt \in 1..3
  BY Numbers, SubsNamed DEF TypeOK, Past
<1>3. SUFFICES ASSUME FTL', "mark" \notin Failing
               PROVE  /\ \A i \in DOMAIN batches' :
                           \/ batches'[i] <= marked'
                           \/ run'.at = "mark" /\ batches'[i] = run'.attempt
                      /\ \A i, j \in DOMAIN batches' :
                           batches'[i] = batches'[j] /\ batches'[i] # 0 => i = j
  BY DEF Marked
<1>4. FTL
  BY <1>1, <1>3 DEF Timing, FTL
<1>5. /\ \A i \in DOMAIN batches :
           batches[i] <= marked \/ (run.at = "mark" /\ batches[i] = run.attempt)
      /\ \A i, j \in DOMAIN batches : batches[i] = batches[j] /\ batches[i] # 0 => i = j
      /\ \A i \in DOMAIN batches : batches[i] \in 0..3
  BY <1>2, <1>3, <1>4, ElementOfSeq, LenProperties DEF Marked
<1>6. CASE Schedule
  <2>1. marked' = marked /\ run.at = "schedule" /\ run.attempt = attempt
    BY <1>6, Zenon DEF Schedule, metaVars, Aimed
  <2>2. Hop
    BY <1>6, RunHops, Zenon DEF Node, Schedule, Read, Bump
  <2>3. run'.at = "mark" => run'.attempt = run.attempt
    BY <2>2, NoRun DEF Hop, SameRun
  <2>4. CASE batches' = batches
    BY <1>5, <2>1, <2>4
  <2>5. ASSUME NEW n \in 0..3, batches' = Append(batches, n),
               n = 0 \/ (n = run.attempt /\ marked # n /\ run'.at = "mark")
        PROVE  /\ \A i \in DOMAIN batches' :
                    \/ batches'[i] <= marked'
                    \/ run'.at = "mark" /\ batches'[i] = run'.attempt
               /\ \A i, j \in DOMAIN batches' :
                    batches'[i] = batches'[j] /\ batches'[i] # 0 => i = j
    <3>1. /\ \A i \in DOMAIN batches' : i \in DOMAIN batches \/ i = Len(batches) + 1
          /\ \A i \in DOMAIN batches : i # Len(batches) + 1 /\ batches'[i] = batches[i]
          /\ batches'[Len(batches) + 1] = n
      BY <1>2, <2>5, AppendProperties, LenProperties
    <3>2. \A i \in DOMAIN batches : batches[i] <= marked
      BY <1>5, <2>1
    <3>3. n # 0 => \A i \in DOMAIN batches : batches[i] # n
      BY <1>2, <1>5, <2>1, <2>5, <3>2
    <3>4. QED
      BY <1>2, <1>5, <2>1, <2>3, <2>5, <3>1, <3>2, <3>3
  <2>6. \/ batches' = batches
        \/ batches' = Append(batches, 0)
        \/ batches' = Append(batches, run.attempt) /\ marked # run.attempt /\ run'.at = "mark"
    <3>1. \/ batches' = batches
          \/ batches' = Append(batches, 0)
          \/ batches' = Append(batches, run.attempt) /\ marked # run.attempt /\ Goto("mark")
      BY <1>4, <1>6, Zenon
      DEF Schedule, ScheduleAll, ScheduleFails, AlreadyScheduled, Flagged, timerVars
    <3>2. Goto("mark") => run'.at = "mark"
      BY DEF Goto, TypeOK, Runs
    <3>3. QED
      BY <3>1, <3>2, Zenon
  <2>7. QED
    BY <1>2, <2>4, <2>5, <2>6
<1>7. CASE Mark
  <2>1. marked' = run.attempt /\ batches' = batches /\ run.at = "mark"
    BY <1>3, <1>7 DEF Mark, timerVars
  <2>2. run.attempt = attempt
    BY <2>1 DEF Aimed
  <2>3. QED
    BY <1>2, <1>5, <2>1, <2>2
<1>8. CASE ~Schedule /\ ~Mark
  <2>1. batches' = batches
    BY <1>8, Batched
  <2>2. marked' = marked
    <3>1. CASE Take
      BY <3>1 DEF Take, metaVars
    <3>2. CASE ~Take
      BY <1>8, <3>2, Zenon
      DEF Next, Node, vars, Ingress, Arrive, ReadMail, EnqueueMail, LinkMail, Fire, Portal,
          Raise, RecordCreated, Read, SafeNodeFails, SkipTender, SendTender, RecordWarnings,
          LogTender, RecordCarrier, Remind, UpdateReminder, Guard, Classify, Route, Advance,
          Bump, Escalate, Notify, RecordEscalation, RecordAck, WriteRow, OnlyRun, OnlyRow,
          metaVars
    <3>3. QED
      BY <3>1, <3>2
  <2>3. run.at = "mark" => run' = run
    <3>1. CASE Beside
      BY <3>1, Zenon
      DEF Beside, Ingress, Arrive, ReadMail, EnqueueMail, LinkMail, Fire, Portal, vars
    <3>2. CASE ~Beside /\ run.at = "mark"
      BY <1>8, <3>2
      DEF Next, Beside, Node, Take, Raise, RecordCreated, Read, SafeNodeFails, SkipTender,
          SendTender, RecordWarnings, LogTender, RecordCarrier, Remind, UpdateReminder, Guard,
          Classify, Route, Advance, Bump, Escalate, Notify, RecordEscalation, RecordAck, WriteRow
    <3>3. QED
      BY <3>1, <3>2
  <2>4. QED
    BY <1>5, <2>1, <2>2, <2>3
<1>9. QED
  BY <1>6, <1>7, <1>8

(* A run comes to the bump from the revocation only.                        *)
LEMMA BumpNext ==
  ASSUME TypeOK, Past, Errand, Aimed, [Next]_vars, run'.at = "bump"
  PROVE  Advance \/ run' = run
<1>1. CASE Beside
  BY <1>1, Zenon
  DEF Beside, Ingress, Arrive, ReadMail, EnqueueMail, LinkMail, Fire, Portal, vars
<1>2. CASE Take \/ Read \/ Bump
  BY <1>2, TakeKept, ReadKept, BumpKept
<1>3. CASE (Node \/ Raise) /\ ~Read /\ ~Bump
  <2>1. Hop
    BY <1>3, RunHops
  <2>2. run.at = "advance" /\ run' # Idle
    BY <2>1, NoRun DEF Hop, Follows
  <2>3. ~Raise
    BY <2>2 DEF Raise, End
  <2>4. QED
    BY <1>3, <2>2, <2>3
    DEF Node, RecordCreated, SafeNodeFails, SkipTender, SendTender, RecordWarnings, LogTender,
        RecordCarrier, Schedule, Mark, Remind, UpdateReminder, Guard, Classify, Route, Escalate,
        Notify, RecordEscalation, RecordAck, WriteRow
<1>4. QED
  BY <1>1, <1>2, <1>3, Zenon DEF Next, Beside

(* What is on the lifecycle and waits goes before the attempt does, unless  *)
(* both its revocation and its removal from the lifecycle may fail.         *)
LEMMA StaysLive ==
  ASSUME TypeOK, Past, Errand, Aimed, Live, [Next]_vars
  PROVE  Live'
<1>1. Timing
  BY Timed
<1>2. SUFFICES ASSUME FTL', ~({"cancel", "revoke"} \subseteq Failing),
                      NEW t \in pending' \cap tasks'
               PROVE  t.attempt = attempt' /\ (run'.at = "bump" => t.attempt # run'.attempt)
  BY DEF Live
<1>3. FTL
  BY <1>1, <1>2 DEF Timing, FTL
<1>4. \A u \in pending \cap tasks :
        u.attempt = attempt /\ (run.at = "bump" => u.attempt # run.attempt)
  BY <1>2, <1>3 DEF Live
<1>5. CASE Advance
  <2>1. /\ Revoke(OfAttempt(run.attempt)) /\ attempt' = attempt
        /\ run' = [run EXCEPT !.at = "bump"]
    BY <1>5, Zenon DEF Advance, metaVars, Goto
  <2>2. run'.attempt = run.attempt
    BY <2>1 DEF TypeOK, Runs
  <2>3. t \in (pending \cap tasks) \ OfAttempt(run.attempt)
    <3>1. OfAttempt(run.attempt) \in SUBSET pending
      BY DEF OfAttempt
    <3>2. QED
      BY <1>2, <2>1, <3>1, Revoked
  <2>4. t.attempt # run.attempt
    BY <2>3 DEF OfAttempt
  <2>5. QED
    BY <1>4, <2>1, <2>2, <2>3, <2>4
<1>6. CASE Escalate \/ RecordAck
  <2>1. Revoke(pending)
    BY <1>6, Zenon DEF Escalate, RecordAck
  <2>2. pending' \cap tasks' \subseteq (pending \cap tasks) \ pending
    BY <1>2, <2>1, Revoked
  <2>3. QED
    BY <2>2
<1>7. CASE Bump
  <2>1. /\ pending' = pending /\ tasks' = tasks /\ run.at = "bump"
        /\ attempt' = NextAttempt(run.attempt)
    BY <1>7, Zenon DEF Bump, timerVars
  <2>2. t.attempt = attempt /\ t.attempt # run.attempt
    BY <1>4, <2>1
  <2>3. run.attempt <= attempt /\ attempt \in 1..3 /\ run.attempt \in 1..3
    BY Numbers DEF Past
  <2>4. attempt' = attempt
    BY <2>1, <2>2, <2>3 DEF NextAttempt
  <2>5. run'.at # "bump"
    BY <1>7, BumpKept
  <2>6. QED
    BY <2>2, <2>4, <2>5
<1>8. CASE Schedule
  <2> DEFINE batch == [slot : Slots \cup {Escalation}, attempt : {run.attempt},
                       batch : {Len(batches) + 1}]
  <2>1. attempt' = attempt /\ run.at = "schedule" /\ run.attempt = attempt
    BY <1>8, Zenon DEF Schedule, metaVars, Aimed
  <2>2. \A u \in batch : u.attempt = attempt
    BY <2>1
  <2> HIDE DEF batch
  <2>3. \/ tasks' = tasks /\ pending' = pending
        \/ ScheduleAll(batch) \/ ScheduleFails(batch)
    BY <1>8, Zenon DEF Schedule, timerVars, batch
  <2>4. tasks' \subseteq tasks \cup batch /\ pending' \subseteq pending \cup batch
    BY <2>3 DEF ScheduleAll, ScheduleFails
  <2>5. t.attempt = attempt
    <3>1. CASE t \in batch
      BY <2>2, <3>1
    <3>2. CASE t \notin batch
      BY <1>4, <2>4, <3>2
    <3>3. QED
      BY <3>1, <3>2
  <2>6. run'.at # "bump"
    <3>1. ~Advance /\ run' # run
      <4>1. Hop
        BY <1>8, RunHops, Zenon DEF Node, Schedule, Read, Bump
      <4>2. run'.at # "schedule"
        BY <2>1, <4>1, NoRun DEF Hop, Follows
      <4>3. QED
        BY <2>1, <4>2 DEF Advance
    <3>2. QED
      BY <3>1, BumpNext
  <2>7. QED
    BY <2>1, <2>5, <2>6
<1>9. CASE ~Advance /\ ~Escalate /\ ~RecordAck /\ ~Bump /\ ~Schedule
  <2>1. pending' = pending /\ tasks' \subseteq tasks /\ attempt' = attempt
    <3>1. CASE Take
      BY <3>1 DEF Take, metaVars, timerVars
    <3>2. CASE \E u \in tasks : Fire(u)
      BY <3>2 DEF Fire, metaVars
    <3>3. CASE ~Take /\ ~(\E u \in tasks : Fire(u))
      <4>1. pending' = pending /\ tasks' = tasks /\ attempt' = attempt
        BY <1>9, <3>3, Zenon
        DEF Next, Node, vars, Ingress, Arrive, ReadMail, EnqueueMail, LinkMail, Portal, Raise,
            RecordCreated, Read, SafeNodeFails, SkipTender, SendTender, RecordWarnings,
            LogTender, RecordCarrier, Mark, Remind, UpdateReminder, Guard, Classify, Route,
            Notify, RecordEscalation, WriteRow, OnlyRun, OnlyRow, metaVars, timerVars
      <4>2. QED
        BY <4>1
    <3>4. QED
      BY <3>1, <3>2, <3>3
  <2>2. run'.at = "bump" => run' = run
    BY <1>9, BumpNext
  <2>3. QED
    BY <1>4, <2>1, <2>2
<1>10. QED
  BY <1>5, <1>6, <1>7, <1>8, <1>9

-----------------------------------------------------------------------------
(* Late timers.                                                             *)

(* What a resolution, a failure and a warning make of the row.              *)
LEMMA RowAfter ==
  ASSUME TypeOK
  PROVE  /\ \A s \in Resolve(row) : AfterSequence(row, s).sub = "resolved_manually"
         /\ \A category : /\ AfterSequence(row, FailureOf(category)).status = "pending_review"
                          /\ AfterSequence(row, FailureOf(category)).sub = row.sub
         /\ AfterSequence(row, <<Exception>>).status = row.status
         /\ AfterSequence(row, <<Exception>>).sub = row.sub
<1>1. row \in RowsOf(Subs) /\ "resolved_manually" \in Subs
  BY SubsNamed DEF TypeOK, RowsOf, Named
<1>2. /\ Action \in Commands(Subs) /\ IsSnapshot(Action.type)
      /\ Exception \in Commands(Subs) /\ IsSnapshot(Exception.type)
  BY DEF Action, Exception, Command, Commands, Snapshots, IsSnapshot
<1>3. \A s \in Resolve(row) : AfterSequence(row, s).sub = "resolved_manually"
  <2> DEFINE c == StatusChange("completed", "resolved_manually")
  <2>1. /\ c \in Commands(Subs) /\ ~IsSnapshot(c.type) /\ c.sub = "resolved_manually"
        /\ OrElse(c.sub, row.sub) = "resolved_manually"
    BY <1>1
    DEF StatusChange, Command, Commands, Transitions, Snapshots, IsSnapshot, Statuses, OrElse,
        Unset
  <2>2. AfterSequence(row, <<Action, c>>).sub = "resolved_manually"
    <3> HIDE DEF c
    <3>1. QED
      BY <1>1, <1>2, <2>1, AfterLogged
  <2>3. QED
    BY <2>2, Zenon DEF Resolve
<1>4. ASSUME NEW category
      PROVE  /\ AfterSequence(row, FailureOf(category)).status = "pending_review"
             /\ AfterSequence(row, FailureOf(category)).sub = row.sub
  <2> DEFINE a == [Exception EXCEPT !.pause = IF category = "business" THEN Unset
                                              ELSE "system_error"]
             c == StatusChange("pending_review", Unset)
  <2>1. a \in Commands(Subs) /\ IsSnapshot(a.type)
    BY DEF Exception, Command, Commands, Snapshots, IsSnapshot, PauseTypes
  <2>2. /\ c \in Commands(Subs) /\ ~IsSnapshot(c.type) /\ c.status = "pending_review"
        /\ OrElse(c.sub, row.sub) = row.sub /\ c.status # Unset
    BY DEF StatusChange, Command, Commands, Transitions, Snapshots, IsSnapshot, Statuses, OrElse,
           Unset
  <2>3. FailureOf(category) = <<a, c>>
    BY DEF FailureOf
  <2> HIDE DEF a, c
  <2>4. QED
    BY <1>1, <2>1, <2>2, <2>3, AfterLogged
<1>5. /\ AfterSequence(row, <<Exception>>).status = row.status
      /\ AfterSequence(row, <<Exception>>).sub = row.sub
  BY <1>1, <1>2, AfterSnapshot
<1>6. QED
  BY <1>3, <1>4, <1>5

(* A run of a timer, past its first look, changes neither status of the row *)
(* unless it ends there.                                                    *)
LEMMA TimerKeepsRow ==
  ASSUME TypeOK, Errand, Node \/ Raise, Timer(run.item), run' # Idle
  PROVE  row'.status = row.status /\ row'.sub = row.sub
<1>1. run.item.event \notin {"tender_created", "carrier_email_received", "ack_received"}
  BY DEF Timer
<1>2. ~RecordCreated /\ ~SkipTender /\ ~RecordCarrier /\ ~Guard
  BY <1>1 DEF Errand, RecordCreated, SkipTender, RecordCarrier, Guard
<1>3. ~Raise /\ ~SafeNodeFails /\ ~LogTender /\ ~WriteRow
  BY Zenon DEF Raise, SafeNodeFails, Fail, LogTender, WriteRow, End
<1>4. CASE RecordWarnings
  BY <1>4, RowAfter DEF RecordWarnings
<1>5. CASE ~RecordWarnings
  <2>1. row' = row
    BY <1>2, <1>3, <1>5, Zenon
    DEF Node, Read, SendTender, Schedule, Mark, Remind, UpdateReminder, Classify, Route, Advance,
        Bump, Escalate, Notify, RecordEscalation, RecordAck, OnlyRun
  <2>2. QED
    BY <2>1
<1>6. QED
  BY <1>4, <1>5

(* Nobody answers behind the back of a timer that goes on.                  *)
LEMMA StaysUnanswered ==
  ASSUME TypeOK, Past, Errand, Aimed, Unanswered, [Next]_vars
  PROVE  Unanswered'
<1>1. SUFFICES ASSUME Timer(run'.item), ~(run'.at = "read" /\ ~run'.failover)
               PROVE  ~Acked'
  BY DEF Unanswered, Timer
<1>2. CASE Beside
  <2>1. run' = run
    BY <1>2, Zenon
    DEF Beside, Ingress, Arrive, ReadMail, EnqueueMail, LinkMail, Fire, Portal, vars
  <2>2. ~Acked
    BY <1>1, <2>1 DEF Unanswered
  <2>3. CASE Portal
    BY <2>3, RowAfter DEF Portal, Acked
  <2>4. CASE ~Portal
    <3>1. row' = row
      BY <1>2, <2>4, Zenon
      DEF Beside, Ingress, Arrive, ReadMail, EnqueueMail, LinkMail, Fire, vars
    <3>2. QED
      BY <2>2, <3>1 DEF Acked
  <2>5. QED
    BY <2>3, <2>4
<1>3. CASE Take
  BY <1>1, <1>3, TakeKept
<1>4. CASE Read
  <2>1. row' = row /\ run.at = "read"
    BY <1>4, Zenon DEF Read, OnlyRun
  <2>2. run'.item = run.item /\ (~run.failover => ~Completed)
    BY <1>1, <1>4, ReadKept
  <2>3. ~Acked
    BY <1>1, <2>2 DEF Unanswered, Acked, Completed
  <2>4. QED
    BY <2>1, <2>3 DEF Acked
<1>5. CASE Bump
  <2>1. row' = row
    BY <1>5, Zenon DEF Bump
  <2>2. run'.item = run.item /\ run.at = "bump"
    BY <1>5, BumpKept
  <2>3. QED
    BY <1>1, <2>1, <2>2 DEF Unanswered, Acked
<1>6. CASE (Node \/ Raise) /\ ~Read /\ ~Bump
  <2>1. Hop /\ run' # Idle
    BY <1>1, <1>6, RunHops, NoRun DEF Timer
  <2>2. run'.item = run.item /\ run.at # "read"
    BY <2>1 DEF Hop, SameRun, Follows, Errand
  <2>3. ~Acked
    BY <1>1, <2>2 DEF Unanswered
  <2>4. QED
    BY <1>1, <1>6, <2>1, <2>2, <2>3, TimerKeepsRow DEF Acked
<1>7. QED
  BY <1>2, <1>3, <1>4, <1>5, <1>6, Zenon DEF Next, Beside

-----------------------------------------------------------------------------
(* Theorems.                                                                *)

(* At first there is a tender to send and nothing else.                     *)
LEMMA InitInv == Init => IInv
<1>1. SUFFICES ASSUME Init
               PROVE  IInv
  OBVIOUS
<1>2. /\ load \in Loads /\ row = Inserted /\ attempt = 1 /\ marked = 0 /\ pending = {}
      /\ tasks = {} /\ batches = <<>> /\ mails = <<>> /\ tendered = FALSE
      /\ queue = <<Created>> /\ run = Idle /\ outside = 0
  BY <1>1, Zenon DEF Init
<1>3. load.carriers \in 1..3
  BY <1>2, LoadsAssumption, SubsNamed
<1>4. row \in Rows /\ row.sub \in Steady /\ row.status = "none"
  BY <1>2, SubsNamed DEF Inserted, Rows, RowsOf, Statuses, Named
<1>5. TypeOK
  <2>1. queue \in Seq(Items)
    BY <1>2, NoRun, Joined1
  <2>2. \A S : <<>> \in Seq(S)
    OBVIOUS
  <2>3. attempt \in 1..load.carriers /\ marked \in 0..Ceiling /\ outside \in Nat
    BY <1>2, <1>3, SubsNamed
  <2>4. pending \in SUBSET Tasks /\ tasks \in SUBSET Tasks
    BY <1>2
  <2>5. tendered \in BOOLEAN /\ batches \in Seq(0..Ceiling) /\ mails \in Seq(Mails)
    BY <1>2, <2>2, Zenon
  <2>6. QED
    BY <1>2, <1>4, <2>1, <2>3, <2>4, <2>5, NoRun, Zenon DEF TypeOK, Rows, RowsOf
<1>6. Past /\ Mailed
  BY <1>2, NoRun DEF Past, Mailed, Created, Item
<1>7. Errand /\ Aimed
  BY <1>2, NoRun DEF Errand, Aimed, Slotted, Created, Item
<1>8. Patient
  <2>1. run.todo = <<>>
    BY <1>2 DEF Idle, Begun
  <2>2. <<>> \in Seq(Commands(Steady))
    OBVIOUS
  <2>3. QED
    BY <1>4, <2>1, <2>2 DEF Patient
<1>9. Unanswered /\ Marked /\ Live
  BY <1>2, NoRun DEF Unanswered, Timer, Marked, Live
<1>10. QED
  BY <1>5, <1>6, <1>7, <1>8, <1>9 DEF IInv

(* The inductive invariant holds of every reachable state.                  *)
LEMMA Invariance == Spec => []IInv
<1>1. IInv /\ [Next]_vars => IInv'
  BY PathKept, Typed, StaysPatient, StaysUnanswered, StaysMarked, StaysLive, Zenon DEF IInv
<1>2. QED
  BY <1>1, InitInv, PTL DEF Spec

(* Every state is well typed, whatever the loads and their carriers, the    *)
(* threads and the schedule, and whatever fails.                            *)
THEOREM TypeCorrect == Spec => []TypeOK
<1>1. IInv => TypeOK
  BY DEF IInv
<1>2. QED
  BY <1>1, Invariance, PTL

(* An attempt ends only by a decision about it: a refusal or a timeout that *)
(* comes twice, or late, skips no carrier (advance_carrier_routing_guide).  *)
THEOREM NoneSkipped == Spec => PassedOverOnce
<1>1. IInv /\ [Next]_vars => [attempt' # attempt => run.item.attempt = attempt]_attempt
  <2>1. SUFFICES ASSUME IInv, [Next]_vars, attempt' # attempt
                 PROVE  run.item.attempt = attempt
    OBVIOUS
  <2>2. run.at = "bump"
    BY <2>1, Timed DEF IInv, Timing
  <2>3. run.attempt = run.item.attempt /\ run.attempt <= attempt
    BY <2>1, <2>2 DEF IInv, Aimed, Past
  <2>4. attempt' = NextAttempt(run.attempt)
    <3>1. Bump
      BY <2>1, <2>2
      DEF Next, Node, vars, Ingress, Arrive, ReadMail, EnqueueMail, LinkMail, Fire, Portal, Take,
          Raise, RecordCreated, Read, SafeNodeFails, SkipTender, SendTender, RecordWarnings,
          LogTender, RecordCarrier, Schedule, Mark, Remind, UpdateReminder, Guard, Classify,
          Route, Advance, Escalate, Notify, RecordEscalation, RecordAck, WriteRow, OnlyRun,
          OnlyRow, metaVars
    <3>2. QED
      BY <3>1 DEF Bump
  <2>5. QED
    BY <2>1, <2>3, <2>4, Numbers DEF NextAttempt, IInv
<1>2. QED
  BY <1>1, Invariance, PTL DEF Spec, PassedOverOnce

(* An FTL tender is escalated by its last carrier only.                     *)
THEOREM LastCarrierEscalates == Spec => []EscalatedLast
<1>1. IInv => EscalatedLast
  BY DEF IInv, Patient, EscalatedLast, Steady
<1>2. QED
  BY <1>1, Invariance, PTL

(* One batch of reminders for an attempt, if the transaction that marks the *)
(* attempt does not fail: without it the next mail schedules again.         *)
THEOREM OneBatch ==
  ASSUME "mark" \notin Failing
  PROVE  Spec => []RemindersOnce
<1>1. IInv => RemindersOnce
  BY DEF IInv, Marked, RemindersOnce
<1>2. QED
  BY <1>1, Invariance, PTL

(* What can be revoked is of the live attempt, unless Celery and the        *)
(* lifecycle may both miss a revocation (_cancel_matching).                 *)
THEOREM LiveOnRecord ==
  ASSUME ~({"cancel", "revoke"} \subseteq Failing)
  PROVE  Spec => []RecordedAreLive
<1>1. IInv => RecordedAreLive
  BY DEF IInv, Live, RecordedAreLive
<1>2. QED
  BY <1>1, Invariance, PTL

(* Both, of a well-typed state: reminders are of the live attempt and there *)
(* is one batch of them.                                                    *)
THEOREM RemindersOfTheLiveAttempt ==
  ASSUME "mark" \notin Failing, ~({"cancel", "revoke"} \subseteq Failing)
  PROVE  Spec => []ReminderInv
<1>1. TypeOK /\ RemindersOnce /\ RecordedAreLive => ReminderInv
  BY DEF ReminderInv
<1>2. (Spec => []RemindersOnce) /\ (Spec => []RecordedAreLive)
  BY OneBatch, LiveOnRecord
<1>3. QED
  BY <1>1, <1>2, TypeCorrect, PTL

(* A timer that survived its revocation changes nothing that matters.       *)
THEOREM LateTimersHarmless == Spec => LateTimersLost
<1> DEFINE Harmless ==
      Timer(run.item) /\ run' # run =>
        /\ FTL /\ run'.at \in {"update", "advance"} => run.item.attempt = attempt
        /\ Acked => row' = row \/ (row'.status = "pending_review" /\ row'.sub = row.sub)
<1>1. IInv /\ [Next]_vars => Harmless
  <2>1. SUFFICES ASSUME IInv, [Next]_vars, Timer(run.item), run' # run
                 PROVE  /\ FTL /\ run'.at \in {"update", "advance"} => run.item.attempt = attempt
                        /\ Acked => \/ row' = row
                                    \/ row'.status = "pending_review" /\ row'.sub = row.sub
    OBVIOUS
  <2>2. TypeOK /\ Past /\ Errand /\ Aimed /\ Unanswered
    BY <2>1 DEF IInv
  <2>3. Node \/ Raise
    <3>1. run.at # "idle"
      BY <2>1, <2>2 DEF Errand, Timer
    <3>2. ~Take
      BY <3>1 DEF Take
    <3>3. ~Beside
      BY <2>1, Zenon
      DEF Beside, Ingress, Arrive, ReadMail, EnqueueMail, LinkMail, Fire, Portal, vars
    <3>4. QED
      BY <2>1, <3>2, <3>3, Zenon DEF Next, Beside
  <2>4. FTL /\ run'.at \in {"update", "advance"} => run.item.attempt = attempt
    <3>1. CASE Read
      BY <2>2, <3>1, ReadKept
    <3>2. CASE Bump
      BY <2>2, <3>2 DEF Bump, TypeOK, Runs
    <3>3. CASE ~Read /\ ~Bump
      BY <2>1, <2>2, <2>3, <3>3, RunHops, NoRun DEF Hop, Follows, Aimed
    <3>4. QED
      BY <3>1, <3>2, <3>3
  <2>5. ASSUME Acked
        PROVE  row' = row \/ (row'.status = "pending_review" /\ row'.sub = row.sub)
    <3>1. run.at = "read"
      BY <2>1, <2>2, <2>5 DEF Unanswered
    <3>2. Read \/ SafeNodeFails \/ Raise
      BY <2>3, <3>1
      DEF Node, RecordCreated, SkipTender, SendTender, RecordWarnings, LogTender, RecordCarrier,
          Schedule, Mark, Remind, UpdateReminder, Guard, Classify, Route, Advance, Bump, Escalate,
          Notify, RecordEscalation, RecordAck, WriteRow
    <3>3. CASE Read \/ Raise
      BY <3>3, Zenon DEF Read, Raise, OnlyRun
    <3>4. CASE SafeNodeFails
      BY <2>2, <3>4, RowAfter DEF SafeNodeFails, Fail, Committed
    <3>5. QED
      BY <3>2, <3>3, <3>4
  <2>6. QED
    BY <2>4, <2>5
<1>2. QED
  BY <1>1, Invariance, PTL DEF Spec, LateTimersLost
=============================================================================
