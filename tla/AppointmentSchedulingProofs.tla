-------------------- MODULE AppointmentSchedulingProofs --------------------
(***************************************************************************)
(* Proofs about AppointmentScheduling for any bounds, any settings of the  *)
(* tenant and whatever may fail: its types, that the draft goes to the     *)
(* customer at most once, that what the row tells of the appointment is    *)
(* so, and that a settled appointment stays settled.                       *)
(***************************************************************************)
EXTENDS AppointmentScheduling, LifecycleRequestsProofs

\* Before the lifecycle has a row, only pickup updates are under way.
Known ==
  /\ Len(replies) <= MaxReplies
  /\ rowId = "none" =>
       /\ meta.draft = 0
       /\ claims = 0 /\ replies = <<>> /\ mailed = <<>>
       /\ run.at \in {"idle", "prepare"}
       /\ \A i \in DOMAIN queue : queue[i].event = "pickup_changed"

\* A send that waits, and a run that has its mail before it.
Waiting(i) == queue[i].event = "draft_send"
Due == run.item.event = "draft_send" /\ run.at \in {"read", "hydrate", "weekend", "mail"}

\* The claim has been made, was published, and is not waiting in the queue.
Taken == meta.sent /\ claims = 0 /\ \A i \in DOMAIN queue : ~Waiting(i)

\* Where a run may go after a write; who sends mails, and who prepares.
Errand ==
  /\ run.then \in {"idle", "intake"}
  /\ run.at \in {"hydrate", "weekend", "mail"} => run.item.event = "draft_send"
  /\ run.at = "prepare" => run.item.event = "pickup_changed"

\* The one claim is with the portal, in the queue, in a run or in a mail.
OneSend ==
  /\ claims # 0 => meta.sent /\ claims = 1 /\ \A i \in DOMAIN queue : ~Waiting(i)
  /\ \A i \in DOMAIN queue : Waiting(i) => meta.sent /\ claims = 0
  /\ \A i, j \in DOMAIN queue : Waiting(i) /\ Waiting(j) => i = j
  /\ Due => Taken
  /\ mailed # <<>> => Taken /\ ~Due
  /\ Len(mailed) <= 1

IInv == TypeOK /\ Known /\ Errand /\ OneSend

-----------------------------------------------------------------------------
(* Types.                                                                  *)

(* What a run sends of the row as it is, is a sequence of commands.         *)
LEMMA RequestsTyped ==
  ASSUME TypeOK
  PROVE  /\ AppointmentStarted(row) \subseteq Seq(Commands(Subs))
         /\ AppointmentAwaiting(row) \subseteq Seq(Commands(Subs))
         /\ DraftReady(row) \subseteq Seq(Commands(Subs))
         /\ Completing(row) \subseteq Seq(Commands(Subs))
         /\ Rejecting(row) \subseteq Seq(Commands(Subs))
<1>1. row.status \in Statuses /\ row.sub \in Subs
  BY DEF TypeOK
<1> DEFINE c(status, sub) == From(row, StatusChange(status, sub))
<1>2. ASSUME NEW status \in Statuses, NEW sub \in Subs
      PROVE  c(status, sub) \in Commands(Subs)
  BY <1>1 DEF From, StatusChange, Command, Commands, Transitions, Unset
<1>3. From(Fresh, StatusChange("processing", "appointment_scheduling_started")) \in Commands(Subs)
  BY DEF From, Fresh, StatusChange, Command, Commands, Transitions, Statuses, Subs, Unset
<1>4. ReviewStep(row, "awaiting_customer_reply") \in Commands(Subs)
  BY DEF ReviewStep, Command, Commands, Transitions, Statuses, Subs, Unset
<1>5. /\ {"pending_review", "completed"} \subseteq Statuses
      /\ {"appointment_draft_created", "appointment_scheduled", "rejected"} \subseteq Subs
  BY DEF Statuses, Subs
<1>6. /\ <<c("pending_review", "appointment_draft_created")>> \in Seq(Commands(Subs))
      /\ <<c("completed", "appointment_scheduled")>> \in Seq(Commands(Subs))
      /\ <<c("completed", "rejected")>> \in Seq(Commands(Subs))
  <2> HIDE DEF c
  <2>1. QED
    BY <1>2, <1>5
<1>7. AppointmentReplied(row) \subseteq Seq(Commands(Subs))
  BY <1>6 DEF AppointmentReplied, When
<1>8. AppointmentStarted(row) \subseteq Seq(Commands(Subs))
  <2>1. <<From(Fresh, StatusChange("processing", "appointment_scheduling_started"))>>
          \in Seq(Commands(Subs))
    BY <1>3
  <2>2. QED
    BY <2>1, Zenon DEF AppointmentStarted, When
<1>9. AppointmentAwaiting(row) \subseteq Seq(Commands(Subs))
  <2>1. <<ReviewStep(row, "awaiting_customer_reply")>> \in Seq(Commands(Subs))
    BY <1>4
  <2>2. QED
    BY <2>1, Zenon DEF AppointmentAwaiting, When
<1>10. DraftReady(row) \subseteq Seq(Commands(Subs))
  BY <1>6 DEF DraftReady
<1>11. QED
  BY <1>7, <1>8, <1>9, <1>10 DEF Completing, Rejecting


(* A run that takes an item is a run.                                       *)
LEMMA BegunTyped ==
  ASSUME NEW item \in Items, NEW at \in Nodes
  PROVE  Begun(item, at) \in Runs
BY DEF Begun, Runs, Nodes

(* No run is a run.                                                         *)
LEMMA IdleTyped == Idle \in Runs
<1>1. 0 \in 0..MaxReplies
  BY BoundsAssumption
<1>2. Item("pickup_changed", "own", FALSE, 0) \in Items
  BY <1>1 DEF Item, Items, Events
<1>3. "idle" \in Nodes
  BY DEF Nodes
<1>4. QED
  BY <1>2, <1>3, BegunTyped DEF Idle

(* The first state is well typed.                                           *)
LEMMA InitTyped == Init => TypeOK
<1>1. SUFFICES ASSUME Init
               PROVE  TypeOK
  OBVIOUS
<1>2. run \in Runs
  BY <1>1, IdleTyped DEF Init
<1>3. row \in [status : Statuses, sub : Subs, pause : PauseTypes \cup {Unset}]
  BY <1>1 DEF Init, Inserted, Statuses, Subs
<1>4. tms \in [ascend : Times, turvo : Times, pickup : Nat, tendered : BOOLEAN]
  <2>1. 0 \in Times
    BY BoundsAssumption DEF Times, NoTime, Placeholder
  <2>2. QED
    BY <1>1, <2>1 DEF Init, NoTime
<1>5. meta \in [draft : Nat, weekend : BOOLEAN, sent : BOOLEAN]
  BY <1>1 DEF Init
<1>6. /\ hooks = <<>> /\ replies = <<>> /\ queue = <<>> /\ mailed = <<>> /\ confirmed = <<>>
      /\ skipAscend \in AscendSkips /\ rowId = "none" /\ shipment \in BOOLEAN
      /\ claims = 0 /\ recorded = FALSE /\ outside = 0
  BY <1>1 DEF Init
<1>7. \A S : <<>> \in Seq(S)
  OBVIOUS
<1>8. claims \in Nat /\ outside \in Nat /\ rowId \in {"none", "stub", "own"}
  BY <1>6
<1>9. recorded \in BOOLEAN
  BY <1>6, Zenon
<1>10. QED
  BY <1>2, <1>3, <1>4, <1>5, <1>6, <1>7, <1>8, <1>9, Zenon DEF TypeOK

(* What a run may become: at another node, about to write, or over.         *)
LEMMA RunTyped ==
  ASSUME TypeOK
  PROVE  /\ Idle \in Runs
         /\ \A at \in Nodes : [run EXCEPT !.at = at] \in Runs
         /\ \A s \in Seq(Commands(Subs)), next \in Nodes :
              [run EXCEPT !.at = "write", !.then = next, !.todo = s] \in Runs
         /\ \A item \in Items, at \in Nodes : Begun(item, at) \in Runs
<1>1. run \in Runs
  BY DEF TypeOK
<1>2. \A item \in Items, at \in Nodes : Begun(item, at) \in Runs
  BY BegunTyped
<1>3. Idle \in Runs
  BY IdleTyped
<1>4. "write" \in Nodes
  BY DEF Nodes
<1>5. QED
  BY <1>1, <1>2, <1>3, <1>4 DEF Runs

(* A row stays one under a failure, a resolution and what a run sends.      *)
LEMMA RowTyped ==
  ASSUME TypeOK
  PROVE  /\ \A s \in Seq(Commands(Subs)) :
              AfterSequence(row, s) \in [status : Statuses, sub : Subs,
                                         pause : PauseTypes \cup {Unset}]
         /\ \A category : FailureOf(category) \in Seq(Commands(Subs))
         /\ Resolve(row) \subseteq Seq(Commands(Subs))
         /\ run.todo \in Seq(Commands(Subs))
<1>1. row \in RowsOf(Subs) /\ run.todo \in Seq(Commands(Subs))
  BY DEF TypeOK, RowsOf, Runs
<1>2. "resolved_manually" \in Subs
  BY DEF Subs
<1>3. QED
  BY <1>1, <1>2, AfterSequenceTyped, AnywhereTyped, Zenon DEF RowsOf

(* A failure on record leaves a row and no run.                             *)
LEMMA FailTyped ==
  ASSUME TypeOK, Fail
  PROVE  row' \in RowsOf(Subs) /\ run' \in Runs
<1>1. PICK category \in {"business", "system"} : row' = AfterSequence(row, FailureOf(category))
  BY Zenon DEF Fail, Committed
<1>2. run' = Idle
  BY Zenon DEF Fail, End
<1>3. QED
  BY <1>1, <1>2, RowTyped, IdleTyped, Zenon DEF RowsOf

(* A step that changes the run alone is well typed if its run is,           *)
LEMMA TypedByRun ==
  ASSUME TypeOK, OnlyRun, run' \in Runs
  PROVE  TypeOK'
BY Zenon DEF TypeOK, OnlyRun, inVars, outVars

(* one that changes the row if its row is,                                  *)
LEMMA TypedByRow ==
  ASSUME TypeOK, OnlyRow, row' \in RowsOf(Subs), run' \in Runs
  PROVE  TypeOK'
BY Zenon DEF TypeOK, OnlyRow, inVars, outVars, RowsOf

(* one that tells the vendors or the customer if what it tells is.          *)
LEMMA TypedByVendors ==
  ASSUME TypeOK, NotVendors, row' \in RowsOf(Subs), run' \in Runs,
         tms' \in [ascend : Times, turvo : Times, pickup : Nat, tendered : BOOLEAN],
         mailed' \in Seq(Nat), recorded' \in BOOLEAN, confirmed' \in Seq(Times)
  PROVE  TypeOK'
BY Zenon DEF TypeOK, NotVendors, inVars, RowsOf

(* A read that leads to a sequence is well typed.                           *)
LEMMA RecordTyped ==
  ASSUME TypeOK, NEW at, NEW sequences \in SUBSET Seq(Commands(Subs)), NEW next \in Nodes,
         Record(at, sequences, next)
  PROVE  TypeOK'
<1>1. OnlyRun
  BY Zenon DEF Record
<1>2. run' \in Runs
  <2>1. CASE sequences = {}
    BY <2>1, RunTyped, Zenon DEF Record
  <2>2. CASE sequences # {}
    <3>1. PICK s \in sequences : run' = [run EXCEPT !.at = "write", !.then = next, !.todo = s]
      BY <2>2, Zenon DEF Record, Write
    <3>2. s \in Seq(Commands(Subs))
      OBVIOUS
    <3>3. QED
      BY <3>1, <3>2, RunTyped, Zenon
  <2>3. QED
    BY <2>1, <2>2, Zenon
<1>3. QED
  BY <1>1, <1>2, TypedByRun

(* A write to a vendor is well typed, whether it works or not.              *)
LEMMA VendorTyped ==
  ASSUME TypeOK, NEW at, NEW field, NEW value, NEW failure, NEW next \in Nodes,
         [tms EXCEPT ![field] = value]
           \in [ascend : Times, turvo : Times, pickup : Nat, tendered : BOOLEAN],
         VendorWrite(at, field, value, failure, next)
  PROVE  TypeOK'
<1>1. NotVendors /\ UNCHANGED <<mailed, recorded, confirmed>>
  BY Zenon DEF VendorWrite
<1>2. tms' \in [ascend : Times, turvo : Times, pickup : Nat, tendered : BOOLEAN]
  BY Zenon DEF VendorWrite, Put, PutFails, TypeOK
<1>3. row' \in RowsOf(Subs) /\ run' \in Runs
  <2>1. CASE Goto(next) /\ row' = row
    BY <2>1, RunTyped, Zenon DEF Goto, TypeOK, RowsOf
  <2>2. CASE Fail
    BY <2>2, FailTyped
  <2>3. QED
    BY <2>1, <2>2, Zenon DEF VendorWrite
<1>4. mailed' \in Seq(Nat) /\ recorded' \in BOOLEAN /\ confirmed' \in Seq(Times)
  BY <1>1, Zenon DEF TypeOK
<1>5. QED
  BY <1>1, <1>2, <1>3, <1>4, TypedByVendors

(* The webhook, the portal and the ingress keep the types.                  *)
LEMMA IngressTyped ==
  ASSUME TypeOK, Known, Ingress
  PROVE  TypeOK'
<1> USE DEF Known
<1> DEFINE Hooks == [at : {"passed", "done"}, moved : BOOLEAN]
           Replies == {"arrived", "resolved", "done"}
<1>1. hooks \in Seq(Hooks) /\ replies \in Seq(Replies) /\ queue \in Seq(Items)
  BY DEF TypeOK
<1>2. CASE CheckHook
  <2>1. \A moved \in BOOLEAN, at \in {"passed", "done"} : [at |-> at, moved |-> moved] \in Hooks
    OBVIOUS
  <2>2. PICK moved \in BOOLEAN :
          hooks' = Append(hooks, [at |-> IF Blocking THEN "done" ELSE "passed", moved |-> moved])
    BY <1>2, Zenon DEF CheckHook
  <2>3. (IF Blocking THEN "done" ELSE "passed") \in {"passed", "done"}
    BY Zenon
  <2>4. hooks' \in Seq(Hooks)
    BY <1>1, <2>1, <2>2, <2>3, AppendProperties, Zenon
  <2>5. QED
    BY <1>2, <2>4, Zenon DEF CheckHook, TypeOK, outVars
<1>3. ASSUME NEW h \in DOMAIN hooks, EnqueueHook(h)
      PROVE  TypeOK'
  <2>1. hooks[h] \in Hooks
    BY <1>1, ElementOfSeq, LenProperties, ZenonT(30)
  <2>2. hooks' \in Seq(Hooks)
    <3>1. [hooks[h] EXCEPT !.at = "done"] \in Hooks
      BY <2>1
    <3>2. hooks' = [hooks EXCEPT ![h] = [hooks[h] EXCEPT !.at = "done"]]
      BY <1>3, Zenon DEF EnqueueHook
    <3>3. QED
      BY <1>1, <3>1, <3>2, ExceptSeq
  <2>3. rowId' \in {"none", "stub", "own"} /\ (shipment => rowId' \in {"stub", "own"})
    BY <1>3 DEF EnqueueHook, TypeOK
  <2> DEFINE id == IF shipment THEN rowId' ELSE "stub"
  <2>4. Item("pickup_changed", id, hooks[h].moved, 0) \in Items
    <3>1. id \in {"stub", "own"}
      BY <2>3
    <3>2. 0 \in 0..MaxReplies
      BY BoundsAssumption
    <3> HIDE DEF id
    <3>3. QED
      BY <2>1, <3>1, <3>2 DEF Item, Items, Events
  <2>5. queue' \in Seq(Items)
    BY <1>1, <1>3, <2>4, AppendProperties, Zenon DEF EnqueueHook
  <2>6. QED
    BY <1>3, <2>2, <2>3, <2>5, Zenon DEF EnqueueHook, TypeOK, outVars
<1>4. CASE Claim
  <2> DEFINE Metas == [draft : Nat, weekend : BOOLEAN, sent : BOOLEAN]
  <2>1. \A m \in Metas : [m EXCEPT !.sent = TRUE] \in Metas
    OBVIOUS
  <2>2. meta' \in Metas
    BY <1>4, <2>1, Zenon DEF Claim, TypeOK
  <2>3. claims' \in Nat
    BY <1>4 DEF Claim, TypeOK
  <2>4. QED
    BY <1>4, <2>2, <2>3, Zenon DEF Claim, TypeOK, outVars
<1>5. CASE Publish
  <2>1. claims' \in Nat /\ rowId \in {"stub", "own"}
    BY <1>5 DEF Publish, TypeOK
  <2>2. Item("draft_send", rowId, FALSE, 0) \in Items
    BY <2>1, BoundsAssumption DEF Item, Items, Events
  <2>3. queue' \in {Append(queue, Item("draft_send", rowId, FALSE, 0)), queue}
    BY <1>5, Zenon DEF Publish, When
  <2>4. queue' \in Seq(Items)
    <3>1. Append(queue, Item("draft_send", rowId, FALSE, 0)) \in Seq(Items)
      BY <1>1, <2>2, AppendProperties
    <3>2. QED
      BY <1>1, <2>3, <3>1, Zenon
  <2>5. QED
    BY <1>5, <2>1, <2>4, Zenon DEF Publish, TypeOK, outVars
<1>6. CASE Portal
  <2>1. outside' \in Nat
    BY <1>6 DEF Portal, TypeOK
  <2>2. row' \in RowsOf(Subs)
    BY <1>6, RowTyped, Zenon DEF Portal, RowsOf
  <2>3. QED
    BY <1>6, <2>1, <2>2, Zenon DEF Portal, TypeOK, inVars, outVars, RowsOf
<1>7. CASE ReplyArrives
  <2>1. replies' \in Seq(Replies)
    BY <1>1, <1>7, AppendProperties DEF ReplyArrives
  <2>2. QED
    BY <1>7, <2>1, Zenon DEF ReplyArrives, TypeOK, outVars
<1>8. ASSUME NEW m \in DOMAIN replies, ResolveReply(m)
      PROVE  TypeOK'
  <2>1. replies' \in Seq(Replies)
    BY <1>1, <1>8, ExceptSeq DEF ResolveReply
  <2>2. QED
    BY <1>8, <2>1, Zenon DEF ResolveReply, TypeOK, outVars
<1>9. ASSUME NEW m \in DOMAIN replies, EnqueueReply(m)
      PROVE  TypeOK'
  <2>1. replies' \in Seq(Replies)
    BY <1>1, <1>9, ExceptSeq DEF EnqueueReply
  <2>2. m \in 0..MaxReplies /\ rowId \in {"stub", "own"}
    BY <1>1, <1>9, BoundsAssumption, LenProperties DEF TypeOK
  <2>3. Item("customer_reply", rowId, FALSE, m) \in Items
    BY <2>2 DEF Item, Items, Events
  <2>4. queue' \in Seq(Items)
    BY <1>1, <1>9, <2>3, AppendProperties, Zenon DEF EnqueueReply
  <2>5. QED
    BY <1>9, <2>1, <2>4, Zenon DEF EnqueueReply, TypeOK, outVars
<1>10. QED
  BY <1>2, <1>3, <1>4, <1>5, <1>6, <1>7, <1>8, <1>9, Zenon DEF Ingress

(* The steps of a run keep the types.                                       *)
LEMMA RunStepTyped ==
  ASSUME TypeOK, Known,
         Take \/ Raise \/ WriteRow \/ Read \/ Preparing \/ Drafting \/ Sending \/ Replying
  PROVE  TypeOK'
<1> DEFINE Metas == [draft : Nat, weekend : BOOLEAN, sent : BOOLEAN]
           Tms == [ascend : Times, turvo : Times, pickup : Nat, tendered : BOOLEAN]
<1>1. /\ run \in Runs /\ queue \in Seq(Items) /\ meta \in Metas /\ tms \in Tms
      /\ run.item \in Items /\ run.then \in Nodes
  BY DEF TypeOK, Runs
<1>2. row \in RowsOf(Subs) /\ run.item.reply \in Times
  BY <1>1, BoundsAssumption, SMTT(20) DEF TypeOK, RowsOf, Items, Times, NoTime, Placeholder
<1>3. CASE Take
  <2>1. Head(queue) \in Items /\ Tail(queue) \in Seq(Items)
    BY <1>1, <1>3, HeadTailProperties DEF Take
  <2>2. (IF Head(queue).event = "pickup_changed" THEN "prepare" ELSE "read") \in Nodes
    BY DEF Nodes
  <2>3. run' \in Runs /\ queue' \in Seq(Items)
    BY <1>3, <2>1, <2>2, BegunTyped, Zenon DEF Take
  <2>4. QED
    BY <1>3, <2>3, Zenon DEF Take, TypeOK, inVars, outVars
<1>4. CASE Raise
  BY <1>4, IdleTyped, TypedByRun, Zenon DEF Raise, End
<1>5. CASE WriteRow
  <2>1. row' \in RowsOf(Subs)
    BY <1>2, <1>5, RowTyped, Zenon DEF WriteRow, Committed, RowsOf
  <2>2. run' \in Runs
    BY <1>1, <1>5, IdleTyped, RunTyped, Zenon DEF WriteRow, End, Goto
  <2>3. QED
    BY <1>5, <2>1, <2>2, TypedByRow, Zenon DEF WriteRow
<1>6. CASE Read
  <2>1. {"start", "hydrate", "classify"} \subseteq Nodes
    BY DEF Nodes
  <2>2. run' \in {Idle} \cup {[run EXCEPT !.at = at] : at \in {"start", "hydrate", "classify"}}
    BY <1>6 DEF Read
  <2>3. run' \in Runs
    BY <2>1, <2>2, IdleTyped, RunTyped
  <2>4. QED
    BY <1>6, <2>3, TypedByRun, Zenon DEF Read
<1>7. CASE RunStray \/ PrepareSkipped
  BY <1>7, IdleTyped, TypedByRun, Zenon DEF RunStray, PrepareSkipped, End
<1>8. CASE PrepareLinked
  <2>1. "read" \in Nodes
    BY DEF Nodes
  <2>2. QED
    BY <1>8, <2>1, RunTyped, TypedByRun, Zenon DEF PrepareLinked, Goto
<1>9. CASE PrepareCreated
  <2>1. rowId' \in {"none", "stub", "own"}
    BY <1>1, <1>9 DEF PrepareCreated, TypeOK, Items
  <2>2. "read" \in Nodes
    BY DEF Nodes
  <2>3. run' \in Runs /\ shipment' \in BOOLEAN
    BY <1>9, <2>2, IdleTyped, RunTyped, Zenon DEF PrepareCreated, Goto, End
  <2>4. QED
    BY <1>9, <2>1, <2>3, Zenon DEF PrepareCreated, TypeOK, inVars, outVars
<1>10. CASE RecordStarted \/ FinalizeIntake \/ FinalizeAwaiting \/ RecordCompleted
              \/ RecordRejected
  <2>1. {"intake", "idle"} \subseteq Nodes
    BY DEF Nodes
  <2>2. QED
    BY <1>10, <2>1, RequestsTyped, RecordTyped
    DEF RecordStarted, FinalizeIntake, FinalizeAwaiting, RecordCompleted, RecordRejected
<1>11. CASE Intake
  <2>1. \A r \in Runs : [r EXCEPT !.at = "decide", !.appointments = TRUE] \in Runs
    BY DEF Runs, Nodes
  <2>2. row' \in RowsOf(Subs) /\ run' \in Runs
    BY <1>1, <1>2, <1>11, <2>1, FailTyped, Zenon DEF Intake
  <2>3. QED
    BY <1>11, <2>2, TypedByRow, Zenon DEF Intake
<1>12. CASE Decide
  <2>1. \A r \in Runs, weekend \in BOOLEAN : [r EXCEPT !.at = "persist", !.weekend = weekend] \in Runs
    BY DEF Runs, Nodes
  <2>2. QED
    BY <1>1, <1>12, <2>1, TypedByRun, Zenon DEF Decide
<1>13. CASE Persist
  <2>1. \A m \in Metas, d \in Nat, r \in Runs :
          [m EXCEPT !.draft = d, !.weekend = r.weekend] \in Metas
    BY DEF Runs
  <2>2. meta.draft + 1 \in Nat /\ "facts" \in Nodes
    BY <1>1 DEF Nodes
  <2>3. meta' \in Metas
    <3>1. meta' = [meta EXCEPT !.draft = meta.draft + 1, !.weekend = run.weekend]
      BY <1>13, Zenon DEF Persist
    <3>2. QED
      BY <1>1, <2>1, <2>2, <3>1, Zenon
  <2>4. run' \in Runs
    BY <1>13, <2>2, RunTyped, Zenon DEF Persist, Goto
  <2>5. QED
    BY <1>13, <2>3, <2>4, Zenon DEF Persist, TypeOK, inVars, outVars
<1>14. CASE PersistFacts
  <2>1. "review" \in Nodes
    BY DEF Nodes
  <2>2. row' \in RowsOf(Subs) /\ run' \in Runs
    BY <1>2, <1>14, <2>1, FailTyped, RunTyped, Zenon DEF PersistFacts, Goto
  <2>3. QED
    BY <1>14, <2>2, TypedByRow, Zenon DEF PersistFacts
<1>15. CASE Hydrate
  <2>1. \A r \in Runs, m \in Metas, at \in {"weekend", "mail"} :
          [r EXCEPT !.draft = m.draft, !.weekend = m.weekend, !.at = at] \in Runs
    BY ZenonT(30) DEF Runs, Nodes
  <2>2. (IF meta.weekend THEN "weekend" ELSE "mail") \in {"weekend", "mail"}
    BY Zenon
  <2>3. run' = [run EXCEPT !.draft = meta.draft, !.weekend = meta.weekend,
                           !.at = IF meta.weekend THEN "weekend" ELSE "mail"]
    BY <1>15, Zenon DEF Hydrate
  <2>4. run' \in Runs
    BY <1>1, <2>1, <2>2, <2>3, Zenon
  <2>5. QED
    BY <1>15, <2>4, TypedByRun, Zenon DEF Hydrate
<1>16. CASE WeekendPickup
  <2>1. \A d \in Nat : [tms EXCEPT !.pickup = d] \in Tms
    BY <1>1
  <2>2. (IF run.appointments THEN run.draft ELSE tms.pickup) \in Nat
    BY <1>1, Zenon DEF Runs
  <2>3. tms' \in Tms
    BY <1>16, <2>1, <2>2, Zenon DEF WeekendPickup
  <2>4. "mail" \in Nodes
    BY DEF Nodes
  <2>5. row' \in RowsOf(Subs) /\ run' \in Runs
    BY <1>2, <1>16, <2>4, RunTyped, Zenon DEF WeekendPickup, Goto
  <2>6. mailed' \in Seq(Nat) /\ recorded' \in BOOLEAN /\ confirmed' \in Seq(Times)
    BY <1>16, Zenon DEF WeekendPickup, TypeOK
  <2>7. QED
    BY <1>16, <2>3, <2>5, <2>6, TypedByVendors, Zenon DEF WeekendPickup
<1>17. CASE SendDraft \/ SendFails
  <2>1. run.draft \in Nat /\ mailed \in Seq(Nat) /\ "placeholder" \in Nodes
    BY <1>1 DEF TypeOK, Runs, Nodes
  <2>2. Append(mailed, run.draft) \in Seq(Nat)
    BY <2>1, AppendProperties
  <2>3. row' \in RowsOf(Subs) /\ run' \in Runs
    BY <1>2, <1>17, <2>1, FailTyped, RunTyped, Zenon DEF SendDraft, SendFails, Goto
  <2>4. mailed' \in Seq(Nat) /\ recorded' \in BOOLEAN
    BY <1>17, <2>1, <2>2, Zenon DEF SendDraft, SendFails, TypeOK
  <2>5. tms' \in Tms /\ confirmed' \in Seq(Times) /\ NotVendors
    BY <1>17, Zenon DEF SendDraft, SendFails, TypeOK
  <2>6. QED
    BY <2>3, <2>4, <2>5, TypedByVendors
<1>18. CASE ApplyPlaceholder \/ ApplyAscend \/ ApplyTurvo \/ ApplyTender
  <2>1. {"await", "delivery", "confirm", "settle"} \subseteq Nodes /\ Placeholder \in Times
    BY BoundsAssumption DEF Nodes, Times, NoTime, Placeholder
  <2>2. \A value \in Times : /\ [tms EXCEPT !["turvo"] = value] \in Tms
                             /\ [tms EXCEPT !["ascend"] = value] \in Tms
    BY <1>1
  <2>3. [tms EXCEPT !["tendered"] = TRUE] \in Tms
    BY <1>1
  <2>4. QED
    BY <1>2, <1>18, <2>1, <2>2, <2>3, VendorTyped
    DEF ApplyPlaceholder, ApplyAscend, ApplyTurvo, ApplyTender
<1>19. CASE Classify
  <2>1. {"dropoff", "reject"} \subseteq Nodes
    BY DEF Nodes
  <2>2. run' \in {Idle} \cup {[run EXCEPT !.at = at] : at \in {"dropoff", "reject"}}
    BY <1>19 DEF Classify, Goto, End
  <2>3. run' \in Runs
    BY <2>1, <2>2, IdleTyped, RunTyped
  <2>4. QED
    BY <1>19, <2>3, TypedByRun, Zenon DEF Classify
<1>20. CASE ApplyAscendSkipped
  <2>1. "delivery" \in Nodes
    BY DEF Nodes
  <2>2. QED
    BY <1>20, <2>1, RunTyped, TypedByRun, Zenon DEF ApplyAscendSkipped, Goto
<1>21. CASE Confirm
  <2>1. Append(confirmed, run.item.reply) \in Seq(Times) /\ confirmed \in Seq(Times)
    BY <1>2, AppendProperties DEF TypeOK
  <2>2. "tender" \in Nodes
    BY DEF Nodes
  <2>3. row' \in RowsOf(Subs) /\ run' \in Runs
    BY <1>2, <1>21, <2>2, FailTyped, RunTyped, Zenon DEF Confirm, Goto
  <2>4. confirmed' \in Seq(Times)
    BY <1>21, <2>1, Zenon DEF Confirm
  <2>5. tms' \in Tms /\ mailed' \in Seq(Nat) /\ recorded' \in BOOLEAN /\ NotVendors
    BY <1>21, Zenon DEF Confirm, TypeOK
  <2>6. QED
    BY <2>3, <2>4, <2>5, TypedByVendors
<1>22. QED
  BY <1>3, <1>4, <1>5, <1>6, <1>7, <1>8, <1>9, <1>10, <1>11, <1>12, <1>13, <1>14, <1>15, <1>16,
     <1>17, <1>18, <1>19, <1>20, <1>21, Zenon DEF Preparing, Drafting, Sending, Replying

(* Every step keeps the types.                                              *)
LEMMA StepTyped ==
  ASSUME TypeOK, Known, [Next]_vars
  PROVE  TypeOK'
<1>1. CASE Next
  BY <1>1, IngressTyped, RunStepTyped, Zenon DEF Next
<1>2. CASE UNCHANGED vars
  BY <1>2, Zenon DEF TypeOK, vars
<1>3. QED
  BY <1>1, <1>2

-----------------------------------------------------------------------------
(* Before the row.                                                          *)

\* The steps of a run.
RunStep == Take \/ Raise \/ WriteRow \/ Read \/ Preparing \/ Drafting \/ Sending \/ Replying

(* A run touches nothing of the ingress.                                    *)
LEMMA RunFrame ==
  ASSUME RunStep
  PROVE  UNCHANGED inVars
<1>1. (OnlyRun \/ OnlyRow \/ NotVendors) => UNCHANGED inVars
  BY Zenon DEF OnlyRun, OnlyRow, NotVendors
<1>2. CASE Take \/ Raise \/ WriteRow \/ Read
  BY <1>1, <1>2, Zenon DEF Take, Raise, WriteRow, Read
<1>3. CASE Preparing
  BY <1>1, <1>3, Zenon DEF Preparing, RunStray, PrepareLinked, PrepareSkipped, PrepareCreated
<1>4. CASE Drafting
  BY <1>1, <1>4, Zenon
  DEF Drafting, RecordStarted, Intake, Decide, Persist, PersistFacts, FinalizeIntake, Record
<1>5. CASE Sending
  BY <1>1, <1>5, Zenon
  DEF Sending, Hydrate, WeekendPickup, SendDraft, SendFails, ApplyPlaceholder, FinalizeAwaiting,
      VendorWrite, Record
<1>6. CASE Replying
  BY <1>1, <1>6, Zenon
  DEF Replying, Classify, ApplyAscend, ApplyAscendSkipped, ApplyTurvo, Confirm, ApplyTender,
      RecordCompleted, RecordRejected, VendorWrite, Record
<1>7. QED
  BY <1>2, <1>3, <1>4, <1>5, <1>6, Zenon DEF RunStep

(* A run past its preparation is of a lifecycle that has its row.           *)
LEMMA Unprepared ==
  ASSUME TypeOK, RunStep, rowId' = "none", rowId = "none" => run.at \in {"idle", "prepare"}
  PROVE  /\ rowId = "none"
         /\ \/ Take
            \/ run' = Idle /\ UNCHANGED <<meta, queue, mailed>>
<1>1. run.item.id # "none"
  BY DEF TypeOK, Runs, Items
<1>2. rowId = "none"
  <2>1. CASE PrepareCreated
    BY <1>1, <2>1 DEF PrepareCreated
  <2>2. CASE ~PrepareCreated
    <3>1. (OnlyRun \/ OnlyRow \/ NotVendors) => UNCHANGED rowId
      BY Zenon DEF OnlyRun, OnlyRow, NotVendors
    <3>2. QED
      BY <2>2, <3>1, Zenon
      DEF RunStep, Take, Raise, WriteRow, Read, Preparing, RunStray, PrepareLinked, PrepareSkipped,
          Drafting, RecordStarted, Intake, Decide, Persist, PersistFacts, FinalizeIntake, Record,
          Sending, Hydrate, WeekendPickup, SendDraft, SendFails, ApplyPlaceholder,
          FinalizeAwaiting, VendorWrite, Replying, Classify, ApplyAscend, ApplyAscendSkipped,
          ApplyTurvo, Confirm, ApplyTender, RecordCompleted, RecordRejected
  <2>3. QED
    BY <2>1, <2>2
<1>3. run.at \in {"idle", "prepare"}
  BY <1>2
<1>4. CASE Take
  BY <1>2, <1>4
<1>5. CASE Preparing
  BY <1>1, <1>2, <1>5
  DEF Preparing, RunStray, PrepareLinked, PrepareSkipped, PrepareCreated, OnlyRun, End, outVars
<1>6. ~(Raise \/ WriteRow \/ Read \/ Drafting)
  BY <1>3
  DEF Raise, WriteRow, Read, Drafting, RecordStarted, Intake, Decide, Persist, PersistFacts,
      FinalizeIntake, Record
<1>7. ~(Sending \/ Replying)
  BY <1>3
  DEF Sending, Hydrate, WeekendPickup, SendDraft, SendFails, ApplyPlaceholder, FinalizeAwaiting,
      VendorWrite, Record, Replying, Classify, ApplyAscend, ApplyAscendSkipped, ApplyTurvo,
      Confirm, ApplyTender, RecordCompleted, RecordRejected
<1>8. QED
  BY <1>2, <1>4, <1>5, <1>6, <1>7, Zenon DEF RunStep

(* A lifecycle without a row knows nothing but pickup updates.              *)
LEMMA StepKnown ==
  ASSUME TypeOK, Known, [Next]_vars
  PROVE  Known'
<1> DEFINE Early ==
      /\ meta.draft = 0
      /\ claims = 0 /\ replies = <<>> /\ mailed = <<>>
      /\ run.at \in {"idle", "prepare"}
      /\ \A i \in DOMAIN queue : queue[i].event = "pickup_changed"
<1>1. queue \in Seq(Items) /\ replies \in Seq({"arrived", "resolved", "done"})
  BY DEF TypeOK
<1>2. Len(replies) <= MaxReplies /\ (rowId = "none" => Early)
  BY Zenon DEF Known
<1>3. CASE UNCHANGED vars
  BY <1>2, <1>3, Zenon DEF Known, vars
<1>4. CASE RunStep
  <2>1. replies' = replies /\ claims' = claims
    BY <1>4, RunFrame DEF inVars
  <2>2. ASSUME rowId' = "none"
        PROVE  Early'
    <3>1. /\ rowId = "none"
          /\ \/ Take
             \/ run' = Idle /\ UNCHANGED <<meta, queue, mailed>>
      BY <1>2, <1>4, <2>2, Unprepared
    <3>2. CASE Take
      <4>1. /\ Head(queue) = queue[1] /\ 1 \in DOMAIN queue
            /\ \A i \in DOMAIN Tail(queue) : i + 1 \in DOMAIN queue /\ Tail(queue)[i] = queue[i + 1]
        BY <1>1, <3>2, HeadTailProperties, LenProperties, EmptySeq DEF Take
      <4>2. run'.at = "prepare" /\ queue' = Tail(queue) /\ UNCHANGED <<meta, mailed>>
        BY <1>2, <3>1, <3>2, <4>1 DEF Take, Begun, outVars
      <4>3. QED
        BY <1>2, <2>1, <3>1, <4>1, <4>2
    <3>3. CASE run' = Idle /\ UNCHANGED <<meta, queue, mailed>>
      BY <1>2, <2>1, <3>1, <3>3 DEF Idle, Begun
    <3>4. QED
      BY <3>1, <3>2, <3>3
  <2>3. QED
    BY <1>2, <2>1, <2>2 DEF Known
<1>5. CASE CheckHook
  BY <1>2, <1>5, Zenon DEF CheckHook, Known, outVars
<1>6. ASSUME NEW h \in DOMAIN hooks, EnqueueHook(h)
      PROVE  Known'
  <2>1. UNCHANGED <<meta, claims, replies, mailed, run>>
    BY <1>6, Zenon DEF EnqueueHook, outVars
  <2>2. PICK item : queue' = Append(queue, item) /\ item.event = "pickup_changed"
    BY <1>6 DEF EnqueueHook, Item
  <2>3. rowId' = "none" => rowId = "none"
    BY <1>6 DEF EnqueueHook
  <2>4. rowId = "none" => \A i \in DOMAIN queue' : queue'[i].event = "pickup_changed"
    BY <1>1, <1>2, <2>2, AppendProperties, LenProperties
  <2>5. QED
    BY <1>2, <2>1, <2>3, <2>4 DEF Known
<1>7. CASE Claim \/ Publish \/ Portal \/ ReplyArrives
  <2>1. rowId # "none" /\ rowId' = rowId
    <3>1. rowId # "none"
      <4>1. meta.draft # 0 \/ claims > 0 \/ mailed # <<>> \/ rowId # "none"
        BY <1>7, Zenon DEF Claim, Claimable, Publish, Portal, ReplyArrives
      <4>2. QED
        BY <1>2, <4>1
    <3>2. rowId' = rowId
      BY <1>7, Zenon DEF Claim, Publish, Portal, ReplyArrives
    <3>3. QED
      BY <3>1, <3>2
  <2>2. Len(replies') <= MaxReplies
    <3>1. CASE ReplyArrives
      <4>1. Len(replies') = Len(replies) + 1 /\ Len(replies) \in Nat /\ Len(replies) < MaxReplies
        BY <1>1, <3>1, AppendProperties, LenProperties DEF ReplyArrives
      <4>2. QED
        BY <4>1, BoundsAssumption
    <3>2. CASE ~ReplyArrives
      BY <1>2, <1>7, <3>2, Zenon DEF Claim, Publish, Portal, inVars
    <3>3. QED
      BY <3>1, <3>2
  <2>3. QED
    BY <2>1, <2>2, Zenon DEF Known
<1>8. ASSUME NEW m \in DOMAIN replies, ResolveReply(m) \/ EnqueueReply(m)
      PROVE  Known'
  <2>1. rowId # "none" /\ rowId' = rowId
    <3>1. replies # <<>>
      BY <1>1, LenProperties
    <3>2. rowId' = rowId
      BY <1>8, Zenon DEF ResolveReply, EnqueueReply
    <3>3. QED
      BY <1>2, <3>1, <3>2, Zenon
  <2>2. Len(replies') = Len(replies)
    <3>1. \A a \in {"arrived", "resolved", "done"} : Len([replies EXCEPT ![m] = a]) = Len(replies)
      BY <1>1, ExceptSeq, LenProperties
    <3>2. PICK a \in {"arrived", "resolved", "done"} : replies' = [replies EXCEPT ![m] = a]
      BY <1>8 DEF ResolveReply, EnqueueReply
    <3>3. Len([replies EXCEPT ![m] = a]) = Len(replies)
      BY <3>1
    <3>4. QED
      BY <3>2, <3>3, Zenon
  <2>3. QED
    BY <1>2, <2>1, <2>2 DEF Known
<1>9. QED
  BY <1>3, <1>4, <1>5, <1>6, <1>7, <1>8, Zenon DEF Next, Ingress, RunStep

-----------------------------------------------------------------------------
(* One mail.                                                                *)

\* A step of a run that neither takes an item nor sends the draft.
Calm ==
  /\ queue' = queue /\ mailed' = mailed /\ meta'.sent = meta.sent
  /\ run'.then \in {"idle", "intake"}
  /\ run'.at # "prepare"
  /\ run'.at \in {"hydrate", "weekend", "mail"} => run'.item.event = "draft_send"
  /\ Due' => Due

(* A run that ends is calm, whatever it leaves of the rest.                 *)
LEMMA EndCalm ==
  ASSUME run' = Idle, queue' = queue, mailed' = mailed, meta'.sent = meta.sent
  PROVE  Calm
BY DEF Calm, Due, Idle, Begun, Item

(* So is one that goes on to a node that does not send.                     *)
LEMMA GotoCalm ==
  ASSUME TypeOK, Errand, queue' = queue, mailed' = mailed, meta'.sent = meta.sent,
         NEW at \in Nodes \ {"prepare", "read", "hydrate", "weekend", "mail"},
         run' = [run EXCEPT !.at = at]
  PROVE  Calm
<1>1. run'.at = at /\ run'.item = run.item /\ run'.then = run.then
  BY DEF TypeOK, Runs
<1>2. QED
  BY <1>1 DEF Calm, Due, Errand

(* So is a read that leads to a sequence.                                   *)
LEMMA RecordCalm ==
  ASSUME TypeOK, Errand, NEW at, NEW sequences, NEW next \in {"idle", "intake"},
         Record(at, sequences, next)
  PROVE  Calm
<1>1. queue' = queue /\ mailed' = mailed /\ meta'.sent = meta.sent
  BY Zenon DEF Record, OnlyRun, outVars
<1>2. CASE sequences = {}
  <2>1. run' = [run EXCEPT !.at = next]
    BY <1>2, Zenon DEF Record
  <2>2. next \in Nodes \ {"prepare", "read", "hydrate", "weekend", "mail"}
    BY DEF Nodes
  <2>3. QED
    BY <1>1, <2>1, <2>2, GotoCalm
<1>3. CASE sequences # {}
  <2>1. PICK s \in sequences : run' = [run EXCEPT !.at = "write", !.then = next, !.todo = s]
    BY <1>3, Zenon DEF Record, Write
  <2>2. run'.at = "write" /\ run'.then = next
    BY <2>1 DEF TypeOK, Runs
  <2>3. QED
    BY <1>1, <2>2 DEF Calm, Due
<1>4. QED
  BY <1>2, <1>3

(* So is a write to a vendor.                                               *)
LEMMA VendorCalm ==
  ASSUME TypeOK, Errand, NEW at, NEW field, NEW value, NEW failure,
         NEW next \in Nodes \ {"prepare", "read", "hydrate", "weekend", "mail"},
         VendorWrite(at, field, value, failure, next)
  PROVE  Calm
<1>1. queue' = queue /\ mailed' = mailed /\ meta'.sent = meta.sent
  BY Zenon DEF VendorWrite, NotVendors
<1>2. run' = Idle \/ run' = [run EXCEPT !.at = next]
  BY Zenon DEF VendorWrite, Fail, End, Goto
<1>3. QED
  BY <1>1, <1>2, EndCalm, GotoCalm

(* All steps of a run but those two are calm.                               *)
LEMMA RunCalm ==
  ASSUME TypeOK, Errand, RunStep, ~Take, ~SendDraft, ~SendFails
  PROVE  Calm
<1> DEFINE Plain == Nodes \ {"prepare", "read", "hydrate", "weekend", "mail"}
<1>1. /\ {"start", "classify", "intake", "decide", "persist", "facts", "review", "placeholder",
          "await", "dropoff", "reject", "delivery", "confirm", "tender", "settle"} \subseteq Plain
  BY DEF Nodes
<1>2. ASSUME OnlyRun \/ OnlyRow \/ UNCHANGED <<queue, mailed, meta>>
      PROVE  queue' = queue /\ mailed' = mailed /\ meta'.sent = meta.sent
  BY <1>2, Zenon DEF OnlyRun, OnlyRow, outVars
<1>3. run \in Runs
  BY DEF TypeOK
<1>4. CASE Raise \/ RunStray \/ PrepareSkipped
  BY <1>2, <1>4, EndCalm, Zenon DEF Raise, RunStray, PrepareSkipped, End
<1>5. CASE WriteRow
  <2>1. run' = Idle \/ (run.then # "idle" /\ run' = [run EXCEPT !.at = run.then])
    BY <1>5, Zenon DEF WriteRow, End, Goto
  <2>2. run.then # "idle" => run.then = "intake"
    BY DEF Errand
  <2>3. queue' = queue /\ mailed' = mailed /\ meta'.sent = meta.sent
    BY <1>2, <1>5, Zenon DEF WriteRow
  <2>4. QED
    BY <1>1, <2>1, <2>2, <2>3, EndCalm, GotoCalm
<1>6. CASE Read
  <2>1. queue' = queue /\ mailed' = mailed /\ meta'.sent = meta.sent
    BY <1>2, <1>6, Zenon DEF Read
  <2>2. \/ run' = Idle \/ run' = [run EXCEPT !.at = "start"] \/ run' = [run EXCEPT !.at = "classify"]
        \/ /\ run.at = "read" /\ run.item.event = "draft_send"
           /\ run' = [run EXCEPT !.at = "hydrate"]
    BY <1>6 DEF Read
  <2>3. CASE /\ run.at = "read" /\ run.item.event = "draft_send"
             /\ run' = [run EXCEPT !.at = "hydrate"]
    <3>1. run'.at = "hydrate" /\ run'.item = run.item /\ run'.then = run.then
      BY <1>3, <2>3 DEF Runs
    <3>2. QED
      BY <2>1, <2>3, <3>1 DEF Calm, Due, Errand
  <2>4. QED
    BY <1>1, <2>1, <2>2, <2>3, EndCalm, GotoCalm
<1>7. CASE PrepareLinked \/ PrepareCreated
  <2>1. queue' = queue /\ mailed' = mailed /\ meta'.sent = meta.sent
    BY <1>2, <1>7, Zenon DEF PrepareLinked, PrepareCreated, outVars
  <2>2. run' = Idle \/ run' = [run EXCEPT !.at = "read"]
    BY <1>7, Zenon DEF PrepareLinked, PrepareCreated, Goto, End
  <2>3. CASE run' = [run EXCEPT !.at = "read"]
    <3>1. run.item.event = "pickup_changed"
      BY <1>7 DEF PrepareLinked, PrepareCreated, Errand
    <3>2. run'.at = "read" /\ run'.item = run.item /\ run'.then = run.then
      BY <1>3, <2>3 DEF Runs
    <3>3. QED
      BY <2>1, <3>1, <3>2 DEF Calm, Due, Errand
  <2>4. QED
    BY <2>1, <2>2, <2>3, EndCalm
<1>8. CASE RecordStarted \/ FinalizeIntake \/ FinalizeAwaiting \/ RecordCompleted
             \/ RecordRejected
  BY <1>8, RecordCalm
  DEF RecordStarted, FinalizeIntake, FinalizeAwaiting, RecordCompleted, RecordRejected
<1>9. CASE Intake \/ Decide \/ PersistFacts
  <2>1. queue' = queue /\ mailed' = mailed /\ meta'.sent = meta.sent
    BY <1>2, <1>9, Zenon DEF Intake, Decide, PersistFacts
  <2>2. \/ run' = Idle
        \/ run'.at \in {"decide", "persist", "review"} /\ run'.then = run.then
    BY <1>3, <1>9 DEF Intake, Decide, PersistFacts, Fail, End, Goto, Runs
  <2>3. QED
    BY <2>1, <2>2, EndCalm DEF Calm, Due, Errand
<1>10. CASE Persist
  <2>1. queue' = queue /\ mailed' = mailed /\ run' = [run EXCEPT !.at = "facts"]
    BY <1>10, Zenon DEF Persist, Goto, outVars
  <2>2. meta'.sent = meta.sent
    BY <1>10 DEF Persist, TypeOK
  <2>3. QED
    BY <1>1, <2>1, <2>2, GotoCalm
<1>11. CASE Hydrate \/ WeekendPickup
  <2>1. queue' = queue /\ mailed' = mailed /\ meta'.sent = meta.sent
    BY <1>2, <1>11, Zenon DEF Hydrate, WeekendPickup, NotVendors
  <2>2. /\ run.at \in {"hydrate", "weekend"}
        /\ run'.at \in {"weekend", "mail"} /\ run'.item = run.item /\ run'.then = run.then
    BY <1>3, <1>11 DEF Hydrate, WeekendPickup, Goto, Runs
  <2>3. QED
    BY <2>1, <2>2 DEF Calm, Due, Errand
<1>12. CASE ApplyPlaceholder \/ ApplyAscend \/ ApplyTurvo \/ ApplyTender
  BY <1>1, <1>12, VendorCalm DEF ApplyPlaceholder, ApplyAscend, ApplyTurvo, ApplyTender
<1>13. CASE Classify \/ ApplyAscendSkipped \/ Confirm
  <2>1. queue' = queue /\ mailed' = mailed /\ meta'.sent = meta.sent
    BY <1>2, <1>13, Zenon DEF Classify, ApplyAscendSkipped, Confirm, NotVendors
  <2>2. \/ run' = Idle
        \/ \E at \in {"dropoff", "reject", "delivery", "tender"} : run' = [run EXCEPT !.at = at]
    BY <1>13 DEF Classify, ApplyAscendSkipped, Confirm, Fail, Goto, End
  <2>3. QED
    BY <1>1, <2>1, <2>2, EndCalm, GotoCalm
<1>14. QED
  BY <1>4, <1>5, <1>6, <1>7, <1>8, <1>9, <1>10, <1>11, <1>12, <1>13, Zenon
  DEF RunStep, Preparing, Drafting, Sending, Replying

(* The claim stays where it is under a calm step,                           *)
LEMMA CalmSend ==
  ASSUME OneSend, Calm, claims' = claims
  PROVE  Errand' /\ OneSend'
<1>1. Taken' <=> Taken
  BY DEF Calm, Taken, Waiting
<1>2. Errand'
  BY DEF Calm, Errand
<1>3. QED
  BY <1>1, <1>2 DEF Calm, OneSend, Waiting

(* goes to the run that takes its item,                                     *)
LEMMA TakeSend ==
  ASSUME TypeOK, OneSend, Take
  PROVE  Errand' /\ OneSend'
<1>1. queue \in Seq(Items) /\ queue # <<>>
  BY DEF TypeOK, Take
<1>2. /\ 1 \in DOMAIN queue /\ Head(queue) = queue[1]
      /\ \A i \in DOMAIN Tail(queue) :
           i + 1 \in DOMAIN queue /\ i + 1 # 1 /\ Tail(queue)[i] = queue[i + 1]
      /\ \A i, j \in DOMAIN Tail(queue) : i + 1 = j + 1 => i = j
  BY <1>1, HeadTailProperties, LenProperties, EmptySeq
<1>3. /\ queue' = Tail(queue) /\ mailed' = mailed /\ meta' = meta /\ claims' = claims
      /\ run'.item = queue[1] /\ run'.then = "idle"
      /\ run'.at = IF queue[1].event = "pickup_changed" THEN "prepare" ELSE "read"
  BY <1>2 DEF Take, Begun, inVars, outVars
<1>4. \A i \in DOMAIN queue' : queue'[i] = queue[i + 1] /\ i + 1 \in DOMAIN queue /\ i + 1 # 1
  BY <1>2, <1>3
<1>5. Errand'
  BY <1>3 DEF Errand
<1>6. Due' => Waiting(1)
  BY <1>3 DEF Due, Waiting
<1>7. \A i \in DOMAIN queue' : Waiting(i)' => Waiting(i + 1)
  BY <1>4 DEF Waiting
<1>8. Waiting(1) => Taken'
  BY <1>2, <1>3, <1>4, <1>7 DEF OneSend, Taken
<1>9. Taken => Taken' /\ ~Waiting(1)
  BY <1>2, <1>3, <1>4, <1>7 DEF Taken
<1>10. \A i, j \in DOMAIN queue' : Waiting(i)' /\ Waiting(j)' => i = j
  <2>1. TAKE i, j \in DOMAIN queue'
  <2>2. Waiting(i)' /\ Waiting(j)' => i + 1 = j + 1
    BY <1>4, <1>7 DEF OneSend
  <2>3. QED
    BY <1>2, <1>3, <2>2
<1>11. QED
  BY <1>3, <1>4, <1>5, <1>6, <1>7, <1>8, <1>9, <1>10 DEF OneSend

(* becomes the mail,                                                        *)
LEMMA MailSend ==
  ASSUME TypeOK, Errand, OneSend, SendDraft \/ SendFails
  PROVE  Errand' /\ OneSend'
<1>1. Due /\ Taken /\ mailed = <<>>
  <2>1. Due
    BY DEF SendDraft, SendFails, Errand, Due
  <2>2. QED
    BY <2>1 DEF OneSend
<1>2. meta' = meta /\ claims' = claims /\ queue' = queue
  BY Zenon DEF SendDraft, SendFails, NotVendors, inVars
<1>3. Taken'
  BY <1>1, <1>2 DEF Taken, Waiting
<1>4. \/ run' = Idle
      \/ run'.at = "placeholder" /\ run'.then = run.then
  BY DEF SendDraft, SendFails, Fail, End, Goto, TypeOK, Runs
<1>5. Errand' /\ ~Due'
  BY <1>4 DEF Errand, Due, Idle, Begun, Item
<1>6. Len(mailed') <= 1
  <2>1. mailed' = mailed \/ mailed' = Append(mailed, run.draft)
    BY Zenon DEF SendDraft, SendFails
  <2>2. mailed \in Seq(Nat) /\ Len(mailed) = 0 /\ run.draft \in Nat
    BY <1>1 DEF TypeOK, Runs
  <2>3. Len(Append(mailed, run.draft)) = Len(mailed) + 1
    BY <2>2, AppendProperties
  <2>4. QED
    BY <2>1, <2>2, <2>3
<1>7. QED
  BY <1>3, <1>5, <1>6 DEF OneSend, Taken

(* and enters the queue when the portal publishes it, once.                 *)
LEMMA IngressSend ==
  ASSUME TypeOK, Errand, OneSend, Ingress
  PROVE  Errand' /\ OneSend'
<1>1. queue \in Seq(Items) /\ claims \in Nat
  BY DEF TypeOK
<1>2. run' = run /\ mailed' = mailed
  BY Zenon
  DEF Ingress, CheckHook, EnqueueHook, Claim, Publish, Portal, ReplyArrives, ResolveReply,
      EnqueueReply, outVars
<1>3. Errand' /\ (Due' <=> Due)
  BY <1>2 DEF Errand, Due
<1>4. CASE UNCHANGED <<queue, meta, claims>>
  BY <1>2, <1>3, <1>4 DEF OneSend, Taken, Waiting
<1>5. CASE \E item : /\ item.event # "draft_send" /\ queue' = Append(queue, item)
                     /\ UNCHANGED <<meta, claims>>
  <2>1. PICK item : item.event # "draft_send" /\ queue' = Append(queue, item)
    BY <1>5
  <2>2. /\ DOMAIN queue \subseteq DOMAIN queue'
        /\ \A i \in DOMAIN queue : queue'[i] = queue[i]
        /\ \A i \in DOMAIN queue' : i \in DOMAIN queue \/ queue'[i] = item
    BY <1>1, <2>1, AppendProperties, LenProperties
  <2>3. \A i \in DOMAIN queue' : Waiting(i)' => i \in DOMAIN queue /\ Waiting(i)
    BY <2>1, <2>2 DEF Waiting
  <2>4. QED
    BY <1>2, <1>3, <1>5, <2>3 DEF OneSend, Taken
<1>6. CASE Claim
  <2>1. /\ ~meta.sent /\ meta'.sent = TRUE /\ claims' = claims + 1 /\ queue' = queue
    BY <1>6 DEF Claim, Claimable, TypeOK
  <2>2. claims = 0 /\ (\A i \in DOMAIN queue : ~Waiting(i)) /\ ~Due /\ mailed = <<>>
    BY <2>1 DEF OneSend, Taken
  <2>3. QED
    BY <1>2, <1>3, <2>1, <2>2 DEF OneSend, Taken, Waiting
<1>7. CASE Publish
  <2>1. /\ claims > 0 /\ claims' = claims - 1 /\ meta' = meta
        /\ queue' \in {Append(queue, Item("draft_send", rowId, FALSE, 0)), queue}
    BY <1>1, <1>7, Zenon DEF Publish, When
  <2>2. /\ meta.sent /\ claims = 1 /\ (\A i \in DOMAIN queue : ~Waiting(i)) /\ ~Due
        /\ mailed = <<>>
    BY <1>1, <2>1 DEF OneSend, Taken
  <2>3. CASE queue' = queue
    BY <1>2, <1>3, <2>1, <2>2, <2>3 DEF OneSend, Taken, Waiting
  <2>4. CASE queue' = Append(queue, Item("draft_send", rowId, FALSE, 0))
    <3> DEFINE item == Item("draft_send", rowId, FALSE, 0)
    <3> HIDE DEF item
    <3>1. queue' = Append(queue, item)
      BY <2>4 DEF item
    <3>2. /\ \A i \in DOMAIN queue : queue'[i] = queue[i]
          /\ \A i \in DOMAIN queue' : i \in DOMAIN queue \/ i = Len(queue) + 1
      BY <1>1, <3>1, AppendProperties, LenProperties
    <3>3. \A i \in DOMAIN queue' : Waiting(i)' => i = Len(queue) + 1
      BY <2>2, <3>2 DEF Waiting
    <3>4. QED
      BY <1>2, <1>3, <2>1, <2>2, <3>3 DEF OneSend, Taken
  <2>5. QED
    BY <2>1, <2>3, <2>4
<1>8. CASE CheckHook \/ Portal \/ ReplyArrives \/ \E m \in DOMAIN replies : ResolveReply(m)
  BY <1>4, <1>8, Zenon DEF CheckHook, Portal, ReplyArrives, ResolveReply, inVars
<1>9. ASSUME NEW h \in DOMAIN hooks, EnqueueHook(h)
      PROVE  UNCHANGED <<meta, claims>>
             /\ \E item : item.event # "draft_send" /\ queue' = Append(queue, item)
  <2>1. \E id, moved : queue' = Append(queue, Item("pickup_changed", id, moved, 0))
    BY <1>9, Zenon DEF EnqueueHook
  <2>2. UNCHANGED <<meta, claims>>
    BY <1>9, Zenon DEF EnqueueHook
  <2>3. QED
    BY <2>1, <2>2 DEF Item
<1>10. ASSUME NEW m \in DOMAIN replies, EnqueueReply(m)
       PROVE  UNCHANGED <<meta, claims>>
              /\ \/ queue' = queue
                 \/ \E item : item.event # "draft_send" /\ queue' = Append(queue, item)
  <2>1. queue' = queue \/ queue' = Append(queue, Item("customer_reply", rowId, FALSE, m))
    BY <1>10, Zenon DEF EnqueueReply
  <2>2. UNCHANGED <<meta, claims>>
    BY <1>10, Zenon DEF EnqueueReply
  <2>3. QED
    BY <2>1, <2>2 DEF Item
<1>11. QED
  BY <1>4, <1>5, <1>6, <1>7, <1>8, <1>9, <1>10, Zenon DEF Ingress

(* So it is never in two places.                                            *)
LEMMA StepSend ==
  ASSUME TypeOK, Errand, OneSend, [Next]_vars
  PROVE  Errand' /\ OneSend'
<1>1. CASE UNCHANGED vars
  <2>1. run' = run /\ queue' = queue /\ mailed' = mailed /\ meta' = meta /\ claims' = claims
    BY <1>1, Zenon DEF vars
  <2>2. QED
    BY <2>1 DEF Due, OneSend, Errand, Taken, Waiting
<1>2. CASE RunStep /\ ~Take /\ ~SendDraft /\ ~SendFails
  BY <1>2, RunCalm, RunFrame, CalmSend DEF inVars
<1>3. QED
  BY <1>1, <1>2, TakeSend, MailSend, IngressSend, Zenon DEF Next, RunStep

-----------------------------------------------------------------------------
(* What the row tells of the draft and of the agreement.                   *)

\* The nodes of the runs of a pickup update, of the draft and of a reply.
Drafts == {"prepare", "start", "intake", "decide", "persist", "facts", "review"}
Sends == {"hydrate", "weekend", "mail", "placeholder", "await"}
Replies == {"classify", "dropoff", "delivery", "confirm", "tender", "settle", "reject"}

\* What the row says when a draft goes out, and when a reply is taken up; the
\* portal may resolve it beside the run.
Drafted == {"appointment_draft_created", "resolved_manually"}
Awaited == {"awaiting_customer_reply", "resolved_manually"}

\* A sequence that sets the sub-status, whatever row it meets.
Sets(s, sub) == \A r \in RowsOf(Subs) : AfterSequence(r, s).sub = sub

\* A reply has its place, which is the time it agrees on.
Placed(item) == item.event = "customer_reply" => item.reply # 0

\* What the customer was asked; how far a reply has come.
Asked == mailed # <<>> /\ tms.turvo # NoTime
InAscend == skipAscend \/ tms.ascend = run.item.reply
InTurvo == InAscend /\ tms.turvo = run.item.reply
Told == InTurvo /\ confirmed # <<>> /\ Last(confirmed) = tms.turvo
Agreed ==
  /\ confirmed # <<>> /\ Last(confirmed) = tms.turvo
  /\ skipAscend \/ tms.ascend = tms.turvo
  /\ tms.tendered

\* What a run is about to write, and to which row.
Pen ==
  run.at = "write" =>
    /\ run.item.event = "pickup_changed" =>
         \E sub \in {"appointment_scheduling_started", "appointment_draft_created"} :
           Sets(run.todo, sub)
    /\ run.item.event = "draft_send" =>
         Sets(run.todo, "awaiting_customer_reply") /\ Asked /\ row.sub \in Drafted
    /\ run.item.event = "customer_reply" =>
         /\ row.sub \in Awaited
         /\ \/ Sets(run.todo, "appointment_scheduled") /\ Agreed
            \/ Sets(run.todo, "rejected")

\* Whose run is where, on a row in which state.
OnRow ==
  /\ Placed(run.item) /\ \A i \in DOMAIN queue : Placed(queue[i])
  /\ run.at \in Drafts => run.item.event = "pickup_changed"
  /\ run.at \in Sends => run.item.event = "draft_send" /\ row.sub \in Drafted
  /\ run.at \in Replies => run.item.event = "customer_reply" /\ row.sub \in Awaited
  /\ run.then = "intake" => run.item.event = "pickup_changed"

\* How far it has come.
Halfway ==
  /\ run.at = "placeholder" => mailed # <<>>
  /\ run.at = "await" => Asked
  /\ run.at = "delivery" => InAscend
  /\ run.at = "confirm" => InTurvo
  /\ run.at = "tender" => Told
  /\ run.at = "settle" => Agreed

Progress ==
  /\ Pen /\ OnRow /\ Halfway
  /\ recorded => mailed # <<>>
  /\ AwaitingMeansMailed /\ ScheduledMeansAgreed

(* What a run sends, and what a failure and a resolution leave.             *)
LEMMA SequencesMean ==
  ASSUME TypeOK
  PROVE  /\ \A s \in AppointmentStarted(row) : Sets(s, "appointment_scheduling_started")
         /\ \A s \in DraftReady(row) : Sets(s, "appointment_draft_created")
         /\ \A s \in AppointmentAwaiting(row) : Sets(s, "awaiting_customer_reply")
         /\ \A s \in Completing(row) : Sets(s, "appointment_scheduled")
         /\ \A s \in Rejecting(row) : Sets(s, "rejected")
         /\ \A s \in Resolve(row) : Sets(s, "resolved_manually")
         /\ \A category : AfterSequence(row, FailureOf(category)).sub = row.sub
<1>1. row.status \in Statuses /\ row.sub \in Subs /\ row \in RowsOf(Subs)
  BY DEF TypeOK, RowsOf
<1>2. ASSUME NEW c \in Commands(Subs), ~IsSnapshot(c.type), c.sub # Unset
      PROVE  Sets(<<c>>, c.sub)
  BY <1>2, AfterTransition DEF Sets, OrElse
<1>3. ASSUME NEW v, v.status \in Statuses, v.sub \in Subs, NEW status \in Statuses,
             NEW sub \in Subs
      PROVE  Sets(<<From(v, StatusChange(status, sub))>>, sub)
  <2> DEFINE c == From(v, StatusChange(status, sub))
  <2>1. c \in Commands(Subs) /\ ~IsSnapshot(c.type) /\ c.sub = sub /\ c.sub # Unset
    BY <1>3 DEF From, StatusChange, Command, Commands, Transitions, Snapshots, IsSnapshot, Unset,
                Subs
  <2> HIDE DEF c
  <2>2. QED
    BY <1>2, <2>1 DEF c
<1>4. /\ {"processing", "pending_review", "completed"} \subseteq Statuses
      /\ {"appointment_scheduling_started", "appointment_draft_created", "awaiting_customer_reply",
          "appointment_scheduled", "rejected", "resolved_manually"} \subseteq Subs
  BY DEF Statuses, Subs
<1>5. \A s \in AppointmentStarted(row) : Sets(s, "appointment_scheduling_started")
  <2>1. Fresh.status \in Statuses /\ Fresh.sub \in Subs
    BY DEF Fresh, Statuses, Subs
  <2>2. Sets(<<From(Fresh, StatusChange("processing", "appointment_scheduling_started"))>>,
             "appointment_scheduling_started")
    BY <1>3, <1>4, <2>1
  <2>3. QED
    BY <2>2, Zenon DEF AppointmentStarted, When
<1>6. \A s \in DraftReady(row) : Sets(s, "appointment_draft_created")
  BY <1>1, <1>3, <1>4 DEF DraftReady
<1>7. \A s \in AppointmentAwaiting(row) : Sets(s, "awaiting_customer_reply")
  <2> DEFINE c == ReviewStep(row, "awaiting_customer_reply")
  <2>1. c \in Commands(Subs) /\ ~IsSnapshot(c.type) /\ c.sub = "awaiting_customer_reply"
    BY <1>4, CommandsTyped DEF ReviewStep, Command, Snapshots, IsSnapshot
  <2>2. \A s \in AppointmentAwaiting(row) : s = <<c>>
    BY Zenon DEF AppointmentAwaiting, When
  <2> HIDE DEF c
  <2>3. Sets(<<c>>, c.sub)
    BY <1>2, <2>1 DEF Unset
  <2>4. QED
    BY <2>1, <2>2, <2>3
<1>8. /\ \A s \in Completing(row) : Sets(s, "appointment_scheduled")
      /\ \A s \in Rejecting(row) : Sets(s, "rejected")
  <2> DEFINE c == From(row, StatusChange("completed", "appointment_scheduled"))
             d == From(row, StatusChange("completed", "rejected"))
  <2>1. \A s \in AppointmentReplied(row) : s = <<c>> \/ s = <<d>>
    BY Zenon DEF AppointmentReplied, When
  <2>2. c.sub = "appointment_scheduled" /\ d.sub = "rejected"
    BY DEF From, StatusChange, Command
  <2>3. Sets(<<c>>, "appointment_scheduled") /\ Sets(<<d>>, "rejected")
    BY <1>1, <1>3, <1>4
  <2> HIDE DEF c, d
  <2>4. <<c>>[1].sub # "rejected" /\ <<d>>[1].sub # "appointment_scheduled"
    BY <2>2
  <2>5. QED
    BY <2>1, <2>3, <2>4 DEF Completing, Rejecting
<1>9. \A s \in Resolve(row) : Sets(s, "resolved_manually")
  <2> DEFINE d == StatusChange("completed", "resolved_manually")
  <2>1. d \in Commands(Subs) /\ ~IsSnapshot(d.type) /\ d.sub = "resolved_manually"
    BY <1>4 DEF StatusChange, Command, Commands, Transitions, Snapshots, IsSnapshot, Unset
  <2>2. Action \in Commands(Subs) /\ IsSnapshot(Action.type)
    BY DEF Action, Command, Commands, Snapshots, IsSnapshot, Unset
  <2>3. \A s \in Resolve(row) : s = <<Action, d>>
    BY Zenon DEF Resolve
  <2> HIDE DEF d
  <2>4. \A r \in RowsOf(Subs) : AfterSequence(r, <<Action, d>>).sub = OrElse(d.sub, r.sub)
    BY <2>1, <2>2, AfterLogged
  <2>5. QED
    BY <2>1, <2>3, <2>4 DEF Sets, OrElse, Unset
<1>10. ASSUME NEW category
       PROVE  AfterSequence(row, FailureOf(category)).sub = row.sub
  <2> DEFINE e == [Exception EXCEPT !.pause = IF category = "business" THEN Unset
                                              ELSE "system_error"]
             c == StatusChange("pending_review", Unset)
  <2>1. e \in Commands(Subs) /\ IsSnapshot(e.type)
    BY DEF Exception, Command, Commands, Snapshots, PauseTypes, Unset, IsSnapshot
  <2>2. c \in Commands(Subs) /\ ~IsSnapshot(c.type) /\ c.sub = Unset
    BY DEF StatusChange, Command, Commands, Transitions, Snapshots, Statuses, Unset, IsSnapshot
  <2>3. FailureOf(category) = <<e, c>>
    BY Zenon DEF FailureOf
  <2> HIDE DEF e, c
  <2>4. AfterSequence(row, <<e, c>>).sub = OrElse(c.sub, row.sub)
    BY <1>1, <2>1, <2>2, AfterLogged
  <2>5. QED
    BY <2>2, <2>3, <2>4 DEF OrElse
<1>11. QED
  BY <1>5, <1>6, <1>7, <1>8, <1>9, <1>10

(* A failure leaves the sub-status and no run.                              *)
LEMMA FailMeans ==
  ASSUME TypeOK, Fail
  PROVE  run' = Idle /\ row'.sub = row.sub
<1>1. PICK category : row' = AfterSequence(row, FailureOf(category))
  BY Zenon DEF Fail, Committed
<1>2. QED
  BY <1>1, SequencesMean DEF Fail, End

(* When there is no run, the row alone tells.                               *)
LEMMA EndProgress ==
  ASSUME OnRow, run' = Idle, queue' = queue, recorded' => mailed' # <<>>,
         AwaitingMeansMailed', ScheduledMeansAgreed'
  PROVE  Progress'
<1>1. /\ run'.at = "idle" /\ run'.then = "idle" /\ run'.item.event = "pickup_changed"
  BY DEF Idle, Begun, Item
<1>2. OnRow'
  BY <1>1 DEF OnRow, Placed, Drafts, Sends, Replies
<1>3. QED
  BY <1>1, <1>2 DEF Progress, Pen, Halfway

(* A step that ends the run and leaves what the row tells of,               *)
LEMMA QuitProgress ==
  ASSUME TypeOK, Progress, run' = Idle, row'.sub = row.sub,
         UNCHANGED <<queue, skipAscend, tms, mailed, recorded, confirmed>>
  PROVE  Progress'
<1>1. /\ queue' = queue /\ skipAscend' = skipAscend /\ tms' = tms /\ mailed' = mailed
      /\ recorded' = recorded /\ confirmed' = confirmed
  OBVIOUS
<1>2. AwaitingMeansMailed' /\ ScheduledMeansAgreed' /\ (recorded' => mailed' # <<>>)
  BY <1>1 DEF Progress, AwaitingMeansMailed, ScheduledMeansAgreed
<1>3. QED
  BY <1>1, <1>2, EndProgress DEF Progress

(* and one that moves the run on.                                           *)
LEMMA MovedProgress ==
  ASSUME TypeOK, Progress, UNCHANGED <<queue, row, skipAscend, tms, mailed, recorded, confirmed>>,
         NEW at, at # "write", run'.at = at, run'.item = run.item, run'.then = run.then,
         at \in Drafts => run.item.event = "pickup_changed",
         at \in Sends => run.item.event = "draft_send" /\ row.sub \in Drafted,
         at \in Replies => run.item.event = "customer_reply" /\ row.sub \in Awaited,
         at = "placeholder" => mailed # <<>>, at = "await" => Asked, at = "delivery" => InAscend,
         at = "confirm" => InTurvo, at = "tender" => Told, at = "settle" => Agreed
  PROVE  Progress'
<1>1. /\ queue' = queue /\ skipAscend' = skipAscend /\ tms' = tms /\ mailed' = mailed
      /\ recorded' = recorded /\ confirmed' = confirmed /\ row' = row
  OBVIOUS
<1>2. AwaitingMeansMailed' /\ ScheduledMeansAgreed' /\ (recorded' => mailed' # <<>>)
  BY <1>1 DEF Progress, AwaitingMeansMailed, ScheduledMeansAgreed
<1>3. OnRow'
  BY <1>1 DEF Progress, OnRow, Placed
<1>4. Halfway'
  BY <1>1 DEF Halfway, Asked, InAscend, InTurvo, Told, Agreed
<1>5. Pen'
  BY DEF Pen
<1>6. QED
  BY <1>2, <1>3, <1>4, <1>5 DEF Progress

(* A run that has decided what to write.                                    *)
LEMMA WritesProgress ==
  ASSUME TypeOK, Progress, NEW s, NEW next, Write(s, next), OnlyRun,
         run.item.event = "pickup_changed" =>
           \E sub \in {"appointment_scheduling_started", "appointment_draft_created"} : Sets(s, sub),
         run.item.event = "draft_send" =>
           Sets(s, "awaiting_customer_reply") /\ Asked /\ row.sub \in Drafted,
         run.item.event = "customer_reply" =>
           /\ row.sub \in Awaited
           /\ (Sets(s, "appointment_scheduled") /\ Agreed) \/ Sets(s, "rejected"),
         next = "intake" => run.item.event = "pickup_changed"
  PROVE  Progress'
<1>1. /\ queue' = queue /\ skipAscend' = skipAscend /\ tms' = tms /\ mailed' = mailed
      /\ recorded' = recorded /\ confirmed' = confirmed /\ row' = row
  BY Zenon DEF OnlyRun, outVars
<1>2. run'.at = "write" /\ run'.then = next /\ run'.todo = s /\ run'.item = run.item
  BY DEF TypeOK, Runs, Write
<1>3. AwaitingMeansMailed' /\ ScheduledMeansAgreed' /\ (recorded' => mailed' # <<>>)
  BY <1>1 DEF Progress, AwaitingMeansMailed, ScheduledMeansAgreed
<1>4. OnRow'
  BY <1>1, <1>2 DEF Progress, OnRow, Placed, Drafts, Sends, Replies
<1>5. Halfway'
  BY <1>2 DEF Halfway
<1>6. (Asked' <=> Asked) /\ (Agreed' <=> Agreed)
  BY <1>1 DEF Asked, Agreed
<1>7. Pen'
  <2>1. \A sub : Sets(run.todo, sub)' <=> Sets(s, sub)
    BY <1>2, Zenon
  <2>2. QED
    BY <1>1, <1>2, <1>6, <2>1 DEF Pen
<1>8. QED
  BY <1>3, <1>4, <1>5, <1>7 DEF Progress

(* A read that may lead to a sequence.                                      *)
LEMMA RecordMeans ==
  ASSUME TypeOK, NEW at, NEW sequences, NEW next, Record(at, sequences, next)
  PROVE  /\ run.at = at /\ OnlyRun
         /\ \/ run'.at = next /\ run'.item = run.item /\ run'.then = run.then
            \/ \E s \in sequences : Write(s, next)
<1>1. /\ run.at = at /\ OnlyRun
      /\ \/ run' = [run EXCEPT !.at = next]
         \/ \E s \in sequences : Write(s, next)
  BY Zenon DEF Record
<1>2. QED
  BY <1>1 DEF TypeOK, Runs

(* The steps beside the runs.                                               *)
LEMMA IngressProgress ==
  ASSUME TypeOK, Progress, Ingress
  PROVE  Progress'
<1>1. /\ run' = run /\ skipAscend' = skipAscend /\ tms' = tms /\ mailed' = mailed
      /\ recorded' = recorded /\ confirmed' = confirmed
  BY Zenon
  DEF Ingress, CheckHook, EnqueueHook, Claim, Publish, Portal, ReplyArrives, ResolveReply,
      EnqueueReply, outVars
<1>2. row' = row \/ row'.sub = "resolved_manually"
  <2>1. CASE Portal
    <3>1. PICK s \in Resolve(row) : row' = AfterSequence(row, s)
      BY <2>1, Zenon DEF Portal
    <3>2. row \in RowsOf(Subs)
      BY DEF TypeOK, RowsOf
    <3>3. QED
      BY <3>1, <3>2, SequencesMean DEF Sets
  <2>2. CASE ~Portal
    BY <2>2, Zenon
    DEF Ingress, CheckHook, EnqueueHook, Claim, Publish, ReplyArrives, ResolveReply, EnqueueReply
  <2>3. QED
    BY <2>1, <2>2
<1>3. \A i \in DOMAIN queue' : Placed(queue'[i])
  <2>1. \A i \in DOMAIN queue : Placed(queue[i])
    BY DEF Progress, OnRow
  <2>2. queue' = queue \/ \E item : Placed(item) /\ queue' = Append(queue, item)
    <3>1. CASE CheckHook \/ Claim \/ Portal \/ ReplyArrives \/ \E m \in DOMAIN replies : ResolveReply(m)
      BY <3>1, Zenon DEF CheckHook, Claim, Portal, ReplyArrives, ResolveReply
    <3>2. \A id, moved : /\ Placed(Item("pickup_changed", id, moved, 0))
                         /\ Placed(Item("draft_send", id, moved, 0))
                         /\ \A m \in DOMAIN replies : Placed(Item("customer_reply", id, moved, m))
      <4>1. \A m \in DOMAIN replies : m # 0
        BY LenProperties DEF TypeOK
      <4>2. QED
        BY <4>1 DEF Placed, Item
    <3>3. CASE Publish
      BY <3>2, <3>3, Zenon DEF Publish, When
    <3>4. CASE \E h \in DOMAIN hooks : EnqueueHook(h)
      BY <3>2, <3>4, Zenon DEF EnqueueHook
    <3>5. CASE \E m \in DOMAIN replies : EnqueueReply(m)
      BY <3>2, <3>5, Zenon DEF EnqueueReply
    <3>6. QED
      BY <3>1, <3>3, <3>4, <3>5, Zenon DEF Ingress
  <2>3. ASSUME NEW item, Placed(item), queue' = Append(queue, item)
        PROVE  \A i \in DOMAIN queue' : Placed(queue'[i])
    <3>1. /\ \A i \in DOMAIN queue : queue'[i] = queue[i]
          /\ \A i \in DOMAIN queue' : i \in DOMAIN queue \/ queue'[i] = item
      BY <2>3, AppendProperties, LenProperties DEF TypeOK
    <3>2. QED
      BY <2>1, <2>3, <3>1
  <2>4. QED
    BY <2>1, <2>2, <2>3
<1>4. row'.sub = row.sub \/ row'.sub = "resolved_manually"
  BY <1>2
<1>5. AwaitingMeansMailed' /\ ScheduledMeansAgreed' /\ (recorded' => mailed' # <<>>)
  BY <1>1, <1>4 DEF Progress, AwaitingMeansMailed, ScheduledMeansAgreed
<1>6. OnRow'
  BY <1>1, <1>3, <1>4 DEF Progress, OnRow, Drafted, Awaited
<1>7. Halfway'
  BY <1>1 DEF Progress, Halfway, Asked, InAscend, InTurvo, Told, Agreed
<1>8. (Asked' <=> Asked) /\ (Agreed' <=> Agreed)
  BY <1>1 DEF Asked, Agreed
<1>9. Pen'
  <2>1. \A sub : Sets(run.todo, sub)' <=> Sets(run.todo, sub)
    BY <1>1, Zenon
  <2>2. QED
    BY <1>1, <1>4, <1>8, <2>1 DEF Progress, Pen, Drafted, Awaited
<1>10. QED
  BY <1>5, <1>6, <1>7, <1>9 DEF Progress

(* A run begins with the item it takes,                                     *)
LEMMA TakeProgress ==
  ASSUME TypeOK, Progress, Take
  PROVE  Progress'
<1>1. /\ row' = row /\ skipAscend' = skipAscend /\ tms' = tms /\ mailed' = mailed
      /\ recorded' = recorded /\ confirmed' = confirmed
  BY Zenon DEF Take, outVars
<1>2. queue \in Seq(Items) /\ queue # <<>>
  BY DEF TypeOK, Take
<1>3. /\ 1 \in DOMAIN queue /\ Head(queue) = queue[1]
      /\ \A i \in DOMAIN Tail(queue) : i + 1 \in DOMAIN queue /\ Tail(queue)[i] = queue[i + 1]
  BY <1>2, HeadTailProperties, LenProperties, EmptySeq
<1>4. /\ queue' = Tail(queue) /\ run'.item = queue[1] /\ run'.then = "idle"
      /\ run'.at = IF queue[1].event = "pickup_changed" THEN "prepare" ELSE "read"
  BY <1>3 DEF Take, Begun
<1>5. OnRow'
  BY <1>1, <1>3, <1>4 DEF Progress, OnRow, Drafts, Sends, Replies
<1>6. AwaitingMeansMailed' /\ ScheduledMeansAgreed' /\ (recorded' => mailed' # <<>>)
  BY <1>1 DEF Progress, AwaitingMeansMailed, ScheduledMeansAgreed
<1>7. Halfway' /\ Pen'
  BY <1>4 DEF Halfway, Pen
<1>8. QED
  BY <1>5, <1>6, <1>7 DEF Progress

(* and writes what it has come to.                                          *)
LEMMA WriteProgress ==
  ASSUME TypeOK, Errand, Progress, WriteRow
  PROVE  Progress'
<1>1. /\ queue' = queue /\ skipAscend' = skipAscend /\ tms' = tms /\ mailed' = mailed
      /\ recorded' = recorded /\ confirmed' = confirmed /\ run.at = "write"
      /\ row' = row \/ row' = AfterSequence(row, run.todo)
  BY Zenon DEF WriteRow, OnlyRow, outVars, Committed
<1>2. row \in RowsOf(Subs) /\ run.item.event \in Events /\ run.then \in {"idle", "intake"}
  BY DEF TypeOK, RowsOf, Runs, Items, Errand
<1>3. \A sub : Sets(run.todo, sub) => row' = row \/ row'.sub = sub
  BY <1>1, <1>2 DEF Sets
<1>4. /\ AwaitingMeansMailed' /\ ScheduledMeansAgreed'
  <2>1. CASE run.item.event = "pickup_changed"
    <3>1. row' = row \/ row'.sub \in {"appointment_scheduling_started", "appointment_draft_created"}
      BY <1>1, <1>3, <2>1 DEF Progress, Pen
    <3>2. QED
      BY <1>1, <3>1 DEF Progress, AwaitingMeansMailed, ScheduledMeansAgreed
  <2>2. CASE run.item.event = "draft_send"
    <3>1. (row' = row \/ row'.sub = "awaiting_customer_reply") /\ Asked
      BY <1>1, <1>3, <2>2 DEF Progress, Pen
    <3>2. QED
      BY <1>1, <3>1 DEF Progress, AwaitingMeansMailed, ScheduledMeansAgreed, Asked
  <2>3. CASE run.item.event = "customer_reply"
    <3>1. row' = row \/ (row'.sub = "appointment_scheduled" /\ Agreed) \/ row'.sub = "rejected"
      BY <1>1, <1>3, <2>3 DEF Progress, Pen
    <3>2. QED
      BY <1>1, <3>1 DEF Progress, AwaitingMeansMailed, ScheduledMeansAgreed, Agreed
  <2>4. QED
    BY <1>2, <2>1, <2>2, <2>3 DEF Events
<1>5. CASE run.then = "idle"
  <2>1. run' = Idle
    BY <1>5, Zenon DEF WriteRow, End
  <2>2. QED
    BY <1>1, <1>4, <2>1, EndProgress DEF Progress
<1>6. CASE run.then = "intake"
  <2>1. run' = [run EXCEPT !.at = "intake"]
    BY <1>6 DEF WriteRow, Goto
  <2>2. run'.at = "intake" /\ run'.item = run.item /\ run'.then = run.then
    BY <2>1 DEF TypeOK, Runs
  <2>3. OnRow'
    BY <1>1, <1>6, <2>2 DEF Progress, OnRow, Sends, Replies
  <2>4. Halfway' /\ Pen'
    BY <2>2 DEF Halfway, Pen
  <2>5. QED
    BY <1>1, <1>4, <2>3, <2>4 DEF Progress
<1>7. QED
  BY <1>2, <1>5, <1>6

(* The steps that only read, move on, or fail.                              *)
LEMMA PlainProgress ==
  ASSUME TypeOK, Progress, Raise \/ Read \/ Preparing \/ Intake \/ Decide \/ Persist
                             \/ PersistFacts \/ Hydrate \/ Classify \/ ApplyAscendSkipped
  PROVE  Progress'
<1>1. OnlyRun => UNCHANGED <<queue, row, skipAscend, tms, mailed, recorded, confirmed>>
  BY Zenon DEF OnlyRun, outVars
<1>2. ASSUME UNCHANGED <<queue, row, skipAscend, tms, mailed, recorded, confirmed>>, run' = Idle
      PROVE  Progress'
  BY <1>2, QuitProgress
<1>3. run.item.event \in Events
  BY DEF TypeOK, Runs, Items
<1>4. OnRow /\ Halfway
  BY DEF Progress
<1>5. \A at : run' = [run EXCEPT !.at = at] =>
        run'.at = at /\ run'.item = run.item /\ run'.then = run.then
  BY DEF TypeOK, Runs
<1>6. CASE Raise \/ RunStray \/ PrepareSkipped
  BY <1>1, <1>2, <1>6, Zenon DEF Raise, RunStray, PrepareSkipped, End
<1>7. CASE Read
  <2>1. OnlyRun
    BY <1>7, Zenon DEF Read
  <2>2. \/ run' = Idle
        \/ run' = [run EXCEPT !.at = "start"] /\ run.item.event = "pickup_changed"
        \/ run' = [run EXCEPT !.at = "hydrate"] /\ run.item.event = "draft_send" /\ DraftWaits
        \/ run' = [run EXCEPT !.at = "classify"] /\ run.item.event = "customer_reply" /\ ReplyAwaited
    BY <1>3, <1>7 DEF Read, Events
  <2>3. CASE run' = [run EXCEPT !.at = "start"] /\ run.item.event = "pickup_changed"
    BY <1>1, <1>5, <2>1, <2>3, MovedProgress DEF Sends, Replies
  <2>4. CASE run' = [run EXCEPT !.at = "hydrate"] /\ run.item.event = "draft_send" /\ DraftWaits
    BY <1>1, <1>5, <2>1, <2>4, MovedProgress DEF Drafts, Replies, DraftWaits, Drafted
  <2>5. CASE run' = [run EXCEPT !.at = "classify"] /\ run.item.event = "customer_reply" /\ ReplyAwaited
    BY <1>1, <1>5, <2>1, <2>5, MovedProgress DEF Drafts, Sends, ReplyAwaited, Awaited
  <2>6. QED
    BY <1>1, <1>2, <2>1, <2>2, <2>3, <2>4, <2>5
<1>8. CASE PrepareLinked \/ PrepareCreated
  <2>1. UNCHANGED <<queue, row, skipAscend, tms, mailed, recorded, confirmed>>
    BY <1>1, <1>8, Zenon DEF PrepareLinked, PrepareCreated, outVars
  <2>2. run' = Idle \/ run' = [run EXCEPT !.at = "read"]
    BY <1>8, Zenon DEF PrepareLinked, PrepareCreated, Goto, End
  <2>3. CASE run' = [run EXCEPT !.at = "read"]
    BY <1>5, <2>1, <2>3, MovedProgress DEF Drafts, Sends, Replies
  <2>4. QED
    BY <1>2, <2>1, <2>2, <2>3
<1>9. CASE Intake \/ Decide \/ Persist \/ PersistFacts
  <2>1. /\ UNCHANGED <<queue, skipAscend, tms, mailed, recorded, confirmed>>
        /\ run.at \in {"intake", "decide", "persist", "facts"}
    BY <1>9, <1>1 DEF Intake, Decide, Persist, PersistFacts, OnlyRow, outVars
  <2>2. \/ Fail
        \/ /\ row' = row /\ run'.item = run.item /\ run'.then = run.then
           /\ run'.at \in {"decide", "persist", "facts", "review"}
    <3>1. CASE Intake
      BY <3>1, ZenonT(30) DEF Intake, TypeOK, Runs
    <3>2. CASE Decide
      BY <1>1, <3>2 DEF Decide, TypeOK, Runs
    <3>3. CASE Persist
      BY <1>5, <3>3 DEF Persist, Goto
    <3>4. CASE PersistFacts
      BY <1>5, <3>4 DEF PersistFacts, Goto
    <3>5. QED
      BY <1>9, <3>1, <3>2, <3>3, <3>4
  <2>3. CASE Fail
    BY <2>1, <2>3, FailMeans, QuitProgress
  <2>4. CASE /\ row' = row /\ run'.item = run.item /\ run'.then = run.then
             /\ run'.at \in {"decide", "persist", "facts", "review"}
    <3>1. run.item.event = "pickup_changed"
      BY <1>4, <2>1 DEF OnRow, Drafts
    <3>2. QED
      BY <2>1, <2>4, <3>1, MovedProgress DEF Sends, Replies
  <2>5. QED
    BY <2>2, <2>3, <2>4
<1>10. CASE Hydrate
  <2>1. OnlyRun /\ run.at = "hydrate"
    BY <1>10, Zenon DEF Hydrate
  <2>2. run'.at \in {"weekend", "mail"} /\ run'.item = run.item /\ run'.then = run.then
    BY <1>10 DEF Hydrate, TypeOK, Runs
  <2>3. run.item.event = "draft_send" /\ row.sub \in Drafted
    BY <1>4, <2>1 DEF OnRow, Sends
  <2>4. QED
    BY <1>1, <2>1, <2>2, <2>3, MovedProgress DEF Drafts, Replies
<1>11. CASE Classify
  <2>1. OnlyRun /\ run.at = "classify"
    BY <1>11, Zenon DEF Classify
  <2>2. run' = Idle \/ \E at \in {"dropoff", "reject"} : run' = [run EXCEPT !.at = at]
    BY <1>11 DEF Classify, Goto, End
  <2>3. run.item.event = "customer_reply" /\ row.sub \in Awaited
    BY <1>4, <2>1 DEF OnRow, Replies
  <2>4. ASSUME NEW at \in {"dropoff", "reject"}, run' = [run EXCEPT !.at = at]
        PROVE  Progress'
    BY <1>1, <1>5, <2>1, <2>3, <2>4, MovedProgress DEF Drafts, Sends
  <2>5. QED
    BY <1>1, <1>2, <2>1, <2>2, <2>4
<1>12. CASE ApplyAscendSkipped
  <2>1. OnlyRun /\ run.at = "dropoff" /\ skipAscend /\ run' = [run EXCEPT !.at = "delivery"]
    BY <1>12 DEF ApplyAscendSkipped, Goto
  <2>2. run.item.event = "customer_reply" /\ row.sub \in Awaited
    BY <1>4, <2>1 DEF OnRow, Replies
  <2>3. QED
    BY <1>1, <1>5, <2>1, <2>2, MovedProgress DEF Drafts, Sends, InAscend
<1>13. QED
  BY <1>6, <1>7, <1>8, <1>9, <1>10, <1>11, <1>12 DEF Preparing

(* The reads that lead to a write.                                          *)
LEMMA RecordsProgress ==
  ASSUME TypeOK, Progress,
         RecordStarted \/ FinalizeIntake \/ FinalizeAwaiting \/ RecordCompleted \/ RecordRejected
  PROVE  Progress'
<1>1. OnlyRun => UNCHANGED <<queue, row, skipAscend, tms, mailed, recorded, confirmed>>
  BY Zenon DEF OnlyRun, outVars
<1>2. OnRow /\ Halfway
  BY DEF Progress
<1>3. CASE RecordStarted
  <2>1. /\ run.at = "start" /\ OnlyRun
        /\ \/ run'.at = "intake" /\ run'.item = run.item /\ run'.then = run.then
           \/ \E s \in AppointmentStarted(row) : Write(s, "intake")
    BY <1>3, RecordMeans DEF RecordStarted
  <2>2. run.item.event = "pickup_changed"
    BY <1>2, <2>1 DEF OnRow, Drafts
  <2>3. CASE run'.at = "intake" /\ run'.item = run.item /\ run'.then = run.then
    BY <1>1, <2>1, <2>2, <2>3, MovedProgress DEF Sends, Replies
  <2>4. ASSUME NEW s \in AppointmentStarted(row), Write(s, "intake")
        PROVE  Progress'
    <3>1. Sets(s, "appointment_scheduling_started")
      BY SequencesMean
    <3>2. QED
      BY <2>1, <2>2, <2>4, <3>1, WritesProgress
  <2>5. QED
    BY <2>1, <2>3, <2>4
<1>4. CASE FinalizeIntake
  <2>1. /\ run.at = "review" /\ OnlyRun
        /\ \/ run'.at = "idle" /\ run'.item = run.item /\ run'.then = run.then
           \/ \E s \in DraftReady(row) : Write(s, "idle")
    BY <1>4, RecordMeans DEF FinalizeIntake
  <2>2. run.item.event = "pickup_changed"
    BY <1>2, <2>1 DEF OnRow, Drafts
  <2>3. CASE run'.at = "idle" /\ run'.item = run.item /\ run'.then = run.then
    BY <1>1, <2>1, <2>3, MovedProgress DEF Drafts, Sends, Replies
  <2>4. ASSUME NEW s \in DraftReady(row), Write(s, "idle")
        PROVE  Progress'
    <3>1. Sets(s, "appointment_draft_created")
      BY SequencesMean
    <3>2. QED
      BY <2>1, <2>2, <2>4, <3>1, WritesProgress
  <2>5. QED
    BY <2>1, <2>3, <2>4
<1>5. CASE FinalizeAwaiting
  <2>1. /\ run.at = "await" /\ OnlyRun
        /\ \/ run'.at = "idle" /\ run'.item = run.item /\ run'.then = run.then
           \/ \E s \in AppointmentAwaiting(row) : Write(s, "idle")
    BY <1>5, RecordMeans DEF FinalizeAwaiting
  <2>2. run.item.event = "draft_send" /\ row.sub \in Drafted /\ Asked
    BY <1>2, <2>1 DEF OnRow, Sends, Halfway
  <2>3. CASE run'.at = "idle" /\ run'.item = run.item /\ run'.then = run.then
    BY <1>1, <2>1, <2>3, MovedProgress DEF Drafts, Sends, Replies
  <2>4. ASSUME NEW s \in AppointmentAwaiting(row), Write(s, "idle")
        PROVE  Progress'
    <3>1. Sets(s, "awaiting_customer_reply")
      BY SequencesMean
    <3>2. QED
      BY <2>1, <2>2, <2>4, <3>1, WritesProgress
  <2>5. QED
    BY <2>1, <2>3, <2>4
<1>6. CASE RecordCompleted
  <2>1. /\ run.at = "settle" /\ OnlyRun
        /\ \/ run'.at = "idle" /\ run'.item = run.item /\ run'.then = run.then
           \/ \E s \in Completing(row) : Write(s, "idle")
    BY <1>6, RecordMeans DEF RecordCompleted
  <2>2. run.item.event = "customer_reply" /\ row.sub \in Awaited /\ Agreed
    BY <1>2, <2>1 DEF OnRow, Replies, Halfway
  <2>3. CASE run'.at = "idle" /\ run'.item = run.item /\ run'.then = run.then
    BY <1>1, <2>1, <2>3, MovedProgress DEF Drafts, Sends, Replies
  <2>4. ASSUME NEW s \in Completing(row), Write(s, "idle")
        PROVE  Progress'
    <3>1. Sets(s, "appointment_scheduled")
      BY SequencesMean
    <3>2. QED
      BY <2>1, <2>2, <2>4, <3>1, WritesProgress
  <2>5. QED
    BY <2>1, <2>3, <2>4
<1>7. CASE RecordRejected
  <2>1. /\ run.at = "reject" /\ OnlyRun
        /\ \/ run'.at = "idle" /\ run'.item = run.item /\ run'.then = run.then
           \/ \E s \in Rejecting(row) : Write(s, "idle")
    BY <1>7, RecordMeans DEF RecordRejected
  <2>2. run.item.event = "customer_reply" /\ row.sub \in Awaited
    BY <1>2, <2>1 DEF OnRow, Replies
  <2>3. CASE run'.at = "idle" /\ run'.item = run.item /\ run'.then = run.then
    BY <1>1, <2>1, <2>3, MovedProgress DEF Drafts, Sends, Replies
  <2>4. ASSUME NEW s \in Rejecting(row), Write(s, "idle")
        PROVE  Progress'
    <3>1. Sets(s, "rejected")
      BY SequencesMean
    <3>2. QED
      BY <2>1, <2>2, <2>4, <3>1, WritesProgress
  <2>5. QED
    BY <2>1, <2>3, <2>4
<1>8. QED
  BY <1>3, <1>4, <1>5, <1>6, <1>7

(* A step that mails or writes to a vendor: the row of such a run tells of  *)
(* no agreement yet, so it is enough that a wait has asked.                 *)
LEMMA OutProgress ==
  ASSUME TypeOK, Progress, queue' = queue, skipAscend' = skipAscend, row'.sub = row.sub,
         run.at \in Sends \cup Replies, recorded' => mailed' # <<>>, mailed # <<>> => mailed' # <<>>,
         tms.turvo # NoTime => tms'.turvo # NoTime,
         \/ run' = Idle
         \/ /\ row' = row /\ run'.item = run.item /\ run'.then = run.then
            /\ run'.at \in Sends \/ run'.at \in Replies
            /\ run.at \in Sends <=> run'.at \in Sends
            /\ Halfway'
  PROVE  Progress'
<1>1. AwaitingMeansMailed'
  BY DEF Progress, AwaitingMeansMailed
<1>2. ScheduledMeansAgreed'
  BY DEF Progress, OnRow, Drafted, Awaited, ScheduledMeansAgreed
<1>3. CASE run' = Idle
  BY <1>1, <1>2, <1>3, EndProgress DEF Progress
<1>4. CASE run' # Idle
  <2>1. OnRow'
    BY <1>4 DEF Progress, OnRow, Placed, Drafts, Sends, Replies
  <2>2. Pen'
    BY <1>4 DEF Pen, Sends, Replies
  <2>3. QED
    BY <1>1, <1>2, <1>4, <2>1, <2>2 DEF Progress
<1>5. QED
  BY <1>3, <1>4

(* What a write to a vendor leaves.                                         *)
LEMMA VendorMeans ==
  ASSUME TypeOK, NEW at, NEW field, NEW value, NEW failure, NEW next,
         VendorWrite(at, field, value, failure, next)
  PROVE  /\ run.at = at /\ row'.sub = row.sub
         /\ queue' = queue /\ skipAscend' = skipAscend
         /\ mailed' = mailed /\ recorded' = recorded /\ confirmed' = confirmed
         /\ tms' = tms \/ tms' = [tms EXCEPT ![field] = value]
         /\ \/ run' = Idle
            \/ /\ row' = row /\ run'.at = next /\ run'.item = run.item /\ run'.then = run.then
               /\ tms' = [tms EXCEPT ![field] = value]
<1>1. /\ run.at = at /\ queue' = queue /\ skipAscend' = skipAscend
      /\ mailed' = mailed /\ recorded' = recorded /\ confirmed' = confirmed
  BY Zenon DEF VendorWrite, NotVendors
<1>2. tms' = tms \/ tms' = [tms EXCEPT ![field] = value]
  BY Zenon DEF VendorWrite, Put, PutFails
<1>3. \/ Fail
      \/ row' = row /\ run' = [run EXCEPT !.at = next] /\ tms' = [tms EXCEPT ![field] = value]
  BY Zenon DEF VendorWrite, Put, Goto
<1>4. CASE Fail
  BY <1>1, <1>2, <1>4, FailMeans
<1>5. CASE row' = row /\ run' = [run EXCEPT !.at = next] /\ tms' = [tms EXCEPT ![field] = value]
  BY <1>1, <1>2, <1>5 DEF TypeOK, Runs
<1>6. QED
  BY <1>3, <1>4, <1>5

(* The steps that mail and those that write to a vendor.                    *)
LEMMA VendorsProgress ==
  ASSUME TypeOK, Progress,
         WeekendPickup \/ SendDraft \/ SendFails \/ ApplyPlaceholder \/ ApplyAscend \/ ApplyTurvo
           \/ Confirm \/ ApplyTender
  PROVE  Progress'
<1>1. /\ OnRow /\ Halfway /\ (recorded => mailed # <<>>)
      /\ tms \in [ascend : Times, turvo : Times, pickup : Nat, tendered : BOOLEAN]
      /\ run.item.reply \in 0..MaxReplies /\ MaxReplies \in Nat
  BY BoundsAssumption DEF Progress, TypeOK, Runs, Items
<1>2. NotVendors => queue' = queue /\ skipAscend' = skipAscend
  BY Zenon DEF NotVendors
<1>3. mailed \in Seq(Nat) /\ run.draft \in Nat
  BY DEF TypeOK, Runs
<1>4. Append(mailed, run.draft) # <<>>
  BY <1>3, AppendProperties
<1>5. CASE WeekendPickup
  <2>1. /\ queue' = queue /\ skipAscend' = skipAscend /\ run.at = "weekend" /\ row' = row
        /\ mailed' = mailed /\ recorded' = recorded
    BY <1>2, <1>5, Zenon DEF WeekendPickup
  <2>2. tms'.turvo = tms.turvo /\ run'.at = "mail" /\ run'.item = run.item /\ run'.then = run.then
    BY <1>1, <1>5 DEF WeekendPickup, Goto, TypeOK, Runs
  <2>3. QED
    BY <1>1, <2>1, <2>2, OutProgress DEF Sends, Replies, Halfway
<1>6. CASE SendDraft
  <2>1. /\ queue' = queue /\ skipAscend' = skipAscend /\ run.at = "mail" /\ row' = row
        /\ tms' = tms
    BY <1>2, <1>6, Zenon DEF SendDraft
  <2>2. mailed' # <<>>
    BY <1>1, <1>4, <1>6 DEF SendDraft
  <2>3. run'.at = "placeholder" /\ run'.item = run.item /\ run'.then = run.then
    BY <1>6 DEF SendDraft, Goto, TypeOK, Runs
  <2>4. QED
    BY <2>1, <2>2, <2>3, OutProgress DEF Sends, Replies, Halfway
<1>7. CASE SendFails
  <2>1. /\ queue' = queue /\ skipAscend' = skipAscend /\ run.at = "mail"
        /\ tms' = tms /\ recorded' = recorded /\ Fail
        /\ mailed' = mailed \/ mailed' = Append(mailed, run.draft)
    BY <1>2, <1>7, Zenon DEF SendFails
  <2>2. row'.sub = row.sub /\ run' = Idle
    BY <2>1, FailMeans
  <2>3. QED
    BY <1>1, <1>4, <2>1, <2>2, OutProgress DEF Sends
<1>8. CASE ApplyPlaceholder
  <2>1. VendorWrite("placeholder", "turvo", Placeholder, "turvo", "await")
    BY <1>8, Zenon DEF ApplyPlaceholder
  <2>2. Placeholder # NoTime /\ mailed # <<>>
    BY <1>1, <2>1, VendorMeans DEF Placeholder, NoTime, Halfway
  <2>3. /\ tms.turvo # NoTime => tms'.turvo # NoTime
        /\ tms' = [tms EXCEPT !["turvo"] = Placeholder] => tms'.turvo # NoTime
    BY <1>1, <2>1, <2>2, VendorMeans
  <2>4. run' = Idle \/ Halfway'
    BY <2>1, <2>2, <2>3, VendorMeans DEF Halfway, Asked
  <2>5. QED
    BY <1>1, <2>1, <2>3, <2>4, VendorMeans, OutProgress DEF Sends, Replies
<1>9. CASE ApplyAscend
  <2>1. VendorWrite("dropoff", "ascend", run.item.reply, "ascend", "delivery")
    BY <1>9, Zenon DEF ApplyAscend
  <2>2. /\ tms'.turvo = tms.turvo
        /\ tms' = [tms EXCEPT !["ascend"] = run.item.reply] => tms'.ascend = run.item.reply
    BY <1>1, <2>1, VendorMeans
  <2>3. run' = Idle \/ Halfway'
    BY <2>1, <2>2, VendorMeans DEF Halfway, InAscend
  <2>4. QED
    BY <1>1, <2>1, <2>2, <2>3, VendorMeans, OutProgress DEF Sends, Replies
<1>10. CASE ApplyTurvo
  <2>1. VendorWrite("delivery", "turvo", run.item.reply, "turvo", "confirm")
    BY <1>10, Zenon DEF ApplyTurvo
  <2>2. InAscend /\ run.item.reply # NoTime
    BY <1>1, <2>1, VendorMeans DEF Halfway, OnRow, Replies, Placed, NoTime
  <2>3. /\ tms.turvo # NoTime => tms'.turvo # NoTime
        /\ tms'.ascend = tms.ascend
        /\ tms' = [tms EXCEPT !["turvo"] = run.item.reply] => tms'.turvo = run.item.reply
    BY <1>1, <2>1, <2>2, VendorMeans
  <2>4. run' = Idle \/ Halfway'
    BY <2>1, <2>2, <2>3, VendorMeans DEF Halfway, InAscend, InTurvo
  <2>5. QED
    BY <1>1, <2>1, <2>3, <2>4, VendorMeans, OutProgress DEF Sends, Replies
<1>11. CASE Confirm
  <2>1. /\ queue' = queue /\ skipAscend' = skipAscend /\ run.at = "confirm"
        /\ tms' = tms /\ mailed' = mailed /\ recorded' = recorded
    BY <1>2, <1>11, Zenon DEF Confirm
  <2>2. \/ Fail
        \/ /\ confirmed' = Append(confirmed, run.item.reply) /\ row' = row
           /\ run' = [run EXCEPT !.at = "tender"]
    BY <1>11, Zenon DEF Confirm, Goto
  <2>3. CASE Fail
    BY <1>1, <2>1, <2>3, FailMeans, OutProgress DEF Replies
  <2>4. CASE /\ confirmed' = Append(confirmed, run.item.reply) /\ row' = row
             /\ run' = [run EXCEPT !.at = "tender"]
    <3>1. run'.at = "tender" /\ run'.item = run.item /\ run'.then = run.then
      BY <2>4 DEF TypeOK, Runs
    <3>2. confirmed' # <<>> /\ Last(confirmed') = run.item.reply
      <4>1. confirmed \in Seq(Times) /\ run.item.reply \in Times
        BY <1>1, SMTT(20) DEF TypeOK, Times, NoTime, Placeholder
      <4>2. /\ Len(Append(confirmed, run.item.reply)) = Len(confirmed) + 1
            /\ Append(confirmed, run.item.reply)[Len(confirmed) + 1] = run.item.reply
            /\ Append(confirmed, run.item.reply) # <<>>
        BY <4>1, AppendProperties
      <4>3. QED
        BY <2>4, <4>2 DEF Last
    <3>3. Halfway'
      BY <1>1, <2>1, <3>1, <3>2 DEF Halfway, InTurvo, InAscend, Told
    <3>4. QED
      BY <1>1, <2>1, <2>4, <3>1, <3>3, OutProgress DEF Sends, Replies
  <2>5. QED
    BY <2>2, <2>3, <2>4
<1>12. CASE ApplyTender
  <2>1. VendorWrite("tender", "tendered", TRUE, "tender", "settle")
    BY <1>12, Zenon DEF ApplyTender
  <2>2. /\ run.at = "tender" /\ row'.sub = row.sub
        /\ queue' = queue /\ skipAscend' = skipAscend
        /\ mailed' = mailed /\ recorded' = recorded /\ confirmed' = confirmed
        /\ tms' = tms \/ tms' = [tms EXCEPT !["tendered"] = TRUE]
        /\ \/ run' = Idle
           \/ /\ row' = row /\ run'.at = "settle" /\ run'.item = run.item /\ run'.then = run.then
              /\ tms' = [tms EXCEPT !["tendered"] = TRUE]
    BY <2>1, VendorMeans
  <2>3. /\ tms'.turvo = tms.turvo /\ tms'.ascend = tms.ascend
        /\ tms' = [tms EXCEPT !["tendered"] = TRUE] => tms'.tendered
    BY <1>1, <2>2
  <2>4. Told
    BY <1>1, <2>2 DEF Halfway
  <2>5. CASE run' = Idle
    BY <1>1, <2>2, <2>3, <2>5, OutProgress DEF Replies
  <2>6. CASE /\ row' = row /\ run'.at = "settle" /\ run'.item = run.item /\ run'.then = run.then
             /\ tms' = [tms EXCEPT !["tendered"] = TRUE]
    <3>1. tms'.tendered
      BY <2>3, <2>6
    <3>2. confirmed' # <<>> /\ Last(confirmed)' = Last(confirmed)
      BY <2>2, <2>4 DEF Told
    <3>3. Agreed'
      BY <2>2, <2>3, <2>4, <2>6, <3>1, <3>2 DEF Told, InTurvo, InAscend, Agreed
    <3>4. Halfway'
      BY <2>6, <3>3 DEF Halfway
    <3>5. run.at \in Replies /\ run'.at \in Replies /\ run.at \notin Sends /\ run'.at \notin Sends
      BY <2>2, <2>6 DEF Replies, Sends
    <3>6. (recorded' => mailed' # <<>>) /\ (mailed # <<>> => mailed' # <<>>)
          /\ (tms.turvo # NoTime => tms'.turvo # NoTime)
      BY <1>1, <2>2, <2>3
    <3>7. QED
      BY <2>2, <2>6, <3>4, <3>5, <3>6, OutProgress
  <2>7. QED
    BY <2>2, <2>5, <2>6
<1>13. QED
  BY <1>5, <1>6, <1>7, <1>8, <1>9, <1>10, <1>11, <1>12

(* So what the row tells stays so whatever happens.                         *)
LEMMA StepProgress ==
  ASSUME TypeOK, Errand, Progress, [Next]_vars
  PROVE  Progress'
<1>1. CASE UNCHANGED vars
  <2>1. /\ UNCHANGED <<queue, row, skipAscend, tms, mailed, recorded, confirmed>>
        /\ run' = run
    BY <1>1, Zenon DEF vars
  <2>2. OnRow' /\ Halfway' /\ AwaitingMeansMailed' /\ ScheduledMeansAgreed'
        /\ (recorded' => mailed' # <<>>)
    BY <2>1
    DEF Progress, OnRow, Placed, Halfway, Asked, InAscend, InTurvo, Told, Agreed,
        AwaitingMeansMailed, ScheduledMeansAgreed
  <2>3. \A sub : Sets(run.todo, sub)' <=> Sets(run.todo, sub)
    BY <2>1, Zenon
  <2>4. Pen'
    BY <2>1, <2>3 DEF Progress, Pen, Asked, Agreed
  <2>5. QED
    BY <2>2, <2>4 DEF Progress
<1>2. QED
  BY <1>1, IngressProgress, TakeProgress, WriteProgress, PlainProgress, RecordsProgress,
     VendorsProgress, Zenon
  DEF Next, Drafting, Sending, Replying

LEMMA InitProgress == Init => Progress
<1>1. SUFFICES ASSUME Init
               PROVE  Progress
  OBVIOUS
<1>2. row = Inserted /\ run = Idle /\ queue = <<>> /\ recorded = FALSE
  BY <1>1 DEF Init
<1>3. QED
  BY <1>2
  DEF Inserted, Idle, Begun, Item, Progress, Pen, OnRow, Placed, Halfway, Drafts, Sends, Replies,
      AwaitingMeansMailed, ScheduledMeansAgreed

-----------------------------------------------------------------------------
(* Theorems.                                                                *)

(* At first nothing is claimed and nothing is sent.                         *)
LEMMA InitInv == Init => IInv
<1>1. SUFFICES ASSUME Init
               PROVE  IInv
  OBVIOUS
<1>2. /\ replies = <<>> /\ queue = <<>> /\ mailed = <<>> /\ claims = 0 /\ run = Idle
      /\ meta.draft = 0
  BY <1>1 DEF Init
<1>3. Known
  BY <1>2, BoundsAssumption DEF Known, Idle, Begun
<1>4. Errand /\ OneSend
  BY <1>2 DEF Errand, OneSend, Due, Idle, Begun, Item
<1>5. QED
  BY <1>1, <1>3, <1>4, InitTyped DEF IInv

(* The inductive invariant holds of every reachable state.                  *)
LEMMA Invariance == Spec => []IInv
<1>1. IInv /\ [Next]_vars => IInv'
  BY StepTyped, StepKnown, StepSend DEF IInv
<1>2. QED
  BY <1>1, InitInv, PTL DEF Spec

(* Its second invariant, which needs the first.                             *)
LEMMA Truthful == Spec => []Progress
<1>1. IInv /\ Progress /\ [Next]_vars => Progress'
  BY StepProgress DEF IInv
<1>2. QED
  BY <1>1, InitProgress, Invariance, PTL DEF Spec

(* Every state is well typed, whatever fails and however runs, webhooks,    *)
(* replies and the portal interleave.                                       *)
THEOREM TypeCorrect == Spec => []TypeOK
<1>1. IInv => TypeOK
  BY DEF IInv
<1>2. QED
  BY <1>1, Invariance, PTL

(* The customer gets at most one draft, for any number of pickup updates,   *)
(* claims that are published or lost, and runs that fail half way           *)
(* (claim_appointment_draft_send_queued).                                   *)
THEOREM OneDraft == Spec => []DraftMailedOnce
<1>1. IInv => DraftMailedOnce
  BY DEF IInv, OneSend, DraftMailedOnce
<1>2. QED
  BY <1>1, Invariance, PTL

(* What the row tells of the appointment is so: it waits for a customer who *)
(* has been asked, and appointment_scheduled is told of a delivery that     *)
(* stands in the TMS as last confirmed, however the runs before failed.     *)
THEOREM ProgressTold == Spec => []ProgressInv
<1>1. IInv /\ Progress => ProgressInv
  BY DEF IInv, Progress, ProgressInv
<1>2. QED
  BY <1>1, Invariance, Truthful, PTL

(* What one reply settled, no later reply and no send undoes                *)
(* (appointment_post_read_router).                                          *)
THEOREM SettledOnce == Spec => SettledStays
<1>1. ASSUME IInv, Progress, [Next]_vars
      PROVE  [(Settled /\ run.item.event # "pickup_changed" /\ run.at # "idle"
                 /\ outside' = outside) => UNCHANGED <<row, tms, confirmed>>]_vars
  <2>1. SUFFICES ASSUME Settled, run.item.event # "pickup_changed", run.at # "idle",
                        outside' = outside, Next
                 PROVE  UNCHANGED <<row, tms, confirmed>>
    BY <1>1, Zenon
  <2>2. TypeOK /\ OnRow /\ Pen
    BY <1>1 DEF IInv, Progress
  <2>3. run.at \notin Drafts \cup Sends \cup Replies \cup {"write"}
    <3>1. run.item.event \in {"draft_send", "customer_reply"}
      BY <2>1, <2>2 DEF TypeOK, Runs, Items, Events
    <3>2. row.sub \in {"appointment_scheduled", "rejected"}
      BY <2>1 DEF Settled
    <3>3. QED
      BY <3>1, <3>2, <2>2 DEF OnRow, Pen, Drafted, Awaited
  <2>4. run.at \notin {"idle", "write", "prepare", "start", "intake", "decide", "persist", "facts",
                      "review", "hydrate", "weekend", "mail", "placeholder", "await", "classify",
                      "dropoff", "delivery", "confirm", "tender", "settle", "reject"}
    BY <2>1, <2>3 DEF Drafts, Sends, Replies
  <2>5. OnlyRun => UNCHANGED <<row, tms, confirmed>>
    BY Zenon DEF OnlyRun, outVars
  <2>6. CASE Raise \/ Read
    BY <2>5, <2>6, Zenon DEF Raise, Read
  <2>7. CASE Ingress
    <3>1. ~Portal
      BY <2>1, <2>2 DEF Portal, TypeOK
    <3>2. QED
      BY <2>7, <3>1, Zenon
      DEF Ingress, CheckHook, EnqueueHook, Claim, Publish, ReplyArrives, ResolveReply,
          EnqueueReply, outVars
  <2>8. ~(Take \/ WriteRow \/ Preparing \/ Drafting)
    BY <2>4
    DEF Take, WriteRow, Preparing, RunStray, PrepareLinked, PrepareSkipped, PrepareCreated,
        Drafting, RecordStarted, Intake, Decide, Persist, PersistFacts, FinalizeIntake, Record
  <2>9. ~(Sending \/ Replying)
    BY <2>4
    DEF Sending, Hydrate, WeekendPickup, SendDraft, SendFails, ApplyPlaceholder, FinalizeAwaiting,
        VendorWrite, Record, Replying, Classify, ApplyAscend, ApplyAscendSkipped, ApplyTurvo,
        Confirm, ApplyTender, RecordCompleted, RecordRejected
  <2>10. QED
    BY <2>1, <2>6, <2>7, <2>8, <2>9, Zenon DEF Next
<1>2. QED
  BY <1>1, Invariance, Truthful, PTL DEF Spec, SettledStays
=============================================================================
