------------------------- MODULE PodLifecycleProofs -------------------------
(***************************************************************************)
(* Proofs about PodLifecycle for any plan of reminders, any bounds and     *)
(* whatever may fail: its types, that a carrier gets each reminder at most *)
(* once, that what the row tells of the POD is so, and that a reminder     *)
(* that is late leaves alone what has been received.                       *)
(***************************************************************************)
EXTENDS PodLifecycle, LifecycleRequestsProofs

\* What arrived is at least what is still to be enqueued.
Counted == hooks.passed <= hooks.received /\ packets.passed <= packets.received

\* A reminder has a step; where a run may go after a write; what the runs at
\* the nodes that ask, schedule and mail are about.
Stepped(item) == item.event = "reminder_due" => item.step \in ToSet(Steps)

Errand ==
  /\ Stepped(run.item)
  /\ \A i \in DOMAIN queue : Stepped(queue[i])
  /\ run.then \in {"idle", "revoke", "trim", "score", "push"}
  /\ run.at \in {"eligible", "mail"} => run.item.event = "reminder_due"
  /\ run.at \in {"gate", "schedule"} => run.item.event = "route_completed"
  /\ run.at = "assess" => run.item.event \in {"email_received", "manual_fresh"}
  /\ run.at = "exists" => run.item.event \in {"route_completed", "reminder_due"}

\* What is enqueued or running has a lifecycle.
Known == (pending # <<>> \/ queue # <<>> \/ run.at # "idle") => exists

\* A reminder that waits, and a run that has its mail before it.
Waiting(i) == queue[i].event = "reminder_due"
Due == run.item.event = "reminder_due" /\ run.at \in {"begin", "exists", "eligible", "mail"}

\* The steps that Celery holds, that wait, that a run is to send, and sent.
Held == {pending[i] : i \in DOMAIN pending}
Queued == {queue[i].step : i \in {n \in DOMAIN queue : Waiting(n)}}
Sending == IF Due THEN {run.item.step} ELSE {}
Sent == {mailed[i] : i \in DOMAIN mailed}

\* No run of the webhook has begun, or the one that has is still to schedule.
Scheduling == run.item.event = "route_completed" /\ run.at \in {"exists", "schedule"}
Unplanned == ~ran \/ Scheduling

\* Until then there is no reminder; the run that schedules is on record, and
\* it is the first: that of a webhook behind it does not get past the gate.
Planned ==
  /\ Unplanned => Held = {} /\ Queued = {} /\ Sending = {} /\ Sent = {}
  /\ Scheduling => ran
  /\ (run.at = "begin" /\ run.item.event = "route_completed") => ~ran

\* Then each step is in one place.
OnePlace ==
  /\ \A i, j \in DOMAIN pending : pending[i] = pending[j] => i = j
  /\ \A i, j \in DOMAIN queue :
       Waiting(i) /\ Waiting(j) /\ queue[i].step = queue[j].step => i = j
  /\ \A i, j \in DOMAIN mailed : mailed[i] = mailed[j] => i = j
  /\ \A step \in Sent : step \notin Held /\ step \notin Queued /\ step \notin Sending
  /\ \A step \in Sending : step \notin Held /\ step \notin Queued
  /\ \A step \in Queued : step \notin Held

Placed == Errand /\ Known /\ Planned /\ OnePlace

IInv == TypeOK /\ Counted /\ Placed

-----------------------------------------------------------------------------
(* Types.                                                                  *)

\* The rows of this lifecycle.
Rows == RowsOf(Subs)

\* The sequences of commands of this lifecycle.
Sequences == Seq(Commands(Subs))

(* What is sent by the push by hand is a sequence of commands.              *)
LEMMA PushTyped ==
  ASSUME NEW v \in Rows
  PROVE  PodTmsUpload(v) \subseteq Sequences
<1> DEFINE normalize == <<[StatusChange("processing", v.sub) EXCEPT
                             !.fromStatus = "pending_review", !.fromSub = v.sub]>>
           reviewed == v.status = "pending_review"
           resumed == IF reviewed THEN [v EXCEPT !.status = "processing"] ELSE v
           logged == {<<Action>>, <<Info>>}
           failed == <<Action, [StatusChange("failed", Unset) EXCEPT !.fromStatus = v.status]>>
<1>1. v.status \in Statuses /\ v.sub \in Subs /\ "uploaded_to_tms" \in Subs
  BY DEF Rows, RowsOf, Subs
<1>2. resumed.status \in Statuses /\ resumed.sub \in Subs
  BY <1>1 DEF Rows, RowsOf, Statuses
<1>3. UploadedStep(v) \in Sequences /\ UploadedStep(resumed) \in Sequences
  <2> HIDE DEF resumed
  <2>1. QED
    BY <1>1, <1>2, UploadedStepTyped DEF Sequences
<1>4. normalize \in Sequences
  <2>1. [StatusChange("processing", v.sub) EXCEPT
           !.fromStatus = "pending_review", !.fromSub = v.sub] \in Commands(Subs)
    BY <1>1 DEF StatusChange, Command, Commands, Transitions, Statuses, Unset
  <2>2. QED
    BY <2>1, CommandsTyped, Joined DEF Sequences
<1>5. logged \subseteq Sequences /\ Action \in Commands(Subs) /\ <<>> \in Sequences
  BY <1>1, CommandsTyped DEF Sequences
<1>6. failed \in Sequences
  <2>1. [StatusChange("failed", Unset) EXCEPT !.fromStatus = v.status] \in Commands(Subs)
    BY <1>1 DEF StatusChange, Command, Commands, Transitions, Statuses, Unset
  <2> HIDE DEF StatusChange
  <2>2. QED
    BY <1>5, <2>1 DEF Sequences
<1> DEFINE before == IF reviewed THEN normalize ELSE <<>>
<1>7. before \in Sequences
  BY <1>4, <1>5
<1>8. PodTmsUpload(v) = {step \o UploadedStep(v) : step \in logged}
                         \cup {before \o step \o UploadedStep(resumed) : step \in logged}
                         \cup {failed}
  BY Zenon DEF PodTmsUpload
<1> HIDE DEF before, resumed, failed, logged
<1>9. \A step \in logged : /\ step \o UploadedStep(v) \in Sequences
                          /\ before \o step \o UploadedStep(resumed) \in Sequences
  BY <1>3, <1>5, <1>7, ConcatProperties DEF Sequences
<1>10. QED
  BY <1>6, <1>8, <1>9

(* What a run sends of the row as it is, is a sequence of commands.         *)
LEMMA RequestsTyped ==
  ASSUME NEW v \in Rows
  PROVE  /\ PodStarted(Fresh) \subseteq Sequences
         /\ FoundSequences(v) \subseteq Sequences
         /\ \A step : ReminderSequences(v, step) \subseteq Sequences
         /\ <<Action>> \in Sequences
         /\ UploadSequences(v) \subseteq Sequences
         /\ ProcessedSequences(v) \subseteq Sequences
         /\ MultiStopSequences(v) \subseteq Sequences
         /\ PushedSequences(v) \subseteq Sequences
<1>1. v.status \in Statuses /\ v.sub \in Subs
  BY DEF Rows, RowsOf
<1>2. {"reminder_1_sent", "reminder_3_sent", "document_processed", "document_uploaded",
       "uploaded_to_tms"} \subseteq Subs
  BY DEF Subs
<1>3. /\ <<Action>> \in Sequences /\ <<Info>> \in Sequences
      /\ Action \in Commands(Subs)
  BY <1>1, CommandsTyped DEF Sequences
<1>4. PodStarted(Fresh) \subseteq Sequences
  <2>1. From(Fresh, StatusChange("processing", "pod_started")) \in Commands(Subs)
    BY DEF From, Fresh, StatusChange, Command, Commands, Transitions, Statuses, Subs, Unset
  <2>2. <<From(Fresh, StatusChange("processing", "pod_started"))>> \in Sequences
    BY <1>3, <2>1, Joined DEF Sequences
  <2>3. QED
    BY <2>2, Zenon DEF PodStarted, When
<1>5. FoundSequences(v) \subseteq Sequences
  <2> DEFINE w == [status |-> v.status, sub |-> v.sub]
  <2>1. w.status \in Statuses /\ w.sub \in Subs
    BY <1>1
  <2> HIDE DEF w
  <2>2. UploadedStep(w) \in Sequences
    BY <1>2, <2>1, UploadedStepTyped DEF Sequences
  <2>3. <<Info>> \o UploadedStep(w) \in Sequences
    BY <1>3, <2>2, ConcatProperties DEF Sequences
  <2>4. FoundSequences(v) = PodFoundInTms(w)
    BY Zenon DEF FoundSequences, w
  <2>5. QED
    BY <2>3, <2>4, Zenon DEF PodFoundInTms, When
<1>6. \A sub \in Subs : /\ <<Action, ReviewStep(v, sub)>> \in Sequences
                        /\ <<ReviewStep(v, sub)>> \in Sequences
  <2>1. TAKE sub \in Subs
  <2>2. ReviewStep(v, sub) \in Commands(Subs)
    BY CommandsTyped
  <2>3. QED
    BY <1>3, <2>2 DEF Sequences
<1>7. ASSUME NEW step
      PROVE  ReminderSequences(v, step) \subseteq Sequences
  <2>1. PodReminder(v) \subseteq Sequences
    <3>1. {<<Action, ReviewStep(v, sub)>> : sub \in {"reminder_1_sent", "reminder_3_sent"}}
             \subseteq Sequences
      BY <1>2, <1>6
    <3>2. QED
      BY <3>1, Zenon DEF PodReminder, When
  <2>2. QED
    BY <2>1, Zenon DEF ReminderSequences
<1>8. PodFailed(v) \subseteq Sequences
  <2> DEFINE c == [StatusChange("failed", Unset) EXCEPT
                     !.fromStatus = IF v.status = "none" THEN "processing" ELSE v.status]
  <2>1. c \in Commands(Subs)
    BY <1>1 DEF StatusChange, Command, Commands, Transitions, Statuses, Unset
  <2> HIDE DEF c
  <2>2. <<Action, c>> \in Sequences
    BY <1>3, <2>1 DEF Sequences
  <2>3. QED
    BY <2>2 DEF PodFailed, c
<1>9. UploadSequences(v) \subseteq Sequences
  <2> DEFINE c == [Command(IF v.status = "processing" THEN "sub_status_change"
                           ELSE "status_change", "processing", "document_uploaded")
                     EXCEPT !.fromSub = v.sub]
  <2>1. c \in Commands(Subs)
    BY <1>1, <1>2 DEF Command, Commands, Transitions, Statuses, Unset
  <2>2. <<c, Action>> \in Sequences
    <3> HIDE DEF c
    <3>1. QED
      BY <1>3, <2>1 DEF Sequences
  <2>3. PodUploaded(v) = {<<c, Action>>, <<Info>>} \cup PodFailed(v)
    BY Zenon DEF PodUploaded
  <2> HIDE DEF c
  <2>4. PodUploaded(v) \subseteq Sequences
    BY <1>3, <1>8, <2>2, <2>3
  <2>5. QED
    BY <2>4, Zenon DEF UploadSequences, When
<1>10. ProcessedSequences(v) \subseteq Sequences
  <2>1. <<ReviewStep(v, "document_processed")>> \in Sequences
    BY <1>2, <1>6
  <2>2. QED
    BY <1>8, <2>1, Zenon DEF ProcessedSequences, When
<1>11. MultiStopSequences(v) \subseteq Sequences
  <2>1. <<ReviewStep(v, "document_uploaded")>> \in Sequences
    BY <1>2, <1>6
  <2>2. QED
    BY <2>1, Zenon DEF MultiStopSequences, When
<1>12. PushedSequences(v) \subseteq Sequences
  BY PushTyped, Zenon DEF PushedSequences
<1>13. QED
  BY <1>3, <1>4, <1>5, <1>7, <1>9, <1>10, <1>11, <1>12

(* No run is a run, and so is one that is at another node or about to       *)
(* write.                                                                   *)
LEMMA RunTyped ==
  ASSUME TypeOK
  PROVE  /\ Idle \in Runs
         /\ \A at \in Nodes : [run EXCEPT !.at = at] \in Runs
         /\ \A s \in Sequences, next \in Nodes :
              [run EXCEPT !.at = "write", !.then = next, !.todo = s] \in Runs
         /\ \A item \in Items, at \in Nodes : Begun(item, at) \in Runs
<1>1. run \in Runs
  BY DEF TypeOK
<1>2. \A item \in Items, at \in Nodes : Begun(item, at) \in Runs
  BY DEF Begun, Runs, Nodes, Analyses
<1>3. Item("route_completed") \in Items /\ "idle" \in Nodes /\ "write" \in Nodes
  BY DEF Item, Items, Events, Nodes
<1>4. Idle \in Runs
  BY <1>2, <1>3 DEF Idle
<1>5. QED
  BY <1>1, <1>2, <1>3, <1>4 DEF Runs, Sequences

(* A row stays one under a failure, a resolution and what a run sends.      *)
LEMMA RowTyped ==
  ASSUME TypeOK
  PROVE  /\ row \in Rows
         /\ \A s \in Sequences : AfterSequence(row, s) \in Rows
         /\ \A category : FailureOf(category) \in Sequences
         /\ Resolve(row) \subseteq Sequences
         /\ run.todo \in Sequences
<1>1. row \in Rows /\ run.todo \in Sequences
  BY DEF TypeOK, Rows, RowsOf, Runs, Sequences
<1>2. "resolved_manually" \in Subs
  BY DEF Subs
<1>3. QED
  BY <1>1, <1>2, AfterSequenceTyped, AnywhereTyped, Zenon DEF Rows, Sequences

(* A failure on record leaves a row and no run.                             *)
LEMMA FailTyped ==
  ASSUME TypeOK, Fail
  PROVE  row' \in Rows /\ run' \in Runs
<1>1. PICK category \in {"business", "system"} : row' = AfterSequence(row, FailureOf(category))
  BY Zenon DEF Fail, Committed
<1>2. run' = Idle
  BY Zenon DEF Fail, End
<1>3. QED
  BY <1>1, <1>2, RowTyped, RunTyped, Zenon

(* A step of a run is well typed if what it changes is,                     *)
LEMMA TypedByParts ==
  ASSUME TypeOK, Beside, row' \in Rows, run' \in Runs, ran' \in BOOLEAN, stored' \in BOOLEAN,
         inTms' \in BOOLEAN, raised' \in BOOLEAN, pending' \in Seq(ToSet(Steps)),
         queue' \in Seq(Items), mailed' \in Seq(ToSet(Steps))
  PROVE  TypeOK'
<1>1. exists \in BOOLEAN
  BY Zenon DEF TypeOK
<1>2. {exists', ran', stored', inTms', raised'} \subseteq BOOLEAN
  BY <1>1, Zenon DEF Beside
<1>3. QED
  BY <1>2, Zenon DEF TypeOK, Beside, inVars, Rows, RowsOf

(* what it leaves alone being so,                                           *)
LEMMA Parts ==
  ASSUME TypeOK
  PROVE  /\ run \in Runs /\ row \in Rows
         /\ ran \in BOOLEAN /\ stored \in BOOLEAN /\ inTms \in BOOLEAN /\ raised \in BOOLEAN
         /\ pending \in Seq(ToSet(Steps)) /\ queue \in Seq(Items) /\ mailed \in Seq(ToSet(Steps))
BY Zenon DEF TypeOK, Rows, RowsOf

(* and one that changes the row and the run alone if those two are.         *)
LEMMA StillTyped ==
  ASSUME TypeOK, Still, row' \in Rows, run' \in Runs, raised' \in BOOLEAN
  PROVE  TypeOK'
BY Parts, TypedByParts, Zenon DEF Still, docVars

(* A step that changes the run alone.                                       *)
LEMMA TypedByRun ==
  ASSUME TypeOK, OnlyRun, run' \in Runs
  PROVE  TypeOK'
BY Parts, StillTyped, Zenon DEF OnlyRun

(* A read that leads to a sequence is well typed,                           *)
LEMMA RecordTyped ==
  ASSUME TypeOK, NEW at, NEW sequences \in SUBSET Sequences, NEW next \in Nodes,
         Record(at, sequences, next)
  PROVE  TypeOK'
<1>1. CASE sequences = {}
  BY <1>1, RunTyped, TypedByRun, Zenon DEF Record
<1>2. CASE sequences # {}
  <2>1. PICK s \in sequences : run' = [run EXCEPT !.at = "write", !.then = next, !.todo = s]
    BY <1>2, Zenon DEF Record, Write
  <2>2. s \in Sequences
    OBVIOUS
  <2>3. QED
    BY <2>1, <2>2, RunTyped, TypedByRun, Zenon DEF Record
<1>3. QED
  BY <1>1, <1>2

(* and a node under safe_node is, whether it fails or not.                  *)
LEMMA SafeNodeTyped ==
  ASSUME TypeOK, NEW at, NEW next \in Nodes, NEW failure, SafeNode(at, next, failure)
  PROVE  TypeOK'
<1>1. row' \in Rows /\ run' \in Runs
  BY FailTyped, Parts, RunTyped, Zenon DEF SafeNode, Goto
<1>2. QED
  BY <1>1, Parts, StillTyped, Zenon DEF SafeNode

(* A sequence without its i-th element.                                     *)
LEMMA RemoveAtProperties ==
  ASSUME NEW S, NEW s \in Seq(S), NEW i \in DOMAIN s
  PROVE  /\ RemoveAt(s, i) \in Seq(S)
         /\ Len(RemoveAt(s, i)) = Len(s) - 1
         /\ \A k \in DOMAIN RemoveAt(s, i) :
              RemoveAt(s, i)[k] = s[IF k < i THEN k ELSE k + 1]
<1> DEFINE front == SubSeq(s, 1, i - 1)
           back == SubSeq(s, i + 1, Len(s))
<1>1. Len(s) \in Nat /\ i \in 1..Len(s) /\ i \in Nat /\ \A k \in 1..Len(s) : s[k] \in S
  BY LenProperties, ElementOfSeq
<1>2. /\ front \in Seq(S) /\ Len(front) = i - 1
      /\ \A k \in 1..(i - 1) : front[k] = s[k]
  <2>1. \A k \in 1..(i - 1) : s[k] \in S
    BY <1>1
  <2>2. QED
    BY <1>1, <2>1, SubSeqProperties
<1>3. /\ back \in Seq(S) /\ Len(back) = Len(s) - i
      /\ \A k \in 1..(Len(s) - i) : back[k] = s[i + k]
  <2>1. \A k \in (i + 1)..Len(s) : s[k] \in S
    BY <1>1
  <2>2. i + 1 \in Int /\ Len(s) \in Int
    BY <1>1
  <2>3. /\ back \in Seq(S) /\ Len(back) = IF i + 1 <= Len(s) THEN Len(s) - (i + 1) + 1 ELSE 0
        /\ \A k \in 1..(Len(s) - (i + 1) + 1) : back[k] = s[(i + 1) + k - 1]
    BY <2>1, <2>2, SubSeqProperties
  <2> HIDE DEF back
  <2>4. QED
    BY <1>1, <2>3
<1>4. RemoveAt(s, i) = front \o back
  BY DEF RemoveAt
<1> HIDE DEF front, back
<1>5. /\ front \o back \in Seq(S)
      /\ Len(front \o back) = Len(front) + Len(back)
      /\ \A k \in 1..(Len(front) + Len(back)) :
           (front \o back)[k] = IF k <= Len(front) THEN front[k] ELSE back[k - Len(front)]
  BY <1>2, <1>3, ConcatProperties
<1> DEFINE r == front \o back
<1>6. r \in Seq(S) /\ Len(r) = Len(s) - 1 /\ DOMAIN r = 1..(Len(s) - 1)
  BY <1>1, <1>2, <1>3, <1>5, LenProperties, SMTT(20)
<1>7. ASSUME NEW k \in 1..(Len(s) - 1)
      PROVE  r[k] = s[IF k < i THEN k ELSE k + 1]
  <2>1. r[k] = IF k <= i - 1 THEN front[k] ELSE back[k - (i - 1)]
    <3>1. k \in 1..(Len(front) + Len(back)) /\ Len(front) = i - 1
      BY <1>1, <1>2, <1>3
    <3>2. r[k] = IF k <= Len(front) THEN front[k] ELSE back[k - Len(front)]
      BY <1>5, <3>1, Zenon
    <3>3. QED
      BY <3>1, <3>2, Zenon
  <2> HIDE DEF r
  <2>2. CASE k < i
    BY <1>1, <1>2, <2>1, <2>2
  <2>3. CASE ~(k < i)
    <3>1. k - (i - 1) \in 1..(Len(s) - i) /\ i + (k - (i - 1)) = k + 1 /\ ~(k <= i - 1)
      BY <1>1, <2>3
    <3>2. QED
      BY <1>3, <2>1, <2>3, <3>1
  <2>4. QED
    BY <2>2, <2>3
<1>8. QED
  BY <1>4, <1>6, <1>7

(* The webhook, the mail ingress, the portal, Celery and Turvo keep the     *)
(* types.                                                                   *)
LEMMA IngressTyped ==
  ASSUME TypeOK, Counted, Ingress
  PROVE  TypeOK' /\ Counted'
<1> DEFINE Hooks == [received : 0..MaxHooks, passed : 0..MaxHooks]
           Packets == [received : 0..MaxPackets, passed : 0..MaxPackets]
<1>1. /\ hooks \in Hooks /\ packets \in Packets /\ outside \in 0..MaxOutside
      /\ MaxHooks \in Nat /\ MaxPackets \in Nat /\ MaxOutside \in Nat
  BY BoundsAssumption DEF TypeOK
<1>2. exists \in BOOLEAN /\ {exists, ran, stored, inTms, raised} \subseteq BOOLEAN
  BY Zenon DEF TypeOK
<1>3. \A event \in Events : Append(queue, Item(event)) \in Seq(Items)
  <2>1. \A event \in Events : Item(event) \in Items
    BY DEF Item, Items
  <2>2. QED
    BY <2>1, Parts, AppendProperties
<1>4. CASE RouteCompleted
  <2>1. hooks' \in Hooks /\ hooks'.passed <= hooks'.received
    BY <1>1, <1>4 DEF RouteCompleted, Counted
  <2>2. QED
    BY <1>4, <2>1, Zenon DEF RouteCompleted, TypeOK, Counted, docVars
<1>5. CASE EnqueueRoute
  <2>1. hooks' \in Hooks /\ hooks'.passed <= hooks'.received
    BY <1>1, <1>5 DEF EnqueueRoute, Counted
  <2>2. queue' \in Seq(Items)
    BY <1>3, <1>5 DEF EnqueueRoute, Events
  <2>3. {exists', ran', stored', inTms', raised'} \subseteq BOOLEAN
    BY <1>2, <1>5, Zenon DEF EnqueueRoute, docVars
  <2>4. QED
    BY <1>5, <2>1, <2>2, <2>3, Zenon DEF EnqueueRoute, TypeOK, Counted, docVars
<1>6. CASE PacketMailed
  <2>1. packets' \in Packets /\ packets'.passed <= packets'.received
    BY <1>1, <1>6 DEF PacketMailed, Counted
  <2>2. QED
    BY <1>6, <2>1, Zenon DEF PacketMailed, TypeOK, Counted, docVars
<1>7. CASE EnqueuePacket
  <2>1. packets' \in Packets /\ packets'.passed <= packets'.received
    BY <1>1, <1>7 DEF EnqueuePacket, Counted
  <2>2. queue' \in Seq(Items)
    BY <1>3, <1>7 DEF EnqueuePacket, Events
  <2>3. {exists', ran', stored', inTms', raised'} \subseteq BOOLEAN
    BY <1>2, <1>7, Zenon DEF EnqueuePacket, docVars
  <2>4. QED
    BY <1>7, <2>1, <2>2, <2>3, Zenon DEF EnqueuePacket, TypeOK, Counted, docVars
<1>8. ASSUME NEW event \in Manual, UploadByHand(event)
      PROVE  TypeOK' /\ Counted'
  <2>1. packets' \in Packets /\ packets'.passed <= packets'.received
    BY <1>1, <1>8 DEF UploadByHand, Counted
  <2>2. queue' \in Seq(Items)
    BY <1>3, <1>8 DEF UploadByHand, Events
  <2>3. QED
    BY <1>8, <2>1, <2>2, Zenon DEF UploadByHand, TypeOK, Counted, docVars
<1>9. ASSUME NEW i \in DOMAIN pending, ReminderFires(i)
      PROVE  TypeOK' /\ Counted'
  <2>1. pending' \in Seq(ToSet(Steps))
    BY <1>9, Parts, RemoveAtProperties DEF ReminderFires
  <2>2. pending[i] \in ToSet(Steps)
    BY Parts, ElementOfSeq, LenProperties
  <2>3. [event |-> "reminder_due", step |-> pending[i]] \in Items
    BY <2>2 DEF Items, Events
  <2>4. queue' \in Seq(Items)
    BY <1>9, <2>3, Parts, AppendProperties, Zenon DEF ReminderFires
  <2>5. QED
    BY <1>9, <2>1, <2>4, Zenon DEF ReminderFires, TypeOK, Counted, inVars, docVars
<1>10. CASE Portal
  <2>1. outside' \in 0..MaxOutside
    BY <1>1, <1>10 DEF Portal
  <2>2. row' \in Rows
    BY <1>10, RowTyped, Zenon DEF Portal
  <2>3. QED
    BY <1>10, <2>1, <2>2, Zenon DEF Portal, TypeOK, Counted, docVars, Rows, RowsOf
<1>11. CASE AttachInTurvo
  <2>1. outside' \in 0..MaxOutside
    BY <1>1, <1>11 DEF AttachInTurvo
  <2>2. {exists', ran', stored', inTms', raised'} \subseteq BOOLEAN
    BY <1>2, <1>11, Zenon DEF AttachInTurvo
  <2>3. QED
    BY <1>11, <2>1, <2>2, Zenon DEF AttachInTurvo, TypeOK, Counted
<1>12. QED
  BY <1>4, <1>5, <1>6, <1>7, <1>8, <1>9, <1>10, <1>11, Zenon DEF Ingress

\* The steps of a run.
RunStep == Take \/ WriteRow \/ Raise \/ Begin \/ Asking \/ Reminding \/ Reading \/ Finishing

(* The steps of a run keep the types.                                       *)
LEMMA RunStepTyped ==
  ASSUME TypeOK, Errand, RunStep
  PROVE  TypeOK'
<1>1. /\ run \in Runs /\ row \in Rows /\ queue \in Seq(Items) /\ pending \in Seq(ToSet(Steps))
      /\ mailed \in Seq(ToSet(Steps)) /\ run.item \in Items /\ run.then \in Nodes
  BY Parts DEF Runs
<1>2. \A at \in Nodes : [run EXCEPT !.at = at] \in Runs
  BY RunTyped
<1>3. CASE Take
  <2>1. Head(queue) \in Items /\ Tail(queue) \in Seq(Items)
    BY <1>1, <1>3, HeadTailProperties DEF Take
  <2>2. {"gate", "assess", "begin"} \subseteq Nodes
    BY DEF Nodes
  <2>3. PICK at \in {"gate", "assess", "begin"} : run' = Begun(Head(queue), at)
    BY <1>3 DEF Take
  <2>4. run' \in Runs /\ queue' \in Seq(Items)
    BY <1>3, <2>1, <2>2, <2>3, RunTyped, Zenon DEF Take
  <2>5. QED
    BY <1>3, <2>4, Parts, TypedByParts, Zenon DEF Take, docVars
<1>4. CASE WriteRow
  <2>1. row' \in Rows
    BY <1>4, RowTyped, Zenon DEF WriteRow, Committed
  <2>2. run' \in Runs
    BY <1>1, <1>2, <1>4, RunTyped, Zenon DEF WriteRow, End, Goto
  <2>3. QED
    BY <1>4, <2>1, <2>2, Parts, StillTyped, Zenon DEF WriteRow
<1>5. CASE Raise
  BY <1>5, Parts, RunTyped, StillTyped, Zenon DEF Raise, End
<1>6. CASE Gate \/ Assess \/ CheckExisting \/ CheckEligible
  <2>1. {"begin", "found", "eligible", "schedule", "mail"} \subseteq Nodes
    BY DEF Nodes
  <2>2. run' \in {Idle} \cup {[run EXCEPT !.at = at] :
                               at \in {"begin", "found", "eligible", "schedule", "mail"}}
    BY <1>6 DEF Gate, Assess, CheckExisting, CheckEligible, Goto, End, When
  <2>3. run' \in Runs
    BY <1>2, <2>1, <2>2, RunTyped
  <2>4. QED
    BY <1>6, <2>3, TypedByRun, Zenon DEF Gate, Assess, CheckExisting, CheckEligible
<1>7. CASE Begin
  <2>1. {"exists", "push", "merge"} \subseteq Nodes
    BY DEF Nodes
  <2>2. run' \in {Idle} \cup {[run EXCEPT !.at = at] : at \in {"exists", "push", "merge"}}
    BY <1>7 DEF Begin, Goto, End
  <2>3. run' \in Runs
    BY <1>2, <2>1, <2>2, RunTyped
  <2>4. ran' \in BOOLEAN
    BY <1>7, Zenon DEF Begin
  <2>5. QED
    BY <1>7, <2>3, <2>4, Parts, TypedByParts, Zenon DEF Begin, docVars
<1>8. CASE Schedule
  <2>1. "started" \in Nodes /\ Steps \in Seq(ToSet(Steps))
    <3>1. \A i \in DOMAIN Steps : Steps[i] \in ToSet(Steps)
      BY DEF ToSet
    <3>2. Len(Steps) \in Nat /\ DOMAIN Steps = 1..Len(Steps)
          /\ Steps = [i \in 1..Len(Steps) |-> Steps[i]]
      BY StepsAssumption, LenProperties
    <3>3. QED
      BY <3>1, <3>2, IsASeq DEF Nodes
  <2>2. pending \o Steps \in Seq(ToSet(Steps))
    BY <1>1, <2>1, ConcatProperties
  <2>3. pending' \in Seq(ToSet(Steps))
    BY <1>1, <1>8, <2>2, Zenon DEF Schedule
  <2>4. run' \in Runs
    BY <1>2, <1>8, <2>1, RunTyped, Zenon DEF Schedule, Goto, End
  <2>5. QED
    BY <1>8, <2>3, <2>4, Parts, TypedByParts, Zenon DEF Schedule, docVars
<1>9. CASE RecordStarted \/ RecordFound \/ RecordReminder \/ RecordExtraction \/ RecordUpload
             \/ RecordProcessed \/ RecordMultiStop \/ RecordPushed
  <2>1. /\ {"idle", "revoke", "trim", "score", "push"} \subseteq Nodes
        /\ AfterProcessing \in Nodes
    BY DEF Nodes, AfterProcessing
  <2>2. When(run.analysis = "kept" /\ ~Logged({"document_processed"}), {<<Action>>})
          \subseteq Sequences
    BY RequestsTyped, <1>1, Zenon DEF When
  <2>3. (IF [status |-> row.status, sub |-> row.sub] = Fresh THEN PodStarted(Fresh) ELSE {})
          \subseteq Sequences
    BY RequestsTyped, <1>1, Zenon
  <2>4. QED
    BY <1>1, <1>9, <2>1, <2>2, <2>3, RequestsTyped, RecordTyped
    DEF RecordStarted, RecordFound, RecordReminder, RecordExtraction, RecordUpload,
        RecordProcessed, RecordMultiStop, RecordPushed
<1>10. CASE RevokeReminders
  <2>1. <<>> \in Seq(ToSet(Steps))
    OBVIOUS
  <2>2. QED
    BY <1>10, <2>1, Parts, RunTyped, TypedByParts, Zenon DEF RevokeReminders, End, docVars
<1>11. CASE SendReminder
  <2>1. run.item.step \in ToSet(Steps) /\ "reminder" \in Nodes
    BY <1>11 DEF SendReminder, Errand, Stepped, Nodes
  <2>2. Append(mailed, run.item.step) \in Seq(ToSet(Steps))
    BY <1>1, <2>1, AppendProperties
  <2>3. mailed' \in Seq(ToSet(Steps))
    BY <1>1, <1>11, <2>2, Zenon DEF SendReminder
  <2>4. run' \in Runs
    BY <1>2, <1>11, <2>1, RunTyped, Zenon DEF SendReminder, Goto, End
  <2>5. QED
    BY <1>11, <2>3, <2>4, Parts, TypedByParts, Zenon DEF SendReminder, docVars
<1>12. CASE Merge \/ Score
  <2>1. (IF multi THEN "store" ELSE "analyse") \in Nodes /\ "processed" \in Nodes
    BY DEF Nodes
  <2>2. QED
    BY <1>12, <2>1, SafeNodeTyped DEF Merge, Score
<1>13. CASE Analyse
  <2>1. \A r \in Runs, analysis \in Analyses :
          [r EXCEPT !.at = "extracted", !.analysis = analysis] \in Runs
    BY DEF Runs, Nodes
  <2>2. {"kept"} \cup When(Can("persist"), {"lost"}) \subseteq Analyses /\ "extracted" \in Nodes
    BY DEF Analyses, When, Nodes
  <2>3. row' \in Rows /\ run' \in Runs
    <3>1. CASE \E analysis \in {"kept"} \cup When(Can("persist"), {"lost"}) :
                 run' = [run EXCEPT !.at = "extracted", !.analysis = analysis] /\ row' = row
      BY <1>1, <2>1, <2>2, <3>1
    <3>2. CASE (Goto("extracted") /\ row' = row) \/ Fail
      BY <1>1, <1>2, <2>2, <3>2, FailTyped, Zenon DEF Goto
    <3>3. QED
      BY <1>13, <3>1, <3>2, Zenon DEF Analyse
  <2>4. QED
    BY <1>13, <2>3, Parts, StillTyped, Zenon DEF Analyse
<1>14. CASE Trim
  <2>1. "store" \in Nodes
    BY DEF Nodes
  <2>2. row' \in Rows /\ run' \in Runs
    BY <1>1, <1>2, <1>14, <2>1, FailTyped, RunTyped, Zenon DEF Trim, Goto, End
  <2>3. QED
    BY <1>14, <2>2, Parts, StillTyped, Zenon DEF Trim
<1>15. CASE Store
  <2>1. (IF multi THEN "several" ELSE "uploaded") \in Nodes
    BY DEF Nodes
  <2>2. row' \in Rows /\ run' \in Runs
    BY <1>1, <1>2, <1>15, <2>1, FailTyped, Zenon DEF Store, Goto
  <2>3. stored' \in BOOLEAN
    BY <1>15, Parts, Zenon DEF Store, When
  <2>4. QED
    BY <1>15, <2>2, <2>3, Parts, TypedByParts, Zenon DEF Store
<1>16. CASE Push
  <2>1. "pushed" \in Nodes
    BY DEF Nodes
  <2>2. row' \in Rows /\ run' \in Runs
    BY <1>1, <1>2, <1>16, <2>1, FailTyped, Zenon DEF Push, Goto
  <2>3. inTms' \in BOOLEAN
    BY <1>16, Parts, Zenon DEF Push, When
  <2>4. QED
    BY <1>16, <2>2, <2>3, Parts, TypedByParts, Zenon DEF Push
<1>17. QED
  BY <1>3, <1>4, <1>5, <1>6, <1>7, <1>8, <1>9, <1>10, <1>11, <1>12, <1>13, <1>14, <1>15, <1>16,
     Zenon DEF RunStep, Asking, Reminding, Reading, Finishing

-----------------------------------------------------------------------------
(* One place for each step.                                                 *)

\* A step of a run that neither plans nor sends reminders, nor takes one.
Calm ==
  /\ run.at # "idle"
  /\ queue' = queue /\ mailed' = mailed /\ pending' \in {pending, <<>>} /\ ran' = ran
  /\ exists' = exists
  /\ run'.item.event = "reminder_due" => run'.item = run.item
  /\ run'.then \in {"idle", "revoke", "trim", "score", "push"}
  /\ run'.at \in {"eligible", "mail"} => run'.item.event = "reminder_due"
  /\ run'.at \in {"gate", "schedule"} => run'.item.event = "route_completed"
  /\ run'.at = "assess" => run'.item.event \in {"email_received", "manual_fresh"}
  /\ run'.at = "exists" => run'.item.event \in {"route_completed", "reminder_due"}
  /\ Due' => Due
  /\ Scheduling' => Scheduling
  /\ (run'.at = "begin" /\ run'.item.event = "route_completed") => ~ran

(* A run that ends is calm, whatever it leaves of the rest.                 *)
LEMMA EndCalm ==
  ASSUME run.at # "idle", run' = Idle, queue' = queue, mailed' = mailed,
         pending' \in {pending, <<>>}, ran' = ran, exists' = exists
  PROVE  Calm
BY DEF Calm, Due, Scheduling, Idle, Begun, Item

\* The nodes that neither ask, nor plan, nor send.
Plain == Nodes \ {"gate", "assess", "begin", "exists", "schedule", "eligible", "mail"}

(* So is one that goes on to a node that does not send.                     *)
LEMMA GotoCalm ==
  ASSUME TypeOK, Errand, run.at # "idle", queue' = queue, mailed' = mailed, pending' = pending,
         ran' = ran, exists' = exists, NEW at \in Plain, run' = [run EXCEPT !.at = at]
  PROVE  Calm
<1>1. run'.at = at /\ run'.item = run.item /\ run'.then = run.then
  BY DEF TypeOK, Runs
<1>2. QED
  BY <1>1 DEF Calm, Due, Scheduling, Errand, Plain

(* So is a read that leads to a sequence,                                   *)
LEMMA RecordCalm ==
  ASSUME TypeOK, Errand, NEW at \in Nodes \ {"idle"}, NEW sequences,
         NEW next \in {"idle", "revoke", "trim", "score", "push"},
         Record(at, sequences, next)
  PROVE  Calm
<1>1. /\ queue' = queue /\ mailed' = mailed /\ pending' = pending /\ ran' = ran
      /\ exists' = exists /\ run.at = at
  BY Zenon DEF Record, OnlyRun, Still, Beside
<1>2. CASE sequences = {}
  <2>1. run' = [run EXCEPT !.at = next]
    BY <1>2, Zenon DEF Record
  <2>2. next \in Plain
    BY DEF Nodes, Plain
  <2>3. QED
    BY <1>1, <2>1, <2>2, GotoCalm
<1>3. CASE sequences # {}
  <2>1. PICK s \in sequences : run' = [run EXCEPT !.at = "write", !.then = next, !.todo = s]
    BY <1>3, Zenon DEF Record, Write
  <2>2. run'.at = "write" /\ run'.then = next /\ run'.item = run.item
    BY <2>1 DEF TypeOK, Runs
  <2>3. QED
    BY <1>1, <2>2 DEF Calm, Due, Scheduling
<1>4. QED
  BY <1>2, <1>3

(* and so are all steps of a run but four.                                  *)
LEMMA RunCalm ==
  ASSUME TypeOK, Errand, Known, RunStep, ~Take, ~Begin, ~Schedule, ~SendReminder
  PROVE  Calm
<1>1. run \in Runs /\ {"found", "merge", "store", "analyse", "extracted", "processed", "several",
                       "uploaded", "pushed", "revoke", "trim", "score", "push"} \subseteq Plain
  BY DEF TypeOK, Nodes, Plain
<1>2. ASSUME Still
      PROVE  /\ queue' = queue /\ mailed' = mailed /\ pending' = pending /\ ran' = ran
             /\ exists' = exists /\ pending' \in {pending, <<>>}
  BY <1>2, Zenon DEF Still, Beside
<1>3. OnlyRun => Still
  BY Zenon DEF OnlyRun
<1>4. CASE Raise
  BY <1>2, <1>4, EndCalm DEF Raise, End
<1>5. CASE WriteRow
  <2>1. run.at # "idle" /\ Still
    BY <1>5 DEF WriteRow
  <2>2. run' = Idle \/ (run.then # "idle" /\ run' = [run EXCEPT !.at = run.then])
    BY <1>5, Zenon DEF WriteRow, End, Goto
  <2>3. run.then # "idle" => run.then \in Plain
    BY <1>1 DEF Errand
  <2>4. QED
    BY <1>2, <2>1, <2>2, <2>3, EndCalm, GotoCalm
<1>6. CASE Gate
  <2>1. run.at = "gate" /\ Still
    BY <1>3, <1>6, Zenon DEF Gate
  <2>2. run' = Idle \/ (RoutePasses /\ run' = [run EXCEPT !.at = "begin"])
    BY <1>6 DEF Gate, When
  <2>3. CASE RoutePasses /\ run' = [run EXCEPT !.at = "begin"]
    <3>1. run'.at = "begin" /\ run'.item = run.item /\ run'.then = run.then
      BY <1>1, <2>3 DEF Runs
    <3>2. ~ran /\ run.item.event = "route_completed"
      BY <2>1, <2>3 DEF RoutePasses, RanBefore, Known, Errand
    <3>3. QED
      BY <1>2, <2>1, <3>1, <3>2 DEF Calm, Due, Scheduling, Errand
  <2>4. QED
    BY <1>2, <2>1, <2>2, <2>3, EndCalm
<1>7. CASE Assess
  <2>1. run.at = "assess" /\ Still
    BY <1>3, <1>7, Zenon DEF Assess
  <2>2. run' = Idle \/ run' = [run EXCEPT !.at = "begin"]
    BY <1>7, Zenon DEF Assess, Goto, End
  <2>3. CASE run' = [run EXCEPT !.at = "begin"]
    <3>1. run'.at = "begin" /\ run'.item = run.item /\ run'.then = run.then
      BY <1>1, <2>3 DEF Runs
    <3>2. QED
      BY <1>2, <2>1, <3>1 DEF Calm, Due, Scheduling, Errand
  <2>4. QED
    BY <1>2, <2>1, <2>2, <2>3, EndCalm
<1>8. CASE CheckExisting
  <2>1. run.at = "exists" /\ Still
    BY <1>3, <1>8, Zenon DEF CheckExisting
  <2>2. \/ run' = Idle \/ run' = [run EXCEPT !.at = "found"]
        \/ run.item.event = "reminder_due" /\ run' = [run EXCEPT !.at = "eligible"]
        \/ run.item.event # "reminder_due" /\ run' = [run EXCEPT !.at = "schedule"]
    BY <1>8, Zenon DEF CheckExisting, Goto, End
  <2>3. CASE run.item.event = "reminder_due" /\ run' = [run EXCEPT !.at = "eligible"]
    <3>1. run'.at = "eligible" /\ run'.item = run.item /\ run'.then = run.then
      BY <1>1, <2>3 DEF Runs
    <3>2. QED
      BY <1>2, <2>1, <2>3, <3>1 DEF Calm, Due, Scheduling, Errand
  <2>4. CASE run.item.event # "reminder_due" /\ run' = [run EXCEPT !.at = "schedule"]
    <3>1. run'.at = "schedule" /\ run'.item = run.item /\ run'.then = run.then
      BY <1>1, <2>4 DEF Runs
    <3>2. run.item.event = "route_completed"
      BY <2>1, <2>4 DEF Errand
    <3>3. QED
      BY <1>2, <2>1, <2>4, <3>1, <3>2 DEF Calm, Due, Scheduling, Errand
  <2>5. QED
    BY <1>1, <1>2, <2>1, <2>2, <2>3, <2>4, EndCalm, GotoCalm
<1>9. CASE CheckEligible
  <2>1. run.at = "eligible" /\ Still
    BY <1>3, <1>9, Zenon DEF CheckEligible
  <2>2. run' = Idle \/ run' = [run EXCEPT !.at = "mail"]
    BY <1>9, Zenon DEF CheckEligible, Goto, End
  <2>3. CASE run' = [run EXCEPT !.at = "mail"]
    <3>1. run'.at = "mail" /\ run'.item = run.item /\ run'.then = run.then
      BY <1>1, <2>3 DEF Runs
    <3>2. QED
      BY <1>2, <2>1, <3>1 DEF Calm, Due, Scheduling, Errand
  <2>4. QED
    BY <1>2, <2>1, <2>2, <2>3, EndCalm
<1>10. CASE RecordStarted \/ RecordFound \/ RecordReminder \/ RecordExtraction \/ RecordUpload
              \/ RecordProcessed \/ RecordMultiStop \/ RecordPushed
  <2>1. AfterProcessing \in {"push", "idle"}
    BY DEF AfterProcessing
  <2>2. {"started", "found", "reminder", "extracted", "uploaded", "processed", "several",
         "pushed"} \subseteq Nodes \ {"idle"}
    BY DEF Nodes
  <2>3. QED
    BY <1>10, <2>1, <2>2, RecordCalm
    DEF RecordStarted, RecordFound, RecordReminder, RecordExtraction, RecordUpload,
        RecordProcessed, RecordMultiStop, RecordPushed
<1>11. CASE RevokeReminders
  <2>1. /\ queue' = queue /\ mailed' = mailed /\ pending' = <<>> /\ ran' = ran
        /\ exists' = exists /\ run' = Idle
    BY <1>11, Zenon DEF RevokeReminders, Beside, End
  <2>2. run.at # "idle"
    BY <1>11 DEF RevokeReminders
  <2>3. QED
    BY <2>1, <2>2, EndCalm
<1>12. CASE Merge \/ Score \/ Trim
  <2>1. run.at # "idle" /\ Still
    BY <1>12 DEF Merge, Score, Trim, SafeNode
  <2>2. run' = Idle \/ \E at \in {"store", "analyse", "processed"} : run' = [run EXCEPT !.at = at]
    BY <1>12 DEF Merge, Score, Trim, SafeNode, Goto, Fail, End
  <2>3. QED
    BY <1>1, <1>2, <2>1, <2>2, EndCalm, GotoCalm
<1>13. CASE Analyse
  <2>1. run.at = "analyse" /\ Still
    BY <1>13, Zenon DEF Analyse
  <2>2. run' = Idle \/ (run'.at = "extracted" /\ run'.item = run.item /\ run'.then = run.then)
    BY <1>1, <1>13 DEF Analyse, Goto, Fail, End, Runs
  <2>3. QED
    BY <1>2, <2>1, <2>2, EndCalm DEF Calm, Due, Scheduling, Errand
<1>14. CASE Store \/ Push
  <2>1. /\ queue' = queue /\ mailed' = mailed /\ pending' = pending /\ ran' = ran
        /\ exists' = exists /\ pending' \in {pending, <<>>}
    BY <1>14, Zenon DEF Store, Push, Beside
  <2>2. run.at # "idle"
    BY <1>14 DEF Store, Push
  <2>3. run' = Idle \/ \E at \in {"several", "uploaded", "pushed"} : run' = [run EXCEPT !.at = at]
    BY <1>14 DEF Store, Push, Goto, Fail, End
  <2>4. QED
    BY <1>1, <2>1, <2>2, <2>3, EndCalm, GotoCalm
<1>15. QED
  BY <1>4, <1>5, <1>6, <1>7, <1>8, <1>9, <1>10, <1>11, <1>12, <1>13, <1>14, Zenon
  DEF RunStep, Asking, Reminding, Reading, Finishing

(* A step that moves no reminder, and plans none, keeps them apart.         *)
LEMMA Unmoved ==
  ASSUME Planned, OnePlace, queue' = queue, mailed' = mailed, pending' \in {pending, <<>>},
         Sending' \subseteq Sending, Unplanned' => Unplanned, Scheduling' => ran',
         (run'.at = "begin" /\ run'.item.event = "route_completed") => ~ran'
  PROVE  Planned' /\ OnePlace'
<1>1. Held' \subseteq Held /\ \A i, j \in DOMAIN pending' : pending'[i] = pending'[j] => i = j
  BY DEF Held, OnePlace
<1>2. Queued' = Queued /\ Sent' = Sent
  BY DEF Queued, Sent, Waiting
<1>3. Planned'
  BY <1>1, <1>2 DEF Planned
<1>4. \A i, j \in DOMAIN queue' :
        Waiting(i)' /\ Waiting(j)' /\ queue'[i].step = queue'[j].step => i = j
  BY DEF OnePlace, Waiting
<1>5. \A i, j \in DOMAIN mailed' : mailed'[i] = mailed'[j] => i = j
  BY DEF OnePlace
<1>6. /\ \A step \in Sent' : step \notin Held' /\ step \notin Queued' /\ step \notin Sending'
      /\ \A step \in Sending' : step \notin Held' /\ step \notin Queued'
      /\ \A step \in Queued' : step \notin Held'
  BY <1>1, <1>2 DEF OnePlace
<1>7. QED
  BY <1>1, <1>3, <1>4, <1>5, <1>6 DEF OnePlace

(* A calm step is such a step,                                              *)
LEMMA CalmPlaced ==
  ASSUME Placed, Calm
  PROVE  Placed'
<1> USE DEF Placed
<1>1. Errand' /\ Known'
  BY DEF Calm, Errand, Known, Stepped
<1>2. Sending' \subseteq Sending
  BY DEF Calm, Sending, Due
<1>3. (Unplanned' => Unplanned) /\ (Scheduling' => ran')
  BY DEF Calm, Unplanned, Planned
<1>4. Planned' /\ OnePlace'
  BY <1>2, <1>3, Unmoved DEF Calm
<1>5. QED
  BY <1>1, <1>4

(* the beginning of a run is another,                                       *)
LEMMA BeginPlaced ==
  ASSUME TypeOK, Placed, Begin
  PROVE  Placed'
<1> USE DEF Placed
<1>1. /\ queue' = queue /\ mailed' = mailed /\ pending' = pending /\ exists' = exists
      /\ run.at = "begin"
      /\ run.item.event = "route_completed" => ran'
      /\ run.item.event # "route_completed" => (ran' <=> ran)
  BY Zenon DEF Begin, Beside
<1>2. \/ run' = Idle
      \/ /\ run' = [run EXCEPT !.at = "exists"]
         /\ run.item.event \in {"route_completed", "reminder_due"}
      \/ \E at \in {"push", "merge"} : run' = [run EXCEPT !.at = at]
  BY DEF Begin, Goto, End
<1>3. \/ run' = Idle
      \/ /\ run'.at \in {"exists", "push", "merge"} /\ run'.item = run.item /\ run'.then = run.then
         /\ run'.at = "exists" => run.item.event \in {"route_completed", "reminder_due"}
  BY <1>2 DEF TypeOK, Runs
<1>4. Errand' /\ Known'
  BY <1>1, <1>3 DEF Errand, Known, Stepped, Idle, Begun, Item
<1>5. Sending' \subseteq Sending
  BY <1>1, <1>3 DEF Sending, Due, Idle, Begun, Item
<1>6. Unplanned' => Unplanned
  BY <1>1, <1>3 DEF Unplanned, Scheduling, Planned, Idle, Begun, Item
<1>7. Scheduling' => ran'
  BY <1>1, <1>3 DEF Scheduling, Idle, Begun, Item
<1>8. run'.at # "begin"
  BY <1>3 DEF Idle, Begun
<1>9. QED
  BY <1>1, <1>4, <1>5, <1>6, <1>7, <1>8, Unmoved

(* the plan is made of nothing,                                             *)
LEMMA SchedulePlaced ==
  ASSUME TypeOK, Placed, Schedule
  PROVE  Placed'
<1> USE DEF Placed
<1>1. /\ queue' = queue /\ mailed' = mailed /\ exists' = exists /\ ran' = ran
      /\ run.at = "schedule" /\ run.item.event = "route_completed"
  <2>1. queue' = queue /\ mailed' = mailed /\ exists' = exists /\ ran' = ran /\ run.at = "schedule"
    BY Zenon DEF Schedule, Beside
  <2>2. QED
    BY <2>1 DEF Errand
<1>2. ran /\ Held = {} /\ Queued = {} /\ Sending = {} /\ Sent = {}
  BY <1>1 DEF Planned, Unplanned, Scheduling
<1>3. run' = Idle \/ run' = [run EXCEPT !.at = "started"]
  BY Zenon DEF Schedule, Goto, End
<1>4. run' = Idle \/ (run'.at = "started" /\ run'.item = run.item /\ run'.then = run.then)
  BY <1>3 DEF TypeOK, Runs
<1>5. Errand' /\ Known'
  BY <1>1, <1>4 DEF Errand, Known, Stepped, Idle, Begun, Item
<1>6. Sending' = {} /\ ~Unplanned' /\ ~Scheduling' /\ run'.at # "begin"
  BY <1>1, <1>2, <1>4 DEF Sending, Due, Unplanned, Scheduling, Idle, Begun, Item
<1>7. CASE pending' = pending
  BY <1>1, <1>5, <1>6, <1>7, Unmoved
<1>8. CASE pending' # pending
  <2>1. pending' = pending \o Steps
    BY <1>8, Zenon DEF Schedule
  <2>2. pending = <<>>
    <3>1. pending \in Seq(ToSet(Steps)) /\ DOMAIN pending = {}
      BY <1>2, Parts DEF Held
    <3>2. QED
      BY <3>1, LenProperties, EmptySeq
  <2>3. pending' = Steps
    BY <2>1, <2>2, StepsAssumption, ConcatEmptySeq
  <2>4. \A i, j \in DOMAIN pending' : pending'[i] = pending'[j] => i = j
    BY <2>3, StepsAssumption DEF IsInjective
  <2>5. Queued' = {} /\ Sent' = {}
    BY <1>1, <1>2 DEF Queued, Sent, Waiting
  <2>6. \A i, j \in DOMAIN queue' :
          Waiting(i)' /\ Waiting(j)' /\ queue'[i].step = queue'[j].step => i = j
    BY <1>1 DEF OnePlace, Waiting
  <2>7. \A i, j \in DOMAIN mailed' : mailed'[i] = mailed'[j] => i = j
    BY <1>1 DEF OnePlace
  <2>8. OnePlace'
    BY <1>6, <2>4, <2>5, <2>6, <2>7 DEF OnePlace
  <2>9. QED
    BY <1>5, <1>6, <2>8 DEF Planned
<1>9. QED
  BY <1>7, <1>8

(* a task that is due moves its step to the queue,                          *)
LEMMA FiresPlaced ==
  ASSUME TypeOK, Placed, NEW i \in DOMAIN pending, ReminderFires(i)
  PROVE  Placed'
<1> USE DEF Placed
<1> DEFINE item == [event |-> "reminder_due", step |-> pending[i]]
<1>1. /\ pending' = RemoveAt(pending, i) /\ queue' = Append(queue, item)
      /\ mailed' = mailed /\ exists' = exists /\ ran' = ran /\ run' = run
  BY Zenon DEF ReminderFires
<1>2. /\ pending \in Seq(ToSet(Steps)) /\ queue \in Seq(Items)
      /\ pending # <<>> /\ pending[i] \in ToSet(Steps)
  BY Parts, ElementOfSeq, LenProperties
<1> HIDE DEF item
<1>3. item.event = "reminder_due" /\ item.step = pending[i]
  BY DEF item
<1>4. pending[i] \in Held /\ ~Unplanned
  BY DEF Held, Planned
<1>5. \A k \in DOMAIN pending' :
        /\ (IF k < i THEN k ELSE k + 1) \in DOMAIN pending \ {i}
        /\ pending'[k] = pending[IF k < i THEN k ELSE k + 1]
  <2>1. /\ pending' \in Seq(ToSet(Steps)) /\ Len(pending') = Len(pending) - 1
        /\ \A k \in DOMAIN pending' : pending'[k] = pending[IF k < i THEN k ELSE k + 1]
    BY <1>1, <1>2, RemoveAtProperties
  <2>2. DOMAIN pending' = 1..(Len(pending) - 1) /\ DOMAIN pending = 1..Len(pending)
        /\ Len(pending) \in Nat
    BY <1>2, <2>1, LenProperties
  <2>3. QED
    BY <2>1, <2>2
<1>6. \A j, k \in DOMAIN pending' :
        (IF j < i THEN j ELSE j + 1) = (IF k < i THEN k ELSE k + 1) => j = k
  <2>1. pending' \in Seq(ToSet(Steps)) /\ i \in Nat
    BY <1>1, <1>2, RemoveAtProperties, LenProperties
  <2>2. DOMAIN pending' \subseteq Nat
    BY <2>1, LenProperties
  <2>3. QED
    BY <2>1, <2>2
<1>7. \A j, k \in DOMAIN pending' : pending'[j] = pending'[k] => j = k
  BY <1>5, <1>6 DEF OnePlace
<1>8. Held' \subseteq Held \ {pending[i]}
  <2>1. ASSUME NEW k \in DOMAIN pending'
        PROVE  pending'[k] \in Held \ {pending[i]}
    <3>1. PICK n \in DOMAIN pending \ {i} : pending'[k] = pending[n]
      BY <1>5
    <3>2. pending[n] # pending[i]
      BY DEF OnePlace
    <3>3. QED
      BY <3>1, <3>2 DEF Held
  <2>2. QED
    BY <2>1 DEF Held
<1>9. /\ DOMAIN queue \subseteq DOMAIN queue' /\ Len(queue) + 1 \in DOMAIN queue'
      /\ \A n \in DOMAIN queue' : n \in DOMAIN queue \/ n = Len(queue) + 1
      /\ \A n \in DOMAIN queue : queue'[n] = queue[n]
      /\ queue'[Len(queue) + 1] = item
  BY <1>1, <1>2, AppendProperties, LenProperties
<1>10. Queued' = Queued \cup {pending[i]}
  BY <1>3, <1>9 DEF Queued, Waiting
<1>11. Sent' = Sent /\ Sending' = Sending /\ (Unplanned' <=> Unplanned)
  BY <1>1 DEF Sent, Sending, Due, Unplanned, Scheduling
<1>12. Errand' /\ Known'
  <2>1. \A n \in DOMAIN queue' : Stepped(queue'[n])
    BY <1>2, <1>3, <1>9 DEF Errand, Stepped
  <2>2. QED
    BY <1>1, <1>2, <2>1 DEF Errand, Known
<1>13. Planned'
  BY <1>1, <1>4, <1>11 DEF Planned, Scheduling
<1>14. \A j, k \in DOMAIN queue' :
         Waiting(j)' /\ Waiting(k)' /\ queue'[j].step = queue'[k].step => j = k
  <2>1. ASSUME NEW n \in DOMAIN queue, Waiting(n)
        PROVE  queue[n].step # pending[i]
    <3>1. queue[n].step \in Queued
      BY <2>1 DEF Queued
    <3>2. QED
      BY <1>4, <3>1 DEF OnePlace
  <2>2. QED
    BY <1>3, <1>9, <2>1 DEF OnePlace, Waiting
<1>15. /\ \A step \in Sent' : step \notin Held' /\ step \notin Queued' /\ step \notin Sending'
       /\ \A step \in Sending' : step \notin Held' /\ step \notin Queued'
       /\ \A step \in Queued' : step \notin Held'
  BY <1>4, <1>8, <1>10, <1>11 DEF OnePlace
<1>16. \A j, k \in DOMAIN mailed' : mailed'[j] = mailed'[k] => j = k
  BY <1>1 DEF OnePlace
<1>17. OnePlace'
  BY <1>7, <1>14, <1>15, <1>16 DEF OnePlace
<1>18. QED
  BY <1>12, <1>13, <1>17

(* a run that takes its item has the step,                                  *)
LEMMA TakePlaced ==
  ASSUME TypeOK, Placed, Take
  PROVE  Placed'
<1> USE DEF Placed
<1>1. queue \in Seq(Items) /\ queue # <<>> /\ run.at = "idle"
  BY DEF TypeOK, Take
<1>2. /\ 1 \in DOMAIN queue /\ Head(queue) = queue[1] /\ Head(queue) \in Items
      /\ \A i \in DOMAIN Tail(queue) :
           i + 1 \in DOMAIN queue /\ i + 1 # 1 /\ Tail(queue)[i] = queue[i + 1]
      /\ \A i, j \in DOMAIN Tail(queue) : i + 1 = j + 1 => i = j
  BY <1>1, HeadTailProperties, LenProperties, EmptySeq
<1>3. /\ queue' = Tail(queue) /\ mailed' = mailed /\ pending' = pending /\ ran' = ran
      /\ exists' = exists
  BY Zenon DEF Take, Beside
<1>4. /\ run'.item = queue[1] /\ run'.then = "idle"
      /\ run'.at = CASE queue[1].event = "route_completed" -> "gate"
                     [] queue[1].event \in {"email_received", "manual_fresh"} -> "assess"
                     [] OTHER -> "begin"
  BY <1>2 DEF Take, Begun
<1>5. \A i \in DOMAIN queue' :
        queue'[i] = queue[i + 1] /\ i + 1 \in DOMAIN queue /\ i + 1 # 1
  BY <1>2, <1>3
<1>6. Errand' /\ Known'
  BY <1>1, <1>2, <1>3, <1>4, <1>5 DEF Errand, Known
<1>7. Held' = Held /\ Sent' = Sent
  BY <1>3 DEF Held, Sent
<1>8. \A i \in DOMAIN queue' : Waiting(i)' => Waiting(i + 1)
  BY <1>5 DEF Waiting
<1>9. Sending' = IF Waiting(1) THEN {queue[1].step} ELSE {}
  BY <1>4 DEF Sending, Due, Waiting
<1>10. Queued' \subseteq Queued /\ Sending' \subseteq Queued
  BY <1>2, <1>5, <1>8, <1>9 DEF Queued
<1>11. Waiting(1) => queue[1].step \notin Queued'
  BY <1>2, <1>5, <1>8 DEF Queued, OnePlace
<1>12. (Unplanned' => Unplanned) /\ ~Scheduling'
  BY <1>3, <1>4 DEF Unplanned, Scheduling
<1>13. ~(run'.at = "begin" /\ run'.item.event = "route_completed")
  BY <1>4
<1>14. Planned'
  BY <1>7, <1>10, <1>12, <1>13 DEF Planned
<1>15. \A i, j \in DOMAIN queue' :
         Waiting(i)' /\ Waiting(j)' /\ queue'[i].step = queue'[j].step => i = j
  BY <1>2, <1>3, <1>5, <1>8 DEF OnePlace
<1>16. /\ \A step \in Sent' : step \notin Held' /\ step \notin Queued' /\ step \notin Sending'
       /\ \A step \in Sending' : step \notin Held' /\ step \notin Queued'
       /\ \A step \in Queued' : step \notin Held'
  BY <1>7, <1>9, <1>10, <1>11 DEF OnePlace
<1>17. OnePlace'
  BY <1>3, <1>15, <1>16 DEF OnePlace
<1>18. QED
  BY <1>6, <1>14, <1>17

(* and the mail takes it from the run.                                      *)
LEMMA MailPlaced ==
  ASSUME TypeOK, Placed, SendReminder
  PROVE  Placed'
<1> USE DEF Placed
<1>1. /\ queue' = queue /\ pending' = pending /\ ran' = ran /\ exists' = exists
      /\ run.at = "mail" /\ mailed' \in {mailed, Append(mailed, run.item.step)}
  BY Zenon DEF SendReminder, Beside
<1>2. run' = Idle \/ run' = [run EXCEPT !.at = "reminder"]
  BY Zenon DEF SendReminder, Goto, End
<1>3. run' = Idle \/ (run'.at = "reminder" /\ run'.item = run.item /\ run'.then = run.then)
  BY <1>2 DEF TypeOK, Runs
<1>4. Errand' /\ Known'
  BY <1>1, <1>3 DEF Errand, Known, Stepped, Idle, Begun, Item
<1>5. Sending = {run.item.step} /\ ~Unplanned
  BY <1>1 DEF Sending, Due, Errand, Planned
<1>6. Sending' = {} /\ ~Unplanned' /\ ~Scheduling' /\ run'.at # "begin"
  BY <1>1, <1>3, <1>5 DEF Sending, Due, Unplanned, Scheduling, Idle, Begun, Item
<1>7. CASE mailed' = mailed
  BY <1>1, <1>4, <1>6, <1>7, Unmoved
<1>8. CASE mailed' = Append(mailed, run.item.step)
  <2>1. mailed \in Seq(ToSet(Steps)) /\ run.item.step \in ToSet(Steps)
    BY <1>1 DEF TypeOK, Errand, Stepped
  <2>2. /\ \A n \in DOMAIN mailed' : n \in DOMAIN mailed \/ n = Len(mailed) + 1
        /\ \A n \in DOMAIN mailed : mailed'[n] = mailed[n]
        /\ mailed'[Len(mailed) + 1] = run.item.step
    BY <1>8, <2>1, AppendProperties, LenProperties
  <2>3. Sent' \subseteq Sent \cup Sending
    BY <1>5, <2>2 DEF Sent
  <2>4. \A n \in DOMAIN mailed : mailed[n] # run.item.step
    BY <1>5 DEF Sent, OnePlace
  <2>5. \A i, j \in DOMAIN mailed' : mailed'[i] = mailed'[j] => i = j
    BY <2>2, <2>4 DEF OnePlace
  <2>6. Held' = Held /\ Queued' = Queued
    BY <1>1 DEF Held, Queued, Waiting
  <2>7. \A i, j \in DOMAIN queue' :
          Waiting(i)' /\ Waiting(j)' /\ queue'[i].step = queue'[j].step => i = j
    BY <1>1 DEF OnePlace, Waiting
  <2>8. \A i, j \in DOMAIN pending' : pending'[i] = pending'[j] => i = j
    BY <1>1 DEF OnePlace
  <2>9. /\ \A step \in Sent' : step \notin Held' /\ step \notin Queued'
        /\ \A step \in Queued' : step \notin Held'
    BY <2>3, <2>6 DEF OnePlace
  <2>10. OnePlace'
    BY <1>6, <2>5, <2>7, <2>8, <2>9 DEF OnePlace
  <2>11. QED
    BY <1>4, <1>6, <2>10 DEF Planned
<1>9. QED
  BY <1>1, <1>7, <1>8

(* Whatever else arrives is no reminder.                                    *)
LEMMA EnqueuePlaced ==
  ASSUME TypeOK, Placed, NEW item, item.event # "reminder_due", queue' = Append(queue, item),
         UNCHANGED <<run, mailed, pending, ran>>, exists'
  PROVE  Placed'
<1> USE DEF Placed
<1>1. /\ DOMAIN queue \subseteq DOMAIN queue'
      /\ \A n \in DOMAIN queue : queue'[n] = queue[n]
      /\ \A n \in DOMAIN queue' : n \in DOMAIN queue \/ queue'[n] = item
  BY AppendProperties, LenProperties DEF TypeOK
<1>2. \A n \in DOMAIN queue' :
        /\ Waiting(n)' => n \in DOMAIN queue /\ Waiting(n)
        /\ Stepped(queue'[n])
  BY <1>1 DEF Waiting, Errand, Stepped
<1>3. Errand' /\ Known'
  BY <1>2 DEF Errand, Known
<1>4. Held' = Held /\ Sent' = Sent /\ Sending' = Sending /\ (Unplanned' <=> Unplanned)
  BY DEF Held, Sent, Sending, Due, Unplanned, Scheduling
<1>5. Queued' \subseteq Queued
  BY <1>1, <1>2 DEF Queued
<1>6. Planned'
  BY <1>4, <1>5 DEF Planned, Scheduling
<1>7. \A i, j \in DOMAIN queue' :
        Waiting(i)' /\ Waiting(j)' /\ queue'[i].step = queue'[j].step => i = j
  BY <1>1, <1>2 DEF OnePlace
<1>8. OnePlace'
  BY <1>4, <1>5, <1>7 DEF OnePlace
<1>9. QED
  BY <1>3, <1>6, <1>8

(* A step that touches neither runs nor reminders.                          *)
LEMMA BesidePlaced ==
  ASSUME Placed, UNCHANGED <<run, mailed, pending, ran, queue, exists>>
  PROVE  Placed'
<1>1. /\ run' = run /\ mailed' = mailed /\ pending' = pending /\ queue' = queue /\ ran' = ran
      /\ exists' = exists
  OBVIOUS
<1>2. Errand' /\ Known'
  BY <1>1 DEF Placed, Errand, Stepped, Known
<1>3. Sending' \subseteq Sending /\ (Unplanned' => Unplanned)
  BY <1>1 DEF Sending, Due, Unplanned, Scheduling
<1>4. (Scheduling' => ran') /\ ((run'.at = "begin" /\ run'.item.event = "route_completed") => ~ran')
  BY <1>1 DEF Placed, Planned, Scheduling
<1>5. QED
  BY <1>1, <1>2, <1>3, <1>4, Unmoved DEF Placed

(* So a step stays in one place whatever happens.                           *)
LEMMA StepPlaced ==
  ASSUME TypeOK, Placed, [Next]_vars
  PROVE  Placed'
<1>1. CASE UNCHANGED vars
  BY <1>1, BesidePlaced, Zenon DEF vars
<1>2. CASE RunStep
  <2>1. Errand /\ Known
    BY DEF Placed
  <2>2. CASE Take \/ Begin \/ Schedule \/ SendReminder
    BY <2>2, TakePlaced, BeginPlaced, SchedulePlaced, MailPlaced
  <2>3. CASE ~Take /\ ~Begin /\ ~Schedule /\ ~SendReminder
    BY <1>2, <2>1, <2>3, RunCalm, CalmPlaced
  <2>4. QED
    BY <2>2, <2>3
<1>3. CASE RouteCompleted \/ PacketMailed \/ Portal \/ AttachInTurvo
  BY <1>3, BesidePlaced, Zenon DEF RouteCompleted, PacketMailed, Portal, AttachInTurvo
<1>4. \A event \in Events \ {"reminder_due"} : Item(event).event # "reminder_due"
  BY DEF Item
<1>5. CASE EnqueueRoute \/ EnqueuePacket
  <2>1. UNCHANGED <<run, mailed, pending, ran>> /\ exists'
    BY <1>5, Zenon DEF EnqueueRoute, EnqueuePacket
  <2>2. \E event \in {"route_completed", "email_received"} : queue' = Append(queue, Item(event))
    BY <1>5, Zenon DEF EnqueueRoute, EnqueuePacket
  <2>3. QED
    BY <1>4, <2>1, <2>2, EnqueuePlaced DEF Events
<1>6. ASSUME NEW event \in Manual, UploadByHand(event)
      PROVE  Placed'
  <2>1. UNCHANGED <<run, mailed, pending, ran>> /\ exists' /\ queue' = Append(queue, Item(event))
    BY <1>6, Zenon DEF UploadByHand
  <2>2. Item(event).event # "reminder_due"
    BY <1>4 DEF Manual, Events
  <2>3. QED
    BY <2>1, <2>2, EnqueuePlaced
<1>7. QED
  BY <1>1, <1>2, <1>3, <1>5, <1>6, FiresPlaced, Zenon DEF Next, Ingress, RunStep

-----------------------------------------------------------------------------
(* What the row says of the POD.                                           *)

\* Statuses with which a POD is in somebody's hands.
Settled == {"pending_review", "completed", "failed"}

\* What a sequence does to any row it may meet.
Keeps(s) ==
  \A r \in Rows : AfterSequence(r, s).status = r.status /\ AfterSequence(r, s).sub = r.sub
Settles(s) == \A r \in Rows : AfterSequence(r, s).status \in Settled
Completes(s) ==
  \A r \in Rows : r.status = "completed" => AfterSequence(r, s).status = "completed"
Uploads(s) ==
  \A r \in Rows : /\ AfterSequence(r, s).status = "processing"
                  /\ AfterSequence(r, s).sub = "document_uploaded"
Starts(s) ==
  \A r \in Rows : /\ AfterSequence(r, s).status = "processing"
                  /\ AfterSequence(r, s).sub = "pod_started"

\* It may tell of an upload that the row does not tell of.
Reports(s) ==
  \E r \in Rows : r.sub # "uploaded_to_tms" /\ AfterSequence(r, s).sub = "uploaded_to_tms"

\* What a run is about to write.
Pen ==
  run.at = "write" =>
    /\ Reports(run.todo) => inTms
    /\ \/ Keeps(run.todo) \/ Settles(run.todo)
       \/ Completes(run.todo) /\ row.status = "completed"
       \/ Uploads(run.todo) /\ run.then = "score"
       \/ Starts(run.todo) /\ (stored => raised)

\* A run that has stored a POD and is still to say so.
Owing ==
  \/ run.at \in {"uploaded", "score", "processed", "several", "push", "pushed"}
  \/ run.at = "write" /\ (run.then = "score" \/ Settles(run.todo))

Told ==
  /\ run.at \in {"found", "pushed"} => inTms
  /\ DoneMeansInTms
  /\ row.sub \in Received => row.status \in Settled
  /\ stored /\ ~raised /\ row.status \notin Settled => Owing

\* A reminder that comes late.
Late ==
  /\ run.item.event = "reminder_due" =>
       /\ run.at \in {"begin", "exists", "found", "revoke", "eligible", "mail", "reminder",
                     "write", "idle"}
       /\ run.then \in {"idle", "revoke"}
  /\ run.at = "mail" => row.sub \notin Received
  /\ run.item.event = "reminder_due" /\ run.at = "write" /\ row.sub \in Received
       => AfterSequence(row, run.todo).sub \in PodDone

Kept == Pen /\ Told /\ Late

(* A note keeps the row as it is.                                           *)
LEMMA NotesKeep ==
  /\ Keeps(<<Action>>) /\ Keeps(<<Info>>)
  /\ Action \in Commands(Subs) /\ Info \in Commands(Subs)
  /\ IsSnapshot(Action.type) /\ IsSnapshot(Info.type)
<1>1. Action \in Commands(Subs) /\ Info \in Commands(Subs)
  BY CommandsTyped DEF Subs
<1>2. IsSnapshot(Action.type) /\ IsSnapshot(Info.type)
  BY DEF Action, Info, Command, IsSnapshot, Snapshots
<1>3. QED
  BY <1>1, <1>2, AfterSnapshot DEF Keeps, Rows

(* A transition that names its status leaves it, after a note or before.    *)
LEMMA MoveMeans ==
  ASSUME NEW c \in Commands(Subs), ~IsSnapshot(c.type), c.status # Unset,
         NEW a \in {Action, Info}, NEW r \in Rows, NEW s \in {<<c>>, <<a, c>>, <<c, a>>}
  PROVE  AfterSequence(r, s).status = c.status /\ AfterSequence(r, s).sub = OrElse(c.sub, r.sub)
<1>1. a \in Commands(Subs) /\ IsSnapshot(a.type) /\ r \in RowsOf(Subs)
  BY NotesKeep DEF Rows
<1>2. QED
  BY <1>1, AfterTransition, AfterLogged, AfterNoted

(* A failure asks for a review and leaves the sub-status; a resolution by   *)
(* hand does what it says.                                                  *)
LEMMA FailureMeans ==
  ASSUME NEW r \in Rows, NEW category
  PROVE  /\ AfterSequence(r, FailureOf(category)).status = "pending_review"
         /\ AfterSequence(r, FailureOf(category)).sub = r.sub
<1> DEFINE e == [Exception EXCEPT !.pause = IF category = "business" THEN Unset
                                            ELSE "system_error"]
           c == StatusChange("pending_review", Unset)
<1>1. e \in Commands(Subs) /\ IsSnapshot(e.type)
  BY DEF Exception, Command, Commands, Snapshots, PauseTypes, Unset, IsSnapshot
<1>2. /\ c \in Commands(Subs) /\ ~IsSnapshot(c.type)
      /\ c.status = "pending_review" /\ c.sub = Unset
  BY DEF StatusChange, Command, Commands, Transitions, Snapshots, Statuses, Unset, IsSnapshot
<1>3. FailureOf(category) = <<e, c>>
  BY Zenon DEF FailureOf
<1>4. r \in RowsOf(Subs) /\ c.status # Unset
  BY <1>2 DEF Rows, Unset
<1> HIDE DEF e, c
<1>5. /\ AfterSequence(r, <<e, c>>).status = c.status
      /\ AfterSequence(r, <<e, c>>).sub = OrElse(c.sub, r.sub)
  BY <1>1, <1>2, <1>4, AfterLogged
<1>6. QED
  BY <1>2, <1>3, <1>5 DEF OrElse

LEMMA ResolvedMeans ==
  ASSUME NEW r \in Rows, NEW v, NEW s \in Resolve(v)
  PROVE  AfterSequence(r, s).status = "completed" /\ AfterSequence(r, s).sub = "resolved_manually"
<1> DEFINE d == StatusChange("completed", "resolved_manually")
<1>1. /\ d \in Commands(Subs) /\ ~IsSnapshot(d.type)
      /\ d.status = "completed" /\ d.sub = "resolved_manually"
  BY DEF StatusChange, Command, Commands, Transitions, Snapshots, Statuses, Unset, IsSnapshot, Subs
<1>2. s = <<Action, d>>
  BY Zenon DEF Resolve
<1> HIDE DEF d
<1>3. /\ AfterSequence(r, <<Action, d>>).status = d.status
      /\ AfterSequence(r, <<Action, d>>).sub = OrElse(d.sub, r.sub)
  BY <1>1, MoveMeans DEF Unset
<1>4. QED
  BY <1>1, <1>2, <1>3 DEF OrElse, Unset

(* What asks for a review, and what gives up.                               *)
LEMMA ReviewMeans ==
  ASSUME NEW v, NEW sub \in Subs, NEW r \in Rows,
         NEW s \in {<<ReviewStep(v, sub)>>, <<Action, ReviewStep(v, sub)>>}
  PROVE  AfterSequence(r, s).status = "pending_review" /\ AfterSequence(r, s).sub = sub
<1> DEFINE c == ReviewStep(v, sub)
<1>1. /\ c \in Commands(Subs) /\ ~IsSnapshot(c.type)
      /\ c.status = "pending_review" /\ c.sub = sub
  BY CommandsTyped DEF ReviewStep, Command, IsSnapshot, Snapshots
<1> HIDE DEF c
<1>2. AfterSequence(r, s).status = c.status /\ AfterSequence(r, s).sub = OrElse(c.sub, r.sub)
  <2>1. s \in {<<c>>, <<Action, c>>, <<c, Action>>} /\ c.status # Unset
    BY <1>1 DEF c, Unset
  <2>2. QED
    BY <1>1, <2>1, MoveMeans
<1>3. QED
  BY <1>1, <1>2 DEF OrElse, Unset, Subs

LEMMA FailedMeans ==
  ASSUME NEW v \in Rows, NEW r \in Rows, NEW s \in PodFailed(v)
  PROVE  AfterSequence(r, s).status = "failed" /\ AfterSequence(r, s).sub = r.sub
<1> DEFINE c == [StatusChange("failed", Unset) EXCEPT
                   !.fromStatus = IF v.status = "none" THEN "processing" ELSE v.status]
<1>1. /\ c \in Commands(Subs) /\ ~IsSnapshot(c.type)
      /\ c.status = "failed" /\ c.sub = Unset
  BY DEF StatusChange, Command, Commands, Transitions, Snapshots, Statuses, Unset, IsSnapshot,
         Rows, RowsOf
<1>2. s = <<Action, c>>
  BY Zenon DEF PodFailed
<1> HIDE DEF c
<1>3. AfterSequence(r, s).status = c.status /\ AfterSequence(r, s).sub = OrElse(c.sub, r.sub)
  BY <1>1, <1>2, MoveMeans DEF Unset
<1>4. QED
  BY <1>1, <1>3 DEF OrElse

(* The webhook's start of the lifecycle.                                    *)
LEMMA StartedMeans ==
  ASSUME NEW s \in PodStarted(Fresh)
  PROVE  Starts(s) /\ ~Reports(s)
<1> DEFINE c == From(Fresh, StatusChange("processing", "pod_started"))
<1>1. /\ c \in Commands(Subs) /\ ~IsSnapshot(c.type)
      /\ c.status = "processing" /\ c.sub = "pod_started"
  BY DEF From, Fresh, StatusChange, Command, Commands, Transitions, Snapshots, Statuses, Subs,
         Unset, IsSnapshot
<1>2. s = <<c>>
  BY Zenon DEF PodStarted, When
<1> HIDE DEF c
<1>3. \A r \in Rows : AfterSequence(r, s).status = c.status
                     /\ AfterSequence(r, s).sub = OrElse(c.sub, r.sub)
  BY <1>1, <1>2, MoveMeans DEF Unset
<1>4. \A r \in Rows : AfterSequence(r, s).status = "processing"
                     /\ AfterSequence(r, s).sub = "pod_started"
  BY <1>1, <1>3 DEF OrElse, Unset
<1>5. QED
  BY <1>4 DEF Starts, Reports

(* What says that the POD is in Turvo completes the row, or finds it        *)
(* completed.                                                               *)
LEMMA UploadedMeans ==
  ASSUME NEW v, v.status \in Statuses, v.sub \in Subs, NEW a \in {Action, Info},
         NEW s, s = <<a>> \o UploadedStep(v)
  PROVE  /\ v.status # "completed" => Settles(s)
         /\ v.status = "completed" => Completes(s)
         /\ \A r \in Rows : AfterSequence(r, s).sub \in {r.sub, "uploaded_to_tms"}
<1> DEFINE c == From(v, StatusChange("completed", "uploaded_to_tms"))
           d == [SubChange(Unset, "uploaded_to_tms") EXCEPT !.fromSub = v.sub]
<1>1. /\ c \in Commands(Subs) /\ ~IsSnapshot(c.type)
      /\ c.status = "completed" /\ c.sub = "uploaded_to_tms"
  BY DEF From, StatusChange, Command, Commands, Transitions, Snapshots, Statuses, Subs, Unset,
         IsSnapshot
<1>2. /\ d \in Commands(Subs) /\ ~IsSnapshot(d.type)
      /\ d.status = Unset /\ d.sub = "uploaded_to_tms"
  BY DEF SubChange, Command, Commands, Transitions, Snapshots, Statuses, Subs, Unset, IsSnapshot
<1>3. a \in Commands(Subs) /\ IsSnapshot(a.type) /\ Keeps(<<a>>)
  BY NotesKeep
<1>4. UploadedStep(v) = IF v.status # "completed" THEN <<c>>
                        ELSE IF v.sub # "uploaded_to_tms" THEN <<d>> ELSE <<>>
  BY Zenon DEF UploadedStep
<1> HIDE DEF c, d
<1>5. CASE v.status # "completed"
  <2>1. s = <<a, c>>
    BY <1>1, <1>3, <1>4, <1>5, Spliced1
  <2>2. \A r \in Rows : AfterSequence(r, <<a, c>>).status = c.status
                       /\ AfterSequence(r, <<a, c>>).sub = OrElse(c.sub, r.sub)
    <3>1. c.status # Unset
      BY <1>1 DEF Unset
    <3>2. QED
      BY <1>1, <3>1, MoveMeans
  <2>3. \A r \in Rows : AfterSequence(r, s).status = "completed"
                       /\ AfterSequence(r, s).sub = "uploaded_to_tms"
    BY <1>1, <2>1, <2>2 DEF OrElse, Unset
  <2>4. QED
    BY <1>5, <2>3 DEF Settles, Settled
<1>6. CASE v.status = "completed" /\ v.sub # "uploaded_to_tms"
  <2>1. s = <<a, d>>
    BY <1>2, <1>3, <1>4, <1>6, Spliced1
  <2>2. ASSUME NEW r \in Rows
        PROVE  /\ r.status = "completed" => AfterSequence(r, s).status = "completed"
               /\ AfterSequence(r, s).sub = "uploaded_to_tms"
    <3>1. r \in RowsOf(Subs)
      BY DEF Rows
    <3>2. AfterSequence(r, <<a, d>>).sub = OrElse(d.sub, r.sub)
      BY <1>2, <1>3, <3>1, AfterLogged
    <3>3. r.status # "pending_review" => AfterSequence(r, <<a, d>>).status = r.status
      BY <1>2, <1>3, <3>1, AfterSubMove
    <3>4. QED
      BY <1>2, <2>1, <3>2, <3>3 DEF OrElse, Unset
  <2>3. QED
    BY <1>6, <2>2 DEF Completes
<1>7. CASE v.status = "completed" /\ v.sub = "uploaded_to_tms"
  <2>1. s = <<a>>
    <3>1. <<a>> \in Seq(Commands(Subs)) /\ UploadedStep(v) = <<>>
      BY <1>3, <1>4, <1>7, Joined1
    <3>2. QED
      BY <3>1, ConcatEmptySeq
  <2>2. QED
    BY <1>3, <1>7, <2>1 DEF Keeps, Completes
<1>8. QED
  BY <1>5, <1>6, <1>7

(* A POD found in Turvo.                                                    *)
LEMMA FoundMeans ==
  ASSUME NEW v \in Rows, NEW s \in FoundSequences(v)
  PROVE  /\ Settles(s) \/ (Completes(s) /\ v.status = "completed")
         /\ \A r \in Rows : AfterSequence(r, s).sub \in {r.sub, "uploaded_to_tms"}
<1> DEFINE w == [status |-> v.status, sub |-> v.sub]
<1>1. w.status \in Statuses /\ w.sub \in Subs /\ w.status = v.status
  BY DEF Rows, RowsOf
<1>2. s = <<Info>> \o UploadedStep(w)
  BY Zenon DEF FoundSequences, PodFoundInTms, When
<1> HIDE DEF w
<1>3. QED
  BY <1>1, <1>2, UploadedMeans

(* What a reminder, an upload, a processed packet and one of several stops  *)
(* leave: a row in somebody's hands, or a step that is still to come.       *)
LEMMA ReminderMeans ==
  ASSUME NEW v, NEW step, NEW s \in ReminderSequences(v, step)
  PROVE  Settles(s) /\ ~Reports(s) /\ v.sub \notin PodDone
<1>1. PICK sub \in {"reminder_1_sent", "reminder_3_sent"} : s = <<Action, ReviewStep(v, sub)>>
  BY Zenon DEF ReminderSequences, PodReminder, When
<1>2. v.sub \notin PodDone
  <2>1. ~DelayedSkip(v, PodDone)
    BY Zenon DEF ReminderSequences, PodReminder, When
  <2>2. QED
    BY <2>1, Zenon DEF DelayedSkip
<1>3. sub \in Subs /\ sub # "uploaded_to_tms"
  BY DEF Subs
<1>4. \A r \in Rows : AfterSequence(r, s).status = "pending_review" /\ AfterSequence(r, s).sub = sub
  BY <1>1, <1>3, ReviewMeans
<1>5. QED
  BY <1>2, <1>3, <1>4 DEF Settles, Settled, Reports

LEMMA UploadMeans ==
  ASSUME NEW v \in Rows, NEW s \in UploadSequences(v)
  PROVE  Uploads(s) /\ ~Reports(s)
<1> DEFINE c == [Command(IF v.status = "processing" THEN "sub_status_change"
                         ELSE "status_change", "processing", "document_uploaded")
                   EXCEPT !.fromSub = v.sub]
           d == [StatusChange("failed", Unset) EXCEPT
                   !.fromStatus = IF v.status = "none" THEN "processing" ELSE v.status]
<1>1. /\ c \in Commands(Subs) /\ ~IsSnapshot(c.type)
      /\ c.status = "processing" /\ c.sub = "document_uploaded"
  BY DEF Command, Commands, Transitions, Snapshots, Statuses, Subs, Unset, IsSnapshot, Rows, RowsOf
<1>2. s \in PodUploaded(v) /\ s[1].sub = "document_uploaded"
  BY Zenon DEF UploadSequences, When
<1>3. s \in {<<c, Action>>, <<Info>>, <<Action, d>>}
  BY <1>2, Zenon DEF PodUploaded, PodFailed
<1> HIDE DEF c, d
<1>4. s = <<c, Action>>
  BY <1>2, <1>3 DEF Action, Info, Command, Unset
<1>5. \A r \in Rows : AfterSequence(r, s).status = c.status
                     /\ AfterSequence(r, s).sub = OrElse(c.sub, r.sub)
  BY <1>1, <1>4, MoveMeans DEF Unset
<1>6. \A r \in Rows : AfterSequence(r, s).status = "processing"
                     /\ AfterSequence(r, s).sub = "document_uploaded"
  BY <1>1, <1>5 DEF OrElse, Unset
<1>7. QED
  BY <1>6 DEF Uploads, Reports

LEMMA ProcessedMeans ==
  ASSUME NEW v \in Rows, NEW s \in ProcessedSequences(v) \cup MultiStopSequences(v)
  PROVE  Settles(s) /\ ~Reports(s)
<1>1. {"document_processed", "document_uploaded"} \subseteq Subs
  BY DEF Subs
<1>2. CASE s \in {<<ReviewStep(v, "document_processed")>>, <<ReviewStep(v, "document_uploaded")>>}
  <2>1. PICK sub \in {"document_processed", "document_uploaded"} : s = <<ReviewStep(v, sub)>>
    BY <1>2
  <2>2. \A r \in Rows : /\ AfterSequence(r, s).status = "pending_review"
                        /\ AfterSequence(r, s).sub = sub
    <3>1. sub \in Subs
      BY <1>1
    <3>2. ASSUME NEW r \in Rows
          PROVE  /\ AfterSequence(r, <<ReviewStep(v, sub)>>).status = "pending_review"
                 /\ AfterSequence(r, <<ReviewStep(v, sub)>>).sub = sub
      BY <3>1, ReviewMeans
    <3>3. QED
      BY <2>1, <3>2
  <2>3. QED
    BY <2>2 DEF Settles, Settled, Reports
<1>3. CASE s \in PodFailed(v)
  <2>1. \A r \in Rows : AfterSequence(r, s).status = "failed" /\ AfterSequence(r, s).sub = r.sub
    BY <1>3, FailedMeans
  <2>2. QED
    BY <2>1 DEF Settles, Settled, Reports
<1>4. s \in {<<ReviewStep(v, "document_processed")>>, <<ReviewStep(v, "document_uploaded")>>}
            \cup PodFailed(v)
  BY Zenon DEF ProcessedSequences, MultiStopSequences, When
<1>5. QED
  BY <1>2, <1>3, <1>4

(* The upload by hand: it completes the row, or finds it completed, and it  *)
(* always has something to say of one that is in nobody's hands.            *)
LEMMA PushedMeans ==
  ASSUME NEW v \in Rows
  PROVE  /\ \A s \in PushedSequences(v) : Settles(s) \/ (Completes(s) /\ v.status = "completed")
         /\ v.status \notin Settled => PushedSequences(v) # {}
<1> DEFINE n == [StatusChange("processing", v.sub) EXCEPT
                   !.fromStatus = "pending_review", !.fromSub = v.sub]
           reviewed == v.status = "pending_review"
           resumed == IF reviewed THEN [v EXCEPT !.status = "processing"] ELSE v
           logged == {<<Action>>, <<Info>>}
           before == IF reviewed THEN <<n>> ELSE <<>>
           failed == <<Action, [StatusChange("failed", Unset) EXCEPT !.fromStatus = v.status]>>
<1>1. PodTmsUpload(v) = {step \o UploadedStep(v) : step \in logged}
                         \cup {before \o step \o UploadedStep(resumed) : step \in logged}
                         \cup {failed}
  BY Zenon DEF PodTmsUpload
<1>2. v.status \in Statuses /\ v.sub \in Subs
  BY DEF Rows, RowsOf
<1>3. /\ n \in Commands(Subs) /\ n # Action
  BY <1>2 DEF StatusChange, Command, Commands, Transitions, Statuses, Unset, Action
<1>4. failed[2].status = "failed" /\ 2 \in DOMAIN failed
  BY DEF StatusChange, Command
<1>5. reviewed => resumed.status = "processing" /\ resumed.sub = v.sub
  BY DEF Rows, RowsOf
<1>6. ~reviewed => resumed = v
  OBVIOUS
<1>7. /\ Action \in Commands(Subs) /\ Info \in Commands(Subs) /\ Info # Action
      /\ <<Action>> \in Sequences /\ <<Info>> \in Sequences
  <2>1. Action \in Commands(Subs) /\ Info \in Commands(Subs)
    BY NotesKeep
  <2>2. QED
    BY <2>1, Joined1 DEF Sequences, Action, Info, Command
<1>8. UploadedStep(v) \in Sequences /\ UploadedStep(resumed) \in Sequences
  <2>1. resumed.status \in Statuses /\ resumed.sub \in Subs
    BY <1>2, <1>5, <1>6 DEF Statuses
  <2> HIDE DEF resumed
  <2>2. QED
    BY <1>2, <2>1, UploadedStepTyped DEF Sequences, Subs
<1>9. ~reviewed => before = <<>>
  OBVIOUS
<1>10. reviewed => before = <<n>>
  OBVIOUS
<1> HIDE DEF n, resumed, before, failed
<1>11. \A a \in {Action, Info} : <<>> \o <<a>> = <<a>>
  BY <1>7, ConcatEmptySeq DEF Sequences
<1>12. CASE ~reviewed
  <2>1. PodTmsUpload(v) = {<<a>> \o UploadedStep(v) : a \in {Action, Info}} \cup {failed}
    BY <1>1, <1>6, <1>9, <1>11, <1>12
  <2>2. failed \notin PushedSequences(v)
    BY <1>4 DEF PushedSequences
  <2>3. \A s \in PushedSequences(v) : \E a \in {Action, Info} : s = <<a>> \o UploadedStep(v)
    BY <2>1, <2>2 DEF PushedSequences
  <2>4. \A s \in PushedSequences(v) : Settles(s) \/ (Completes(s) /\ v.status = "completed")
    BY <1>2, <2>3, UploadedMeans
  <2>5. ASSUME v.status \notin Settled
        PROVE  PushedSequences(v) # {}
    <3> DEFINE c == From(v, StatusChange("completed", "uploaded_to_tms"))
    <3>1. c \in Commands(Subs) /\ c.status = "completed"
      BY <1>2 DEF From, StatusChange, Command, Commands, Transitions, Statuses, Subs, Unset
    <3>2. UploadedStep(v) = <<c>>
      BY <2>5 DEF UploadedStep, Settled
    <3> HIDE DEF c
    <3>3. <<Action>> \o UploadedStep(v) = <<Action, c>>
      BY <1>7, <3>1, <3>2, Spliced1
    <3>4. <<Action, c>> \in PodTmsUpload(v)
      BY <2>1, <3>3
    <3>5. /\ Action \in ToSet(<<Action, c>>)
          /\ <<Action, c>>[1] = Action
          /\ \A i \in DOMAIN <<Action, c>> : <<Action, c>>[i].status # "failed"
      <4>1. Action.status # "failed"
        BY DEF Action, Command, Unset
      <4>2. QED
        BY <3>1, <4>1 DEF ToSet
    <3>6. <<Action, c>> \in PushedSequences(v)
      BY <1>12, <3>4, <3>5 DEF PushedSequences
    <3>7. QED
      BY <3>6
  <2>6. QED
    BY <2>4, <2>5
<1>13. CASE reviewed
  <2>1. ASSUME NEW s \in PushedSequences(v)
        PROVE  Settles(s)
    <3>1. s[1] # Action /\ s \in PodTmsUpload(v) /\ s # failed /\ Action \in ToSet(s)
      BY <1>4, <1>13 DEF PushedSequences
    <3> DEFINE c == From(resumed, StatusChange("completed", "uploaded_to_tms"))
    <3>2. UploadedStep(resumed) = <<c>> /\ c \in Commands(Subs) /\ ~IsSnapshot(c.type)
          /\ c.status = "completed" /\ c.sub # Unset
      BY <1>2, <1>5, <1>13
      DEF UploadedStep, From, StatusChange, Command, Commands, Transitions, Snapshots, Statuses,
          Subs, Unset, IsSnapshot
    <3> HIDE DEF c
    <3>3. CASE s = <<Action>> \o UploadedStep(v)
      <4>1. (<<Action>> \o UploadedStep(v))[1] = Action
        BY <1>7, <1>8, ConcatProperties DEF Sequences
      <4>2. QED
        BY <3>1, <3>3, <4>1
    <3>4. CASE s = <<Info>> \o UploadedStep(v)
      BY <1>2, <1>13, <3>4, UploadedMeans
    <3>5. ASSUME NEW a \in {Action, Info}, s = before \o <<a>> \o UploadedStep(resumed)
          PROVE  Settles(s)
      <4>1. <<n>> \o <<a>> = <<n, a>> /\ <<n, a>> \o <<c>> = <<n, a, c>>
        BY <1>3, <1>7, <3>2, Spliced1, Spliced2
      <4>2. s = <<n, a, c>>
        BY <1>10, <1>13, <3>2, <3>5, <4>1
      <4>3. \A r \in Rows : AfterSequence(r, <<n, a, c>>).status = c.status
        BY <1>3, <1>7, <3>2, AfterThree DEF Rows, Unset
      <4>4. QED
        BY <3>2, <4>2, <4>3 DEF Settles, Settled
    <3>6. QED
      BY <1>1, <3>1, <3>3, <3>4, <3>5
  <2>2. QED
    BY <1>13, <2>1 DEF Settled
<1>14. QED
  BY <1>12, <1>13

(* A step beside the runs keeps the row, or resolves it.                    *)
LEMMA BesideKept ==
  ASSUME Kept, UNCHANGED <<run, row, stored, raised>>, inTms => inTms'
  PROVE  Kept'
<1>1. run' = run /\ row' = row /\ stored' = stored /\ raised' = raised
  OBVIOUS
<1>2. Pen'
  <2>1. /\ Reports(run.todo)' <=> Reports(run.todo)
        /\ Keeps(run.todo)' <=> Keeps(run.todo)
        /\ Settles(run.todo)' <=> Settles(run.todo)
        /\ Completes(run.todo)' <=> Completes(run.todo)
        /\ Uploads(run.todo)' <=> Uploads(run.todo)
        /\ Starts(run.todo)' <=> Starts(run.todo)
    BY <1>1, Zenon
  <2>2. QED
    BY <1>1, <2>1 DEF Kept, Pen
<1>3. Told'
  <2>1. Owing => Owing'
    BY <1>1, Zenon DEF Owing
  <2>2. QED
    BY <1>1, <2>1 DEF Kept, Told, DoneMeansInTms
<1>4. Late'
  BY <1>1, Zenon DEF Kept, Late
<1>5. QED
  BY <1>2, <1>3, <1>4 DEF Kept

LEMMA PortalKept ==
  ASSUME TypeOK, Kept, Portal
  PROVE  Kept'
<1>1. /\ run' = run /\ stored' = stored /\ raised' = raised /\ inTms' = inTms
  BY Zenon DEF Portal, docVars
<1>2. row'.status = "completed" /\ row'.sub = "resolved_manually"
  <2>1. PICK s \in Resolve(row) : row' = AfterSequence(row, s)
    BY Zenon DEF Portal
  <2>2. row \in Rows
    BY Parts
  <2>3. QED
    BY <2>1, <2>2, ResolvedMeans
<1>3. Pen'
  BY <1>1, <1>2, Zenon DEF Kept, Pen
<1>4. Told'
  BY <1>1, <1>2 DEF Kept, Told, DoneMeansInTms, Received, Settled
<1>5. Late'
  BY <1>1, <1>2 DEF Kept, Late, Received
<1>6. QED
  BY <1>3, <1>4, <1>5 DEF Kept

(* Nothing is owed when there is no run,                                    *)
LEMMA EndKept ==
  ASSUME run' = Idle, DoneMeansInTms', row'.sub \in Received => row'.status \in Settled,
         stored' /\ ~raised' => row'.status \in Settled
  PROVE  Kept'
<1>1. run'.at = "idle" /\ run'.item.event = "route_completed"
  BY DEF Idle, Begun, Item
<1>2. QED
  BY <1>1 DEF Kept, Pen, Told, Late

(* least of all after a failure, which asks for a review.                   *)
LEMMA FailKept ==
  ASSUME TypeOK, Kept, Fail, inTms => inTms'
  PROVE  Kept'
<1>1. PICK category \in {"business", "system"} : row' = AfterSequence(row, FailureOf(category))
  BY Zenon DEF Fail, Committed
<1>2. row'.status = "pending_review" /\ row'.sub = row.sub
  <2>1. row \in Rows
    BY Parts
  <2>2. QED
    BY <1>1, <2>1, FailureMeans
<1>3. run' = Idle
  BY Zenon DEF Fail, End
<1>4. QED
  BY <1>2, <1>3, EndKept DEF Kept, Told, DoneMeansInTms, Settled

\* The nodes at which a run has stored a POD and is still to say so, and those
\* of the run of a reminder.
Storing == {"uploaded", "score", "processed", "several", "push", "pushed"}
Reminds == {"begin", "exists", "found", "revoke", "eligible", "mail", "reminder", "idle"}

(* A run that goes to another node.                                         *)
LEMMA GotoKept ==
  ASSUME TypeOK, Kept, NEW at \in Nodes \ {"write"}, run'.at = at, run'.item = run.item,
         run'.then = run.then,
         row' = row, raised' = raised, inTms => inTms',
         at \in {"found", "pushed"} => inTms', at = "mail" => row.sub \notin Received,
         run.item.event = "reminder_due" => at \in Reminds,
         stored' /\ ~raised /\ row.status \notin Settled => at \in Storing
  PROVE  Kept'
<1>1. Pen'
  BY DEF Pen
<1>2. Owing' <=> at \in Storing
  BY DEF Owing, Storing
<1>3. Told'
  BY <1>2 DEF Kept, Told, DoneMeansInTms
<1>4. Late'
  BY DEF Kept, Late, Reminds
<1>5. QED
  BY <1>1, <1>3, <1>4 DEF Kept

(* A run that has decided what to write.                                    *)
LEMMA WritesKept ==
  ASSUME TypeOK, Kept, NEW s \in Sequences, NEW next \in Nodes, Write(s, next), OnlyRun,
         Reports(s) => inTms,
         \/ Keeps(s) \/ Settles(s)
         \/ Completes(s) /\ row.status = "completed"
         \/ Uploads(s) /\ next = "score"
         \/ Starts(s) /\ (stored => raised),
         stored /\ ~raised /\ row.status \notin Settled => next = "score" \/ Settles(s),
         run.item.event = "reminder_due" =>
           /\ next \in {"idle", "revoke"}
           /\ row.sub \in Received => AfterSequence(row, s).sub \in PodDone
  PROVE  Kept'
<1>1. run'.at = "write" /\ run'.then = next /\ run'.todo = s /\ run'.item = run.item
  BY DEF TypeOK, Runs, Write
<1>2. row' = row /\ stored' = stored /\ raised' = raised /\ inTms' = inTms
  BY Zenon DEF OnlyRun, Still, docVars
<1>3. Pen'
  BY <1>1, <1>2, Zenon DEF Pen
<1>4. Told'
  <2>1. (next = "score" \/ Settles(s)) => Owing'
    BY <1>1, Zenon DEF Owing
  <2>2. run'.at \notin {"found", "pushed"}
    BY <1>1
  <2>3. QED
    BY <1>2, <2>1, <2>2 DEF Kept, Told, DoneMeansInTms
<1>5. Late'
  BY <1>1, <1>2 DEF Kept, Late
<1>6. QED
  BY <1>3, <1>4, <1>5 DEF Kept

(* A run that writes: what it tells of the POD is so, and it is settled     *)
(* unless the run goes on to score it.                                      *)
LEMMA WriteKept ==
  ASSUME TypeOK, Errand, Kept, WriteRow
  PROVE  Kept'
<1> DEFINE s == run.todo
<1>1. /\ run.at = "write" /\ row' = AfterSequence(row, s) /\ raised' = raised
      /\ stored' = stored /\ inTms' = inTms
  BY Zenon DEF WriteRow, Committed, Still, docVars
<1>2. row \in Rows /\ run.then \in Nodes
  BY Parts DEF Runs
<1>3. DoneMeansInTms'
  <2>1. row'.sub = "uploaded_to_tms" => row.sub = "uploaded_to_tms" \/ Reports(s)
    BY <1>1, <1>2 DEF Reports
  <2>2. QED
    BY <1>1, <2>1 DEF Kept, Pen, Told, DoneMeansInTms
<1>4. \/ row'.status = row.status /\ row'.sub = row.sub
      \/ row'.status \in Settled
      \/ row'.sub = "document_uploaded" /\ run.then = "score"
      \/ row'.sub = "pod_started" /\ (stored => raised)
  <2>1. Keeps(s) => row'.status = row.status /\ row'.sub = row.sub
    BY <1>1, <1>2 DEF Keeps
  <2>2. Settles(s) => row'.status \in Settled
    BY <1>1, <1>2 DEF Settles
  <2>3. Completes(s) /\ row.status = "completed" => row'.status \in Settled
    BY <1>1, <1>2 DEF Completes, Settled
  <2>4. Uploads(s) => row'.sub = "document_uploaded"
    BY <1>1, <1>2 DEF Uploads
  <2>5. Starts(s) => row'.sub = "pod_started"
    BY <1>1, <1>2 DEF Starts
  <2>6. QED
    BY <1>1, <2>1, <2>2, <2>3, <2>4, <2>5 DEF Kept, Pen
<1>5. row'.sub \in Received => row'.status \in Settled
  BY <1>4 DEF Kept, Told, Received
<1>6. stored' /\ ~raised' /\ row'.status \notin Settled => run.then = "score"
  <2>1. Settles(s) => row'.status \in Settled
    BY <1>1, <1>2 DEF Settles
  <2>2. row'.status = row.status /\ stored /\ ~raised /\ row'.status \notin Settled
          => run.then = "score"
    BY <1>1, <2>1 DEF Kept, Told, Owing
  <2>3. QED
    BY <1>1, <1>4, <2>2
<1>7. CASE run.then = "idle"
  <2>1. run' = Idle
    BY <1>7, Zenon DEF WriteRow, End
  <2>2. QED
    BY <1>3, <1>5, <1>6, <1>7, <2>1, EndKept
<1>8. CASE run.then # "idle"
  <2>1. run' = [run EXCEPT !.at = run.then]
    BY <1>8, Zenon DEF WriteRow, Goto
  <2>2. run'.at = run.then /\ run'.item = run.item /\ run'.then = run.then
    BY <2>1 DEF TypeOK, Runs
  <2>3. run.then \in {"revoke", "trim", "score", "push"}
    BY <1>8 DEF Errand
  <2>4. Pen'
    BY <2>2, <2>3 DEF Pen
  <2>5. Told'
    BY <1>1, <1>3, <1>5, <1>6, <2>2, <2>3 DEF Told, Owing
  <2>6. Late'
    BY <2>2, <2>3 DEF Kept, Late
  <2>7. QED
    BY <2>4, <2>5, <2>6 DEF Kept
<1>9. QED
  BY <1>7, <1>8

(* Where a run goes when it moves on.                                       *)
LEMMA GotoMeans ==
  ASSUME TypeOK, NEW at, run' = [run EXCEPT !.at = at]
  PROVE  run'.at = at /\ run'.item = run.item /\ run'.then = run.then
BY DEF TypeOK, Runs

(* A run that stores nothing may stop, or move on to a node of the same kind. *)
LEMMA MovesKept ==
  ASSUME TypeOK, Kept, run.at \notin Storing \cup {"write"},
         UNCHANGED <<row, stored, inTms, raised>>,
         NEW at \in Nodes \ {"write"}, run' \in {Idle, [run EXCEPT !.at = at]},
         at \in {"found", "pushed"} => inTms, at = "mail" => row.sub \notin Received,
         run.item.event = "reminder_due" => at \in Reminds
  PROVE  Kept'
<1>1. stored /\ ~raised => row.status \in Settled
  BY DEF Kept, Told, Owing, Storing
<1>2. row' = row /\ stored' = stored /\ raised' = raised /\ inTms' = inTms
  OBVIOUS
<1>3. CASE run' = Idle
  BY <1>1, <1>2, <1>3, EndKept DEF Kept, Told, DoneMeansInTms
<1>4. CASE run' = [run EXCEPT !.at = at]
  BY <1>1, <1>2, <1>4, GotoMeans, GotoKept
<1>5. QED
  BY <1>3, <1>4

(* The nodes that take, ask, schedule and mail.                             *)
LEMMA AskingKept ==
  ASSUME TypeOK, Kept,
         Take \/ Raise \/ Gate \/ Assess \/ Begin \/ CheckExisting \/ Schedule \/ RevokeReminders
           \/ CheckEligible \/ SendReminder
  PROVE  Kept'
<1>1. OnlyRun => row' = row /\ stored' = stored /\ raised' = raised /\ inTms' = inTms
  BY Zenon DEF OnlyRun, Still, docVars
<1>2. Still => stored' = stored /\ inTms' = inTms
  BY Zenon DEF Still, docVars
<1>3. CASE Take
  <2>1. /\ row' = row /\ stored' = stored /\ raised' = raised /\ inTms' = inTms
        /\ run.at = "idle"
    BY <1>3, Zenon DEF Take, docVars
  <2>2. PICK at \in {"gate", "assess", "begin"} :
          run' = Begun(Head(queue), at) /\ (Head(queue).event = "reminder_due" => at = "begin")
    BY <1>3 DEF Take
  <2>3. /\ run'.at = at /\ run'.item = Head(queue) /\ run'.then = "idle"
        /\ run'.item.event = "reminder_due" => run'.at = "begin"
    BY <2>2 DEF Begun
  <2>4. Pen' /\ Told' /\ Late'
    BY <2>1, <2>3 DEF Kept, Pen, Told, Late, Owing, DoneMeansInTms
  <2>5. QED
    BY <2>4 DEF Kept
<1>4. CASE Raise
  <2>1. row' = row /\ run' = Idle /\ raised' /\ inTms' = inTms
    BY <1>2, <1>4 DEF Raise, End
  <2>2. QED
    BY <2>1, EndKept DEF Kept, Told, DoneMeansInTms
<1>5. CASE Gate \/ Assess
  <2>1. run' \in {Idle, [run EXCEPT !.at = "begin"]} /\ run.at \in {"gate", "assess"}
    BY <1>5 DEF Gate, Assess, When, Goto, End
  <2>2. OnlyRun
    BY <1>5, Zenon DEF Gate, Assess
  <2>3. QED
    BY <1>1, <2>1, <2>2, MovesKept DEF Storing, Nodes, Kept, Late
<1>6. CASE Begin
  <2>1. row' = row /\ stored' = stored /\ raised' = raised /\ inTms' = inTms
    BY <1>6, Zenon DEF Begin, docVars
  <2>2. PICK at \in {"exists", "push", "merge"} :
          /\ run' \in {Idle, [run EXCEPT !.at = at]}
          /\ run.item.event = "reminder_due" => at = "exists"
    BY <1>6 DEF Begin, Goto, End
  <2>3. run.at = "begin"
    BY <1>6 DEF Begin
  <2>4. /\ at \in Nodes \ {"write"} /\ at \notin {"found", "pushed", "mail"}
        /\ run.item.event = "reminder_due" => at \in Reminds
        /\ run.at \notin Storing \cup {"write"}
    BY <2>2, <2>3 DEF Storing, Nodes, Reminds
  <2>5. QED
    BY <2>1, <2>2, <2>4, MovesKept
<1>7. CASE CheckExisting
  <2>1. OnlyRun /\ run.at = "exists"
    BY <1>7, Zenon DEF CheckExisting
  <2>2. PICK at \in {"found", "eligible", "schedule"} :
          /\ run' \in {Idle, [run EXCEPT !.at = at]}
          /\ at = "found" => inTms
          /\ run.item.event = "reminder_due" => at # "schedule"
    <3>1. PICK found \in PodSeen :
            IF run.item.event = "reminder_due" THEN Goto(IF found THEN "found" ELSE "eligible")
            ELSE IF found THEN End ELSE Goto("schedule")
      BY <1>7, Zenon DEF CheckExisting
    <3>2. found => inTms
      BY Zenon DEF PodSeen, When
    <3>3. CASE run.item.event = "reminder_due" /\ found
      BY <3>1, <3>2, <3>3 DEF Goto
    <3>4. CASE run.item.event = "reminder_due" /\ ~found
      BY <3>1, <3>4 DEF Goto
    <3>5. CASE run.item.event # "reminder_due"
      BY <3>1, <3>5 DEF Goto, End
    <3>6. QED
      BY <3>3, <3>4, <3>5
  <2>3. /\ at \in Nodes \ {"write"} /\ at \notin {"pushed", "mail"}
        /\ run.item.event = "reminder_due" => at \in Reminds
        /\ run.at \notin Storing \cup {"write"}
    BY <2>1, <2>2 DEF Storing, Nodes, Reminds
  <2>4. QED
    BY <1>1, <2>1, <2>2, <2>3, MovesKept
<1>8. CASE Schedule
  <2>1. row' = row /\ stored' = stored /\ raised' = raised /\ inTms' = inTms
    BY <1>8, Zenon DEF Schedule, docVars
  <2>2. run.at = "schedule" /\ run' \in {Idle, [run EXCEPT !.at = "started"]}
    BY <1>8 DEF Schedule, Goto, End
  <2>3. QED
    BY <2>1, <2>2, MovesKept DEF Storing, Nodes, Kept, Late
<1>9. CASE RevokeReminders
  <2>1. /\ row' = row /\ stored' = stored /\ raised' = raised /\ inTms' = inTms
        /\ run.at = "revoke" /\ run' = Idle
    BY <1>9, Zenon DEF RevokeReminders, docVars, End
  <2>2. QED
    BY <2>1, MovesKept DEF Storing, Nodes, Reminds
<1>10. CASE CheckEligible
  <2>1. OnlyRun /\ run.at = "eligible"
    BY <1>10, Zenon DEF CheckEligible
  <2>2. \/ run' = Idle
        \/ run' = [run EXCEPT !.at = "mail"] /\ row.sub \notin PodDone
    BY <1>10 DEF CheckEligible, Goto, End, DelayedSkip
  <2>3. CASE run' = Idle
    BY <1>1, <2>1, <2>3, MovesKept DEF Storing, Nodes, Reminds
  <2>4. CASE run' = [run EXCEPT !.at = "mail"] /\ row.sub \notin PodDone
    BY <1>1, <2>1, <2>4, MovesKept DEF Storing, Nodes, Reminds, PodDone, Received
  <2>5. QED
    BY <2>2, <2>3, <2>4
<1>11. CASE SendReminder
  <2>1. row' = row /\ stored' = stored /\ raised' = raised /\ inTms' = inTms /\ run.at = "mail"
    BY <1>11, Zenon DEF SendReminder, docVars
  <2>2. run' \in {Idle, [run EXCEPT !.at = "reminder"]}
    BY <1>11 DEF SendReminder, Goto, End
  <2>3. QED
    BY <2>1, <2>2, MovesKept DEF Storing, Nodes, Reminds
<1>12. QED
  BY <1>3, <1>4, <1>5, <1>6, <1>7, <1>8, <1>9, <1>10, <1>11

(* The nodes that read a packet, store it, score it and push it.            *)
LEMMA ReadingKept ==
  ASSUME TypeOK, Kept, Merge \/ Analyse \/ Trim \/ Store \/ Score \/ Push
  PROVE  Kept'
<1>1. Still => stored' = stored /\ inTms' = inTms
  BY Zenon DEF Still, docVars
<1>2. Fail /\ (inTms => inTms') => Kept'
  BY FailKept
<1>3. CASE Merge \/ Analyse \/ Trim
  <2>1. Still /\ raised' = raised
    BY <1>3, Zenon DEF Merge, SafeNode, Analyse, Trim
  <2>2. run.at \in {"merge", "analyse", "trim"}
    BY <1>3 DEF Merge, SafeNode, Analyse, Trim
  <2>3. \/ Fail
        \/ row' = row /\ run' = Idle
        \/ row' = row /\ \E at \in {"store", "analyse", "extracted"} :
             /\ run'.at = at /\ run'.item = run.item /\ run'.then = run.then
    <3>1. CASE Merge
      <4>1. Fail \/ (row' = row /\ \E at \in {"store", "analyse"} : Goto(at))
        BY <3>1, Zenon DEF Merge, SafeNode
      <4>2. QED
        BY <4>1, GotoMeans DEF Goto
    <3>2. CASE Analyse
      <4>1. \/ Fail
            \/ row' = row /\ \E analysis : run' = [run EXCEPT !.at = "extracted", !.analysis = analysis]
            \/ row' = row /\ Goto("extracted")
        BY <3>2, Zenon DEF Analyse
      <4>2. QED
        BY <4>1, GotoMeans DEF Goto, TypeOK, Runs
    <3>3. CASE Trim
      <4>1. Fail \/ (row' = row /\ (Goto("store") \/ run' = Idle))
        BY <3>3, Zenon DEF Trim, End
      <4>2. QED
        BY <4>1, GotoMeans DEF Goto
    <3>4. QED
      BY <1>3, <3>1, <3>2, <3>3
  <2>4. stored /\ ~raised => row.status \in Settled
    BY <2>2 DEF Kept, Told, Owing
  <2>5. CASE row' = row /\ run' = Idle
    BY <1>1, <2>1, <2>4, <2>5, EndKept DEF Kept, Told, DoneMeansInTms
  <2>6. ASSUME row' = row, NEW at \in {"store", "analyse", "extracted"},
               run'.at = at, run'.item = run.item, run'.then = run.then
        PROVE  Kept'
    BY <1>1, <2>1, <2>2, <2>4, <2>6, GotoKept DEF Nodes, Kept, Late
  <2>7. QED
    BY <1>1, <1>2, <2>1, <2>3, <2>5, <2>6
<1>4. CASE Store
  <2>1. inTms' = inTms /\ raised' = raised /\ run.at = "store"
    BY <1>4, Zenon DEF Store
  <2>2. Fail \/ (row' = row /\ \E at \in {"several", "uploaded"} : Goto(at))
    BY <1>4, Zenon DEF Store
  <2>3. ASSUME NEW at \in {"several", "uploaded"}, row' = row, Goto(at)
        PROVE  Kept'
    <3>1. run'.at = at /\ run'.item = run.item /\ run'.then = run.then
      BY <2>3, GotoMeans DEF Goto
    <3>2. QED
      BY <2>1, <2>3, <3>1, GotoKept DEF Nodes, Storing, Kept, Late
  <2>4. QED
    BY <1>2, <2>1, <2>2, <2>3
<1>5. CASE Score
  <2>1. Still /\ raised' = raised /\ run.at = "score"
    BY <1>5, Zenon DEF Score, SafeNode
  <2>2. Fail \/ (row' = row /\ Goto("processed"))
    BY <1>5, Zenon DEF Score, SafeNode
  <2>3. CASE row' = row /\ Goto("processed")
    <3>1. run'.at = "processed" /\ run'.item = run.item /\ run'.then = run.then
      BY <2>3, GotoMeans DEF Goto
    <3>2. QED
      BY <1>1, <2>1, <2>3, <3>1, GotoKept DEF Nodes, Storing, Kept, Late
  <2>4. QED
    BY <1>1, <1>2, <2>1, <2>2, <2>3
<1>6. CASE Push
  <2>1. stored' = stored /\ raised' = raised /\ run.at = "push"
    BY <1>6, Zenon DEF Push
  <2>2. \/ Fail /\ (inTms => inTms')
        \/ row' = row /\ Goto("pushed") /\ inTms'
    BY <1>6 DEF Push, When
  <2>3. CASE row' = row /\ Goto("pushed") /\ inTms'
    <3>1. run'.at = "pushed" /\ run'.item = run.item /\ run'.then = run.then
      BY <2>3, GotoMeans DEF Goto
    <3>2. QED
      BY <2>1, <2>3, <3>1, GotoKept DEF Nodes, Storing, Kept, Late
  <2>4. QED
    BY <1>2, <2>2, <2>3
<1>7. QED
  BY <1>3, <1>4, <1>5, <1>6

(* A read that leads to no sequence is a run that moves on.                 *)
LEMMA NoneKept ==
  ASSUME TypeOK, Kept, OnlyRun, NEW next \in Nodes \ {"write"}, run' = [run EXCEPT !.at = next],
         next \notin {"found", "pushed", "mail"}, run.item.event = "reminder_due" => next \in Reminds,
         stored /\ ~raised /\ row.status \notin Settled => next \in Storing
  PROVE  Kept'
<1>1. row' = row /\ stored' = stored /\ raised' = raised /\ inTms' = inTms
  BY Zenon DEF OnlyRun, Still, docVars
<1>2. run'.at = next /\ run'.item = run.item /\ run'.then = run.then
  BY GotoMeans
<1>3. QED
  BY <1>1, <1>2, GotoKept

(* The nodes that read the row and write to it.                             *)
LEMMA RecordsKept ==
  ASSUME TypeOK, Errand, Kept,
         RecordStarted \/ RecordFound \/ RecordReminder \/ RecordExtraction \/ RecordUpload
           \/ RecordProcessed \/ RecordMultiStop \/ RecordPushed
  PROVE  Kept'
<1>1. row \in Rows
  BY Parts
<1>2. \A at, sequences, next : Record(at, sequences, next) =>
        /\ run.at = at /\ OnlyRun
        /\ \/ sequences = {} /\ run' = [run EXCEPT !.at = next]
           \/ \E s \in sequences : Write(s, next)
  BY Zenon DEF Record
<1>3. run.at \notin Storing \cup {"write"} => (stored /\ ~raised => row.status \in Settled)
  BY DEF Kept, Told, Owing, Storing
<1>4. run.item.event = "reminder_due" => run.at \in Reminds \cup {"write"}
  BY DEF Kept, Late, Reminds
<1>5. row.sub \in Received => row.status \in Settled
  BY DEF Kept, Told
<1>6. {"idle", "revoke", "trim", "score", "push"} \subseteq Nodes \ {"write"}
  BY DEF Nodes
<1>7. CASE RecordStarted
  <2> DEFINE fresh == [status |-> row.status, sub |-> row.sub] = Fresh
             sequences == IF fresh THEN PodStarted(Fresh) ELSE {}
  <2>1. Record("started", sequences, "idle")
    BY <1>7, Zenon DEF RecordStarted
  <2>2. run.at = "started" /\ OnlyRun
    BY <1>2, <2>1
  <2>3. ASSUME NEW s \in sequences, Write(s, "idle")
        PROVE  Kept'
    <3>1. s \in PodStarted(Fresh) /\ row.status = "none"
      BY DEF Fresh
    <3>2. Starts(s) /\ ~Reports(s) /\ s \in Sequences
      BY <1>1, <3>1, StartedMeans, RequestsTyped
    <3>3. stored => raised
      BY <1>3, <2>2, <3>1 DEF Storing, Settled
    <3>4. run.item.event # "reminder_due"
      BY <1>4, <2>2 DEF Reminds
    <3>5. QED
      BY <1>6, <2>2, <2>3, <3>2, <3>3, <3>4, WritesKept
  <2>4. CASE run' = [run EXCEPT !.at = "idle"]
    BY <1>3, <1>6, <2>2, <2>4, NoneKept DEF Storing, Reminds
  <2>5. QED
    BY <1>2, <2>1, <2>3, <2>4
<1>8. CASE RecordFound
  <2>1. Record("found", FoundSequences(row), "revoke")
    BY <1>8, Zenon DEF RecordFound
  <2>2. run.at = "found" /\ OnlyRun /\ inTms
    BY <1>2, <2>1 DEF Kept, Told
  <2>3. stored /\ ~raised => row.status \in Settled
    BY <1>3, <2>2 DEF Storing
  <2>4. ASSUME NEW s \in FoundSequences(row), Write(s, "revoke")
        PROVE  Kept'
    <3>1. /\ Settles(s) \/ (Completes(s) /\ row.status = "completed")
          /\ AfterSequence(row, s).sub \in {row.sub, "uploaded_to_tms"}
          /\ s \in Sequences
      BY <1>1, FoundMeans, RequestsTyped
    <3>2. row.sub \in Received => AfterSequence(row, s).sub \in PodDone
      BY <3>1 DEF Received, PodDone
    <3>3. QED
      BY <1>6, <2>2, <2>3, <2>4, <3>1, <3>2, WritesKept
  <2>5. CASE run' = [run EXCEPT !.at = "revoke"]
    BY <1>6, <2>2, <2>3, <2>5, NoneKept DEF Reminds
  <2>6. QED
    BY <1>2, <2>1, <2>4, <2>5
<1>9. CASE RecordReminder
  <2>1. Record("reminder", ReminderSequences(row, run.item.step), "idle")
    BY <1>9, Zenon DEF RecordReminder
  <2>2. run.at = "reminder" /\ OnlyRun
    BY <1>2, <2>1
  <2>3. ASSUME NEW s \in ReminderSequences(row, run.item.step), Write(s, "idle")
        PROVE  Kept'
    <3>1. Settles(s) /\ ~Reports(s) /\ row.sub \notin Received
      BY ReminderMeans DEF Received, PodDone
    <3>2. s \in Sequences
      BY <1>1, RequestsTyped
    <3>3. QED
      BY <1>6, <2>2, <2>3, <3>1, <3>2, WritesKept
  <2>4. CASE run' = [run EXCEPT !.at = "idle"]
    BY <1>3, <1>6, <2>2, <2>4, NoneKept DEF Storing, Reminds
  <2>5. QED
    BY <1>2, <2>1, <2>3, <2>4
<1>10. CASE RecordExtraction
  <2> DEFINE sequences == When(run.analysis = "kept" /\ ~Logged({"document_processed"}),
                               {<<Action>>})
  <2>1. Record("extracted", sequences, "trim") /\ \A s \in sequences : s = <<Action>>
    BY <1>10, Zenon DEF RecordExtraction, When
  <2> HIDE DEF sequences
  <2>2. run.at = "extracted" /\ OnlyRun
    BY <1>2, <2>1
  <2>3. stored /\ ~raised => row.status \in Settled
    BY <1>3, <2>2 DEF Storing
  <2>4. run.item.event # "reminder_due"
    BY <1>4, <2>2 DEF Reminds
  <2>5. ASSUME Write(<<Action>>, "trim")
        PROVE  Kept'
    <3>1. Keeps(<<Action>>) /\ <<Action>> \in Sequences
      BY <1>1, NotesKeep, RequestsTyped
    <3>2. ~Reports(<<Action>>)
      BY <3>1 DEF Keeps, Reports
    <3>3. QED
      BY <1>6, <2>2, <2>3, <2>4, <2>5, <3>1, <3>2, WritesKept
  <2>6. CASE run' = [run EXCEPT !.at = "trim"]
    BY <1>6, <2>2, <2>3, <2>4, <2>6, NoneKept
  <2>7. QED
    BY <1>2, <2>1, <2>5, <2>6
<1>11. CASE RecordUpload
  <2>1. Record("uploaded", UploadSequences(row), "score")
    BY <1>11, Zenon DEF RecordUpload
  <2>2. run.at = "uploaded" /\ OnlyRun
    BY <1>2, <2>1
  <2>3. run.item.event # "reminder_due"
    BY <1>4, <2>2 DEF Reminds
  <2>4. ASSUME NEW s \in UploadSequences(row), Write(s, "score")
        PROVE  Kept'
    <3>1. Uploads(s) /\ ~Reports(s) /\ s \in Sequences
      BY <1>1, UploadMeans, RequestsTyped
    <3>2. QED
      BY <1>6, <2>2, <2>3, <2>4, <3>1, WritesKept
  <2>5. CASE run' = [run EXCEPT !.at = "score"]
    BY <1>6, <2>2, <2>3, <2>5, NoneKept DEF Storing
  <2>6. QED
    BY <1>2, <2>1, <2>4, <2>5
<1>12. CASE RecordProcessed \/ RecordMultiStop
  <2> DEFINE sequences == IF run.at = "processed" THEN ProcessedSequences(row)
                          ELSE MultiStopSequences(row)
  <2>1. \/ Record("processed", ProcessedSequences(row), AfterProcessing)
        \/ Record("several", MultiStopSequences(row), AfterProcessing)
    BY <1>12, Zenon DEF RecordProcessed, RecordMultiStop
  <2>2. /\ run.at \in {"processed", "several"} /\ OnlyRun
        /\ \/ /\ \/ run.at = "processed" /\ ProcessedSequences(row) = {}
                 \/ run.at = "several" /\ MultiStopSequences(row) = {}
              /\ run' = [run EXCEPT !.at = AfterProcessing]
           \/ \E s \in ProcessedSequences(row) \cup MultiStopSequences(row) :
                Write(s, AfterProcessing)
    BY <1>2, <2>1
  <2>3. run.item.event # "reminder_due" /\ AfterProcessing \in {"push", "idle"}
    BY <1>4, <2>2 DEF Reminds, AfterProcessing
  <2>4. ASSUME NEW s \in ProcessedSequences(row) \cup MultiStopSequences(row),
               Write(s, AfterProcessing)
        PROVE  Kept'
    <3>1. Settles(s) /\ ~Reports(s) /\ s \in Sequences
      BY <1>1, ProcessedMeans, RequestsTyped
    <3>2. QED
      BY <1>6, <2>2, <2>3, <2>4, <3>1, WritesKept
  <2>5. ASSUME run' = [run EXCEPT !.at = AfterProcessing],
               \/ run.at = "processed" /\ ProcessedSequences(row) = {}
               \/ run.at = "several" /\ MultiStopSequences(row) = {}
        PROVE  Kept'
    <3>1. AfterProcessing = "push" \/ row.sub \in Received
      <4>1. CASE run.item.event \in Manual
        BY <4>1 DEF AfterProcessing
      <4>2. CASE run.item.event \notin Manual /\ ProcessedSequences(row) = {}
        <5>1. PodFailed(row) # {} /\ {<<ReviewStep(row, "document_processed")>>} # {}
          BY DEF PodFailed
        <5>2. Logged({"document_processed"})
          BY <4>2, <5>1 DEF ProcessedSequences, When
        <5>3. QED
          BY <5>2 DEF Logged, Received
      <4>3. CASE run.item.event \notin Manual /\ MultiStopSequences(row) = {}
        <5>1. Logged(Received)
          BY <4>3 DEF MultiStopSequences, When
        <5>2. QED
          BY <5>1 DEF Logged
      <4>4. QED
        BY <2>5, <4>1, <4>2, <4>3
    <3>2. row.status \notin Settled => AfterProcessing \in Storing
      BY <1>5, <3>1 DEF Storing
    <3>3. QED
      BY <1>6, <2>2, <2>3, <2>5, <3>2, NoneKept
  <2>6. QED
    BY <2>2, <2>4, <2>5
<1>13. CASE RecordPushed
  <2>1. Record("pushed", PushedSequences(row), "idle")
    BY <1>13, Zenon DEF RecordPushed
  <2>2. run.at = "pushed" /\ OnlyRun /\ inTms
    BY <1>2, <2>1 DEF Kept, Told
  <2>3. run.item.event # "reminder_due"
    BY <1>4, <2>2 DEF Reminds
  <2>4. ASSUME NEW s \in PushedSequences(row), Write(s, "idle")
        PROVE  Kept'
    <3>1. Settles(s) \/ (Completes(s) /\ row.status = "completed")
      BY <1>1, PushedMeans
    <3>2. s \in Sequences
      BY <1>1, RequestsTyped
    <3>3. row.status \notin Settled => Settles(s)
      BY <3>1 DEF Settled
    <3>4. QED
      BY <1>6, <2>2, <2>3, <2>4, <3>1, <3>2, <3>3, WritesKept
  <2>5. CASE PushedSequences(row) = {} /\ run' = [run EXCEPT !.at = "idle"]
    <3>1. row.status \in Settled
      BY <1>1, <2>5, PushedMeans
    <3>2. QED
      BY <1>6, <2>2, <2>3, <2>5, <3>1, NoneKept
  <2>6. QED
    BY <1>2, <2>1, <2>4, <2>5
<1>14. QED
  BY <1>7, <1>8, <1>9, <1>10, <1>11, <1>12, <1>13

(* So what the row says of the POD stays so whatever happens.               *)
LEMMA StepKept ==
  ASSUME TypeOK, Errand, Kept, [Next]_vars
  PROVE  Kept'
<1>1. CASE UNCHANGED vars
  BY <1>1, BesideKept, Zenon DEF vars
<1>2. CASE RouteCompleted \/ EnqueueRoute \/ PacketMailed \/ EnqueuePacket \/ AttachInTurvo
  <2>1. UNCHANGED <<run, row, stored, raised>> /\ inTms' \in {inTms, TRUE}
    BY <1>2, Zenon
    DEF RouteCompleted, EnqueueRoute, PacketMailed, EnqueuePacket, AttachInTurvo, docVars
  <2>2. inTms => inTms'
    BY <2>1
  <2>3. QED
    BY <2>1, <2>2, BesideKept, Zenon
<1>3. ASSUME (\E event \in Manual : UploadByHand(event))
               \/ (\E i \in DOMAIN pending : ReminderFires(i))
      PROVE  Kept'
  <2>1. UNCHANGED <<run, row, stored, raised>> /\ inTms' \in {inTms, TRUE}
    BY <1>3, Zenon DEF UploadByHand, ReminderFires, docVars
  <2>2. inTms => inTms'
    BY <2>1
  <2>3. QED
    BY <2>1, <2>2, BesideKept, Zenon
<1>4. QED
  BY <1>1, <1>2, <1>3, PortalKept, AskingKept, ReadingKept, RecordsKept, WriteKept, Zenon
  DEF Next, Ingress, Asking, Reminding, Reading, Finishing

LEMMA InitKept == Init => Kept
<1>1. SUFFICES ASSUME Init
               PROVE  Kept
  OBVIOUS
<1>2. row = Inserted /\ run = Idle /\ stored = FALSE /\ inTms = FALSE
  BY <1>1 DEF Init
<1>3. QED
  BY <1>2
  DEF Inserted, Idle, Begun, Item, Kept, Pen, Told, Late, Owing, DoneMeansInTms, Received, Settled

-----------------------------------------------------------------------------
(* Theorems.                                                                *)

(* At first there is neither a run nor a reminder.                          *)
LEMMA InitInv == Init => IInv
<1>1. SUFFICES ASSUME Init
               PROVE  IInv
  OBVIOUS
<1>2. /\ row = Inserted /\ exists = FALSE /\ ran = FALSE /\ pending = <<>> /\ queue = <<>>
      /\ run = Idle /\ mailed = <<>> /\ outside = 0
      /\ hooks = [received |-> 0, passed |-> 0] /\ packets = [received |-> 0, passed |-> 0]
  BY <1>1 DEF Init
<1>3. Counted
  BY <1>2 DEF Counted
<1>4. Errand /\ Known /\ Planned /\ OnePlace
  BY <1>2
  DEF Errand, Stepped, Known, Planned, OnePlace, Unplanned, Scheduling, Held, Queued, Sending,
      Sent, Waiting, Due, Idle, Begun, Item
<1>5. TypeOK
  <2>1. row \in Rows
    BY <1>2 DEF Inserted, Rows, RowsOf, Statuses, Subs
  <2>2. /\ hooks \in [received : 0..MaxHooks, passed : 0..MaxHooks]
        /\ packets \in [received : 0..MaxPackets, passed : 0..MaxPackets]
        /\ outside \in 0..MaxOutside
    BY <1>2, BoundsAssumption
  <2>3. Item("route_completed") \in Items /\ "idle" \in Nodes
    BY DEF Item, Items, Events, Nodes
  <2>4. run \in Runs
    BY <1>2, <2>3 DEF Idle, Begun, Runs, Analyses
  <2>5. {exists, ran, stored, inTms, raised} \subseteq BOOLEAN
    BY <1>1, Zenon DEF Init
  <2>6. \A S : <<>> \in Seq(S)
    OBVIOUS
  <2>7. QED
    BY <1>1, <1>2, <2>1, <2>2, <2>4, <2>5, <2>6, Zenon DEF Init, TypeOK, Rows, RowsOf
<1>6. QED
  BY <1>3, <1>4, <1>5 DEF IInv, Placed

(* The inductive invariant holds of every reachable state.                  *)
LEMMA Invariance == Spec => []IInv
<1>1. IInv /\ [Next]_vars => IInv'
  <2>1. SUFFICES ASSUME IInv, [Next]_vars
                 PROVE  IInv'
    OBVIOUS
  <2>2. TypeOK /\ Counted /\ Errand /\ Placed
    BY <2>1 DEF IInv, Placed
  <2>3. CASE RunStep
    <3>1. UNCHANGED <<hooks, packets>>
      <4>1. (Beside \/ Still \/ OnlyRun) => UNCHANGED <<hooks, packets>>
        BY Zenon DEF Beside, Still, OnlyRun, inVars
      <4>2. QED
        BY <2>3, <4>1, Zenon
        DEF RunStep, Take, WriteRow, Raise, Begin, Asking, Gate, CheckExisting, Schedule,
            RecordStarted, Reminding, RecordFound, RevokeReminders, CheckEligible, SendReminder,
            RecordReminder, Reading, Assess, Merge, Analyse, RecordExtraction, Trim, Store,
            Finishing, RecordUpload, Score, RecordProcessed, RecordMultiStop, Push, RecordPushed,
            Record, SafeNode
    <3>2. TypeOK' /\ Counted'
      BY <2>2, <2>3, <3>1, RunStepTyped DEF Counted
    <3>3. QED
      BY <2>1, <2>2, <3>2, StepPlaced DEF IInv
  <2>4. CASE Ingress
    BY <2>1, <2>2, <2>4, IngressTyped, StepPlaced DEF IInv
  <2>5. CASE UNCHANGED vars
    <3>1. TypeOK' /\ Counted'
      BY <2>2, <2>5, Zenon DEF TypeOK, Counted, vars
    <3>2. QED
      BY <2>1, <2>2, <3>1, StepPlaced DEF IInv
  <2>6. QED
    BY <2>1, <2>3, <2>4, <2>5, Zenon DEF Next, RunStep
<1>2. QED
  BY <1>1, InitInv, PTL DEF Spec

(* Its second invariant, which needs the first.                             *)
LEMMA Truthful == Spec => []Kept
<1>1. IInv /\ Kept /\ [Next]_vars => Kept'
  BY StepKept DEF IInv, Placed
<1>2. QED
  BY <1>1, InitKept, Invariance, PTL DEF Spec

(* Every state is well typed, whatever fails and however webhooks, packets, *)
(* reminders, dispatchers and runs interleave.                              *)
THEOREM TypeCorrect == Spec => []TypeOK
<1>1. IInv => TypeOK
  BY DEF IInv
<1>2. QED
  BY <1>1, Invariance, PTL

(* The carrier gets each reminder at most once, for any plan of distinct    *)
(* steps and any number of webhooks that pass the gates before the first    *)
(* run (WorkflowService.run asks check_route_completed_duplicate again).    *)
THEOREM OneReminder == Spec => []EachReminderOnce
<1>1. IInv => EachReminderOnce
  BY DEF IInv, Placed, OnePlace, EachReminderOnce
<1>2. QED
  BY <1>1, Invariance, PTL

(* What the row tells of the POD is so: uploaded_to_tms only of one that    *)
(* Turvo lists, whether it was pushed, found there or attached by hand, and *)
(* between two runs a stored POD is under review, done or known to have     *)
(* failed, unless a run was cut short by an exception.                      *)
THEOREM StatusTold == Spec => []StatusInv
<1>1. IInv /\ Kept => StatusInv
  <2>1. SUFFICES ASSUME IInv, Kept
                 PROVE  StatusInv
    OBVIOUS
  <2>2. ReceivedIsSeen
    BY <2>1 DEF Kept, Told, Owing, ReceivedIsSeen, Settled
  <2>3. QED
    BY <2>1, <2>2 DEF IInv, Kept, Told, StatusInv
<1>2. QED
  BY <1>1, Invariance, Truthful, PTL

(* A late reminder leaves alone what has been received: nothing is mailed,  *)
(* and the row stays done (check_pod_reminder_eligibility,                  *)
(* complete_on_reminder_from_state).                                        *)
THEOREM LateReminders == Spec => ReminderLeavesReceived
<1>1. ASSUME IInv, Kept, [Next]_vars
      PROVE  [(run.item.event = "reminder_due" /\ row.sub \in Received)
                => mailed' = mailed /\ row'.sub \in PodDone]_vars
  <2>1. SUFFICES ASSUME run.item.event = "reminder_due", row.sub \in Received, Next
                 PROVE  mailed' = mailed /\ row'.sub \in PodDone
    BY <1>1, Zenon
  <2>2. TypeOK /\ row \in Rows /\ row.sub \in PodDone
    BY <1>1, <2>1, Parts DEF IInv, Received, PodDone
  <2>3. mailed' = mailed
    <3>1. CASE SendReminder
      BY <1>1, <2>1, <3>1 DEF SendReminder, Kept, Late
    <3>2. CASE Ingress
      BY <3>2, Zenon
      DEF Ingress, RouteCompleted, EnqueueRoute, PacketMailed, EnqueuePacket, UploadByHand,
          ReminderFires, Portal, AttachInTurvo
    <3>3. CASE ~SendReminder /\ ~Ingress
      <4>1. (Still \/ OnlyRun) => mailed' = mailed
        BY Zenon DEF Still, OnlyRun
      <4>2. QED
        BY <2>1, <3>3, <4>1, Zenon
        DEF Next, Take, WriteRow, Raise, Begin, Asking, Gate, CheckExisting, Schedule,
            RecordStarted, Reminding, RecordFound, RevokeReminders, CheckEligible,
            RecordReminder, Reading, Assess, Merge, Analyse, RecordExtraction, Trim, Store,
            Finishing, RecordUpload, Score, RecordProcessed, RecordMultiStop, Push, RecordPushed,
            Record, SafeNode
    <3>4. QED
      BY <3>1, <3>2, <3>3
  <2>4. row'.sub \in PodDone
    <3>1. CASE WriteRow
      <4>1. run.at = "write" /\ row' = AfterSequence(row, run.todo)
        BY <3>1, Zenon DEF WriteRow, Committed
      <4>2. QED
        BY <1>1, <2>1, <4>1 DEF Kept, Late
    <3>2. CASE Portal
      <4>1. PICK s \in Resolve(row) : row' = AfterSequence(row, s)
        BY <3>2, Zenon DEF Portal
      <4>2. QED
        BY <2>2, <4>1, ResolvedMeans DEF PodDone
    <3>3. CASE Fail
      <4>1. PICK category \in {"business", "system"} :
              row' = AfterSequence(row, FailureOf(category))
        BY <3>3, Zenon DEF Fail, Committed
      <4>2. QED
        BY <2>2, <4>1, FailureMeans
    <3>4. CASE ~WriteRow /\ ~Portal /\ ~Fail
      <4>1. OnlyRun => row' = row
        BY Zenon DEF OnlyRun
      <4>2. row' = row
        BY <2>1, <3>4, <4>1, Zenon
        DEF Next, Ingress, RouteCompleted, EnqueueRoute, PacketMailed, EnqueuePacket,
            UploadByHand, ReminderFires, AttachInTurvo,
            Take, Raise, Begin, Asking, Gate, CheckExisting, Schedule,
            RecordStarted, Reminding, RecordFound, RevokeReminders, CheckEligible, SendReminder,
            RecordReminder, Reading, Assess, Merge, Analyse, RecordExtraction, Trim, Store,
            Finishing, RecordUpload, Score, RecordProcessed, RecordMultiStop, Push, RecordPushed,
            Record, SafeNode
      <4>3. QED
        BY <2>2, <4>2
    <3>5. QED
      BY <3>1, <3>2, <3>3, <3>4
  <2>5. QED
    BY <2>3, <2>4
<1>2. QED
  BY <1>1, Invariance, Truthful, PTL DEF Spec, ReminderLeavesReceived
=============================================================================
