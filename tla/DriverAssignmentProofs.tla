----------------------- MODULE DriverAssignmentProofs -----------------------
(***************************************************************************)
(* Proofs about DriverAssignment and DriverContacts for any directory of   *)
(* contacts, replies, schedules, bounds and failures: its types, that      *)
(* reminders are scheduled once for an open cycle, that the ladder is      *)
(* climbed one rung at a time and left for good, and that the driver put   *)
(* on the shipment is the one that was named.                              *)
(***************************************************************************)
EXTENDS DriverAssignment, LifecycleRequestsProofs, FiniteSetTheorems, FunctionTheorems

Rows == RowsOf(Subs)

\* What a sequence of commands does to any row.
Keeps(s) ==
  \A r \in Rows : /\ AfterSequence(r, s).sub = r.sub
                  /\ AfterSequence(r, s).status \in {r.status, "pending_review"}

Sets(s, sub) == \A r \in Rows : AfterSequence(r, s).sub = sub

Reviews(s, sub) ==
  Sets(s, sub) /\ \A r \in Rows : AfterSequence(r, s).status = "pending_review"

Closes(s) ==
  \A r \in Rows : /\ AfterSequence(r, s).sub \in {"cancelled", "resolved_manually"}
                  /\ AfterSequence(r, s).status = "completed"

\* Nothing is asked of a row that is not there.
Present ==
  row = Absent =>
    run.at = "idle" /\ queue = <<>> /\ tasks = {} /\ runs = 0 /\ outside = <<>>

Outer == outside = <<>> \/ Closes(outside)

\* Every batch was scheduled by a run of its own, and the next one by a run
\* that was let through.
Counted == batch <= runs /\ (run.at \in {"start", "schedule"} => batch < runs)

Granted == run.at = "schedule" /\ batch > 0 => row.status = "completed"

\* Only reminders have a step of the schedule.
Slotted(item) == item.kind = "reminder" => item.slot \in Slots

Queued == Slotted(run.item) /\ \A i \in DOMAIN queue : Slotted(queue[i])

\* What brings a run to a node.
Errand ==
  /\ run.at \in {"send", "append"} => run.item.kind = "reminder"
  /\ run.at = "record" /\ ~run.partial => run.item.kind = "reminder"
  /\ run.at = "write" => run.next \in {"idle", "append", "confirm", "check"}
  /\ run.at = "write" /\ run.next = "append" => run.item.kind = "reminder"
  /\ run.at = "put" => run.driver \in DOMAIN contacts
  /\ run.at \in {"resolve", "create", "put"} => run.block \in Blocks /\ Searchable(run.block)

\* An escalated cycle is under review, or over.
Escalated == row.sub = "escalated" => row.status \in {"pending_review", "completed"}

\* A reminder on its way is for the next rung, unless the cycle is over.
Climbs(n) == row.status = "completed" \/ n = Rung(row.sub) + 1

Climbing ==
  /\ run.at = "send" => /\ row.sub \notin DriverSkips
                        /\ row.status = "completed" \/ Rung(row.sub) < MaxRung
  /\ run.at = "record" /\ run.rung # 0 => Climbs(run.rung)

\* The shipment shows a driver, or somebody else has edited it.
Provided == Undisturbed => Assigned(tms)

\* The sequence s may be written: what it does to the row is in order.
Decides(s) ==
  \/ Keeps(s)
  \/ Sets(s, "driver_assignment_started")
  \/ Sets(s, "uploaded_to_tms") /\ Provided
  \/ Reviews(s, "escalated")
  \/ \E n \in 1..MaxRung :
       Reviews(s, Ladder[n]) /\ row.sub \notin DriverSkips /\ Climbs(n)

Decided == run.at = "write" => Decides(run.todo)

\* The run asks about the shipment it has fetched, or is to fetch.
Fetching == run.at \in {"fetch", "check"} \/ (run.at = "write" /\ run.next = "check")

\* The shipment shows what the runs have put there, and what they have read.
Shown ==
  Undisturbed =>
    /\ run.at \in {"success", "complete", "confirm", "finish"} => Assigned(tms)
    /\ run.at = "write" /\ run.next = "confirm" => Assigned(tms)
    /\ Fetching /\ Assigned(run.seen) => Assigned(tms)
    /\ run.at \in {"create", "put"} => run.seen.drivers = tms.drivers

Delivered == Undisturbed => UploadedMeansDriver /\ OneDriverInTms

\* What a run has to be right about where it is.
Apt == Counted /\ Granted /\ Errand /\ Climbing /\ Decided /\ Shown

IInv == TypeOK /\ Present /\ Outer /\ Queued /\ Apt /\ Escalated /\ Delivered

\* The same of any directory c: the drivers of the carrier, who has a phone,
\* whether those who were created have theirs alone, whether i is whom the
\* block names, and whether nobody is.
DriversIn(c) == {i \in DOMAIN c : c[i].carrier /\ c[i].driver}

PhoneIn(c, i, phone) == \E p \in c[i].phones : PhonesMatch(phone, p)

Apart(c) ==
  \A j \in (Len(Directory) + 1)..Len(c) :
    /\ j \in DriversIn(c)
    /\ \A i \in DriversIn(c) : i # j => ~\E p \in c[j].phones : PhoneIn(c, i, p)

NamedIn(c, i, block) ==
  LET sharing == {j \in DriversIn(c) : PhoneIn(c, j, block.phone)}
      named == NameTokensMatch(block.name, c[i].name)
  IN /\ i \in DriversIn(c)
     /\ IF block.phone = <<>> THEN named ELSE i \in sharing
     /\ (Cardinality(sharing) > 1 /\ block.name # {}) => named

Unknown(c, block) ==
  /\ block.name # {} /\ block.phone # <<>>
  /\ \A i \in DriversIn(c) : ~PhoneIn(c, i, block.phone)

\* Whoever is put on the shipment is the one named, and whoever is about to
\* be created is not there yet.
Chosen ==
  /\ Apart(contacts)
  /\ run.at = "put" => NamedIn(contacts, run.driver, run.block)
  /\ run.at = "create" => Unknown(contacts, run.block)

-----------------------------------------------------------------------------
(* The ladder.                                                              *)

(* The n-th reminder is on the n-th rung, and nothing else is on a rung.    *)
LEMMA Rungs ==
  /\ MaxRung = 4
  /\ \A n \in 1..4 : Ladder[n] \in Subs /\ Rung(Ladder[n]) = n
  /\ \A sub : Rung(sub) \in 0..4
  /\ \A sub : (\A n \in 1..4 : Ladder[n] # sub) => Rung(sub) = 0
<1>1. MaxRung = 4
  BY DEF MaxRung, Ladder
<1>2. \A n, m \in 1..4 : Ladder[n] = Ladder[m] => n = m
  BY DEF Ladder
<1>3. \A n \in 1..4 : Ladder[n] \in Subs
  BY <1>1 DEF Subs
<1>4. ASSUME NEW sub
      PROVE  /\ \A n \in 1..4 : Ladder[n] = sub => Rung(sub) = n
             /\ Rung(sub) \in 0..4
             /\ (\A n \in 1..4 : Ladder[n] # sub) => Rung(sub) = 0
  <2>1. CASE \A n \in 1..4 : Ladder[n] # sub
    BY <1>1, <2>1 DEF Rung
  <2>2. ASSUME NEW n \in 1..4, Ladder[n] = sub
        PROVE  Rung(sub) = n
    <3> DEFINE k == CHOOSE m \in 1..4 : Ladder[m] = sub
    <3>1. k \in 1..4 /\ Ladder[k] = sub
      BY <2>2
    <3>2. Rung(sub) = k
      BY <1>1, <2>2 DEF Rung
    <3> HIDE DEF k
    <3>3. QED
      BY <1>2, <2>2, <3>1, <3>2
  <2>3. QED
    BY <2>1, <2>2
<1>5. QED
  BY <1>1, <1>3, <1>4

(* Sub-statuses that are on no rung.                                        *)
LEMMA OffLadder ==
  /\ \A sub \in {"none", "driver_assignment_started", "escalated", "uploaded_to_tms", "cancelled",
                 "resolved_manually", Unset} : Rung(sub) = 0
  /\ \A n \in 1..4 : Ladder[n] \notin DriverSkips
<1>1. /\ Ladder[1] = "reminder_1_sent" /\ Ladder[2] = "reminder_2_sent"
      /\ Ladder[3] = "reminder_3_sent" /\ Ladder[4] = "reminder_4_sent"
  BY DEF Ladder
<1>2. \A n \in 1..4 : n = 1 \/ n = 2 \/ n = 3 \/ n = 4
  OBVIOUS
<1>3. ASSUME NEW sub \in {"none", "driver_assignment_started", "escalated", "uploaded_to_tms",
                          "cancelled", "resolved_manually", Unset},
             NEW n \in 1..4
      PROVE  Ladder[n] # sub
  BY <1>1, <1>2 DEF Unset
<1>4. QED
  BY <1>3, Rungs DEF DriverSkips

-----------------------------------------------------------------------------
(* What the nodes write.                                                    *)

Sendable == Seq(Commands(Subs))

(* The commands that occur.                                                 *)
LEMMA Known ==
  /\ {Action, Info, Exception} \subseteq Commands(Subs)
  /\ \A c \in {Action, Info, Exception} : IsSnapshot(c.type)
  /\ \A status \in Statuses \cup {Unset}, sub \in Subs \cup {Unset} :
       /\ StatusChange(status, sub) \in Commands(Subs)
       /\ SubChange(status, sub) \in Commands(Subs)
       /\ ~IsSnapshot(StatusChange(status, sub).type) /\ ~IsSnapshot(SubChange(status, sub).type)
  /\ {"none", "driver_assignment_started", "escalated", "uploaded_to_tms", "cancelled",
      "resolved_manually"} \subseteq Subs
<1>1. /\ {Action, Info, Exception} \subseteq Commands(Subs)
      /\ \A c \in {Action, Info, Exception} : IsSnapshot(c.type)
  BY DEF Action, Info, Exception, Command, Commands, IsSnapshot, Snapshots
<1>2. \A status \in Statuses \cup {Unset}, sub \in Subs \cup {Unset} :
        /\ StatusChange(status, sub) \in Commands(Subs)
        /\ SubChange(status, sub) \in Commands(Subs)
  BY DEF StatusChange, SubChange, Command, Commands, Transitions
<1>3. \A status, sub : /\ ~IsSnapshot(StatusChange(status, sub).type)
                       /\ ~IsSnapshot(SubChange(status, sub).type)
  BY DEF StatusChange, SubChange, Command, IsSnapshot, Snapshots
<1>4. QED
  BY <1>1, <1>2, <1>3 DEF Subs

(* An exception on record, and the failure of a node.                       *)
LEMMA FailureKeeps ==
  /\ <<Exception>> \in Sendable /\ Keeps(<<Exception>>)
  /\ \A category : FailureOf(category) \in Sendable /\ Keeps(FailureOf(category))
<1>1. <<Exception>> \in Sendable /\ Keeps(<<Exception>>)
  BY Known, Joined1, AfterSnapshot DEF Sendable, Keeps, Rows
<1>2. ASSUME NEW category
      PROVE  FailureOf(category) \in Sendable /\ Keeps(FailureOf(category))
  <2> DEFINE e == [Exception EXCEPT !.pause = IF category = "business" THEN Unset
                                              ELSE "system_error"]
             c == StatusChange("pending_review", Unset)
  <2>1. e \in Commands(Subs) /\ IsSnapshot(e.type)
    BY DEF Exception, Command, Commands, IsSnapshot, Snapshots, PauseTypes
  <2>2. /\ c \in Commands(Subs) /\ ~IsSnapshot(c.type)
        /\ c.status = "pending_review" /\ c.status # Unset /\ c.sub = Unset
    BY Known DEF Statuses, StatusChange, Command, Unset
  <2>3. FailureOf(category) = <<e, c>>
    BY DEF FailureOf
  <2> HIDE DEF e, c
  <2>4. <<e, c>> \in Sendable
    BY <2>1, <2>2, Joined2 DEF Sendable
  <2>5. ASSUME NEW r \in Rows
        PROVE  /\ AfterSequence(r, <<e, c>>).sub = r.sub
               /\ AfterSequence(r, <<e, c>>).status = "pending_review"
    BY <2>1, <2>2, AfterLogged DEF Rows, OrElse
  <2>6. QED
    BY <2>3, <2>4, <2>5 DEF Keeps
<1>3. QED
  BY <1>1, <1>2

(* The start of a cycle.                                                    *)
LEMMA StartedSets ==
  \A v : \A s \in DriverStarted(v) : s \in Sendable /\ Sets(s, "driver_assignment_started")
<1> DEFINE c == From(Fresh, StatusChange("processing", "driver_assignment_started"))
<1>1. /\ c \in Commands(Subs) /\ ~IsSnapshot(c.type)
      /\ c.sub = "driver_assignment_started"
  BY Known, ZenonT(30) DEF From, Fresh, StatusChange, Command, Commands, Transitions, IsSnapshot,
                         Snapshots, Statuses
<1>2. \A v : DriverStarted(v) \subseteq {<<c>>}
  BY DEF DriverStarted, When
<1> HIDE DEF c
<1>3. <<c>> \in Sendable
  BY <1>1, Joined1 DEF Sendable
<1>4. Sets(<<c>>, "driver_assignment_started")
  BY <1>1, AfterTransition DEF Sets, Rows, OrElse, Unset
<1>5. QED
  BY <1>2, <1>3, <1>4

(* A reminder, and an escalation.                                           *)
LEMMA ReviewReviews ==
  ASSUME NEW v, NEW sub \in Subs
  PROVE  /\ <<Action, ReviewStep(v, sub)>> \in Sendable
         /\ Reviews(<<Action, ReviewStep(v, sub)>>, sub)
<1> DEFINE c == ReviewStep(v, sub)
<1>1. /\ c \in Commands(Subs) /\ ~IsSnapshot(c.type)
      /\ c.status = "pending_review" /\ c.status # Unset /\ c.sub = sub
  BY DEF ReviewStep, Command, Commands, Transitions, IsSnapshot, Snapshots, Statuses, Unset
<1>2. sub # Unset
  BY DEF Subs, Unset, Ladder, MaxRung
<1> HIDE DEF c
<1>3. <<Action, c>> \in Sendable
  BY <1>1, Known, Joined2 DEF Sendable
<1>4. \A r \in Rows : /\ AfterSequence(r, <<Action, c>>).sub = sub
                      /\ AfterSequence(r, <<Action, c>>).status = "pending_review"
  BY <1>1, <1>2, Known, AfterLogged DEF Rows, OrElse
<1>5. QED
  BY <1>3, <1>4 DEF Reviews, Sets, c

(* The steps to uploaded_to_tms, whatever they were decided from.           *)
LEMMA UploadedSets ==
  ASSUME NEW v, v.status \in Statuses, v.sub \in Subs
  PROVE  UploadedStep(v) # <<>> =>
           /\ UploadedStep(v) \in Sendable /\ Sets(UploadedStep(v), "uploaded_to_tms")
           /\ <<Info>> \o UploadedStep(v) \in Sendable
           /\ Sets(<<Info>> \o UploadedStep(v), "uploaded_to_tms")
           /\ \A b \in Commands(Subs) :
                /\ <<Info, b>> \o UploadedStep(v) \in Sendable
                /\ Sets(<<Info, b>> \o UploadedStep(v), "uploaded_to_tms")
<1> DEFINE one == From(v, StatusChange("completed", "uploaded_to_tms"))
           two == [SubChange(Unset, "uploaded_to_tms") EXCEPT !.fromSub = v.sub]
<1>1. /\ one \in Commands(Subs) /\ ~IsSnapshot(one.type) /\ one.sub = "uploaded_to_tms"
      /\ two \in Commands(Subs) /\ ~IsSnapshot(two.type) /\ two.sub = "uploaded_to_tms"
  BY Known, ZenonT(30) DEF From, StatusChange, SubChange, Command, Commands, Transitions, IsSnapshot,
               Snapshots, Statuses
<1>2. UploadedStep(v) # <<>> => UploadedStep(v) \in {<<one>>, <<two>>}
  BY DEF UploadedStep
<1> HIDE DEF one, two
<1>3. ASSUME NEW c \in Commands(Subs), ~IsSnapshot(c.type), c.sub = "uploaded_to_tms"
      PROVE  /\ <<c>> \in Sendable /\ Sets(<<c>>, "uploaded_to_tms")
             /\ <<Info>> \o <<c>> \in Sendable
             /\ Sets(<<Info>> \o <<c>>, "uploaded_to_tms")
             /\ \A b \in Commands(Subs) :
                  /\ <<Info, b>> \o <<c>> \in Sendable
                  /\ Sets(<<Info, b>> \o <<c>>, "uploaded_to_tms")
  <2>1. c.sub # Unset
    BY <1>3 DEF Unset
  <2>2. <<c>> \in Sendable /\ Sets(<<c>>, "uploaded_to_tms")
    BY <1>3, <2>1, Joined1, AfterTransition DEF Sendable, Sets, Rows, OrElse
  <2>3. <<Info>> \o <<c>> = <<Info, c>>
    <3>1. Info \in Commands(Subs)
      BY Known
    <3>2. QED
      BY <1>3, <3>1, Spliced1
  <2>4. <<Info, c>> \in Sendable /\ Sets(<<Info, c>>, "uploaded_to_tms")
    BY <1>3, <2>1, Known, Joined2, AfterLogged DEF Sendable, Sets, Rows, OrElse
  <2>5. ASSUME NEW b \in Commands(Subs)
        PROVE  /\ <<Info, b>> \o <<c>> \in Sendable
               /\ Sets(<<Info, b>> \o <<c>>, "uploaded_to_tms")
    <3>1. <<Info, b>> \o <<c>> = <<Info, b, c>> /\ <<Info, b, c>> \in Seq(Commands(Subs))
      <4>1. Info \in Commands(Subs)
        BY Known
      <4>2. QED
        BY <1>3, <2>5, <4>1, Spliced2
    <3>2. Sets(<<Info, b, c>>, "uploaded_to_tms")
      BY <1>3, <2>1, <2>5, Known, AfterThree DEF Sets, Rows
    <3>3. QED
      BY <3>1, <3>2 DEF Sendable
  <2>6. QED
    BY <2>2, <2>3, <2>4, <2>5
<1>4. QED
  BY <1>1, <1>2, <1>3

(* A driver who was put on the shipment, or found there, and the completion. *)
LEMMA AssignedSets ==
  ASSUME NEW v \in Rows
  PROVE  \A s \in UNION {DriverAssigned(v), DriverAlreadyAssigned(v), DriverCompleted(v)} :
           s \in Sendable /\ (Keeps(s) \/ Sets(s, "uploaded_to_tms"))
<1> DEFINE c == SubChange(v.status, "uploaded_to_tms")
           w == [v EXCEPT !.sub = "uploaded_to_tms"]
<1>1. /\ c \in Commands(Subs) /\ ~IsSnapshot(c.type)
      /\ c.sub = "uploaded_to_tms" /\ c.sub # Unset
      /\ v.status \in Statuses /\ v.sub \in Subs
  BY Known DEF SubChange, Command, Unset, Rows, RowsOf
<1>2. /\ \A a \in {Action, Info} :
           /\ <<a>> \in Sendable /\ Keeps(<<a>>)
           /\ <<a, c>> \in Sendable /\ Sets(<<a, c>>, "uploaded_to_tms")
  <2>1. ASSUME NEW a \in {Action, Info}
        PROVE  /\ <<a>> \in Sendable /\ Keeps(<<a>>)
               /\ <<a, c>> \in Sendable /\ Sets(<<a, c>>, "uploaded_to_tms")
    <3> HIDE DEF c
    <3>1. a \in Commands(Subs) /\ IsSnapshot(a.type)
      BY <2>1, Known
    <3>2. QED
      BY <1>1, <3>1, Joined1, Joined2, AfterSnapshot, AfterLogged
      DEF Sendable, Keeps, Sets, Rows, OrElse
  <2>2. QED
    BY <2>1
<1>3. ASSUME NEW s \in DriverAssigned(v)
      PROVE  s \in Sendable /\ (Keeps(s) \/ Sets(s, "uploaded_to_tms"))
  <2>1. s = <<Action>> \/ s = <<Action, c>>
    BY <1>3, Known DEF DriverAssigned
  <2> HIDE DEF c
  <2>2. QED
    BY <1>2, <2>1
<1>4. ASSUME NEW s \in DriverCompleted(v)
      PROVE  s \in Sendable /\ (Keeps(s) \/ Sets(s, "uploaded_to_tms"))
  BY <1>1, <1>4, UploadedSets DEF DriverCompleted
<1>5. ASSUME NEW s \in DriverAlreadyAssigned(v)
      PROVE  s \in Sendable /\ (Keeps(s) \/ Sets(s, "uploaded_to_tms"))
  <2>1. w.status \in Statuses /\ w.sub \in Subs
    BY Known DEF Rows, RowsOf
  <2>2. s = <<Info>> \o (IF v.sub = "uploaded_to_tms" THEN <<>> ELSE <<c>>) \o UploadedStep(w)
    BY <1>5 DEF DriverAlreadyAssigned
  <2> HIDE DEF c, w
  <2>3. Info \in Commands(Subs)
    BY Known
  <2>4. <<Info>> \o <<>> = <<Info>> /\ <<Info>> \o <<c>> = <<Info, c>>
    BY <1>1, <2>3, Spliced1, Joined1, ConcatEmptySeq
  <2>5. /\ s = <<Info>> \o UploadedStep(w) \/ s = <<Info, c>> \o UploadedStep(w)
    BY <2>2, <2>4
  <2>6. CASE UploadedStep(w) # <<>>
    BY <1>1, <2>1, <2>5, <2>6, UploadedSets
  <2>7. CASE UploadedStep(w) = <<>>
    <3>1. <<Info>> \in Seq(Commands(Subs)) /\ <<Info, c>> \in Seq(Commands(Subs))
      BY <1>1, <2>3, Joined1, Joined2
    <3>2. s = <<Info>> \/ s = <<Info, c>>
      BY <2>5, <2>7, <3>1, ConcatEmptySeq
    <3>3. QED
      BY <1>2, <3>2
  <2>8. QED
    BY <2>6, <2>7
<1>6. QED
  BY <1>3, <1>4, <1>5
(* An outsider closes the lifecycle.                                        *)
LEMMA OutsidersClose ==
  ASSUME NEW kind \in Outsiders, NEW s \in Interference(kind)
  PROVE  s \in Sendable /\ Closes(s)
<1> DEFINE c(sub) == StatusChange("completed", sub)
<1>1. \A v, statuses, terminal : Cancel(v, statuses, terminal) \subseteq {<<Action, c("cancelled")>>}
  BY DEF Cancel, When
<1>2. \A v : Resolve(v) = {<<Action, c("resolved_manually")>>}
  BY DEF Resolve
<1>3. kind \in {"tendered", "superseded", "portal"}
  BY OutsidersAssumption
<1>4. s \in {<<Action, c("cancelled")>>, <<Action, c("resolved_manually")>>}
  BY <1>1, <1>2, <1>3 DEF Interference
<1>5. ASSUME NEW sub \in {"cancelled", "resolved_manually"}
      PROVE  <<Action, c(sub)>> \in Sendable /\ Closes(<<Action, c(sub)>>)
  <2>1. /\ c(sub) \in Commands(Subs) /\ ~IsSnapshot(c(sub).type)
        /\ c(sub).status = "completed" /\ c(sub).sub = sub
        /\ c(sub).status # Unset /\ c(sub).sub # Unset
    BY <1>5, Known DEF StatusChange, Command, Statuses, Unset
  <2> DEFINE d == c(sub)
  <2> HIDE DEF d
  <2>2. /\ d \in Commands(Subs) /\ ~IsSnapshot(d.type)
        /\ d.status = "completed" /\ d.sub = sub /\ d.status # Unset /\ d.sub # Unset
    BY <2>1 DEF d
  <2>3. <<Action, d>> \in Sendable
    BY <2>2, Known, Joined2 DEF Sendable
  <2>4. \A r \in Rows : /\ AfterSequence(r, <<Action, d>>).sub = sub
                        /\ AfterSequence(r, <<Action, d>>).status = "completed"
    BY <2>2, Known, AfterLogged DEF Rows, OrElse
  <2>5. QED
    BY <1>5, <2>3, <2>4 DEF Closes, d
<1>6. QED
  BY <1>4, <1>5

-----------------------------------------------------------------------------
(* The search for a driver.                                                 *)

\* The contacts are well typed.
Directed == contacts \in Seq(Contacts)

(* Contacts are finitely many.                                              *)
LEMMA ContactsFinite ==
  ASSUME Directed, NEW ids \in SUBSET DOMAIN contacts
  PROVE  /\ Len(contacts) \in Nat /\ DOMAIN contacts = 1..Len(contacts)
         /\ IsFiniteSet(ids) /\ Cardinality(ids) \in Nat
         /\ Cardinality(ids) <= Len(contacts)
<1>1. Len(contacts) \in Nat /\ DOMAIN contacts = 1..Len(contacts)
  BY LenProperties DEF Directed
<1>2. IsFiniteSet(1..Len(contacts)) /\ Cardinality(1..Len(contacts)) = Len(contacts)
  BY <1>1, FS_Interval
<1>3. IsFiniteSet(ids) /\ Cardinality(ids) <= Len(contacts)
  BY <1>1, <1>2, FS_Subset
<1>4. QED
  BY <1>1, <1>3, FS_CardinalityType

(* Of some contacts, one is the richest.                                    *)
LEMMA RichestIsOne ==
  ASSUME Directed, NEW ids \in SUBSET DOMAIN contacts, ids # {}
  PROVE  Richest(ids) \in ids
<1> DEFINE size == [i \in ids |-> Cardinality(contacts[i].name)]
           names == [i \in ids |-> contacts[i].name]
           all == UNION Range(names)
<1>1. ids \in SUBSET Nat /\ IsFiniteSet(ids)
  BY ContactsFinite
<1>2. \A i \in ids : IsFiniteSet(contacts[i].name)
  <2>1. \A i \in ids : contacts[i] \in Contacts
    BY ContactsFinite, ElementOfSeq DEF Directed
  <2>2. QED
    BY <2>1 DEF Contacts, Names
<1>3. IsFiniteSet(all)
  <2>1. names \in [ids -> {contacts[i].name : i \in ids}]
    OBVIOUS
  <2>2. names \in Surjection(ids, Range(names))
    BY <2>1, Fun_RangeProperties
  <2>3. IsFiniteSet(Range(names))
    BY <1>1, <2>2, FS_Surjection
  <2>4. \A T \in Range(names) : IsFiniteSet(T)
    BY <1>2 DEF Range
  <2>5. QED
    BY <2>3, <2>4, FS_UNION
<1>4. ASSUME NEW i \in ids
      PROVE  size[i] \in Nat /\ size[i] <= Cardinality(all)
  <2>1. names[i] \in Range(names)
    BY DEF Range
  <2>2. contacts[i].name \in SUBSET all
    BY <2>1
  <2>3. QED
    BY <1>2, <1>3, <2>2, FS_Subset, FS_CardinalityType
<1>5. size \in [ids -> Nat] /\ Cardinality(all) \in Nat
  BY <1>3, <1>4, FS_CardinalityType
<1> DEFINE top == Cardinality(all)
           gaps == {top - size[i] : i \in ids}
<1> HIDE DEF top, size
<1>6. \A i \in ids : top - size[i] \in Nat /\ size[i] \in Nat /\ top \in Nat
  <2>1. top \in Nat /\ \A i \in ids : size[i] \in Nat /\ size[i] <= top
    BY <1>4, <1>5, Zenon DEF top
  <2>2. QED
    BY <2>1
<1>7. PICK g \in gaps : \A h \in gaps : g <= h
  <2>1. gaps \in SUBSET Nat /\ gaps # {}
    BY <1>6
  <2>2. QED
    BY <2>1, LeastOf
<1>8. PICK k \in ids : g = top - size[k]
  BY <1>7
<1>9. \A j \in ids : size[j] <= size[k]
  <2>1. ASSUME NEW j \in ids
        PROVE  size[j] <= size[k]
    <3>1. top - size[k] <= top - size[j]
      BY <1>7, <1>8
    <3>2. QED
      BY <1>6, <3>1
  <2>2. QED
    BY <2>1
<1> DEFINE ties == {i \in ids : size[i] = size[k]}
<1>10. ties \in SUBSET Nat /\ ties # {}
  BY <1>1
<1>11. PICK m \in ties : \A i \in ties : m <= i
  BY <1>10, LeastOf
<1>12. \A j \in ids : size[m] > size[j] \/ (size[m] = size[j] /\ m <= j)
  BY <1>1, <1>6, <1>9, <1>11
<1>13. QED
  BY <1>11, <1>12 DEF Richest, size
(* What is picked has been among the hits, and is the only one unless names *)
(* tell them apart.                                                         *)
LEMMA Picked ==
  ASSUME Directed, NEW ids \in SUBSET DOMAIN contacts, PickOnly(ids).outcome = "found"
  PROVE  ids = {PickOnly(ids).id} /\ Cardinality(ids) = 1
<1>1. Cardinality(ids) = 1 /\ PickOnly(ids).id = CHOOSE i \in ids : TRUE
  BY DEF PickOnly, Found, FollowUp
<1>2. PICK i : ids = {i}
  BY <1>1, ContactsFinite, FS_Singleton
<1>3. QED
  BY <1>1, <1>2

(* No contact has a phone without digits.                                   *)
LEMMA DigitsLeft ==
  ASSUME NEW phone \in Phones, phone # <<>>
  PROVE  Digits(phone) # <<>> /\ Digits(phone) \in Phones
<1>1. Len(phone) \in Nat
  BY LenProperties DEF Phones
<1>2. CASE Len(phone) > 1 /\ Head(phone) = "1"
  <2> DEFINE rest == Tail(phone)
             n == Len(phone)
             m == Len(rest)
  <2>1. rest \in Seq(STRING) /\ m = n - 1
    BY HeadTailProperties DEF Phones
  <2>2. rest # <<>>
    <3>1. rest = <<>> => m = 0
      BY EmptySeq
    <3>2. n \in Nat /\ n > 1
      BY <1>1, <1>2
    <3> HIDE DEF n, m, rest
    <3>3. QED
      BY <2>1, <3>1, <3>2
  <2>3. QED
    BY <1>2, <2>1, <2>2 DEF Digits, Phones
<1>3. QED
  BY <1>2 DEF Digits

(* The driver that a search finds is one of the carrier, with the phone     *)
(* that was given or else the name, and one that goes by the name as well   *)
(* if several have the phone.  One is created only for a name and a phone   *)
(* that nobody has.                                                         *)
LEMMA Resolved ==
  ASSUME Directed, NEW block \in Blocks, Searchable(block), NEW reached \in BOOLEAN,
         NEW assigned, NEW lost \in SUBSET DOMAIN contacts
  PROVE  LET result == ResolveContact(block, reached, assigned, lost)
             i == result.id
             hits == TabByPhone(block.phone, lost)
             named == NameTokensMatch(block.name, contacts[i].name)
         IN /\ result.outcome = "found" =>
                 /\ i \in CarrierDrivers
                 /\ block.phone = <<>> => named
                 /\ block.phone # <<>> => HasPhone(i, block.phone)
                 /\ Cardinality(hits) > 1 /\ block.name # {} => named
            /\ result.outcome = "create" =>
                 block.name # {} /\ block.phone # <<>> /\ hits = {}
<1> DEFINE result == ResolveContact(block, reached, assigned, lost)
           i == result.id
           hits == TabByPhone(block.phone, lost)
           found == SearchByName(block.name, reached, assigned, lost)
           candidates == NarrowByName(hits, block.name)
<1>1. /\ hits \in SUBSET CarrierDrivers /\ hits \in SUBSET DOMAIN contacts
      /\ \A j \in hits : HasPhone(j, block.phone)
  BY DEF TabByPhone, Hydrated, TabDrivers, Tab, CarrierDrivers, Linked
<1>2. /\ found \in SUBSET CarrierDrivers /\ found \in SUBSET DOMAIN contacts
      /\ \A j \in found : NameTokensMatch(block.name, contacts[j].name)
  BY DEF SearchByName, PoolByName, Pool, ListDrivers, Embedded, Referenced, TabByName, Hydrated,
         TabDrivers, Tab, CarrierDrivers, Linked
<1>3. /\ candidates \in SUBSET hits /\ candidates \in SUBSET DOMAIN contacts
      /\ block.name # {} => \A j \in candidates : NameTokensMatch(block.name, contacts[j].name)
  BY <1>1 DEF NarrowByName
<1>4. Cardinality(hits) \in Nat /\ Cardinality(candidates) \in Nat
  BY <1>1, <1>3, ContactsFinite
<1>5. /\ \A ids : PickOnly(ids).outcome # "create" /\ Create.outcome = "create"
      /\ Create.outcome # "found"
      /\ PickShared(hits, block.name).outcome # "create"
      /\ \A j : Found(j).outcome = "found" /\ Found(j).id = j
  BY DEF PickOnly, PickShared, Create, Found, FollowUp
<1> HIDE DEF hits, found, candidates
<1>6. CASE block.phone = <<>>
  <2>1. result = PickOnly(found)
    BY <1>6 DEF ResolveContact, found
  <2> HIDE DEF result
  <2>2. result.outcome = "found" => found = {i}
    BY <1>2, <2>1, Picked
  <2>3. QED
    BY <1>2, <1>5, <1>6, <2>1, <2>2 DEF result, hits
<1>7. CASE block.phone # <<>> /\ Cardinality(hits) > 1
  <2>1. result = PickShared(hits, block.name)
    BY <1>7 DEF ResolveContact, hits
  <2>2. PickShared(hits, block.name) =
          IF Cardinality(candidates) > 1 /\ NamesCompatible(candidates)
            THEN Found(Richest(candidates)) ELSE PickOnly(candidates)
    BY DEF PickShared, candidates
  <2> HIDE DEF result
  <2>3. result.outcome = "found" => i \in candidates
    <3>1. CASE Cardinality(candidates) > 1 /\ NamesCompatible(candidates)
      <4>1. candidates # {}
        BY <3>1, FS_EmptySet
      <4>2. QED
        BY <1>3, <1>5, <2>1, <2>2, <3>1, <4>1, RichestIsOne
    <3>2. CASE ~(Cardinality(candidates) > 1 /\ NamesCompatible(candidates))
      BY <1>3, <2>1, <2>2, <3>2, Picked
    <3>3. QED
      BY <3>1, <3>2
  <2>4. QED
    BY <1>1, <1>3, <1>5, <1>7, <2>1, <2>3 DEF result, hits
<1>8. CASE block.phone # <<>> /\ ~(Cardinality(hits) > 1)
  <2>1. result = IF hits = {} /\ block.name # {} THEN Create ELSE PickOnly(hits)
    BY <1>8 DEF ResolveContact, hits
  <2> HIDE DEF result
  <2>2. result.outcome = "found" => hits = {i}
    BY <1>1, <1>5, <2>1, Picked
  <2>3. QED
    BY <1>1, <1>4, <1>5, <1>8, <2>1, <2>2 DEF result, hits
<1>9. QED
  BY <1>6, <1>7, <1>8
-----------------------------------------------------------------------------
(* The run.                                                                 *)

\* The run is in order after the step.
Moved ==
  run' \in Runs /\ run'.driver \in 0..Len(contacts') /\ Slotted(run'.item) /\ Apt'

(* What a run asks of the row, it asks of one that is there.                *)
LEMMA RowThere ==
  ASSUME TypeOK, Present
  PROVE  /\ run.at # "idle" \/ outside # <<>> \/ runs > 0 => row \in Rows
         /\ Absent \notin Rows
<1>1. row \in Rows \/ row = Absent
  BY DEF TypeOK, Rows, RowsOf
<1>2. Absent \notin Rows
  BY DEF Absent, Rows, RowsOf, Statuses, Unset
<1>3. QED
  BY <1>1, <1>2 DEF Present

(* The ways in which a run goes on.                                         *)
LEMMA GotoKept ==
  ASSUME run \in Runs, NEW at \in Nodes, Goto(at)
  PROVE  /\ run' \in Runs /\ run'.at = at /\ run'.item = run.item /\ run'.next = run.next
         /\ run'.todo = run.todo /\ run'.seen = run.seen /\ run'.driver = run.driver
         /\ run'.block = run.block /\ run'.rung = run.rung /\ run'.partial = run.partial
BY DEF Goto, Runs

LEMMA BegunTyped ==
  ASSUME NEW item \in Items, NEW at \in Nodes
  PROVE  /\ Begun(item, at) \in Runs /\ Begun(item, at).at = at
         /\ Begun(item, at).item = item /\ Begun(item, at).driver = 0
         /\ Begun(item, at).todo = <<>> /\ ~Assigned(Begun(item, at).seen)
<1>1. <<>> \in Seq(Commands(Subs))
  OBVIOUS
<1>2. "idle" \in Nodes /\ NoShipment \in Shipments
  BY DEF Nodes, NoShipment, Shipments
<1>3. 0 \in 0..MaxRung /\ 0 \in Nat
  BY Rungs
<1>4. ~Assigned(NoShipment)
  BY DEF Assigned, NoShipment
<1>5. QED
  BY <1>1, <1>2, <1>3, <1>4 DEF Begun, Runs

LEMMA EndKept ==
  ASSUME End
  PROVE  run' \in Runs /\ run'.at = "idle" /\ Slotted(run'.item) /\ run'.driver = 0
<1>1. Item("ratecon", Escalation) \in Items /\ "idle" \in Nodes
  BY DEF Item, Items, Kinds, Nodes
<1>2. Slotted(Item("ratecon", Escalation))
  BY DEF Slotted, Item
<1>3. QED
  BY <1>1, <1>2, BegunTyped DEF End, Idle

(* The end of a run is always in order,                                     *)
LEMMA Ended ==
  ASSUME run' \in Runs, run'.at = "idle", Slotted(run'.item), run'.driver = 0, batch' \in Nat,
         runs' \in Nat, batch' <= runs', contacts' \in Seq(Contacts)
  PROVE  Moved
<1>1. Len(contacts') \in Nat
  BY LenProperties
<1>2. Counted' /\ Granted'
  BY DEF Counted, Granted
<1>3. Errand' /\ Climbing' /\ Shown'
  BY DEF Errand, Climbing, Shown, Fetching
<1>4. Decided'
  BY DEF Decided
<1>5. QED
  BY <1>1, <1>2, <1>3, <1>4 DEF Moved, Apt

(* and a write is if what it does to the row is.                            *)
LEMMA Written ==
  ASSUME TypeOK, Queued, NEW s \in Sendable, NEW next \in {"idle", "append", "confirm"},
         Write(s, next), Decides(s)', next = "append" => run.item.kind = "reminder",
         next = "confirm" => Provided',
         batch' <= runs', batch' \in Nat, runs' \in Nat, Len(contacts) <= Len(contacts'),
         contacts' \in Seq(Contacts)
  PROVE  Moved
<1>1. run \in Runs /\ run.driver \in 0..Len(contacts) /\ "write" \in Nodes /\ next \in Nodes
  BY DEF TypeOK, Nodes
<1>2. /\ run' \in Runs /\ run'.at = "write" /\ run'.todo = s /\ run'.next = next
      /\ run'.item = run.item /\ run'.driver = run.driver
  BY <1>1 DEF Write, Runs, Sendable
<1>3. Len(contacts) \in Nat /\ Len(contacts') \in Nat
  BY LenProperties DEF TypeOK
<1>4. run'.driver \in 0..Len(contacts')
  BY <1>1, <1>2, <1>3
<1>5. Slotted(run'.item)
  BY <1>2 DEF Queued
<1>6. Counted' /\ Granted' /\ Errand' /\ Climbing' /\ Shown'
  BY <1>2 DEF Counted, Granted, Errand, Climbing, Shown, Fetching, Provided
<1>7. Decided'
  BY <1>2, Zenon DEF Decided
<1>8. QED
  BY <1>2, <1>4, <1>5, <1>6, <1>7, Zenon DEF Moved, Apt
\* What most steps of a run leave as it is.
Aside == /\ used' = used /\ batch' = batch /\ runs' = runs /\ contacts' = contacts /\ tms' = tms
         /\ row' = row /\ queue' = queue /\ outside' = outside

(* A run that goes on, takes what it carries along.                         *)
LEMMA Gone ==
  ASSUME TypeOK, Queued, Apt, NEW at \in Nodes \ {"write"}, Goto(at), Aside,
         at = "start" \/ at = "schedule" => batch < runs,
         at = "schedule" /\ batch > 0 => row.status = "completed",
         at \in {"send", "append"} => run.item.kind = "reminder",
         at = "send" => /\ row.sub \notin DriverSkips
                        /\ row.status = "completed" \/ Rung(row.sub) < MaxRung,
         at \notin {"record", "resolve", "create", "put", "fetch", "check"},
         at \in {"success", "complete", "confirm", "finish"} => Provided
  PROVE  Moved
<1>1. run \in Runs /\ run.driver \in 0..Len(contacts) /\ at \in Nodes /\ batch \in Nat
      /\ runs \in Nat
  BY DEF TypeOK
<1>2. batch <= runs
  BY <1>1 DEF Apt, Counted
<1>3. run' \in Runs /\ run'.at = at /\ run'.item = run.item /\ run'.driver = run.driver
  BY <1>1, GotoKept
<1>4. Counted' /\ Granted'
  BY <1>1, <1>2, <1>3 DEF Counted, Granted, Aside
<1>5. Errand'
  BY <1>3 DEF Errand
<1>6. Climbing'
  BY <1>3 DEF Climbing, Aside
<1>7. Decided'
  BY <1>3 DEF Decided
<1>8. Shown'
  <2>1. Provided' <=> Provided
    BY DEF Aside, Provided, Undisturbed, Assigned
  <2>2. QED
    BY <1>3, <2>1 DEF Shown, Fetching, Provided
<1>9. Slotted(run'.item) /\ run'.driver \in 0..Len(contacts')
  BY <1>1, <1>3 DEF Queued, Aside
<1>10. QED
  BY <1>3, <1>4, <1>5, <1>6, <1>7, <1>8, <1>9, Zenon DEF Moved, Apt

(* Runs that do not count as a batch that was scheduled.                    *)
LEMMA Few ==
  ASSUME TypeOK, Apt
  PROVE  /\ batch \in Nat /\ runs \in Nat /\ batch <= runs
         /\ run.at \in {"start", "schedule"} => batch < runs
         /\ contacts \in Seq(Contacts) /\ Len(contacts) \in Nat
         /\ DOMAIN contacts = 1..Len(contacts)
<1>1. batch \in Nat /\ runs \in Nat /\ contacts \in Seq(Contacts)
  BY DEF TypeOK
<1>2. Len(contacts) \in Nat /\ DOMAIN contacts = 1..Len(contacts)
  BY <1>1, LenProperties
<1>3. QED
  BY <1>1, <1>2 DEF Apt, Counted

(* A run that ends or writes without touching anything else.                *)
LEMMA Settles ==
  ASSUME TypeOK, Queued, Apt, Aside
  PROVE  /\ End => Moved
         /\ \A s \in Sendable, next \in {"idle", "append", "confirm"} :
              /\ Write(s, next) /\ Decides(s)
              /\ next = "append" => run.item.kind = "reminder"
              /\ next = "confirm" => Provided
              => Moved
<1>1. batch' <= runs' /\ contacts' \in Seq(Contacts) /\ batch' \in Nat /\ runs' \in Nat
      /\ Len(contacts) <= Len(contacts')
  BY Few DEF Aside
<1>2. End => Moved
  BY <1>1, EndKept, Ended
<1>3. ASSUME NEW s \in Sendable, NEW next \in {"idle", "append", "confirm"},
             Write(s, next), Decides(s), next = "append" => run.item.kind = "reminder",
             next = "confirm" => Provided
      PROVE  Moved
  <2>1. Decides(s)' /\ (next = "confirm" => Provided')
    BY <1>3 DEF Decides, Aside, Provided, Undisturbed, Assigned, Climbs
  <2>2. QED
    BY <1>1, <1>3, <2>1, Written
<1>4. QED
  BY <1>2, <1>3

(* Nothing needs to be in order for a failure or a note to be written.      *)
LEMMA AlwaysDecides ==
  /\ <<Exception>> \in Sendable /\ Decides(<<Exception>>)
  /\ \A category : FailureOf(category) \in Sendable /\ Decides(FailureOf(category))
  /\ \A v : \A s \in DriverStarted(v) : s \in Sendable /\ Decides(s)
  /\ \A v : \A s \in DriverEscalated(v) : s \in Sendable /\ Decides(s)
<1>1. \A s : Keeps(s) => Decides(s)
  BY Zenon DEF Decides
<1>2. \A s : Sets(s, "driver_assignment_started") => Decides(s)
  BY Zenon DEF Decides
<1>3. \A s : Reviews(s, "escalated") => Decides(s)
  BY Zenon DEF Decides
<1>4. \A v : \A s \in DriverEscalated(v) : s \in Sendable /\ Reviews(s, "escalated")
  <2>1. "escalated" \in Subs
    BY Known
  <2>2. \A v : DriverEscalated(v) \subseteq {<<Action, ReviewStep(v, "escalated")>>}
    BY DEF DriverEscalated, When
  <2>3. QED
    BY <2>1, <2>2, ReviewReviews
<1>5. QED
  BY <1>1, <1>2, <1>3, <1>4, FailureKeeps, StartedSets
(* The first nodes of a cycle.                                              *)
LEMMA StartMoved ==
  ASSUME TypeOK, Present, Queued, Apt, Prepare \/ CheckStart \/ Schedule \/ RecordStarted
  PROVE  Moved
<1>1. run \in Runs /\ {"start", "schedule", "started"} \subseteq Nodes
  BY DEF TypeOK, Nodes
<1>2. CASE Prepare
  <2>1. run.at = "prepare" /\ contacts' = contacts /\ batch' = batch
    BY <1>2, Zenon DEF Prepare, Quiet
  <2>2. CASE End /\ runs' = runs
    BY <2>1, <2>2, EndKept, Ended, Few
  <2>3. CASE Goto("start") /\ runs' = runs + 1
    <3>1. run' \in Runs /\ run'.at = "start" /\ run'.item = run.item /\ run'.driver = run.driver
      BY <1>1, <2>3, GotoKept
    <3>2. Counted'
      <4>1. batch < runs + 1 /\ batch <= runs + 1
        BY Few
      <4>2. QED
        BY <2>1, <2>3, <4>1 DEF Counted
    <3>3. Granted' /\ Errand' /\ Climbing' /\ Decided' /\ Shown'
      BY <3>1 DEF Granted, Errand, Climbing, Decided, Shown, Fetching
    <3>4. Slotted(run'.item) /\ run'.driver \in 0..Len(contacts')
      BY <2>1, <3>1 DEF Queued, TypeOK
    <3>5. QED
      BY <3>1, <3>2, <3>3, <3>4, Zenon DEF Moved, Apt
  <2>4. QED
    BY <1>2, <2>2, <2>3, Zenon DEF Prepare
<1>3. CASE CheckStart
  <2>1. Aside /\ run.at = "start"
    BY <1>3, Zenon DEF CheckStart, Quiet, Aside
  <2>2. CASE Goto("schedule") /\ MayStart(runs - 1)
    <3>1. batch > 0 => row.status = "completed"
      BY <2>1, <2>2, Few DEF MayStart, Cancelled
    <3>2. batch < runs
      BY <2>1, Few
    <3>3. "schedule" \in Nodes \ {"write"}
      BY <1>1
    <3>4. QED
      BY <2>1, <2>2, <3>1, <3>2, <3>3, Gone
  <2>3. QED
    BY <1>3, <2>1, <2>2, Settles, Zenon DEF CheckStart
<1>4. CASE Schedule
  <2>1. CASE Goto("started") /\ batch' = batch
    <3>1. Aside
      BY <1>4, <2>1, Zenon DEF Schedule, Quiet, Aside
    <3>2. "started" \in Nodes \ {"write"}
      BY <1>1
    <3>3. QED
      BY <2>1, <3>1, <3>2, Gone
  <2>2. CASE batch' = batch + 1
    <3>1. contacts' = contacts /\ runs' = runs /\ run.at = "schedule"
      BY <1>4, Zenon DEF Schedule, Quiet
    <3>2. batch' \in Nat /\ batch' <= runs'
      BY <2>2, <3>1, Few
    <3>3. CASE End
      <4>1. runs' \in Nat /\ contacts' \in Seq(Contacts)
        BY <3>1, Few
      <4>2. QED
        BY <3>2, <3>3, <4>1, EndKept, Ended
    <3>4. CASE Goto("started")
      <4>1. /\ run' \in Runs /\ run'.at = "started" /\ run'.item = run.item
            /\ run'.driver = run.driver
        BY <1>1, <3>4, GotoKept
      <4>2. Counted' /\ Granted' /\ Errand' /\ Climbing' /\ Decided' /\ Shown'
        BY <3>2, <4>1 DEF Counted, Granted, Errand, Climbing, Decided, Shown, Fetching
      <4>3. Slotted(run'.item) /\ run'.driver \in 0..Len(contacts')
        BY <3>1, <4>1 DEF Queued, TypeOK
      <4>4. QED
        BY <4>1, <4>2, <4>3, Zenon DEF Moved, Apt
    <3>5. QED
      BY <1>4, <3>3, <3>4, Zenon DEF Schedule
  <2>3. (Goto("started") /\ batch' = batch) \/ batch' = batch + 1
    BY <1>4, Zenon DEF Schedule
  <2>4. QED
    BY <2>1, <2>2, <2>3
<1>5. CASE RecordStarted
  <2>1. Aside
    BY <1>5, Zenon DEF RecordStarted, Quiet, Aside
  <2>2. End \/ \E s \in DriverStarted(row) : Write(s, "idle")
    BY <1>5, Zenon DEF RecordStarted
  <2>3. QED
    BY <2>1, <2>2, AlwaysDecides, Settles, Zenon
<1>6. QED
  BY <1>2, <1>3, <1>4, <1>5

(* A delayed event up to what it sends.                                     *)
LEMMA DelayedMoved ==
  ASSUME TypeOK, Present, Queued, Apt, Escalated,
         Fetch \/ CheckReminder \/ CheckEscalation \/ Post \/ EndGraph \/ RecordEscalation
  PROVE  Moved
<1>1. /\ run \in Runs /\ tms \in Shipments
      /\ {"check", "complete", "send", "post", "escalated", "end", "write"} \subseteq Nodes
  BY DEF TypeOK, Nodes
<1>2. Aside
  BY Zenon DEF Fetch, CheckReminder, CheckEscalation, Post, EndGraph, RecordEscalation, Quiet, Aside
<1>3. CASE Fetch
  <2>1. run.at = "fetch" /\ (Undisturbed /\ Assigned(run.seen) => Assigned(tms))
    BY <1>3 DEF Fetch, Apt, Shown, Fetching
  <2>2. ASSUME /\ run' \in Runs /\ run'.item = run.item /\ run'.driver = run.driver
               /\ run'.seen \in {run.seen, tms}
               /\ \/ run'.at = "check"
                  \/ run'.at = "write" /\ run'.next = "check" /\ run'.todo = <<Exception>>
        PROVE  Moved
    <3>1. Counted' /\ Granted' /\ Errand' /\ Climbing'
      BY <1>2, <2>2, Few DEF Counted, Granted, Errand, Climbing, Aside
    <3>2. Decided'
      <4>1. Decides(<<Exception>>)'
        BY AlwaysDecides, FailureKeeps, Zenon DEF Decides, Keeps
      <4>2. CASE run'.at = "check"
        BY <4>2 DEF Decided
      <4>3. CASE run'.todo = <<Exception>>
        BY <4>1, <4>3, Zenon DEF Decided
      <4>4. QED
        BY <2>2, <4>2, <4>3
    <3>3. Shown'
      BY <1>2, <2>1, <2>2 DEF Shown, Fetching, Assigned, Undisturbed, Aside
    <3>4. Slotted(run'.item) /\ run'.driver \in 0..Len(contacts')
      BY <1>2, <2>2 DEF Queued, TypeOK, Aside
    <3>5. QED
      BY <2>2, <3>1, <3>2, <3>3, <3>4, Zenon DEF Moved, Apt
  <2>3. CASE run' = [run EXCEPT !.at = "check", !.seen = tms]
    BY <1>1, <2>2, <2>3 DEF Runs
  <2>4. CASE Goto("check")
    BY <1>1, <2>2, <2>4, GotoKept
  <2>5. CASE Write(<<Exception>>, "check")
    <3>1. <<Exception>> \in Seq(Commands(Subs))
      BY AlwaysDecides DEF Sendable
    <3>2. QED
      BY <1>1, <2>2, <2>5, <3>1 DEF Write, Runs
  <2>6. QED
    BY <1>3, <2>3, <2>4, <2>5, Zenon DEF Fetch
<1>4. ASSUME run.at = "check", Goto("complete"), Assigned(run.seen)
      PROVE  Moved
  <2>1. Provided
    BY <1>4 DEF Apt, Shown, Fetching, Provided
  <2>2. "complete" \in Nodes \ {"write"}
    BY <1>1
  <2>3. QED
    BY <1>2, <1>4, <2>1, <2>2, Gone
<1>5. CASE CheckReminder
  <2>1. run.at = "check" /\ run.item.kind = "reminder"
    BY <1>5, Zenon DEF CheckReminder
  <2>2. CASE Goto("send") /\ ~BlocksReminder(row) /\ Rung(row.sub) # MaxRung
    <3>1. row.sub \notin DriverSkips
      BY <2>2, OffLadder, Rungs DEF BlocksReminder, DriverSkips, Escalated
    <3>2. Rung(row.sub) < MaxRung
      BY <2>2, Rungs
    <3>3. "send" \in Nodes \ {"write"}
      BY <1>1
    <3>4. QED
      BY <1>2, <2>1, <2>2, <3>1, <3>2, <3>3, Gone
  <2>3. QED
    BY <1>2, <1>4, <1>5, <2>1, <2>2, Settles, Zenon DEF CheckReminder
<1>6. CASE CheckEscalation
  <2>1. run.at = "check"
    BY <1>6, Zenon DEF CheckEscalation
  <2>2. CASE Goto("post")
    <3>1. "post" \in Nodes \ {"write"}
      BY <1>1
    <3>2. QED
      BY <1>2, <2>2, <3>1, Gone
  <2>3. QED
    BY <1>2, <1>4, <1>6, <2>1, <2>2, Settles, Zenon DEF CheckEscalation
<1>7. CASE Post
  <2>1. CASE Goto("escalated")
    <3>1. "escalated" \in Nodes \ {"write"}
      BY <1>1
    <3>2. QED
      BY <1>2, <2>1, <3>1, Gone
  <2>2. CASE Goto("end")
    <3>1. "end" \in Nodes \ {"write"}
      BY <1>1
    <3>2. QED
      BY <1>2, <2>2, <3>1, Gone
  <2>3. QED
    BY <1>2, <1>7, <2>1, <2>2, Settles, Zenon DEF Post
<1>8. CASE RecordEscalation
  <2>1. End \/ \E s \in DriverEscalated(row) : Write(s, "idle")
    BY <1>8, Zenon DEF RecordEscalation
  <2>2. QED
    BY <1>2, <2>1, AlwaysDecides, Settles, Zenon
<1>9. CASE EndGraph
  BY <1>2, <1>9, Settles, Zenon DEF EndGraph
<1>10. QED
  BY <1>3, <1>5, <1>6, <1>7, <1>8, <1>9
(* A reminder or a follow-up, from the mail to the record.                  *)
LEMMA ReminderMoved ==
  ASSUME TypeOK, Present, Queued, Apt,
         SendReminder \/ SendFollowUp \/ RecordReminder \/ AppendSent
  PROVE  Moved
<1>1. run \in Runs /\ "record" \in Nodes
  BY DEF TypeOK, Nodes
<1>2. Aside
  BY Zenon DEF SendReminder, SendFollowUp, RecordReminder, AppendSent, Quiet, Aside
<1>3. ASSUME NEW partial \in BOOLEAN, NEW rung \in 0..MaxRung,
             run' = [run EXCEPT !.at = "record", !.partial = partial, !.rung = rung],
             ~partial => run.item.kind = "reminder", rung # 0 => Climbs(rung)
      PROVE  Moved
  <2>1. /\ run' \in Runs /\ run'.at = "record" /\ run'.item = run.item
        /\ run'.driver = run.driver /\ run'.partial = partial /\ run'.rung = rung
    BY <1>1, <1>3 DEF Runs
  <2>2. Counted' /\ Granted' /\ Errand' /\ Decided' /\ Shown'
    BY <1>2, <1>3, <2>1, Few DEF Counted, Granted, Errand, Decided, Shown, Fetching, Undisturbed, Aside
  <2>3. Climbing'
    BY <1>2, <1>3, <2>1 DEF Climbing, Climbs, Aside
  <2>4. Slotted(run'.item) /\ run'.driver \in 0..Len(contacts')
    BY <1>2, <2>1 DEF Queued, TypeOK, Aside
  <2>5. QED
    BY <2>1, <2>2, <2>3, <2>4, Zenon DEF Moved, Apt
<1>4. /\ MaxRung = 4 /\ Rung(row.sub) \in 0..4 /\ NextRung(row.sub) \in 0..MaxRung
      /\ Rung(row.sub) < MaxRung => NextRung(row.sub) = Rung(row.sub) + 1
  BY Rungs DEF NextRung
<1>5. CASE SendReminder
  <2>1. run.at = "send" /\ run.item.kind = "reminder"
    BY <1>5 DEF SendReminder, Apt, Errand
  <2>2. CASE run' = [run EXCEPT !.at = "record", !.rung = NextRung(row.sub)]
    <3>1. /\ run.partial \in BOOLEAN
          /\ run' = [run EXCEPT !.at = "record", !.partial = run.partial, !.rung = NextRung(row.sub)]
      BY <1>1, <2>2 DEF Runs
    <3>2. Climbs(NextRung(row.sub))
      BY <1>4, <2>1 DEF Climbs, Apt, Climbing
    <3>3. QED
      BY <1>3, <1>4, <2>1, <3>1, <3>2
  <2>3. CASE run' = [run EXCEPT !.at = "record", !.rung = 0]
    <3>1. /\ run.partial \in BOOLEAN
          /\ run' = [run EXCEPT !.at = "record", !.partial = run.partial, !.rung = 0]
      BY <1>1, <2>3 DEF Runs
    <3>2. 0 \in 0..MaxRung
      BY <1>4
    <3>3. QED
      BY <1>3, <2>1, <3>1, <3>2
  <2>4. QED
    BY <1>5, <2>2, <2>3, Zenon DEF SendReminder
<1>6. CASE SendFollowUp
  <2> DEFINE rung == IF Rung(row.sub) = MaxRung THEN 0 ELSE NextRung(row.sub)
  <2>1. rung \in 0..MaxRung /\ (rung # 0 => Climbs(rung))
    BY <1>4 DEF Climbs
  <2>2. CASE run' = [run EXCEPT !.at = "record", !.partial = TRUE, !.rung = rung]
    <3> HIDE DEF rung
    <3>1. QED
      BY <1>3, <2>1, <2>2
  <2>3. QED
    BY <1>2, <1>6, <2>2, Settles, Zenon DEF SendFollowUp
<1>7. CASE RecordReminder
  <2> DEFINE s == <<Action, ReviewStep(row, Ladder[run.rung])>>
             next == IF run.partial THEN "idle" ELSE "append"
  <2>1. run.at = "record"
    BY <1>7, Zenon DEF RecordReminder
  <2>2. CASE End
    BY <1>2, <2>2, Settles
  <2>3. CASE Write(s, next) /\ ~DelayedSkip(row, DriverSkips) /\ run.rung # 0
    <3>1. run.rung \in 1..4
      BY <1>1, <2>3, Rungs DEF Runs
    <3>2. s \in Sendable /\ Reviews(s, Ladder[run.rung])
      BY <3>1, Rungs, ReviewReviews
    <3>3. row.sub \notin DriverSkips
      BY <2>3 DEF DelayedSkip
    <3>4. Climbs(run.rung)
      BY <2>1, <2>3 DEF Apt, Climbing
    <3>5. next \in {"idle", "append"} /\ (next = "append" => run.item.kind = "reminder")
      BY <2>1 DEF Apt, Errand
    <3>6. Write(s, next)
      BY <2>3
    <3> HIDE DEF s, next
    <3>7. \E n \in 1..MaxRung :
            Reviews(s, Ladder[n]) /\ row.sub \notin DriverSkips /\ Climbs(n)
      BY <1>4, <3>1, <3>2, <3>3, <3>4
    <3>8. Decides(s)
      BY <3>7, Zenon DEF Decides
    <3>9. QED
      BY <1>2, <3>2, <3>5, <3>6, <3>8, Settles
  <2>4. QED
    BY <1>7, <2>2, <2>3, Zenon DEF RecordReminder
<1>8. CASE AppendSent
  BY <1>2, <1>8, Settles, Zenon DEF AppendSent
<1>9. QED
  BY <1>5, <1>6, <1>7, <1>8

(* A reply up to the search for the driver.                                 *)
LEMMA ReplyMoved ==
  ASSUME TypeOK, Present, Queued, Apt, Delivered, Classify \/ ResolveDriver
  PROVE  Moved
<1>1. /\ run \in Runs /\ tms \in Shipments /\ run.driver \in 0..Len(contacts)
      /\ {"idle", "resolve", "follow_up", "create", "complete", "put"} \subseteq Nodes
      /\ NoShipment \in Shipments /\ Len(contacts) \in Nat /\ DOMAIN contacts = 1..Len(contacts)
  BY Few DEF TypeOK, Nodes, NoShipment, Shipments
<1>2. Aside
  BY Zenon DEF Classify, ResolveDriver, Quiet, Aside
<1>3. \A at : Forget(at) => run' = [run EXCEPT !.at = at, !.block = NoBlock, !.driver = 0,
                                               !.seen = NoShipment]
  BY Zenon DEF Forget
<1>4. ASSUME NEW at \in {"idle", "resolve", "follow_up", "create", "complete", "put"},
             NEW block \in Blocks \cup {NoBlock}, NEW driver \in 0..Len(contacts),
             NEW seen \in Shipments,
             run' = [run EXCEPT !.at = at, !.block = block, !.driver = driver, !.seen = seen],
             at = "put" => driver # 0,
             at \in {"resolve", "create", "put"} => block \in Blocks /\ Searchable(block),
             at \in {"create", "put"} => seen = tms, at = "complete" => tms.drivers # {}
      PROVE  Moved
  <2>1. /\ run' \in Runs /\ run'.at = at /\ run'.item = run.item /\ run'.driver = driver
        /\ run'.block = block /\ run'.seen = seen
    <3>1. at \in Nodes /\ driver \in Nat
      BY <1>1
    <3>2. QED
      BY <1>1, <1>4, <3>1 DEF Runs
  <2>2. Counted' /\ Granted' /\ Climbing' /\ Decided'
    BY <1>2, <1>4, <2>1, Few DEF Counted, Granted, Climbing, Decided, Aside
  <2>3. Errand' /\ Shown'
    <3>1. Errand'
      BY <1>1, <1>2, <1>4, <2>1 DEF Errand, Aside
    <3>2. tms' = tms
      BY <1>2 DEF Aside
    <3>3. at = "complete" => Assigned(tms')
      BY <1>4, <3>2 DEF Assigned
    <3>4. Shown'
      BY <1>4, <2>1, <3>2, <3>3 DEF Shown, Fetching
    <3>5. QED
      BY <3>1, <3>4
  <2>4. Slotted(run'.item) /\ run'.driver \in 0..Len(contacts')
    BY <1>2, <2>1 DEF Queued, Aside
  <2>5. QED
    BY <2>1, <2>2, <2>3, <2>4, Zenon DEF Moved, Apt
<1>5. CASE Classify
  <2>1. CASE End
    BY <1>2, <2>1, Settles
  <2>2. ASSUME NEW block \in Blocks,
               run' = [run EXCEPT !.at = Routed(block),
                                  !.block = IF Searchable(block) THEN block ELSE NoBlock]
        PROVE  Moved
    <3> DEFINE at == Routed(block)
               kept == IF Searchable(block) THEN block ELSE NoBlock
    <3>1. /\ at \in {"idle", "resolve", "follow_up"} /\ kept \in Blocks \cup {NoBlock}
          /\ at = "resolve" => kept \in Blocks /\ Searchable(kept)
      BY DEF Routed
    <3>2. run.driver \in 0..Len(contacts) /\ run.seen \in Shipments
      BY <1>1 DEF Runs
    <3> HIDE DEF at, kept
    <3>3. run' = [run EXCEPT !.at = at, !.block = kept, !.driver = run.driver, !.seen = run.seen]
      BY <1>1, <2>2 DEF Runs, at, kept
    <3>4. QED
      BY <1>4, <3>1, <3>2, <3>3
  <2>3. QED
    BY <1>5, <2>1, <2>2, Zenon DEF Classify
<1>6. CASE ResolveDriver
  <2>1. run.at = "resolve" /\ run.block \in Blocks /\ Searchable(run.block)
    BY <1>6 DEF ResolveDriver, Apt, Errand
  <2>2. Directed
    BY <1>1 DEF Directed, TypeOK
  <2>3. CASE Forget("follow_up")
    <3>1. NoBlock \in Blocks \cup {NoBlock} /\ 0 \in 0..Len(contacts)
      BY <1>1
    <3>2. QED
      BY <1>1, <1>3, <1>4, <2>3, <3>1
  <2>4. CASE Unresolved
    BY <1>2, <2>4, AlwaysDecides, Settles DEF Unresolved
  <2>5. ASSUME NEW lost \in SUBSET DOMAIN contacts, NEW reached \in BOOLEAN,
               Outcome(ResolveContact(run.block, reached, tms.drivers, lost))
        PROVE  Moved
    <3> DEFINE result == ResolveContact(run.block, reached, tms.drivers, lost)
    <3>1. result.outcome = "found" => result.id \in CarrierDrivers
      BY <2>1, <2>2, <2>5, Resolved
    <3>2. result.outcome = "found" => result.id \in 1..Len(contacts)
      BY <1>1, <3>1 DEF CarrierDrivers, Linked
    <3> HIDE DEF result
    <3>3. CASE result.outcome = "create" /\ run' = [run EXCEPT !.at = "create", !.seen = tms]
      <4>1. run' = [run EXCEPT !.at = "create", !.block = run.block, !.driver = run.driver,
                               !.seen = tms]
        BY <1>1, <3>3 DEF Runs
      <4>2. QED
        BY <1>1, <1>4, <2>1, <4>1
    <3>4. CASE result.id \in tms.drivers /\ Forget("complete")
      <4>1. NoBlock \in Blocks \cup {NoBlock} /\ 0 \in 0..Len(contacts) /\ tms.drivers # {}
        BY <1>1, <3>4
      <4>2. QED
        BY <1>1, <1>3, <1>4, <3>4, <4>1
    <3>5. CASE /\ result.outcome = "found"
               /\ run' = [run EXCEPT !.at = "put", !.seen = tms, !.driver = result.id]
      <4>1. run' = [run EXCEPT !.at = "put", !.block = run.block, !.driver = result.id,
                               !.seen = tms]
        BY <1>1, <3>5 DEF Runs
      <4>2. result.id \in 0..Len(contacts) /\ result.id # 0
        BY <1>1, <3>2, <3>5
      <4>3. QED
        BY <1>1, <1>4, <2>1, <4>1, <4>2
    <3>6. QED
      BY <2>3, <2>5, <3>3, <3>4, <3>5, Zenon DEF Outcome, result
  <2>6. QED
    <3>1. \/ Forget("follow_up") \/ Unresolved
          \/ \E lost \in SUBSET DOMAIN contacts, reached \in BOOLEAN :
               Outcome(ResolveContact(run.block, reached, tms.drivers, lost))
      BY <1>6 DEF ResolveDriver
    <3>2. QED
      BY <2>3, <2>4, <2>5, <3>1
<1>7. QED
  BY <1>5, <1>6
(* The contact that is created is well typed.                               *)
LEMMA CreatedTyped ==
  ASSUME NEW c \in Seq(Contacts), NEW block \in Blocks
  PROVE  LET new == Append(c, Created(block)) IN
         /\ Created(block) \in Contacts /\ new \in Seq(Contacts)
         /\ Len(new) = Len(c) + 1 /\ new[Len(c) + 1] = Created(block)
         /\ \A i \in 1..Len(c) : new[i] = c[i]
         /\ DOMAIN new = 1..(Len(c) + 1)
<1>1. block.name \in Names /\ block.phone \in Phones
  BY BlocksAssumption
<1>2. Digits(block.phone) \in Phones
  BY <1>1, DigitsLeft DEF Digits
<1>3. Created(block) \in Contacts
  BY <1>1, <1>2 DEF Created, Contacts
<1> DEFINE new == Append(c, Created(block))
<1>4. /\ new \in Seq(Contacts) /\ Len(new) = Len(c) + 1
      /\ new[Len(c) + 1] = Created(block)
      /\ \A i \in 1..Len(c) : new[i] = c[i]
  BY <1>3, AppendProperties
<1>5. DOMAIN new = 1..(Len(c) + 1)
  BY <1>4, LenProperties
<1>6. QED
  BY <1>3, <1>4, <1>5

(* A run that ends on a failure may have changed the TMS.                   *)
LEMMA Unsettled ==
  ASSUME TypeOK, Queued, Apt, Unresolved, batch' = batch, runs' = runs,
         contacts' \in Seq(Contacts), Len(contacts) <= Len(contacts')
  PROVE  Moved
<1>1. batch' <= runs' /\ batch' \in Nat /\ runs' \in Nat
  BY Few
<1>2. CASE End
  BY <1>1, <1>2, EndKept, Ended
<1>3. CASE Write(<<Exception>>, "idle")
  <2>1. <<Exception>> \in Sendable /\ Keeps(<<Exception>>)
    BY FailureKeeps
  <2>2. ASSUME NEW s \in Sendable, Keeps(s), Write(s, "idle")
        PROVE  Moved
    <3>1. Decides(s)'
      BY <2>2, Zenon DEF Decides, Keeps
    <3>2. QED
      BY <1>1, <2>2, <3>1, Written
  <2>3. QED
    BY <1>3, <2>1, <2>2
<1>4. QED
  BY <1>2, <1>3 DEF Unresolved

(* The TMS is told.                                                         *)
LEMMA ToldMoved ==
  ASSUME TypeOK, Present, Queued, Apt, CreateContact \/ Put
  PROVE  Moved
<1>1. /\ run \in Runs /\ tms \in Shipments /\ run.driver \in 0..Len(contacts)
      /\ {"put", "success"} \subseteq Nodes
      /\ NoShipment \in Shipments /\ NoBlock \in Blocks \cup {NoBlock}
  BY DEF TypeOK, Nodes, NoShipment, Shipments
<1>2. /\ batch' = batch /\ runs' = runs /\ row' = row /\ used' = used /\ Len(contacts) \in Nat
      /\ batch <= runs /\ contacts \in Seq(Contacts) /\ DOMAIN contacts = 1..Len(contacts)
  BY Few, Zenon DEF CreateContact, Put, Quiet
<1>3. CASE CreateContact
  <2> DEFINE new == Append(contacts, Created(run.block))
  <2>1. run.at = "create" /\ run.block \in Blocks /\ Searchable(run.block) /\ tms' = tms
    BY <1>3 DEF CreateContact, Apt, Errand
  <2>2. /\ new \in Seq(Contacts) /\ Len(new) = Len(contacts) + 1
        /\ DOMAIN new = 1..(Len(contacts) + 1)
    BY <1>2, <2>1, CreatedTyped
  <2> HIDE DEF new
  <2>3. CASE contacts' = new /\ run' = [run EXCEPT !.at = "put", !.driver = Len(contacts')]
    <3>1. /\ Len(contacts') \in DOMAIN contacts' /\ Len(contacts') \in Nat
          /\ Len(contacts') \in 0..Len(contacts')
      BY <1>2, <2>2, <2>3
    <3>2. /\ run' \in Runs /\ run'.at = "put" /\ run'.item = run.item
          /\ run'.driver = Len(contacts') /\ run'.block = run.block /\ run'.seen = run.seen
      BY <1>1, <2>3, <3>1 DEF Runs
    <3>3. Counted' /\ Granted' /\ Climbing' /\ Decided'
      BY <1>2, <3>2 DEF Counted, Granted, Climbing, Decided
    <3>4. Errand'
      BY <2>1, <3>1, <3>2 DEF Errand
    <3>5. Shown'
      BY <1>2, <2>1, <3>2 DEF Apt, Shown, Fetching, Undisturbed
    <3>6. Slotted(run'.item) /\ run'.driver \in 0..Len(contacts')
      BY <3>1, <3>2 DEF Queued
    <3>7. QED
      BY <3>2, <3>3, <3>4, <3>5, <3>6, Zenon DEF Moved, Apt
  <2>4. CASE contacts' \in {contacts, new} /\ Unresolved
    BY <1>2, <2>2, <2>4, Unsettled
  <2>5. QED
    BY <1>3, <2>3, <2>4, Zenon DEF CreateContact, new
<1>4. CASE Put
  <2>1. run.at = "put" /\ run.driver \in DOMAIN contacts /\ contacts' = contacts
    BY <1>4 DEF Put, Quiet, Apt, Errand
  <2>2. CASE tms' = [tms EXCEPT !.drivers = DriversAfterPut(run.seen)] /\ Forget("success")
    <3>1. /\ run' \in Runs /\ run'.at = "success" /\ run'.item = run.item /\ run'.driver = 0
      BY <1>1, <2>2 DEF Runs, Forget
    <3>2. run.driver \in tms'.drivers
      BY <1>1, <2>2 DEF Shipments, DriversAfterPut
    <3>3. Assigned(tms')
      BY <3>2 DEF Assigned
    <3>4. Counted' /\ Granted' /\ Climbing' /\ Decided' /\ Errand'
      BY <1>2, <3>1 DEF Counted, Granted, Climbing, Decided, Errand
    <3>5. Shown'
      BY <3>1, <3>3 DEF Shown
    <3>6. Slotted(run'.item) /\ run'.driver \in 0..Len(contacts')
      BY <1>2, <2>1, <3>1 DEF Queued
    <3>7. QED
      BY <3>1, <3>4, <3>5, <3>6, Zenon DEF Moved, Apt
  <2>3. CASE Unresolved
    BY <1>2, <2>1, <2>3, Unsettled
  <2>4. QED
    BY <1>4, <2>2, <2>3, Zenon DEF Put
<1>5. QED
  BY <1>3, <1>4

(* The end of a cycle, and of a run.                                        *)
LEMMA CompletionMoved ==
  ASSUME TypeOK, Present, Queued, Apt,
         RecordSuccess \/ CompleteFromTms \/ Confirm \/ Finish \/ Raise
  PROVE  Moved
<1>1. Aside
  BY Zenon DEF RecordSuccess, CompleteFromTms, Confirm, Finish, Raise, Quiet, Aside
<1>2. run.at # "idle"
  BY DEF RecordSuccess, CompleteFromTms, Confirm, Finish, Raise
<1>3. row \in Rows
  BY <1>2, RowThere
<1>4. ASSUME run.at \in {"success", "complete", "finish"},
             NEW s \in UNION {DriverAssigned(row), DriverAlreadyAssigned(row), DriverCompleted(row)}
      PROVE  s \in Sendable /\ Decides(s)
  <2>1. Provided
    BY <1>4 DEF Apt, Shown, Provided
  <2>2. s \in Sendable /\ (Keeps(s) \/ Sets(s, "uploaded_to_tms"))
    BY <1>3, <1>4, AssignedSets
  <2>3. QED
    BY <2>1, <2>2, Zenon DEF Decides
<1>5. CASE RecordSuccess
  <2>1. run.at = "success" /\ \E s \in DriverAssigned(row) : Write(s, "confirm")
    BY <1>5, Zenon DEF RecordSuccess
  <2>2. Provided
    BY <2>1 DEF Apt, Shown, Provided
  <2>3. QED
    BY <1>1, <1>4, <2>1, <2>2, Settles
<1>6. CASE CompleteFromTms
  <2>1. run.at = "complete" /\ \E s \in DriverAlreadyAssigned(row) : Write(s, "idle")
    BY <1>6, Zenon DEF CompleteFromTms
  <2>2. QED
    BY <1>1, <1>4, <2>1, Settles
<1>7. CASE Confirm
  <2>1. run.at = "confirm" /\ (Goto("finish") \/ Write(FailureOf("system"), "idle"))
    BY <1>7, Zenon DEF Confirm
  <2>2. CASE Goto("finish")
    <3>1. Provided
      BY <2>1 DEF Apt, Shown, Provided
    <3>2. "finish" \in Nodes \ {"write"}
      BY DEF Nodes
    <3>3. QED
      BY <1>1, <2>2, <3>1, <3>2, Gone
  <2>3. QED
    BY <1>1, <2>1, <2>2, AlwaysDecides, Settles
<1>8. CASE Finish
  <2>1. run.at = "finish" /\ (End \/ \E s \in DriverCompleted(row) : Write(s, "idle"))
    BY <1>8, Zenon DEF Finish
  <2>2. QED
    BY <1>1, <1>4, <2>1, Settles
<1>9. CASE Raise
  BY <1>1, <1>9, Settles, Zenon DEF Raise
<1>10. QED
  BY <1>5, <1>6, <1>7, <1>8, <1>9

(* After a write the run is over, or goes on where it was to.               *)
LEMMA WriteMoved ==
  ASSUME TypeOK, Present, Queued, Apt, WriteRow
  PROVE  Moved
<1>1. /\ run \in Runs /\ run.driver \in 0..Len(contacts) /\ {"append", "confirm", "check"} \subseteq Nodes
      /\ <<>> \in Seq(Commands(Subs))
  BY DEF TypeOK, Nodes
<1>2. /\ run.at = "write" /\ run.next \in {"idle", "append", "confirm", "check"}
      /\ batch' = batch /\ runs' = runs /\ contacts' = contacts /\ tms' = tms /\ used' = used
  BY DEF WriteRow, Quiet, Apt, Errand
<1>3. CASE End
  BY <1>2, <1>3, EndKept, Ended, Few
<1>4. CASE run.next # "idle" /\ run' = [run EXCEPT !.at = run.next, !.todo = <<>>]
  <2>1. /\ run' \in Runs /\ run'.at = run.next /\ run'.item = run.item /\ run'.driver = run.driver
        /\ run'.seen = run.seen /\ run.next \in {"append", "confirm", "check"}
    BY <1>1, <1>2, <1>4 DEF Runs
  <2>2. Counted' /\ Granted' /\ Climbing' /\ Decided'
    BY <1>2, <2>1, Few DEF Counted, Granted, Climbing, Decided
  <2>3. Errand'
    BY <1>2, <2>1 DEF Apt, Errand
  <2>4. Shown'
    BY <1>2, <2>1 DEF Apt, Shown, Fetching, Assigned, Undisturbed
  <2>5. Slotted(run'.item) /\ run'.driver \in 0..Len(contacts')
    BY <1>1, <1>2, <2>1 DEF Queued
  <2>6. QED
    BY <2>1, <2>2, <2>3, <2>4, <2>5, Zenon DEF Moved, Apt
<1>5. QED
  BY <1>3, <1>4 DEF WriteRow, AfterWrite
-----------------------------------------------------------------------------
(* What a step leaves alone.                                                *)

(* A run changes the row, the tasks and the TMS at a few nodes only.        *)
LEMMA RunFrame ==
  ASSUME Node \/ Raise
  PROVE  /\ queue' = queue /\ passed' = passed /\ outside' = outside /\ used' = used
         /\ ~WriteRow => row' = row
         /\ ~Schedule => batch' = batch
         /\ ~Schedule /\ ~RecordSuccess /\ ~CompleteFromTms => tasks' = tasks
         /\ ~AppendSent => sent' = sent
         /\ ~Prepare => runs' = runs
         /\ ~CreateContact => contacts' = contacts
         /\ ~Put => tms' = tms
<1>1. CASE Prepare \/ CheckStart \/ Schedule \/ RecordStarted
  BY <1>1, Zenon DEF Prepare, CheckStart, Schedule, RecordStarted, Quiet
<1>2. CASE Fetch \/ CheckReminder \/ SendReminder \/ RecordReminder
  BY <1>2, Zenon DEF Fetch, CheckReminder, SendReminder, RecordReminder, Quiet
<1>3. CASE AppendSent \/ CheckEscalation \/ Post \/ EndGraph \/ RecordEscalation
  BY <1>3, Zenon DEF AppendSent, CheckEscalation, Post, EndGraph, RecordEscalation, Quiet
<1>4. CASE Classify \/ ResolveDriver \/ CreateContact \/ SendFollowUp
  BY <1>4, Zenon DEF Classify, ResolveDriver, CreateContact, SendFollowUp, Quiet
<1>5. CASE Put \/ RecordSuccess \/ CompleteFromTms
  BY <1>5, Zenon DEF Put, RecordSuccess, CompleteFromTms, Quiet
<1>6. CASE Confirm \/ Finish \/ WriteRow \/ Raise
  BY <1>6, Zenon DEF Confirm, Finish, WriteRow, Raise, Quiet
<1>7. QED
  BY <1>1, <1>2, <1>3, <1>4, <1>5, <1>6, Zenon DEF Node

\* The steps of the others, and none.
Beside == \/ RateconPasses \/ RateconEnqueues \/ ReplyArrives
          \/ \E t \in tasks : Fire(t)
          \/ \E kind \in Outsiders : OutsideDecides(kind)
          \/ OutsideWrites \/ Dispatch \/ UNCHANGED vars

(* They leave the run, its batches and the contacts.                        *)
LEMMA BesideFrame ==
  ASSUME Beside
  PROVE  /\ run' = run /\ batch' = batch /\ sent' = sent /\ runs' = runs /\ contacts' = contacts
         /\ ~RateconEnqueues /\ ~OutsideWrites => row' = row
         /\ ~Dispatch => tms' = tms
<1>1. CASE RateconPasses \/ RateconEnqueues \/ ReplyArrives
  BY <1>1, Zenon DEF RateconPasses, RateconEnqueues, ReplyArrives
<1>2. CASE (\E t \in tasks : Fire(t)) \/ (\E kind \in Outsiders : OutsideDecides(kind))
  BY <1>2, Zenon DEF Fire, OutsideDecides
<1>3. CASE OutsideWrites \/ Dispatch \/ UNCHANGED vars
  BY <1>3, Zenon DEF OutsideWrites, Dispatch, vars
<1>4. QED
  BY <1>1, <1>2, <1>3, Zenon DEF Beside

(* A shipment that nobody else has edited was not edited before.            *)
LEMMA StillUndisturbed ==
  ASSUME TypeOK, [Next]_vars, Undisturbed'
  PROVE  Undisturbed /\ ~Dispatch
<1>1. used \in [ratecons : Nat, replies : Nat, outside : Nat, dispatch : Nat]
  BY DEF TypeOK
<1>2. Dispatch => used'.dispatch = used.dispatch + 1
  BY <1>1 DEF Dispatch, Bounded
<1>3. ~Dispatch
  BY <1>1, <1>2 DEF Undisturbed
<1>4. \A name \in {"ratecons", "replies", "outside"}, max \in Nat :
        Bounded(name, max) => used'.dispatch = used.dispatch
  BY <1>1 DEF Bounded
<1>5. used'.dispatch = used.dispatch
  <2>1. CASE Node \/ Raise
    BY <2>1, RunFrame
  <2>2. CASE RateconPasses \/ ReplyArrives \/ \E kind \in Outsiders : OutsideDecides(kind)
    BY <1>4, <2>2, BoundsAssumption DEF RateconPasses, ReplyArrives, OutsideDecides
  <2>3. CASE RateconEnqueues \/ Take \/ (\E t \in tasks : Fire(t)) \/ OutsideWrites
    BY <2>3, Zenon DEF RateconEnqueues, Take, Quiet, Fire, OutsideWrites
  <2>4. CASE UNCHANGED vars
    BY <2>4, Zenon DEF vars
  <2>5. QED
    BY <1>3, <2>1, <2>2, <2>3, <2>4, Zenon DEF Next
<1>6. QED
  BY <1>3, <1>5 DEF Undisturbed

-----------------------------------------------------------------------------
(* The row.                                                                 *)

(* What a run may write,                                                    *)
LEMMA WriteEffect ==
  ASSUME TypeOK, Present, Apt, WriteRow
  PROVE  /\ row \in Rows /\ row' \in Rows
         /\ \/ row'.sub = row.sub /\ row'.status \in {row.status, "pending_review"}
            \/ row'.sub = "driver_assignment_started"
            \/ row'.sub = "uploaded_to_tms" /\ Provided
            \/ row'.sub = "escalated" /\ row'.status = "pending_review"
            \/ \E n \in 1..4 :
                 row'.sub = Ladder[n] /\ row.sub \notin DriverSkips /\ Climbs(n)
<1>1. run.at = "write" /\ row' = AfterSequence(row, run.todo)
  BY Zenon DEF WriteRow
<1>2. row \in Rows
  BY <1>1, RowThere
<1>3. run.todo \in Seq(Commands(Subs))
  BY DEF TypeOK, Runs
<1>4. row' \in Rows
  BY <1>1, <1>2, <1>3, AfterSequenceTyped DEF Rows
<1>5. Decides(run.todo)
  BY <1>1, Zenon DEF Apt, Decided
<1>6. CASE Keeps(run.todo)
  BY <1>1, <1>2, <1>4, <1>6 DEF Keeps
<1>7. CASE Sets(run.todo, "driver_assignment_started")
  BY <1>1, <1>2, <1>4, <1>7 DEF Sets
<1>8. CASE Sets(run.todo, "uploaded_to_tms") /\ Provided
  BY <1>1, <1>2, <1>4, <1>8 DEF Sets
<1>9. CASE Reviews(run.todo, "escalated")
  BY <1>1, <1>2, <1>4, <1>9 DEF Reviews, Sets
<1>10. ASSUME NEW n \in 1..MaxRung, Reviews(run.todo, Ladder[n]), row.sub \notin DriverSkips,
              Climbs(n)
       PROVE  n \in 1..4 /\ row'.sub = Ladder[n]
  BY <1>1, <1>2, <1>10, Rungs DEF Reviews, Sets
<1>11. QED
  BY <1>2, <1>4, <1>5, <1>6, <1>7, <1>8, <1>9, <1>10 DEF Decides

(* and an outsider.                                                         *)
LEMMA CloseEffect ==
  ASSUME TypeOK, Present, Outer, OutsideWrites
  PROVE  /\ row \in Rows /\ row' \in Rows /\ row'.status = "completed"
         /\ row'.sub \in {"cancelled", "resolved_manually"}
<1>1. outside # <<>> /\ row' = AfterSequence(row, outside)
  BY Zenon DEF OutsideWrites
<1>2. row \in Rows
  BY <1>1, RowThere
<1>3. outside \in Seq(Commands(Subs))
  BY DEF TypeOK
<1>4. row' \in Rows
  BY <1>1, <1>2, <1>3, AfterSequenceTyped DEF Rows
<1>5. Closes(outside)
  BY <1>1 DEF Outer
<1>6. QED
  BY <1>1, <1>2, <1>4, <1>5 DEF Closes

(* A step of another leaves the run in order.                               *)
LEMMA BesideMoved ==
  ASSUME TypeOK, Present, Outer, Queued, Apt, Beside
  PROVE  Moved
<1>1. /\ run' = run /\ batch' = batch /\ runs' = runs /\ contacts' = contacts
      /\ Undisturbed' => Undisturbed /\ tms' = tms
  BY BesideFrame, StillUndisturbed, Zenon DEF Beside, Next
<1>2. \/ row' = row \/ run.at = "idle"
      \/ row'.status = "completed" /\ row'.sub \notin DriverSkips
  <2>1. CASE RateconEnqueues
    BY <2>1, Zenon DEF RateconEnqueues, Present
  <2>2. CASE OutsideWrites
    BY <2>2, CloseEffect DEF DriverSkips
  <2>3. QED
    BY <2>1, <2>2, BesideFrame
<1>3. run' \in Runs /\ run'.driver \in 0..Len(contacts') /\ Slotted(run'.item)
  BY <1>1 DEF TypeOK, Queued
<1>4. Counted' /\ Errand'
  BY <1>1, Zenon DEF Apt, Counted, Errand
<1>5. Granted' /\ Climbing'
  BY <1>1, <1>2 DEF Apt, Granted, Climbing, Climbs
<1>6. Shown'
  BY <1>1, Zenon DEF Apt, Shown, Fetching, Assigned
<1>7. Decided'
  <2>1. SUFFICES ASSUME run.at = "write"
                 PROVE  Decides(run.todo)'
    BY <1>1 DEF Decided
  <2>2. Decides(run.todo)
    BY <2>1, Zenon DEF Apt, Decided
  <2>3. PICK s : s = run.todo
    OBVIOUS
  <2>4. Decides(s)'
    <3>1. \A n : row.sub \notin DriverSkips /\ Climbs(n) =>
                   row'.sub \notin DriverSkips /\ Climbs(n)'
      BY <1>2, <2>1 DEF Climbs
    <3>2. Provided => Provided'
      BY <1>1 DEF Provided
    <3>3. Decides(s)
      BY <2>2, <2>3
    <3>4. QED
      BY <3>1, <3>2, <3>3, Zenon DEF Decides, Keeps, Sets, Reviews
  <2>5. run'.todo = s
    BY <1>1, <2>3
  <2>6. QED
    BY <2>4, <2>5
<1>8. QED
  BY <1>3, <1>4, <1>5, <1>6, <1>7, Zenon DEF Moved, Apt

(* An item that is taken is begun.                                          *)
LEMMA TakeMoved ==
  ASSUME TypeOK, Queued, Apt, Take
  PROVE  /\ Moved /\ queue' = Tail(queue) /\ queue' \in Seq(Items)
         /\ \A i \in DOMAIN queue' : Slotted(queue'[i])
<1>1. /\ queue \in Seq(Items) /\ queue # <<>> /\ queue' = Tail(queue)
      /\ batch' = batch /\ runs' = runs /\ contacts' = contacts
  BY DEF TypeOK, Take, Quiet
<1>2. /\ Head(queue) \in Items /\ Tail(queue) \in Seq(Items) /\ Len(queue) \in Nat
      /\ Len(Tail(queue)) = Len(queue) - 1
      /\ \A i \in 1..Len(Tail(queue)) : Tail(queue)[i] = queue[i + 1]
      /\ Head(queue) = queue[1] /\ Len(queue) > 0 /\ DOMAIN queue = 1..Len(queue)
      /\ DOMAIN Tail(queue) = 1..Len(Tail(queue))
  BY <1>1, HeadTailProperties, EmptySeq, LenProperties
<1>3. \A i \in DOMAIN queue : Slotted(queue[i])
  BY DEF Queued
<1>4. Slotted(Head(queue)) /\ \A i \in DOMAIN queue' : Slotted(queue'[i])
  <2>1. 1 \in DOMAIN queue /\ \A i \in DOMAIN Tail(queue) : i + 1 \in DOMAIN queue
    BY <1>2
  <2>2. \A i \in DOMAIN Tail(queue) : Tail(queue)[i] = queue[i + 1]
    BY <1>2
  <2>3. QED
    BY <1>1, <1>2, <1>3, <2>1, <2>2
<1>5. PICK at \in {"prepare", "classify", "fetch"} : run' = Begun(Head(queue), at)
  BY DEF Take
<1>6. /\ run' \in Runs /\ run'.at = at /\ run'.item = Head(queue) /\ run'.driver = 0
      /\ ~Assigned(run'.seen)
  <2>1. at \in Nodes
    BY DEF Nodes
  <2>2. QED
    BY <1>2, <1>5, <2>1, BegunTyped
<1>7. Counted' /\ Granted'
  BY <1>1, <1>6, Few DEF Counted, Granted
<1>8. Errand' /\ Climbing' /\ Decided' /\ Shown'
  BY <1>6 DEF Errand, Climbing, Decided, Shown, Fetching, Assigned
<1>9. run'.driver \in 0..Len(contacts')
  BY <1>1, <1>6, Few
<1>10. QED
  BY <1>1, <1>2, <1>4, <1>6, <1>7, <1>8, <1>9, Zenon DEF Moved, Apt

-----------------------------------------------------------------------------
(* The invariant.                                                           *)

(* The run is in order after every step.                                    *)
LEMMA RunMoved ==
  ASSUME IInv, [Next]_vars
  PROVE  Moved
<1>1. TypeOK /\ Present /\ Outer /\ Queued /\ Apt /\ Escalated /\ Delivered
  BY Zenon DEF IInv
<1>2. CASE Beside
  BY <1>1, <1>2, BesideMoved
<1>3. CASE Take
  BY <1>1, <1>3, TakeMoved
<1>4. CASE Node \/ Raise
  BY <1>1, <1>4, StartMoved, DelayedMoved, ReminderMoved, ReplyMoved, ToldMoved, CompletionMoved,
     WriteMoved, Zenon DEF Node
<1>5. QED
  BY <1>2, <1>3, <1>4, Zenon DEF Next, Beside

(* The row keeps its type, and is there as long as anything is asked of it. *)
LEMMA RowMoved ==
  ASSUME IInv, [Next]_vars
  PROVE  /\ row' \in Rows \cup {Absent}
         /\ row' = Absent => row = Absent
         /\ Escalated'
<1>1. TypeOK /\ Present /\ Outer /\ Queued /\ Apt /\ Escalated /\ Delivered
  BY Zenon DEF IInv
<1>2. row \in Rows \cup {Absent} /\ Absent \notin Rows
  BY <1>1, RowThere DEF TypeOK, Rows, RowsOf
<1>3. CASE row' = row
  BY <1>1, <1>2, <1>3 DEF Escalated
<1>4. CASE RateconEnqueues
  <2>1. row' = IF row = Absent THEN Inserted ELSE row
    BY <1>4, Zenon DEF RateconEnqueues
  <2>2. Inserted \in Rows /\ Inserted.sub = "none"
    BY Known DEF Inserted, Rows, RowsOf, Statuses
  <2>3. QED
    BY <1>1, <1>2, <2>1, <2>2 DEF Escalated
<1>5. CASE OutsideWrites
  BY <1>1, <1>2, <1>5, CloseEffect DEF Escalated
<1>6. CASE WriteRow
  <2>1. /\ row \in Rows /\ row' \in Rows
        /\ \/ row'.sub = row.sub /\ row'.status \in {row.status, "pending_review"}
           \/ row'.sub # "escalated"
           \/ row'.sub = "escalated" /\ row'.status = "pending_review"
    <3>1. \A n \in 1..4 : Ladder[n] # "escalated"
      BY OffLadder DEF DriverSkips
    <3>2. QED
      BY <1>1, <1>6, <3>1, WriteEffect
  <2>2. QED
    BY <1>1, <1>2, <2>1 DEF Escalated
<1>7. row' = row \/ RateconEnqueues \/ OutsideWrites \/ WriteRow
  <2>1. CASE Beside
    BY <2>1, BesideFrame
  <2>2. CASE Node \/ Raise
    BY <2>2, RunFrame
  <2>3. CASE Take
    BY <2>3, Zenon DEF Take
  <2>4. QED
    BY <2>1, <2>2, <2>3, Zenon DEF Next, Beside
<1>8. QED
  BY <1>3, <1>4, <1>5, <1>6, <1>7

(* Requests for runs.                                                       *)
LEMMA QueueMoved ==
  ASSUME IInv, [Next]_vars
  PROVE  queue' \in Seq(Items) /\ \A i \in DOMAIN queue' : Slotted(queue'[i])
<1>1. TypeOK /\ Queued /\ Apt
  BY Zenon DEF IInv
<1>2. /\ queue \in Seq(Items) /\ \A i \in DOMAIN queue : Slotted(queue[i])
      /\ tasks \in SUBSET Tasks
  BY <1>1 DEF TypeOK, Queued
<1>3. ASSUME NEW item \in Items, Slotted(item), queue' = Append(queue, item)
      PROVE  queue' \in Seq(Items) /\ \A i \in DOMAIN queue' : Slotted(queue'[i])
  <2>1. /\ Append(queue, item) \in Seq(Items) /\ Len(Append(queue, item)) = Len(queue) + 1
        /\ \A i \in 1..Len(queue) : Append(queue, item)[i] = queue[i]
        /\ Append(queue, item)[Len(queue) + 1] = item
    BY <1>2, AppendProperties
  <2>2. /\ DOMAIN queue = 1..Len(queue) /\ Len(queue) \in Nat
        /\ DOMAIN Append(queue, item) = 1..(Len(queue) + 1)
    BY <1>2, <2>1, LenProperties
  <2>3. QED
    BY <1>2, <1>3, <2>1, <2>2
<1>4. CASE RateconEnqueues \/ ReplyArrives
  <2>1. PICK kind \in {"ratecon", "reply"} : queue' = Append(queue, Item(kind, Escalation))
    BY <1>4, Zenon DEF RateconEnqueues, ReplyArrives
  <2>2. Item(kind, Escalation) \in Items /\ Slotted(Item(kind, Escalation))
    BY DEF Item, Items, Kinds, Slotted
  <2>3. QED
    BY <1>3, <2>1, <2>2
<1>5. ASSUME NEW t \in tasks, Fire(t)
      PROVE  queue' \in Seq(Items) /\ \A i \in DOMAIN queue' : Slotted(queue'[i])
  <2> DEFINE item == Item(IF t.slot = Escalation THEN "escalation" ELSE "reminder", t.slot)
  <2>1. queue' = Append(queue, item)
    BY <1>5, Zenon DEF Fire
  <2>2. item \in Items /\ Slotted(item)
    BY <1>2 DEF Item, Items, Kinds, Slotted, Tasks
  <2> HIDE DEF item
  <2>3. QED
    BY <1>3, <2>1, <2>2
<1>6. CASE Take
  BY <1>1, <1>6, TakeMoved
<1>7. CASE queue' = queue
  BY <1>2, <1>7
<1>8. \/ RateconEnqueues \/ ReplyArrives \/ (\E t \in tasks : Fire(t)) \/ Take \/ queue' = queue
  <2>1. CASE Node \/ Raise
    BY <2>1, RunFrame
  <2>2. CASE RateconPasses \/ OutsideWrites \/ Dispatch \/ UNCHANGED vars
    BY <2>2, Zenon DEF RateconPasses, OutsideWrites, Dispatch, vars
  <2>3. CASE \E kind \in Outsiders : OutsideDecides(kind)
    BY <2>3, Zenon DEF OutsideDecides
  <2>4. QED
    BY <2>1, <2>2, <2>3, Zenon DEF Next
<1>9. QED
  BY <1>4, <1>5, <1>6, <1>7, <1>8

(* Tasks and their batches.                                                 *)
LEMMA TasksMoved ==
  ASSUME IInv, [Next]_vars
  PROVE  /\ tasks' \in SUBSET Tasks /\ sent' \in SUBSET Slots
         /\ batch' \in Nat /\ runs' \in Nat /\ passed' \in Nat
         /\ used' \in [ratecons : Nat, replies : Nat, outside : Nat, dispatch : Nat]
<1>1. /\ TypeOK /\ Apt /\ Queued /\ tasks \in SUBSET Tasks /\ sent \in SUBSET Slots
      /\ batch \in Nat /\ runs \in Nat /\ passed \in Nat
      /\ used \in [ratecons : Nat, replies : Nat, outside : Nat, dispatch : Nat]
  BY DEF IInv, TypeOK
<1>2. ASSUME Schedule
      PROVE  tasks' \in SUBSET Tasks /\ batch' \in Nat
  <2>1. ASSUME NEW plan \in Plans, NEW left \in SUBSET plan, batch' = batch + 1,
               tasks' = tasks \cup [slot : left, batch : {batch'}]
        PROVE  tasks' \in SUBSET Tasks /\ batch' \in Nat
    <3>1. batch' \in Nat
      BY <1>1, <2>1
    <3>2. [slot : left, batch : {batch'}] \subseteq Tasks
      BY <3>1, PlansAssumption DEF Tasks
    <3>3. QED
      BY <1>1, <2>1, <3>1, <3>2
  <2>2. \/ tasks' = tasks /\ batch' = batch
        \/ \E plan \in Plans : \E left \in SUBSET plan :
             batch' = batch + 1 /\ tasks' = tasks \cup [slot : left, batch : {batch'}]
    BY <1>2 DEF Schedule
  <2>3. QED
    BY <1>1, <2>1, <2>2
<1>3. CASE RecordSuccess \/ CompleteFromTms
  BY <1>1, <1>3, RunFrame DEF RecordSuccess, CompleteFromTms, CancelTasks, Node, Schedule
<1>4. ASSUME AppendSent
      PROVE  sent' \in SUBSET Slots
  <2>1. run.item.slot \in Slots /\ sent' = sent \cup {run.item.slot}
    BY <1>1, <1>4 DEF AppendSent, Queued, Slotted, Apt, Errand
  <2>2. QED
    BY <1>1, <2>1
<1>5. tasks' \in SUBSET Tasks /\ sent' \in SUBSET Slots /\ batch' \in Nat
  <2>1. CASE Node \/ Raise
    BY <1>1, <1>2, <1>3, <1>4, <2>1, RunFrame
  <2>2. CASE \E t \in tasks : Fire(t)
    BY <1>1, <2>2, BesideFrame DEF Fire, Beside
  <2>3. CASE RateconPasses \/ RateconEnqueues \/ ReplyArrives \/ Take
    BY <1>1, <2>3 DEF RateconPasses, RateconEnqueues, ReplyArrives, Take
  <2>4. CASE (\E kind \in Outsiders : OutsideDecides(kind)) \/ OutsideWrites \/ Dispatch
    BY <1>1, <2>4 DEF OutsideDecides, OutsideWrites, Dispatch
  <2>5. CASE UNCHANGED vars
    BY <1>1, <2>5 DEF vars
  <2>6. QED
    BY <2>1, <2>2, <2>3, <2>4, <2>5, Zenon DEF Next
<1>6. runs' \in Nat
  <2>1. CASE Prepare
    BY <1>1, <2>1 DEF Prepare
  <2>2. CASE Beside
    BY <1>1, <2>2, BesideFrame
  <2>3. CASE Take
    BY <1>1, <2>3, Zenon DEF Take
  <2>4. CASE (Node \/ Raise) /\ ~Prepare
    BY <1>1, <2>4, RunFrame
  <2>5. QED
    BY <2>1, <2>2, <2>3, <2>4, Zenon DEF Next, Beside
<1>7. ASSUME NEW name \in {"ratecons", "replies", "outside", "dispatch"}, NEW max,
             Bounded(name, max)
      PROVE  used' \in [ratecons : Nat, replies : Nat, outside : Nat, dispatch : Nat]
  BY <1>1, <1>7 DEF Bounded
<1>8. used' \in [ratecons : Nat, replies : Nat, outside : Nat, dispatch : Nat]
  <2>1. \/ used' = used
        \/ Bounded("ratecons", MaxRatecons) \/ Bounded("replies", MaxReplies)
        \/ Bounded("outside", MaxOutside) \/ Bounded("dispatch", MaxDispatch)
    <3>1. CASE Node \/ Raise
      BY <3>1, RunFrame
    <3>2. CASE RateconPasses \/ RateconEnqueues \/ ReplyArrives \/ Take
      BY <3>2, Zenon DEF RateconPasses, RateconEnqueues, ReplyArrives, Take, Quiet
    <3>3. CASE (\E t \in tasks : Fire(t)) \/ (\E kind \in Outsiders : OutsideDecides(kind))
      BY <3>3, Zenon DEF Fire, OutsideDecides
    <3>4. CASE OutsideWrites \/ Dispatch \/ UNCHANGED vars
      BY <3>4, Zenon DEF OutsideWrites, Dispatch, vars
    <3>5. QED
      BY <3>1, <3>2, <3>3, <3>4, Zenon DEF Next
  <2>2. QED
    BY <1>1, <1>7, <2>1
<1>9. passed' \in Nat
  <2>1. CASE RateconPasses \/ RateconEnqueues
    BY <1>1, <2>1 DEF RateconPasses, RateconEnqueues
  <2>2. passed' = passed \/ RateconPasses \/ RateconEnqueues
    <3>1. CASE Node \/ Raise
      BY <3>1, RunFrame
    <3>2. CASE ReplyArrives \/ Take
      BY <3>2, Zenon DEF ReplyArrives, Take, Quiet
    <3>3. CASE (\E t \in tasks : Fire(t)) \/ (\E kind \in Outsiders : OutsideDecides(kind))
      BY <3>3, Zenon DEF Fire, OutsideDecides
    <3>4. CASE OutsideWrites \/ Dispatch \/ UNCHANGED vars
      BY <3>4, Zenon DEF OutsideWrites, Dispatch, vars
    <3>5. QED
      BY <3>1, <3>2, <3>3, <3>4, Zenon DEF Next
  <2>3. QED
    BY <1>1, <2>1, <2>2
<1>10. QED
  BY <1>5, <1>6, <1>8, <1>9

(* An outsider who has decided is going to close the lifecycle.             *)
LEMMA OuterMoved ==
  ASSUME IInv, [Next]_vars
  PROVE  outside' \in Sendable /\ Outer'
<1>1. Outer /\ outside \in Sendable /\ <<>> \in Sendable
  BY DEF IInv, TypeOK, Sendable
<1>2. ASSUME NEW kind \in Outsiders, OutsideDecides(kind)
      PROVE  outside' \in Sendable /\ Outer'
  <2>1. PICK s \in Interference(kind) : outside' = s
    BY <1>2, Zenon DEF OutsideDecides
  <2>2. s \in Sendable /\ Closes(s)
    BY OutsidersClose
  <2>3. QED
    BY <2>1, <2>2, Zenon DEF Outer, Closes
<1>3. CASE OutsideWrites
  BY <1>1, <1>3, Zenon DEF OutsideWrites, Outer
<1>4. CASE outside' = outside
  BY <1>1, <1>4, Zenon DEF Outer, Closes
<1>5. outside' = outside \/ OutsideWrites \/ \E kind \in Outsiders : OutsideDecides(kind)
  <2>1. CASE Node \/ Raise
    BY <2>1, RunFrame
  <2>2. CASE RateconPasses \/ RateconEnqueues \/ ReplyArrives \/ Take
    BY <2>2, Zenon DEF RateconPasses, RateconEnqueues, ReplyArrives, Take, Quiet
  <2>3. CASE (\E t \in tasks : Fire(t)) \/ Dispatch \/ UNCHANGED vars
    BY <2>3, Zenon DEF Fire, Dispatch, vars
  <2>4. QED
    BY <2>1, <2>2, <2>3, Zenon DEF Next
<1>6. QED
  BY <1>2, <1>3, <1>4, <1>5

(* The shipment shows contacts, and one at most that only runs have put     *)
(* there.                                                                   *)
LEMMA TmsMoved ==
  ASSUME IInv, [Next]_vars
  PROVE  /\ tms' \in Shipments /\ tms'.drivers \subseteq DOMAIN contacts'
         /\ contacts' \in Seq(Contacts)
         /\ Delivered'
<1>1. /\ TypeOK /\ Present /\ Outer /\ Apt /\ Delivered
      /\ tms \in Shipments /\ tms.drivers \subseteq DOMAIN contacts /\ contacts \in Seq(Contacts)
      /\ Len(contacts) \in Nat /\ DOMAIN contacts = 1..Len(contacts)
  BY Few DEF IInv, TypeOK
<1>2. contacts' \in Seq(Contacts) /\ DOMAIN contacts \subseteq DOMAIN contacts'
  <2>1. CASE CreateContact
    <3> DEFINE new == Append(contacts, Created(run.block))
    <3>1. run.block \in Blocks
      BY <1>1, <2>1 DEF CreateContact, Apt, Errand
    <3>2. new \in Seq(Contacts) /\ DOMAIN new = 1..(Len(contacts) + 1)
      BY <1>1, <3>1, CreatedTyped
    <3>3. contacts' = new \/ contacts' = contacts
      BY <2>1 DEF CreateContact
    <3> HIDE DEF new
    <3>4. QED
      BY <1>1, <3>2, <3>3
  <2>2. CASE contacts' = contacts
    BY <1>1, <2>2
  <2>3. contacts' = contacts \/ CreateContact
    <3>1. CASE Node \/ Raise
      BY <3>1, RunFrame
    <3>2. CASE Beside
      BY <3>2, BesideFrame
    <3>3. CASE Take
      BY <3>3, Zenon DEF Take, Quiet
    <3>4. QED
      BY <3>1, <3>2, <3>3, Zenon DEF Next, Beside
  <2>4. QED
    BY <2>1, <2>2, <2>3
<1>3. CASE tms' = tms
  <2>1. tms' \in Shipments /\ tms'.drivers \subseteq DOMAIN contacts'
    BY <1>1, <1>2, <1>3
  <2>2. SUFFICES ASSUME Undisturbed'
                 PROVE  UploadedMeansDriver' /\ OneDriverInTms'
    BY <1>2, <2>1 DEF Delivered
  <2>3. Undisturbed /\ UploadedMeansDriver /\ OneDriverInTms
    BY <1>1, <2>2, StillUndisturbed DEF Delivered
  <2>4. OneDriverInTms'
    BY <1>3, <2>3, Zenon DEF OneDriverInTms
  <2>5. row'.sub = "uploaded_to_tms" => row.sub = "uploaded_to_tms" \/ Assigned(tms)
    <3>1. CASE WriteRow
      <4>1. \A n \in 1..4 : Ladder[n] # "uploaded_to_tms"
        BY OffLadder DEF DriverSkips
      <4>2. QED
        BY <1>1, <2>3, <3>1, <4>1, WriteEffect DEF Provided
    <3>2. CASE OutsideWrites
      BY <1>1, <3>2, CloseEffect
    <3>3. CASE RateconEnqueues
      BY <3>3 DEF RateconEnqueues, Inserted
    <3>4. row' = row \/ WriteRow \/ OutsideWrites \/ RateconEnqueues
      <4>1. CASE Node \/ Raise
        BY <4>1, RunFrame
      <4>2. CASE Beside
        BY <4>2, BesideFrame
      <4>3. CASE Take
        BY <4>3, Zenon DEF Take
      <4>4. QED
        BY <4>1, <4>2, <4>3, Zenon DEF Next, Beside
    <3>5. QED
      BY <3>1, <3>2, <3>3, <3>4
  <2>6. UploadedMeansDriver'
    BY <1>3, <2>3, <2>5 DEF UploadedMeansDriver, Assigned
  <2>7. QED
    BY <2>4, <2>6
<1>4. CASE Put
  <2>1. /\ run.at = "put" /\ run.driver \in DOMAIN contacts /\ run.seen \in Shipments
        /\ Undisturbed => run.seen.drivers = tms.drivers
    BY <1>1, <1>4 DEF Put, Apt, Errand, Shown, TypeOK, Runs
  <2>2. tms' = tms \/ tms' = [tms EXCEPT !.drivers = DriversAfterPut(run.seen)]
    BY <1>4 DEF Put
  <2>3. CASE tms' = [tms EXCEPT !.drivers = DriversAfterPut(run.seen)]
    <3>1. tms'.drivers = (tms.drivers \ run.seen.drivers) \cup {run.driver}
      BY <1>1, <2>3 DEF Shipments, DriversAfterPut
    <3>2. tms' \in Shipments /\ tms'.drivers \subseteq DOMAIN contacts'
      BY <1>1, <1>2, <2>1, <2>3, <3>1 DEF Shipments
    <3>3. ASSUME Undisturbed'
          PROVE  UploadedMeansDriver' /\ OneDriverInTms'
      <4>1. tms'.drivers = {run.driver}
        BY <1>1, <2>1, <3>1, <3>3, StillUndisturbed
      <4>2. Cardinality({run.driver}) = 1
        BY FS_Singleton
      <4>3. QED
        BY <4>1, <4>2 DEF UploadedMeansDriver, OneDriverInTms, Assigned
    <3>4. QED
      BY <1>2, <3>2, <3>3 DEF Delivered
  <2>4. QED
    BY <1>3, <2>2, <2>3
<1>5. CASE Dispatch
  <2>1. ~Undisturbed'
    BY <1>1, <1>5, StillUndisturbed
  <2>2. CarrierDrivers \subseteq DOMAIN contacts
    BY DEF CarrierDrivers, Linked
  <2>3. tms' \in Shipments /\ tms'.drivers \subseteq DOMAIN contacts
    <3>1. ASSUME NEW ds \in {{}} \cup {{i} : i \in CarrierDrivers},
                 tms' = [tms EXCEPT !.drivers = ds]
          PROVE  tms' \in Shipments /\ tms'.drivers \subseteq DOMAIN contacts
      <4>1. ds \subseteq DOMAIN contacts /\ ds \in SUBSET Nat
        BY <1>1, <2>2
      <4>2. QED
        BY <1>1, <3>1, <4>1 DEF Shipments
    <3>2. CASE tms' = [tms EXCEPT !.picked = TRUE]
      BY <1>1, <3>2 DEF Shipments
    <3>3. ASSUME NEW e \in BOOLEAN, tms' = [tms EXCEPT !.eligible = e]
          PROVE  tms' \in Shipments /\ tms'.drivers \subseteq DOMAIN contacts
      BY <1>1, <3>3 DEF Shipments
    <3>4. QED
      BY <1>5, <3>1, <3>2, <3>3, Zenon DEF Dispatch
  <2>4. QED
    BY <1>2, <2>1, <2>3 DEF Delivered
<1>6. tms' = tms \/ Put \/ Dispatch
  <2>1. CASE Node \/ Raise
    BY <2>1, RunFrame
  <2>2. CASE Beside
    BY <2>2, BesideFrame
  <2>3. CASE Take
    BY <2>3, Zenon DEF Take
  <2>4. QED
    BY <2>1, <2>2, <2>3, Zenon DEF Next, Beside
<1>7. QED
  BY <1>3, <1>4, <1>5, <1>6

(* Nothing is asked of a row before it is there.                            *)
LEMMA PresentMoved ==
  ASSUME IInv, [Next]_vars
  PROVE  Present'
<1>1. SUFFICES ASSUME row' = Absent
               PROVE  /\ run'.at = "idle" /\ queue' = <<>> /\ tasks' = {} /\ runs' = 0
                      /\ outside' = <<>>
  BY DEF Present
<1>2. row = Absent
  BY <1>1, RowMoved
<1>3. run.at = "idle" /\ queue = <<>> /\ tasks = {} /\ runs = 0 /\ outside = <<>>
  BY <1>2 DEF IInv, Present
<1>4. ~Node /\ ~Raise /\ ~Take
  BY <1>3, Zenon
  DEF Node, Raise, Take, Prepare, CheckStart, Schedule, RecordStarted, Fetch, CheckReminder,
      SendReminder, RecordReminder, AppendSent, CheckEscalation, Post, EndGraph, RecordEscalation,
      Classify,
      ResolveDriver, CreateContact, SendFollowUp, Put, RecordSuccess, CompleteFromTms, Confirm,
      Finish, WriteRow
<1>5. ~ReplyArrives /\ ~OutsideWrites /\ ~RateconEnqueues
  BY <1>1, <1>2, <1>3, Known
  DEF ReplyArrives, OutsideWrites, RateconEnqueues, Inserted, Absent, Unset
<1>6. (\A t \in tasks : ~Fire(t)) /\ \A kind \in Outsiders : ~OutsideDecides(kind)
  BY <1>2, <1>3, Zenon DEF OutsideDecides
<1>7. RateconPasses \/ Dispatch \/ UNCHANGED vars
  BY <1>4, <1>5, <1>6, Zenon DEF Next
<1>8. QED
  BY <1>3, <1>7, Zenon DEF RateconPasses, Dispatch, vars

(* The initial state.                                                       *)
LEMMA InitOK == Init => IInv
<1> SUFFICES ASSUME Init
             PROVE  IInv
  OBVIOUS
<1>1. /\ Idle \in Runs /\ Idle.at = "idle" /\ Idle.driver = 0 /\ Slotted(Idle.item)
  <2>1. /\ Item("ratecon", Escalation) \in Items /\ "idle" \in Nodes
        /\ Slotted(Item("ratecon", Escalation))
    BY DEF Item, Items, Kinds, Nodes, Slotted
  <2>2. QED
    BY <2>1, BegunTyped DEF Idle
<1>2. /\ run = Idle /\ contacts = Directory /\ row = Absent /\ passed = 0 /\ queue = <<>>
      /\ tasks = {} /\ batch = 0 /\ sent = {} /\ runs = 0 /\ outside = <<>>
      /\ tms = [NoShipment EXCEPT !.eligible = TRUE]
      /\ used = [ratecons |-> 0, replies |-> 0, outside |-> 0, dispatch |-> 0]
  BY DEF Init
<1>3. contacts \in Seq(Contacts) /\ Len(contacts) \in Nat
  BY <1>2, DirectoryAssumption, LenProperties
<1>4. TypeOK
  <2>1. tms \in Shipments /\ tms.drivers = {}
    BY <1>2 DEF NoShipment, Shipments
  <2>2. run.driver \in 0..Len(contacts) /\ run \in Runs
    BY <1>1, <1>2, <1>3
  <2>3. queue \in Seq(Items) /\ outside \in Seq(Commands(Subs))
    BY <1>2
  <2>4. QED
    BY <1>2, <1>3, <2>1, <2>2, <2>3 DEF TypeOK
<1>5. Present /\ Outer
  BY <1>1, <1>2 DEF Present, Outer
<1>6. Queued
  BY <1>1, <1>2 DEF Queued
<1>7. Apt
  BY <1>1, <1>2 DEF Apt, Counted, Granted, Errand, Climbing, Decided, Shown, Fetching
<1>8. Escalated
  BY <1>2 DEF Escalated, Absent, Unset
<1>9. Delivered
  BY <1>2, FS_EmptySet
  DEF Delivered, UploadedMeansDriver, OneDriverInTms, NoShipment, Absent, Unset
<1>10. QED
  BY <1>4, <1>5, <1>6, <1>7, <1>8, <1>9 DEF IInv

LEMMA NextOK == IInv /\ [Next]_vars => IInv'
<1> SUFFICES ASSUME IInv, [Next]_vars
             PROVE  IInv'
  OBVIOUS
<1>1. /\ run' \in Runs /\ run'.driver \in 0..Len(contacts') /\ Slotted(run'.item) /\ Apt'
  BY RunMoved DEF Moved
<1>2. /\ row' \in [status : Statuses, sub : Subs, pause : PauseTypes \cup {Unset}] \cup {Absent}
      /\ Escalated'
  BY RowMoved DEF Rows, RowsOf
<1>3. outside' \in Seq(Commands(Subs)) /\ Outer'
  BY OuterMoved DEF Sendable
<1>4. TypeOK'
  BY <1>1, <1>2, <1>3, QueueMoved, TasksMoved, TmsMoved DEF TypeOK
<1>5. Queued'
  BY <1>1, QueueMoved DEF Queued
<1>6. QED
  BY <1>1, <1>2, <1>3, <1>4, <1>5, PresentMoved, TmsMoved DEF IInv

LEMMA Invariance == Spec => []IInv
<1>1. QED
  BY InitOK, NextOK, PTL DEF Spec

-----------------------------------------------------------------------------
(* The theorems.                                                            *)

(* Every reachable state of a driver assignment is well typed.              *)
THEOREM TypeCorrect == Spec => []TypeOK
<1>1. IInv => TypeOK
  BY Zenon DEF IInv
<1>2. QED
  BY <1>1, Invariance, PTL

(* Reminders are scheduled for the first run that is let through and then   *)
(* only for a cycle that is over, whatever happens between the two gates a  *)
(* run passes (check_start_eligibility, WorkflowReminderService.schedule).  *)
THEOREM SchedulesOnce == Spec => ScheduledOnce
<1>1. ASSUME IInv, [Next]_vars
      PROVE  [batch' # batch => batch = 0 \/ row.status = "completed"]_batch
  <2>1. SUFFICES ASSUME batch' # batch
                 PROVE  batch = 0 \/ row.status = "completed"
    OBVIOUS
  <2>2. Schedule
    <3>1. CASE Node \/ Raise
      BY <2>1, <3>1, RunFrame
    <3>2. CASE Beside
      BY <2>1, <3>2, BesideFrame
    <3>3. CASE Take
      BY <2>1, <3>3, Zenon DEF Take
    <3>4. QED
      BY <1>1, <3>1, <3>2, <3>3, Zenon DEF Next, Beside
  <2>3. run.at = "schedule" /\ Granted /\ batch \in Nat
    BY <1>1, <2>2 DEF Schedule, IInv, Apt, TypeOK
  <2>4. QED
    BY <2>3 DEF Granted
<1>2. QED
  BY <1>1, Invariance, PTL DEF Spec, ScheduledOnce

(* What a step does to the row as far as the ladder goes.                   *)
LEMMA RowSteps ==
  ASSUME IInv, [Next]_vars, row' # row
  PROVE  /\ IsRung(row'.sub) /\ row'.sub # row.sub =>
              /\ row.sub \notin DriverSkips
              /\ row.status = "completed" \/ Rung(row'.sub) = Rung(row.sub) + 1
         /\ row.sub = "escalated" => ~IsRung(row'.sub)
<1>1. TypeOK /\ Present /\ Outer /\ Apt
  BY Zenon DEF IInv
<1>2. CASE RateconEnqueues
  <2>1. row'.sub = "none"
    BY <1>2 DEF RateconEnqueues, Inserted
  <2>2. Rung("none") = 0
    BY OffLadder
  <2>3. QED
    BY <2>1, <2>2 DEF IsRung
<1>3. CASE OutsideWrites
  <2>1. row'.sub \in {"cancelled", "resolved_manually"}
    BY <1>1, <1>3, CloseEffect
  <2>2. Rung(row'.sub) = 0
    BY <2>1, OffLadder
  <2>3. QED
    BY <2>2 DEF IsRung
<1>4. CASE WriteRow
  <2>1. \/ row'.sub = row.sub
        \/ row'.sub \in {"driver_assignment_started", "uploaded_to_tms", "escalated"}
        \/ \E n \in 1..4 : row'.sub = Ladder[n] /\ row.sub \notin DriverSkips /\ Climbs(n)
    BY <1>1, <1>4, WriteEffect
  <2>2. CASE row'.sub = row.sub
    BY <2>2, OffLadder DEF IsRung
  <2>3. CASE row'.sub \in {"driver_assignment_started", "uploaded_to_tms", "escalated"}
    <3>1. Rung(row'.sub) = 0
      BY <2>3, OffLadder
    <3>2. QED
      BY <3>1 DEF IsRung
  <2>4. ASSUME NEW n \in 1..4, row'.sub = Ladder[n], row.sub \notin DriverSkips, Climbs(n)
        PROVE  /\ row.sub # "escalated"
               /\ row.status = "completed" \/ Rung(row'.sub) = Rung(row.sub) + 1
    BY <2>4, Rungs DEF Climbs, DriverSkips
  <2>5. QED
    BY <2>1, <2>2, <2>3, <2>4
<1>5. RateconEnqueues \/ OutsideWrites \/ WriteRow
  <2>1. CASE Node \/ Raise
    BY <2>1, RunFrame
  <2>2. CASE Beside
    BY <2>2, BesideFrame
  <2>3. CASE Take
    BY <2>3, Zenon DEF Take
  <2>4. QED
    BY <2>1, <2>2, <2>3, Zenon DEF Next, Beside
<1>6. QED
  BY <1>2, <1>3, <1>4, <1>5

(* In a cycle that is open, a run that puts a rung on record puts the one   *)
(* after the row's there, although it read the row at another node than the *)
(* one it writes from (record_reminder_sent).                               *)
THEOREM ClimbsOneRung == Spec => OneRungAtATime
<1>1. ASSUME IInv, [Next]_vars
      PROVE  [/\ row.status # "completed"
              /\ IsRung(row'.sub) /\ row'.sub # row.sub
              => Rung(row'.sub) = Rung(row.sub) + 1]_row
  BY <1>1, RowSteps
<1>2. QED
  BY <1>1, Invariance, PTL DEF Spec, OneRungAtATime

(* A reminder on its way to the mail is of a cycle that needs it, and an    *)
(* escalated row stays off the ladder (check_reminder_eligibility,          *)
(* send_partial_details_follow_up_email).                                   *)
THEOREM LateRemindersHarmless == Spec => LateRemindersLost
<1>1. ASSUME IInv, [Next]_vars
      PROVE  [/\ run.at = "send" /\ run'.at = "record" => row.sub \notin DriverSkips
              /\ row.sub = "escalated" => ~IsRung(row'.sub)]_<<row, run>>
  <2>1. run.at = "send" => row.sub \notin DriverSkips
    BY <1>1 DEF IInv, Apt, Climbing
  <2>2. row.sub = "escalated" => ~IsRung(row'.sub)
    <3>1. CASE row' = row
      BY <3>1, OffLadder DEF IsRung
    <3>2. CASE row' # row
      BY <1>1, <3>2, RowSteps
    <3>3. QED
      BY <3>1, <3>2
  <2>3. QED
    BY <2>1, <2>2
<1>2. QED
  BY <1>1, Invariance, PTL DEF Spec, LateRemindersLost

(* Until somebody else writes to the shipment, it shows one driver at most, *)
(* however many replies named one, and the row says uploaded_to_tms only    *)
(* where it shows one or the pickup has happened (persist_driver_to_turvo). *)
THEOREM OneDriverDelivered == Spec => []TmsInv
<1>1. IInv => TmsInv
  BY DEF IInv, Delivered, TmsInv
<1>2. QED
  BY <1>1, Invariance, PTL

-----------------------------------------------------------------------------
(* The driver that was named.                                               *)

(* No other node names a driver, or is about to create one.                 *)
LEMMA Elsewhere ==
  ASSUME IInv, [Next]_vars, ~ResolveDriver, ~CreateContact
  PROVE  /\ contacts' = contacts
         /\ run' = run \/ run'.at \notin {"create", "put"}
<1>1. /\ TypeOK /\ Apt /\ run \in Runs /\ "write" \in Nodes
      /\ {"start", "schedule", "started", "complete", "send", "post", "escalated", "finish",
          "check", "end"} \subseteq Nodes
  BY DEF IInv, TypeOK, Nodes
<1>2. \A at \in {"start", "schedule", "started", "complete", "send", "post", "escalated", "finish",
                  "check", "end"} :
        Goto(at) => run'.at \notin {"create", "put"}
  BY <1>1, GotoKept
<1>3. End => run'.at \notin {"create", "put"}
  BY EndKept
<1>4. \A s, next : Write(s, next) => run'.at \notin {"create", "put"}
  BY <1>1 DEF Write, Runs
<1>5. \A at : Forget(at) => run'.at = at
  BY <1>1 DEF Forget, Runs
<1>6. CASE Beside
  BY <1>6, BesideFrame
<1>7. CASE Take
  <2>1. contacts' = contacts
    BY <1>7, Zenon DEF Take, Quiet
  <2>2. PICK at \in {"prepare", "classify", "fetch"} : run' = Begun(Head(queue), at)
    BY <1>7 DEF Take
  <2>3. QED
    BY <2>1, <2>2 DEF Begun
<1>8. CASE Prepare \/ CheckStart \/ Schedule \/ RecordStarted
  BY <1>2, <1>3, <1>4, <1>8, RunFrame, Zenon
  DEF Prepare, CheckStart, Schedule, RecordStarted, Node, Quiet
<1>9. CASE \/ CheckReminder \/ RecordReminder \/ AppendSent \/ CheckEscalation \/ Post
           \/ EndGraph \/ RecordEscalation
  BY <1>2, <1>3, <1>4, <1>9, Zenon
  DEF CheckReminder, RecordReminder, AppendSent, CheckEscalation, Post, EndGraph, RecordEscalation,
      Quiet
<1>10. CASE Fetch \/ SendReminder \/ SendFollowUp
  <2>1. contacts' = contacts
    BY <1>10, Zenon DEF Fetch, SendReminder, SendFollowUp, Quiet
  <2>2. CASE run' = [run EXCEPT !.at = "check", !.seen = tms]
    BY <1>1, <2>1, <2>2 DEF Runs
  <2>3. CASE \E rung : run' = [run EXCEPT !.at = "record", !.rung = rung]
    BY <1>1, <2>1, <2>3 DEF Runs
  <2>4. CASE \E rung : run' = [run EXCEPT !.at = "record", !.partial = TRUE, !.rung = rung]
    BY <1>1, <2>1, <2>4 DEF Runs
  <2>5. QED
    BY <1>2, <1>3, <1>4, <1>10, <2>1, <2>2, <2>3, <2>4, Zenon DEF Fetch, SendReminder, SendFollowUp
<1>11. CASE Classify
  <2>1. contacts' = contacts
    BY <1>11, Zenon DEF Classify, Quiet
  <2>2. ASSUME NEW block \in Blocks,
               run' = [run EXCEPT !.at = Routed(block),
                                  !.block = IF Searchable(block) THEN block ELSE NoBlock]
        PROVE  run'.at \notin {"create", "put"}
    <3>1. run'.at = Routed(block)
      BY <1>1, <2>2 DEF Runs
    <3>2. QED
      BY <3>1 DEF Routed
  <2>3. QED
    BY <1>3, <1>11, <2>1, <2>2, Zenon DEF Classify
<1>12. CASE Put
  <2>1. contacts' = contacts
    BY <1>12, Zenon DEF Put, Quiet
  <2>2. Forget("success") \/ End \/ Write(<<Exception>>, "idle")
    BY <1>12, Zenon DEF Put, Unresolved
  <2>3. QED
    BY <1>3, <1>4, <1>5, <2>1, <2>2
<1>13. CASE RecordSuccess \/ CompleteFromTms \/ Confirm \/ Finish \/ Raise
  BY <1>2, <1>3, <1>4, <1>13, Zenon
  DEF RecordSuccess, CompleteFromTms, Confirm, Finish, Raise, Quiet
<1>14. CASE WriteRow
  <2>1. contacts' = contacts
    BY <1>14, Zenon DEF WriteRow, Quiet
  <2>2. run.next \in {"idle", "append", "confirm", "check"}
    BY <1>1, <1>14 DEF WriteRow, Apt, Errand
  <2>3. CASE run' = [run EXCEPT !.at = run.next, !.todo = <<>>]
    BY <1>1, <2>1, <2>2, <2>3 DEF Runs
  <2>4. QED
    BY <1>3, <1>14, <2>1, <2>3, Zenon DEF WriteRow, AfterWrite
<1>15. QED
  BY <1>6, <1>7, <1>8, <1>9, <1>10, <1>11, <1>12, <1>13, <1>14, Zenon DEF Next, Node, Beside

(* If the carrier's contacts are all seen, a search by phone finds who has  *)
(* it.                                                                      *)
LEMMA AllSeen ==
  ASSUME Directed, Cardinality(Linked) <= TabLimit, NEW phone
  PROVE  TabByPhone(phone, {}) = {i \in CarrierDrivers : HasPhone(i, phone)}
<1>1. Linked \in SUBSET DOMAIN contacts
  BY DEF Linked
<1>2. IsFiniteSet(Linked) /\ Cardinality(Linked) \in Nat /\ TabLimit \in Nat
  BY <1>1, ContactsFinite, LimitAssumption
<1>3. \A i \in Linked : Cardinality({j \in Linked : j <= i}) <= TabLimit
  <2>1. \A ids \in SUBSET Linked : Cardinality(ids) \in Nat /\ Cardinality(ids) <= Cardinality(Linked)
    BY <1>2, FS_Subset, FS_CardinalityType
  <2>2. \A ids \in SUBSET Linked : Cardinality(ids) <= TabLimit
    BY <1>2, <2>1
  <2>3. QED
    BY <2>2
<1>4. Tab = Linked
  BY <1>3 DEF Tab
<1>5. QED
  BY <1>4 DEF TabByPhone, Hydrated, TabDrivers, CarrierDrivers

(* Whoever is created is the only driver of the carrier with the phone, and *)
(* has the name.                                                            *)
LEMMA Enlisted ==
  ASSUME NEW c \in Seq(Contacts), NEW block \in Blocks, Apart(c), Unknown(c, block)
  PROVE  LET new == Append(c, Created(block)) IN
         Apart(new) /\ NamedIn(new, Len(c) + 1, block)
<1> DEFINE new == Append(c, Created(block))
           n == Len(c)
           k == n + 1
           phone == block.phone
           d == Created(block)
<1>1. n \in Nat /\ DOMAIN c = 1..n /\ Len(Directory) \in Nat
  BY DirectoryAssumption, LenProperties
<1>2. /\ Len(new) = k /\ DOMAIN new = 1..k /\ new[k] = d
      /\ \A i \in 1..n : new[i] = c[i]
  BY CreatedTyped
<1>3. /\ block.name # {} /\ phone # <<>>
      /\ \A i \in DriversIn(c) : ~PhoneIn(c, i, phone)
      /\ Digits(phone) # <<>> /\ Digits(Digits(phone)) = Digits(phone)
  <2>1. phone \in Phones /\ Digits(Digits(phone)) = Digits(phone)
    BY BlocksAssumption
  <2>2. QED
    BY <2>1, DigitsLeft DEF Unknown
<1>4. d.name = block.name /\ d.phones = {Digits(phone)} /\ d.driver /\ d.carrier
  BY DEF Created
<1> HIDE DEF new, d
<1>5. k \notin 1..n /\ 1..k = 1..n \cup {k}
  BY <1>1
<1> HIDE DEF k, n
<1>6. DriversIn(new) = DriversIn(c) \cup {k} /\ DriversIn(c) \subseteq 1..n
  BY <1>1, <1>2, <1>4, <1>5 DEF DriversIn
<1>7. \A p : \A i \in 1..n : PhoneIn(new, i, p) <=> PhoneIn(c, i, p)
  BY <1>2 DEF PhoneIn
<1>8. \A p : PhoneIn(new, k, p) <=> Digits(p) = Digits(phone)
  BY <1>2, <1>3, <1>4 DEF PhoneIn, PhonesMatch
<1>9. \A i, p : Digits(p) = Digits(phone) => (PhoneIn(c, i, p) <=> PhoneIn(c, i, phone))
  BY DEF PhoneIn, PhonesMatch
<1>10. ASSUME NEW j \in (Len(Directory) + 1)..k
       PROVE  /\ j \in DriversIn(new)
              /\ \A i \in DriversIn(new) : i # j => ~\E p \in new[j].phones : PhoneIn(new, i, p)
  <2>1. CASE j = k
    <3>1. new[j].phones = {Digits(phone)}
      BY <1>2, <1>4, <2>1
    <3>2. ASSUME NEW i \in DriversIn(c)
          PROVE  ~PhoneIn(new, i, Digits(phone))
      BY <1>3, <1>6, <1>7, <1>9
    <3>3. QED
      BY <1>6, <2>1, <3>1, <3>2
  <2>2. CASE j \in (Len(Directory) + 1)..n
    <3>1. /\ j \in DriversIn(c) /\ j \in 1..n /\ new[j] = c[j] /\ j # k
          /\ \A i \in DriversIn(c) : i # j => ~\E p \in c[j].phones : PhoneIn(c, i, p)
      BY <1>2, <1>5, <1>6, <2>2 DEF Apart, n
    <3>2. ASSUME NEW p \in c[j].phones
          PROVE  ~PhoneIn(new, k, p)
      <4>1. Digits(p) = Digits(phone) => PhoneIn(c, j, phone)
        BY <1>3, <3>2 DEF PhoneIn, PhonesMatch
      <4>2. QED
        BY <1>3, <1>8, <3>1, <4>1
    <3>3. QED
      BY <1>6, <1>7, <3>1, <3>2
  <2>3. j = k \/ j \in (Len(Directory) + 1)..n
    BY <1>1 DEF k
  <2>4. QED
    BY <2>1, <2>2, <2>3
<1>11. Apart(new)
  BY <1>2, <1>10 DEF Apart
<1>12. NamedIn(new, k, block)
  <2>1. NameTokensMatch(block.name, new[k].name)
    BY <1>2, <1>3, <1>4 DEF NameTokensMatch
  <2>2. k \in DriversIn(new) /\ PhoneIn(new, k, phone)
    BY <1>6, <1>8
  <2>3. QED
    BY <1>3, <2>1, <2>2 DEF NamedIn
<1>13. QED
  BY <1>11, <1>12 DEF new, k, n

LEMMA CreateChosen ==
  ASSUME IInv, Chosen, CreateContact
  PROVE  Chosen'
<1>1. /\ run \in Runs /\ run.at = "create" /\ run.block \in Blocks /\ TypeOK
      /\ {"put", "write"} \subseteq Nodes /\ contacts \in Seq(Contacts)
  BY Few DEF IInv, TypeOK, CreateContact, Apt, Errand, Nodes
<1>2. PICK new : new = Append(contacts, Created(run.block))
  OBVIOUS
<1>3. Apart(contacts) /\ Apart(new) /\ NamedIn(new, Len(contacts) + 1, run.block)
  BY <1>1, <1>2, Enlisted DEF Chosen
<1>4. CASE contacts' = new /\ run' = [run EXCEPT !.at = "put", !.driver = Len(contacts')]
  <2>1. run'.at = "put" /\ run'.block = run.block /\ run'.driver = Len(contacts')
    BY <1>1, <1>4 DEF Runs
  <2>2. Len(new) = Len(contacts) + 1
    BY <1>1, <1>2, CreatedTyped
  <2>3. QED
    BY <1>3, <1>4, <2>1, <2>2 DEF Chosen
<1>5. CASE contacts' \in {contacts, new} /\ Unresolved
  <2>1. run'.at \notin {"create", "put"}
    BY <1>1, <1>5, EndKept DEF Unresolved, Write, Runs
  <2>2. QED
    BY <1>3, <1>5, <2>1 DEF Chosen
<1>6. QED
  BY <1>2, <1>4, <1>5, Zenon DEF CreateContact

(* The search names a driver, or finds that nobody has the phone.           *)
LEMMA ResolveChosen ==
  ASSUME IInv, Chosen, ResolveDriver, "hydrate" \notin Failing,
         Cardinality(Linked) <= TabLimit
  PROVE  Chosen'
<1>1. /\ run \in Runs /\ run.at = "resolve" /\ contacts' = contacts /\ Directed
      /\ run.block \in Blocks /\ Searchable(run.block) /\ Apart(contacts)
      /\ {"follow_up", "complete", "create", "put", "write"} \subseteq Nodes
  BY DEF IInv, TypeOK, Directed, ResolveDriver, Quiet, Apt, Errand, Nodes, Chosen
<1>2. CASE run'.at \notin {"create", "put"}
  BY <1>1, <1>2 DEF Chosen
<1>3. /\ CarrierDrivers = DriversIn(contacts)
      /\ \A i, phone : HasPhone(i, phone) <=> PhoneIn(contacts, i, phone)
  BY DEF CarrierDrivers, Linked, DriversIn, HasPhone, PhoneIn
<1>4. ASSUME NEW reached \in BOOLEAN, Outcome(ResolveContact(run.block, reached, tms.drivers, {}))
      PROVE  Chosen'
  <2> DEFINE result == ResolveContact(run.block, reached, tms.drivers, {})
             hits == TabByPhone(run.block.phone, {})
  <2>1. hits = {j \in DriversIn(contacts) : PhoneIn(contacts, j, run.block.phone)}
    BY <1>1, <1>3, AllSeen
  <2>2. /\ result.outcome = "found" =>
             /\ result.id \in CarrierDrivers
             /\ run.block.phone = <<>> =>
                  NameTokensMatch(run.block.name, contacts[result.id].name)
             /\ run.block.phone # <<>> => HasPhone(result.id, run.block.phone)
             /\ Cardinality(hits) > 1 /\ run.block.name # {} =>
                  NameTokensMatch(run.block.name, contacts[result.id].name)
        /\ result.outcome = "create" =>
             run.block.name # {} /\ run.block.phone # <<>> /\ hits = {}
    <3>1. {} \in SUBSET DOMAIN contacts
      OBVIOUS
    <3>2. QED
      BY <1>1, <3>1, Resolved
  <2> HIDE DEF result, hits
  <2>3. CASE Forget("follow_up") \/ Forget("complete")
    <3>1. run'.at \notin {"create", "put"}
      BY <1>1, <2>3 DEF Forget, Runs
    <3>2. QED
      BY <1>2, <3>1
  <2>4. CASE result.outcome = "create" /\ run' = [run EXCEPT !.at = "create", !.seen = tms]
    <3>1. run'.at = "create" /\ run'.block = run.block
      BY <1>1, <2>4 DEF Runs
    <3>2. Unknown(contacts, run.block)
      BY <2>1, <2>2, <2>4 DEF Unknown
    <3>3. QED
      BY <1>1, <3>1, <3>2 DEF Chosen
  <2>5. CASE /\ result.outcome = "found"
             /\ run' = [run EXCEPT !.at = "put", !.seen = tms, !.driver = result.id]
    <3>1. run'.at = "put" /\ run'.block = run.block /\ run'.driver = result.id
      BY <1>1, <2>5 DEF Runs
    <3>2. NamedIn(contacts, result.id, run.block)
      BY <1>3, <2>1, <2>2, <2>5 DEF NamedIn
    <3>3. QED
      BY <1>1, <3>1, <3>2 DEF Chosen
  <2>6. QED
    BY <1>4, <2>3, <2>4, <2>5, Zenon DEF Outcome, result
<1>5. CASE Forget("follow_up") \/ Unresolved
  <2>1. run'.at \notin {"create", "put"}
    BY <1>1, <1>5, EndKept DEF Forget, Unresolved, Write, Runs
  <2>2. QED
    BY <1>2, <2>1
<1>6. \/ Forget("follow_up") \/ Unresolved
      \/ \E reached \in BOOLEAN : Outcome(ResolveContact(run.block, reached, tms.drivers, {}))
  BY DEF ResolveDriver
<1>7. QED
  BY <1>4, <1>5, <1>6

LEMMA ChosenKept ==
  ASSUME IInv, [Next]_vars, Chosen, "hydrate" \notin Failing,
         Cardinality(Linked) <= TabLimit
  PROVE  Chosen'
<1>1. CASE ~ResolveDriver /\ ~CreateContact
  <2>1. contacts' = contacts /\ (run' = run \/ run'.at \notin {"create", "put"})
    BY <1>1, Elsewhere
  <2>2. QED
    BY <2>1 DEF Chosen
<1>2. QED
  BY <1>1, CreateChosen, ResolveChosen

LEMMA ChosenAtFirst == Init => Chosen
<1> SUFFICES ASSUME Init
             PROVE  Chosen
  OBVIOUS
<1>1. run.at = "idle" /\ contacts = Directory
  BY DEF Init, Idle, Begun
<1>2. Len(Directory) \in Nat
  BY DirectoryAssumption, LenProperties
<1>3. Apart(contacts)
  BY <1>1, <1>2 DEF Apart
<1>4. QED
  BY <1>1, <1>3 DEF Chosen

LEMMA ChosenMeans == Chosen => NamedDriver /\ OneContactPerPhone
<1> SUFFICES ASSUME Chosen
             PROVE  NamedDriver /\ OneContactPerPhone
  OBVIOUS
<1>1. /\ CarrierDrivers = DriversIn(contacts)
      /\ \A i, phone : HasPhone(i, phone) <=> PhoneIn(contacts, i, phone)
  BY DEF CarrierDrivers, Linked, DriversIn, HasPhone, PhoneIn
<1>2. OneContactPerPhone
  BY <1>1 DEF Chosen, Apart, OneContactPerPhone, SharePhone
<1>3. NamedDriver
  BY <1>1 DEF Chosen, NamedIn, NamedDriver
<1>4. QED
  BY <1>2, <1>3

(* As long as the scan of the carrier's contacts sees them all and each can *)
(* be fetched, the contact put on the shipment is the driver the reply      *)
(* named (_resolve_contact_id),                                             *)
THEOREM PutsTheNamedDriver ==
  ASSUME "hydrate" \notin Failing
  PROVE  Spec /\ [](Cardinality(Linked) <= TabLimit) => []NamedDriver
<1> DEFINE Small == Cardinality(Linked) <= TabLimit
<1>1. IInv /\ Chosen /\ Small /\ [Next]_vars => Chosen'
  BY ChosenKept
<1>2. Chosen => NamedDriver
  BY ChosenMeans
<1> HIDE DEF Small
<1>3. Spec /\ []Small => []NamedDriver
  BY <1>1, <1>2, ChosenAtFirst, Invariance, PTL DEF Spec
<1>4. QED
  BY <1>3 DEF Small

(* and none is created with the phone of another, though a creation that    *)
(* timed out may have been carried out (create_driver_contact).             *)
THEOREM CreatesNobodyTwice ==
  ASSUME "hydrate" \notin Failing
  PROVE  Spec /\ [](Cardinality(Linked) <= TabLimit) => []OneContactPerPhone
<1> DEFINE Small == Cardinality(Linked) <= TabLimit
<1>1. IInv /\ Chosen /\ Small /\ [Next]_vars => Chosen'
  BY ChosenKept
<1>2. Chosen => OneContactPerPhone
  BY ChosenMeans
<1> HIDE DEF Small
<1>3. Spec /\ []Small => []OneContactPerPhone
  BY <1>1, <1>2, ChosenAtFirst, Invariance, PTL DEF Spec
<1>4. QED
  BY <1>3 DEF Small
=============================================================================
