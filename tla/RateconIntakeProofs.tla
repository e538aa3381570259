------------------------- MODULE RateconIntakeProofs -------------------------
(***************************************************************************)
(* Proofs about RateconIntake, and with it LifecycleStore and               *)
(* Communications, for every set of workers, loads and mails, any orders of *)
(* arrival and any failures: the tables agree with each other, the links of *)
(* a mail are made once, the last ratecon of a load stands, a reply goes to *)
(* what its thread is about, and is decided on what was written.            *)
(***************************************************************************)
EXTENDS RateconIntake, LifecycleRequestsProofs, FiniteSetTheorems

-----------------------------------------------------------------------------
(* What each field may hold.                                               *)

Subs == {"none", "ratecon_started", "document_uploaded", "driver_assignment_started",
         "reminder_1_sent", "reminder_2_sent", "uploaded_to_tms", "awaiting_customer_reply",
         "appointment_scheduled", "rejected", "cancelled"}

Sent == {"request", "draft"}
Threads == {Mail[m].thread : m \in Mails} \cup {Awaiting[i].thread : i \in DOMAIN Awaiting}
AllPlaces == UNION {Places[l] : l \in Loads}
Turned == (Mails \cup Sent) \X (Sent \cup UNION {MailText[m] : m \in Mails})

LifecycleRows == [flow : Flows, load : Loads, row : RowsOf(Subs)]
MailRows == [mail : Mails \cup Sent, thread : Threads, direction : {"inbound", "outbound"},
             run : Nat, cycle : Nat]
RunRows == [cycle : Nat, event : Events]
ItemRows == [event : Events, cycle : Nat, mail : Mails \cup {Unset}, row : Nat, from : Nat,
             at : Stages, found : Nat, seen : SUBSET (AllPlaces \cup {"stored", "row"} \cup Turned)]
ApiRows == [at : ApiStages, mail : Mails \cup {Unset}, cycle : Nat, event : Events \cup {Unset},
            row : Nat]

StoreShape == /\ lifecycles \in Seq(LifecycleRows) /\ recent \in Seq(Nat)
              /\ Len(recent) = Len(lifecycles) /\ ToSet(recent) = Cycles
MailShape == rows \in Seq(MailRows)
ItemShape == items \in Seq(ItemRows)
RunShape == runs \in [DOMAIN runs -> RunRows] /\ DOMAIN runs \subseteq DOMAIN items
WaitShape == waiting \in [Mails -> [ratecon : Nat, pod : Nat]]
WorkShape == /\ delivered \in Seq(Mails) /\ reminded \in 0..MaxReminders
             /\ shipments \subseteq Loads /\ located \subseteq AllPlaces
             /\ tasks \subseteq [cycle : Nat, mail : Mails]
             /\ documents \subseteq Cycles /\ accepted \in [Loads -> Nat]

Shapes == /\ StoreShape /\ MailShape /\ ItemShape /\ RunShape /\ WaitShape /\ WorkShape
          /\ api \in ApiRows

-----------------------------------------------------------------------------
(* How the tables hang together.                                           *)

FlowOf(event) ==
  CASE event = "ratecon" -> "ratecon"
    [] event \in {"start", "reminder", "details"} -> "driver_assignment"
    [] OTHER -> "appointment_scheduling"

OfFlow(c, flow) == c \in Cycles /\ lifecycles[c].flow = flow

StagesOf(event) ==
  CASE event = "draft" -> {"done"}
    [] event = "ratecon" -> {"queued", "record", "link", "locate", "place", "received", "upload",
                             "uploaded", "gate", "findDriver", "insertDriver", "pushDriver", "done"}
    [] event = "start" -> {"queued", "record", "link", "check", "started", "done"}
    [] event = "reminder" -> {"queued", "record", "link", "send", "remind", "done"}
    [] OTHER -> {"queued", "record", "link", "read", "decide", "done"}

RowOf(id, m) == id # 0 => id \in DOMAIN rows /\ rows[id].mail = m

\* A run is recorded before it does anything, and what it has seen is so.
ItemRight(n) ==
  /\ OfFlow(items[n].cycle, FlowOf(items[n].event))
  /\ items[n].at \in StagesOf(items[n].event)
  /\ items[n].event # "draft" => items[n].mail \in Mails
  /\ RowOf(items[n].row, items[n].mail)
  /\ {items[n].from, items[n].found} \subseteq 0..Len(lifecycles)
  /\ items[n].at \notin {"queued", "record", "done"} => n \in DOMAIN runs
  /\ items[n].at = "place" => items[n].seen \subseteq Places[LoadOf(n)]
  /\ items[n].at = "uploaded" /\ UploadSuccess(items[n].seen) => items[n].cycle \in documents
  /\ items[n].at = "pushDriver" => OfFlow(items[n].found, "driver_assignment")

RunRight(r) == runs[r].cycle = items[r].cycle /\ runs[r].event = items[r].event

\* A row is of its mail's thread, and the run of a driver reply is linked to
\* rows of its own thread only.
RowRight(i) ==
  /\ rows[i].direction = "inbound" =>
       rows[i].mail \in Mails /\ rows[i].thread = Mail[rows[i].mail].thread
  /\ rows[i].direction = "outbound" => rows[i].mail \in Sent
  /\ rows[i].run # 0 => rows[i].run \in DOMAIN runs
  /\ rows[i].cycle # 0 => rows[i].run # 0 /\ rows[i].cycle = runs[rows[i].run].cycle
  /\ rows[i].run # 0 /\ items[rows[i].run].event = "details" =>
       rows[i].thread = Mail[items[rows[i].run].mail].thread

Superseding == {"findDriver", "cancelDriver", "resolve", "push"}

ApiLinks ==
  api.at = "link" =>
    /\ api.event \in {"reply", "details"}
    /\ \E n \in DOMAIN runs :
         /\ items[n].mail = api.mail /\ items[n].event = api.event /\ items[n].cycle = api.cycle
         /\ \A k \in DOMAIN items :
              (items[k].mail = api.mail /\ items[k].event = api.event) => k <= n

ApiRight ==
  /\ api.cycle \in 0..Len(lifecycles) /\ RowOf(api.row, api.mail)
  /\ api.at # "idle" => api.mail \in Mails
  /\ api.at = "inbound" => api.event = "reply"
  /\ api.at \in {"upsert", "findRatecon", "cancelRatecon", "findDriver", "cancelDriver", "resolve"}
       => api.event = "ratecon" /\ Mail[api.mail].load \in Loads
  /\ api.at = "cancelRatecon" =>
       OfFlow(api.cycle, "ratecon") /\ Correlation(api.cycle) = Mail[api.mail].load
  /\ api.at = "cancelDriver" => OfFlow(api.cycle, "driver_assignment")
  /\ api.at \in {"inbound", "push", "link"} => OfFlow(api.cycle, FlowOf(api.event))
  /\ api.at = "push" => api.event \in {"ratecon", "reply", "details"}
  /\ api.at = "push" /\ api.event = "ratecon" =>
       /\ Mail[api.mail].load \in Loads /\ Correlation(api.cycle) = Mail[api.mail].load
       /\ Sub(api.cycle) # "cancelled"
  /\ ApiLinks

WaitRight == \A m \in Mails : waiting[m].ratecon > 0 => Mail[m].load \in Loads
TasksRight == \A t \in tasks : OfFlow(t.cycle, "driver_assignment")

\* Only while the load's next ratecon is on its way may the last be cancelled.
Accepted(l) ==
  accepted[l] # 0 =>
    /\ OfFlow(accepted[l], "ratecon") /\ Correlation(accepted[l]) = l
    /\ \/ Sub(accepted[l]) # "cancelled"
       \/ api.at \in Superseding /\ api.event = "ratecon" /\ Mail[api.mail].load = l

AcceptedRight == \A l \in Loads : Accepted(l)

Tied ==
  /\ \A n \in DOMAIN items : ItemRight(n)
  /\ \A r \in DOMAIN runs : RunRight(r)
  /\ \A i \in DOMAIN rows : RowRight(i)
  /\ ApiRight /\ WaitRight /\ TasksRight /\ AcceptedRight /\ DocumentedMeansStored

Base == Shapes /\ Tied

-----------------------------------------------------------------------------
(* What a step leaves of the tables: rows are added, and of those there are *)
(* only states, links and stages change.                                   *)

StoreGrown ==
  /\ Len(lifecycles) <= Len(lifecycles')
  /\ \A c \in Cycles : /\ lifecycles'[c].flow = lifecycles[c].flow
                       /\ lifecycles'[c].load = lifecycles[c].load
  /\ \A c \in DOMAIN lifecycles' \ Cycles : lifecycles'[c].flow # "appointment_scheduling"
RowsGrown ==
  /\ Len(rows) <= Len(rows')
  /\ \A i \in DOMAIN rows :
       /\ rows'[i].mail = rows[i].mail /\ rows'[i].thread = rows[i].thread
       /\ rows'[i].direction = rows[i].direction
       /\ rows[i].run # 0 => rows'[i].run = rows[i].run
RunsGrown == DOMAIN runs \subseteq DOMAIN runs' /\ \A r \in DOMAIN runs : runs'[r] = runs[r]
ItemsGrown ==
  /\ Len(items) <= Len(items')
  /\ \A n \in DOMAIN items : /\ items'[n].event = items[n].event
                             /\ items'[n].cycle = items[n].cycle
                             /\ items'[n].mail = items[n].mail

Grown == StoreGrown /\ RowsGrown /\ RunsGrown /\ ItemsGrown /\ documents \subseteq documents'

\* What a step makes of one table.  A run cancels no ratecon, and completes one
\* with its document only when that is filed.
StoreQuiet ==
  \A c \in Cycles' : lifecycles'[c].flow = "ratecon" =>
    \/ c \in Cycles /\ lifecycles'[c].row = lifecycles[c].row
    \/ /\ lifecycles'[c].row.sub # "cancelled"
       /\ lifecycles'[c].row.sub = "document_uploaded" => c \in documents'

StoreStep == StoreShape' /\ StoreGrown /\ StoreQuiet
RowsStep ==
  /\ MailShape' /\ RowsGrown
  /\ \A i \in DOMAIN rows' : (i \in DOMAIN rows /\ rows'[i] = rows[i]) \/ RowRight(i)'
RunsStep ==
  /\ RunShape' /\ RunsGrown
  /\ \A r \in DOMAIN runs' : r \in DOMAIN runs \/ RunRight(r)'
ItemsStep ==
  /\ ItemShape' /\ ItemsGrown
  /\ \A n \in DOMAIN items' : (n \in DOMAIN items /\ items'[n] = items[n]) \/ ItemRight(n)'
WorkStep == WorkShape' /\ documents \subseteq documents' /\ TasksRight'

-----------------------------------------------------------------------------
(* The tables, one by one.                                                 *)

(* Of rows of lifecycles the newest is one of them.                         *)
LEMMA NewestIn ==
  ASSUME StoreShape, NEW ids \in SUBSET Cycles
  PROVE  /\ ids = {} => Newest(ids) = 0
         /\ ids # {} => Newest(ids) \in ids
         /\ Newest(ids) # 0 => Newest(ids) \in ids
<1>1. CASE ids = {}
  BY <1>1 DEF Newest
<1>2. CASE ids # {}
  <2> DEFINE S == {i \in DOMAIN recent : recent[i] \in ids}
             First0(i) == /\ i \in DOMAIN recent /\ recent[i] \in ids
                          /\ \A j \in 1..(i - 1) : recent[j] \notin ids
  <2>1. DOMAIN recent = 1..Len(recent) /\ Len(recent) \in Nat
    BY LenProperties DEF StoreShape
  <2>2. S \in SUBSET Nat /\ S # {}
    <3>1. \A c \in Cycles : \E i \in DOMAIN recent : recent[i] = c
      BY DEF StoreShape, ToSet
    <3>2. QED
      BY <1>2, <2>1, <3>1
  <2>3. PICK i \in S : \A m \in S : i <= m
    BY <2>2, LeastOf
  <2>4. First0(i)
    BY <2>1, <2>3
  <2>5. Newest(ids) = recent[CHOOSE k \in DOMAIN recent :
                               recent[k] \in ids /\ \A j \in 1..(k - 1) : recent[j] \notin ids]
    BY <1>2 DEF Newest
  <2>6. Newest(ids) \in ids
    BY <2>4, <2>5
  <2>7. QED
    BY <1>2, <2>6
<1>3. QED
  BY <1>1, <1>2

(* A row that moves to the front is there once more and none is lost.       *)
LEMMA TouchedTyped ==
  ASSUME StoreShape, NEW c \in Cycles
  PROVE  /\ Touched(c) \in Seq(Nat) /\ Len(Touched(c)) = Len(lifecycles)
         /\ ToSet(Touched(c)) = Cycles
<1> DEFINE place == CHOOSE i \in DOMAIN recent : recent[i] = c
           t == [i \in 1..Len(recent) |->
                   IF i = 1 THEN c ELSE IF i <= place THEN recent[i - 1] ELSE recent[i]]
<1>1. /\ DOMAIN recent = 1..Len(recent) /\ Len(recent) \in Nat
      /\ \A i \in 1..Len(recent) : recent[i] \in Nat
      /\ Len(recent) = Len(lifecycles)
  BY LenProperties, ElementOfSeq DEF StoreShape
<1>2. \E i \in DOMAIN recent : recent[i] = c
  BY DEF StoreShape, ToSet
<1>3. place \in 1..Len(recent) /\ recent[place] = c
  BY <1>1, <1>2
<1> HIDE DEF place
<1>4. Cycles = {recent[i] : i \in 1..Len(recent)}
  BY <1>1 DEF StoreShape, ToSet
<1>5. c \in Nat
  BY <1>1, <1>3
<1>6. \A i \in 1..Len(recent) : t[i] \in Nat /\ t[i] \in Cycles
  <2>1. TAKE i \in 1..Len(recent)
  <2>2. i # 1 => i - 1 \in 1..Len(recent)
    BY <1>1
  <2>3. QED
    BY <1>1, <1>4, <1>5, <2>2
<1>7. \A d \in Cycles : \E i \in 1..Len(recent) : t[i] = d
  <2>1. TAKE d \in Cycles
  <2>2. PICK k \in 1..Len(recent) : recent[k] = d
    BY <1>4
  <2>3. CASE k < place
    <3>1. k + 1 \in 1..Len(recent) /\ k + 1 # 1 /\ k + 1 <= place /\ (k + 1) - 1 = k
      BY <1>1, <1>3, <2>3
    <3>2. t[k + 1] = d
      BY <2>2, <3>1
    <3>3. QED
      BY <3>1, <3>2
  <2>4. CASE k = place
    <3>1. 1 \in 1..Len(recent) /\ t[1] = d
      BY <1>1, <1>3, <2>2, <2>4
    <3>2. QED
      BY <3>1
  <2>5. CASE k > place
    <3>1. k # 1 /\ ~(k <= place)
      BY <1>1, <1>3, <2>5
    <3>2. t[k] = d
      BY <2>2, <3>1
    <3>3. QED
      BY <3>2
  <2>6. QED
    BY <1>1, <1>3, <2>3, <2>4, <2>5
<1>8. t \in Seq(Nat) /\ Len(t) = Len(recent) /\ DOMAIN t = 1..Len(recent)
  <2>1. t \in [1..Len(recent) -> Nat]
    BY <1>6
  <2>2. QED
    BY <1>1, <2>1
<1>9. Touched(c) = t
  BY DEF Touched, place
<1> HIDE DEF t
<1>10. ToSet(t) = Cycles
  BY <1>6, <1>7, <1>8 DEF ToSet
<1>11. QED
  BY <1>1, <1>8, <1>9, <1>10

(* What each look-up finds is of its workflow and, where it is looked for   *)
(* by load, of that load.                                                  *)
LEMMA Found ==
  ASSUME StoreShape, NEW flow, NEW load
  PROVE  /\ FindExisting(flow, load) # 0 =>
              /\ OfFlow(FindExisting(flow, load), flow)
              /\ Correlation(FindExisting(flow, load)) = load
              /\ flow = "ratecon" => Sub(FindExisting(flow, load)) # "cancelled"
         /\ FindLatest(flow, load) # 0 =>
              /\ OfFlow(FindLatest(flow, load), flow)
              /\ Correlation(FindLatest(flow, load)) = load
<1> USE DEF OfLoad, OfFlow, Correlation
<1>1. Newest(OfLoad(flow, load)) # 0 => Newest(OfLoad(flow, load)) \in OfLoad(flow, load)
  <2>1. OfLoad(flow, load) \in SUBSET Cycles
    OBVIOUS
  <2>2. QED
    BY <2>1, NewestIn
<1> DEFINE kept == {c \in OfLoad(flow, load) : flow = "ratecon" => Sub(c) # "cancelled"}
           open == {c \in OfLoad(flow, load) : Sub(c) # "cancelled"}
<1>2. Newest(kept) # 0 => Newest(kept) \in kept
  <2>1. kept \in SUBSET Cycles
    OBVIOUS
  <2> HIDE DEF kept
  <2>2. QED
    BY <2>1, NewestIn
<1>3. Newest(open) # 0 => Newest(open) \in open
  <2>1. open \in SUBSET Cycles
    OBVIOUS
  <2> HIDE DEF open
  <2>2. QED
    BY <2>1, NewestIn
<1>4. FindLatest(flow, load) = Newest(open)
  BY DEF FindLatest
<1>5. \/ FindExisting(flow, load) = Newest(kept)
      \/ FindExisting(flow, load) = Newest(OfLoad(flow, load)) /\ flow # "ratecon"
  BY DEF FindExisting, ShipmentFirst
<1>6. QED
  BY <1>1, <1>2, <1>3, <1>4, <1>5

(* The driver request that is active for a load is one, and of that load.   *)
LEMMA FoundDriver ==
  ASSUME StoreShape, NEW load, ActiveDriver(load) # 0
  PROVE  OfFlow(ActiveDriver(load), "driver_assignment") /\ Correlation(ActiveDriver(load)) = load
<1> DEFINE ids == {c \in OfLoad("driver_assignment", load) :
                     Status(c) \in {"processing", "pending_review"} /\ Sub(c) \notin {"uploaded_to_tms"}}
<1>1. ids \in SUBSET Cycles
  BY DEF OfLoad
<1>2. ActiveDriver(load) = Newest(ids)
  BY DEF ActiveDriver, FindInProgress
<1> HIDE DEF ids
<1>3. ActiveDriver(load) \in ids
  BY <1>1, <1>2, NewestIn
<1>4. QED
  BY <1>3 DEF ids, OfLoad, OfFlow, Correlation

(* An appointment found by its load or by its token is an appointment.      *)
LEMMA FoundAwaiting ==
  ASSUME StoreShape, NEW load, NEW token
  PROVE  /\ AwaitingReply(load) # 0 => OfFlow(AwaitingReply(load), "appointment_scheduling")
         /\ AwaitingToken(token) # 0 => OfFlow(AwaitingToken(token), "appointment_scheduling")
<1> DEFINE ids == {c \in OfLoad("appointment_scheduling", load) : Sub(c) = "awaiting_customer_reply"}
           named == {c \in Cycles : /\ lifecycles[c].flow = "appointment_scheduling"
                                    /\ Sub(c) = "awaiting_customer_reply"
                                    /\ lifecycles[c].load = token}
<1>1. ids \in SUBSET Cycles /\ named \in SUBSET Cycles
  BY DEF OfLoad
<1>2. AwaitingReply(load) = Newest(ids) /\ AwaitingToken(token) = Newest(named)
  BY DEF AwaitingReply, AwaitingToken
<1>3. /\ \A c \in ids : OfFlow(c, "appointment_scheduling")
      /\ \A c \in named : OfFlow(c, "appointment_scheduling")
  BY DEF OfLoad, OfFlow
<1> HIDE DEF ids, named
<1>4. QED
  BY <1>1, <1>2, <1>3, NewestIn

(* A transaction leaves all rows but the one it is about, and of that one   *)
(* everything but its state.                                               *)
LEMMA Transitioned ==
  ASSUME StoreShape, NEW c \in Cycles, NEW s \in Seq(Commands(Subs)), Transition(c, s)
  PROVE  /\ StoreShape' /\ Cycles' = Cycles /\ Len(lifecycles') = Len(lifecycles) /\ StoreGrown
         /\ \A d \in Cycles : d # c => lifecycles'[d] = lifecycles[d]
         /\ s = <<>> => lifecycles' = lifecycles
         /\ s # <<>> => lifecycles'[c].row = AfterSequence(lifecycles[c].row, s)
<1> USE DEF Cycles
<1>0. DOMAIN lifecycles = 1..Len(lifecycles) /\ Len(lifecycles) \in Nat
      /\ lifecycles[c] \in LifecycleRows
  BY LenProperties, ElementOfSeq DEF StoreShape
<1>1. CASE s = <<>>
  BY <1>0, <1>1 DEF Transition, StoreShape, StoreGrown
<1>2. CASE s # <<>>
  <2> DEFINE r == AfterSequence(lifecycles[c].row, s)
  <2>1. r \in RowsOf(Subs)
    BY <1>0, AfterSequenceTyped DEF LifecycleRows
  <2>2. lifecycles' = [lifecycles EXCEPT ![c] = [lifecycles[c] EXCEPT !.row = r]]
    BY <1>2 DEF Transition
  <2>3. recent' = Touched(c)
    BY <1>2 DEF Transition
  <2> HIDE DEF r
  <2>4. [lifecycles[c] EXCEPT !.row = r] \in LifecycleRows
    BY <1>0, <2>1 DEF LifecycleRows
  <2>5. lifecycles' \in Seq(LifecycleRows) /\ Len(lifecycles') = Len(lifecycles)
        /\ DOMAIN lifecycles' = DOMAIN lifecycles
    BY <1>0, <2>2, <2>4, ExceptSeq DEF StoreShape
  <2>6. StoreShape'
    BY <2>3, <2>5, TouchedTyped DEF StoreShape
  <2>7. /\ \A d \in Cycles : d # c => lifecycles'[d] = lifecycles[d]
        /\ lifecycles'[c] = [lifecycles[c] EXCEPT !.row = r]
    BY <2>2
  <2>8. lifecycles'[c].row = r /\ lifecycles'[c].flow = lifecycles[c].flow
        /\ lifecycles'[c].load = lifecycles[c].load
    BY <1>0, <2>7 DEF LifecycleRows
  <2>9. StoreGrown
    <3>1. \A d \in Cycles : lifecycles'[d].flow = lifecycles[d].flow /\ lifecycles'[d].load = lifecycles[d].load
      BY <2>7, <2>8
    <3>2. QED
      BY <1>0, <2>5, <3>1 DEF StoreGrown
  <2>10. QED
    BY <1>2, <2>5, <2>6, <2>7, <2>8, <2>9 DEF r
<1>3. QED
  BY <1>1, <1>2

(* An insertion adds a row.                                                *)
LEMMA Inserted ==
  ASSUME StoreShape, NEW flow \in Flows, flow # "appointment_scheduling", NEW load \in Loads,
         InsertLifecycle(flow, load)
  PROVE  /\ StoreShape' /\ StoreGrown /\ Len(lifecycles') = Len(lifecycles) + 1
         /\ Cycles' = Cycles \cup {Len(lifecycles) + 1} /\ Cycles = 1..Len(lifecycles)
         /\ \A d \in Cycles : lifecycles'[d] = lifecycles[d]
         /\ lifecycles'[Len(lifecycles) + 1] = [flow |-> flow, load |-> load, row |-> NewRow]
<1> USE DEF Cycles
<1> DEFINE e == [flow |-> flow, load |-> load, row |-> NewRow]
           n == Len(lifecycles) + 1
<1>0. DOMAIN lifecycles = 1..Len(lifecycles) /\ Len(lifecycles) \in Nat
  BY LenProperties DEF StoreShape
<1>1. NewRow \in RowsOf(Subs)
  BY DEF NewRow, RowsOf, Subs, Statuses
<1>2. e \in LifecycleRows
  BY <1>1 DEF LifecycleRows
<1>3. lifecycles' = Append(lifecycles, e) /\ recent' = <<n>> \o recent
  BY DEF InsertLifecycle
<1> HIDE DEF e
<1>4. /\ lifecycles' \in Seq(LifecycleRows) /\ Len(lifecycles') = n
      /\ \A d \in 1..Len(lifecycles) : lifecycles'[d] = lifecycles[d]
      /\ lifecycles'[n] = e
  BY <1>2, <1>3, AppendProperties DEF StoreShape
<1>5. DOMAIN lifecycles' = 1..n /\ 1..n = 1..Len(lifecycles) \cup {n}
  <2>1. DOMAIN lifecycles' = 1..n
    BY <1>4, LenProperties
  <2>2. QED
    BY <1>0, <2>1
<1>6. recent' \in Seq(Nat) /\ Len(recent') = n /\ ToSet(recent') = 1..n
  <2> DEFINE one == <<n>>
  <2>1. one \in Seq(Nat) /\ Len(one) = 1 /\ one[1] = n
    BY <1>0
  <2> HIDE DEF one
  <2>2. recent \in Seq(Nat) /\ Len(recent) = Len(lifecycles) /\ DOMAIN recent = 1..Len(recent)
        /\ {recent[i] : i \in DOMAIN recent} = 1..Len(lifecycles)
    BY <1>0, LenProperties DEF StoreShape, ToSet
  <2>3. /\ one \o recent \in Seq(Nat) /\ Len(one \o recent) = 1 + Len(recent)
        /\ \A i \in 1..(1 + Len(recent)) : (one \o recent)[i] = IF i <= 1 THEN one[i] ELSE recent[i - 1]
    <3>1. /\ one \o recent \in Seq(Nat) /\ Len(one \o recent) = Len(one) + Len(recent)
          /\ \A i \in 1..(Len(one) + Len(recent)) :
               (one \o recent)[i] = IF i <= Len(one) THEN one[i] ELSE recent[i - Len(one)]
      <4>1. one \in Seq(Nat) /\ recent \in Seq(Nat)
        BY <2>1, <2>2
      <4>2. QED
        BY ONLY <4>1, ConcatProperties
    <3>2. Len(one) = 1
      BY <2>1
    <3>3. QED
      BY <3>1, <3>2
  <2> DEFINE u == one \o recent
  <2>4. DOMAIN u = 1..(1 + Len(recent))
    BY <2>3, LenProperties
  <2>5. u \in Seq(Nat) /\ Len(u) = 1 + Len(recent) /\ DOMAIN u = 1..(1 + Len(recent))
        /\ \A i \in 1..(1 + Len(recent)) : u[i] = IF i <= 1 THEN one[i] ELSE recent[i - 1]
    BY <2>3, <2>4
  <2> HIDE DEF u
  <2>6. \A i \in DOMAIN u : u[i] \in 1..n
    <3>1. TAKE i \in DOMAIN u
    <3>2. CASE i = 1
      BY <1>0, <2>1, <2>5, <3>2
    <3>3. CASE i # 1
      <4>1. i - 1 \in 1..Len(recent) /\ ~(i <= 1)
        BY <1>0, <2>2, <2>5, <3>1, <3>3
      <4>2. u[i] = recent[i - 1] /\ recent[i - 1] \in 1..Len(lifecycles)
        BY <2>2, <2>5, <3>1, <4>1
      <4>3. QED
        BY <1>0, <4>2
    <3>4. QED
      BY <3>2, <3>3
  <2>7. \A d \in 1..n : \E i \in DOMAIN u : u[i] = d
    <3>1. TAKE d \in 1..n
    <3>2. CASE d = n
      <4>1. 1 \in DOMAIN u /\ u[1] = n
        BY <1>0, <2>1, <2>2, <2>5
      <4>2. QED
        BY <3>2, <4>1
    <3>3. CASE d # n
      <4>1. d \in 1..Len(lifecycles)
        BY <1>0, <3>3
      <4>2. PICK k \in 1..Len(recent) : recent[k] = d
        BY <2>2, <4>1
      <4>3. k + 1 \in DOMAIN u /\ ~(k + 1 <= 1) /\ (k + 1) - 1 = k
        BY <1>0, <2>2, <2>5
      <4>4. u[k + 1] = d
        BY <2>5, <4>2, <4>3
      <4>5. QED
        BY <4>3, <4>4
    <3>4. QED
      BY <3>2, <3>3
  <2>8. ToSet(u) = 1..n
    BY <2>6, <2>7 DEF ToSet
  <2>9. recent' = u
    BY <1>3 DEF u, one
  <2>10. QED
    BY <1>0, <2>2, <2>5, <2>8, <2>9
<1> HIDE DEF n
<1>7. StoreShape'
  BY <1>4, <1>5, <1>6 DEF StoreShape
<1>8. StoreGrown
  <2>1. \A d \in DOMAIN lifecycles' \ DOMAIN lifecycles : lifecycles'[d].flow = flow
    BY <1>0, <1>4, <1>5 DEF e
  <2>2. Len(lifecycles) <= Len(lifecycles')
    BY <1>0, <1>4 DEF n
  <2>3. QED
    BY <1>0, <1>4, <2>1, <2>2 DEF StoreGrown
<1>9. QED
  BY <1>0, <1>4, <1>5, <1>7, <1>8 DEF e, n

-----------------------------------------------------------------------------
(* The rows of mails.                                                      *)

(* A row that is appended is new and leaves the others.                     *)
LEMMA RowAdded ==
  ASSUME MailShape, NEW e \in MailRows, rows' = Append(rows, e)
  PROVE  /\ MailShape' /\ RowsGrown /\ Len(rows) \in Nat /\ Len(rows') = Len(rows) + 1
         /\ DOMAIN rows = 1..Len(rows) /\ DOMAIN rows' = 1..(Len(rows) + 1)
         /\ \A i \in DOMAIN rows : i \in DOMAIN rows' /\ rows'[i] = rows[i]
         /\ \A i \in DOMAIN rows' : i \notin DOMAIN rows => i = Len(rows) + 1
         /\ rows'[Len(rows) + 1] = e
<1>1. /\ rows' \in Seq(MailRows) /\ Len(rows') = Len(rows) + 1
      /\ \A i \in 1..Len(rows) : rows'[i] = rows[i]
      /\ rows'[Len(rows) + 1] = e
  BY AppendProperties DEF MailShape
<1>2. DOMAIN rows = 1..Len(rows) /\ DOMAIN rows' = 1..Len(rows') /\ Len(rows) \in Nat
  BY <1>1, LenProperties DEF MailShape
<1>3. QED
  BY <1>1, <1>2 DEF MailShape, RowsGrown

(* An inbound mail has its row, old or new.                                *)
LEMMA InboundAdded ==
  ASSUME MailShape, NEW m \in Mails, rows' = WithInbound(m)
  PROVE  /\ MailShape' /\ RowsGrown /\ DOMAIN rows \subseteq DOMAIN rows'
         /\ InboundId(m) \in Nat /\ InboundId(m) # 0
         /\ InboundId(m) \in DOMAIN rows' /\ rows'[InboundId(m)].mail = m
         /\ \A i \in DOMAIN rows : rows'[i] = rows[i]
         /\ \A i \in DOMAIN rows' : i \notin DOMAIN rows => rows'[i] = InboundRow(m)
<1>0. DOMAIN rows = 1..Len(rows) /\ Len(rows) \in Nat
  BY LenProperties DEF MailShape
<1> DEFINE mine == {i \in DOMAIN rows : rows[i].mail = m}
<1>1. CASE mine = {}
  <2>1. FindInbound(m) = 0
    BY <1>1 DEF FindInbound
  <2>2. InboundRow(m) \in MailRows /\ InboundRow(m).mail = m
    BY DEF InboundRow, MailRows, Threads
  <2>3. rows' = Append(rows, InboundRow(m)) /\ InboundId(m) = Len(rows) + 1
    BY <2>1 DEF WithInbound, InboundId
  <2> DEFINE e == InboundRow(m)
  <2>4. e \in MailRows /\ e.mail = m /\ rows' = Append(rows, e)
    BY <2>2, <2>3
  <2> HIDE DEF e
  <2>5. /\ MailShape' /\ RowsGrown /\ Len(rows) \in Nat /\ DOMAIN rows' = 1..(Len(rows) + 1)
        /\ \A i \in DOMAIN rows : i \in DOMAIN rows' /\ rows'[i] = rows[i]
        /\ \A i \in DOMAIN rows' : i \notin DOMAIN rows => i = Len(rows) + 1
        /\ rows'[Len(rows) + 1] = e
    BY <2>4, RowAdded
  <2>6. InboundId(m) \in Nat /\ InboundId(m) # 0 /\ InboundId(m) \in DOMAIN rows'
    BY <1>0, <2>3, <2>5
  <2>7. QED
    BY <2>3, <2>4, <2>5, <2>6 DEF e
<1>2. CASE mine # {}
  <2>1. FindInbound(m) \in mine
    BY <1>2 DEF FindInbound
  <2>2. FindInbound(m) # 0 /\ FindInbound(m) \in Nat
    BY <1>0, <2>1
  <2>3. rows' = rows /\ InboundId(m) = FindInbound(m)
    BY <2>2 DEF WithInbound, InboundId
  <2>4. QED
    BY <1>0, <2>1, <2>2, <2>3 DEF MailShape, RowsGrown
<1>3. QED
  BY <1>1, <1>2

(* The row of a mail that we send is outbound.                             *)
LEMMA OutboundTyped ==
  ASSUME NEW thread \in Threads, NEW run \in Nat, NEW text \in Sent
  PROVE  OutboundRow(thread, run, text) \in MailRows
BY DEF OutboundRow, MailRows

(* Linking sets the run of rows that have none: of the row it is given and  *)
(* of the thread's; and the cycle only where the run is the one given.      *)
LEMMA RowsLinked ==
  ASSUME MailShape, NEW id \in Nat, id # 0 => id \in DOMAIN rows, NEW run \in Nat, run # 0,
         NEW cycle \in Nat, NEW thread,
         rows' = ThreadLinked(Linked(rows, id, run, cycle), thread, run, cycle)
  PROVE  /\ MailShape' /\ RowsGrown /\ DOMAIN rows' = DOMAIN rows
         /\ \A i \in DOMAIN rows :
              /\ rows'[i].mail = rows[i].mail /\ rows'[i].thread = rows[i].thread
              /\ rows'[i].direction = rows[i].direction
              /\ \/ rows'[i].run = rows[i].run
                 \/ rows[i].run = 0 /\ rows'[i].run = run /\ (i = id \/ rows[i].thread = thread)
              /\ \/ rows'[i].cycle = rows[i].cycle
                 \/ rows'[i].run = run /\ rows'[i].cycle = cycle
<1> DEFINE l == Linked(rows, id, run, cycle)
<1>0. DOMAIN rows = 1..Len(rows) /\ Len(rows) \in Nat /\ \A i \in DOMAIN rows : rows[i] \in MailRows
  BY LenProperties, ElementOfSeq DEF MailShape
<1>1. /\ DOMAIN l = DOMAIN rows
      /\ \A i \in DOMAIN rows :
           /\ l[i] \in MailRows
           /\ l[i].mail = rows[i].mail /\ l[i].thread = rows[i].thread
           /\ l[i].direction = rows[i].direction
           /\ l[i].run = rows[i].run \/ (rows[i].run = 0 /\ l[i].run = run /\ i = id)
           /\ l[i].cycle = rows[i].cycle \/ (l[i].run = run /\ l[i].cycle = cycle)
  <2>1. CASE id = 0
    BY <1>0, <2>1 DEF Linked
  <2>2. CASE id # 0 /\ rows[id].run = run
    <3> DEFINE e == [rows[id] EXCEPT !.cycle = IF @ = 0 THEN cycle ELSE @]
    <3>1. l = [rows EXCEPT ![id] = e]
      BY <2>2 DEF Linked
    <3>2. rows[id] \in MailRows
      BY <1>0, <2>2
    <3>3. /\ e \in MailRows /\ e.mail = rows[id].mail /\ e.thread = rows[id].thread
          /\ e.direction = rows[id].direction /\ e.run = rows[id].run
          /\ e.cycle = rows[id].cycle \/ e.cycle = cycle
      BY <3>2 DEF MailRows
    <3> HIDE DEF e, l
    <3>4. QED
      BY <1>0, <2>2, <3>1, <3>3
  <2>3. CASE id # 0 /\ rows[id].run # run /\ rows[id].run = 0
    <3> DEFINE e == [rows[id] EXCEPT !.run = run, !.cycle = IF cycle = 0 THEN @ ELSE cycle]
    <3>1. l = [rows EXCEPT ![id] = e]
      BY <2>3 DEF Linked
    <3>2. rows[id] \in MailRows
      BY <1>0, <2>3
    <3>3. /\ e \in MailRows /\ e.mail = rows[id].mail /\ e.thread = rows[id].thread
          /\ e.direction = rows[id].direction /\ e.run = run
          /\ e.cycle = rows[id].cycle \/ e.cycle = cycle
      BY <3>2 DEF MailRows
    <3> HIDE DEF e, l
    <3>4. QED
      BY <1>0, <2>3, <3>1, <3>3
  <2>4. CASE id # 0 /\ rows[id].run # run /\ rows[id].run # 0
    BY <1>0, <2>4 DEF Linked
  <2>5. QED
    BY <2>1, <2>2, <2>3, <2>4
<1> HIDE DEF l
<1>2. rows' = [i \in DOMAIN rows |->
                 IF l[i].thread = thread /\ l[i].run = 0
                   THEN [l[i] EXCEPT !.run = run, !.cycle = IF cycle = 0 THEN @ ELSE cycle]
                 ELSE l[i]]
  BY <1>1 DEF ThreadLinked, l
<1>3. ASSUME NEW i \in DOMAIN rows
      PROVE  /\ rows'[i] \in MailRows
             /\ rows'[i].mail = l[i].mail /\ rows'[i].thread = l[i].thread
             /\ rows'[i].direction = l[i].direction
             /\ rows'[i].run = l[i].run \/ (l[i].run = 0 /\ rows'[i].run = run /\ l[i].thread = thread)
             /\ rows'[i].cycle = l[i].cycle \/ (rows'[i].run = run /\ rows'[i].cycle = cycle)
             /\ l[i].run # 0 => rows'[i] = l[i]
  <2>1. CASE l[i].thread = thread /\ l[i].run = 0
    <3> DEFINE e == [l[i] EXCEPT !.run = run, !.cycle = IF cycle = 0 THEN @ ELSE cycle]
    <3>1. rows'[i] = e
      BY <1>2, <2>1
    <3>2. l[i] \in MailRows
      BY <1>1
    <3>3. /\ e \in MailRows /\ e.mail = l[i].mail /\ e.thread = l[i].thread
          /\ e.direction = l[i].direction /\ e.run = run
          /\ e.cycle = l[i].cycle \/ e.cycle = cycle
      BY <3>2 DEF MailRows
    <3> HIDE DEF e
    <3>4. QED
      BY <2>1, <3>1, <3>3
  <2>2. CASE ~(l[i].thread = thread /\ l[i].run = 0)
    BY <1>1, <1>2, <2>2
  <2>3. QED
    BY <2>1, <2>2
<1>4. /\ DOMAIN rows' = DOMAIN rows /\ MailShape' /\ Len(rows') = Len(rows)
  <2>1. rows' \in [1..Len(rows) -> MailRows]
    BY <1>0, <1>2, <1>3
  <2>2. QED
    BY <1>0, <2>1 DEF MailShape
<1>5. ASSUME NEW i \in DOMAIN rows
      PROVE  /\ rows'[i].mail = rows[i].mail /\ rows'[i].thread = rows[i].thread
             /\ rows'[i].direction = rows[i].direction
             /\ \/ rows'[i].run = rows[i].run
                \/ rows[i].run = 0 /\ rows'[i].run = run /\ (i = id \/ rows[i].thread = thread)
             /\ \/ rows'[i].cycle = rows[i].cycle
                \/ rows'[i].run = run /\ rows'[i].cycle = cycle
  <2>1. /\ l[i].mail = rows[i].mail /\ l[i].thread = rows[i].thread
        /\ l[i].direction = rows[i].direction
        /\ l[i].run = rows[i].run \/ (rows[i].run = 0 /\ l[i].run = run /\ i = id)
        /\ l[i].cycle = rows[i].cycle \/ (l[i].run = run /\ l[i].cycle = cycle)
    BY <1>1
  <2>2. QED
    BY <1>3, <2>1
<1>6. RowsGrown
  BY <1>0, <1>4, <1>5 DEF RowsGrown
<1>7. QED
  BY <1>4, <1>5, <1>6
-----------------------------------------------------------------------------
(* Runs and items.                                                         *)

(* A run that is recorded is there, and the others stay.                    *)
LEMMA RunAdded ==
  ASSUME RunShape, ItemsGrown, ItemShape, ItemShape', NEW r \in DOMAIN items', NEW c \in Nat, NEW e \in Events,
         runs' = RunRecorded(r, c, e)
  PROVE  /\ RunShape' /\ RunsGrown /\ DOMAIN runs' = DOMAIN runs \cup {r}
         /\ r \notin DOMAIN runs => runs'[r] = [cycle |-> c, event |-> e]
<1>1. DOMAIN items \subseteq DOMAIN items'
  BY LenProperties DEF ItemsGrown, ItemShape
<1>2. CASE r \in DOMAIN runs
  BY <1>1, <1>2 DEF RunRecorded, RunShape, RunsGrown
<1>3. CASE r \notin DOMAIN runs
  <2> DEFINE x == [cycle |-> c, event |-> e]
  <2>1. x \in RunRows
    BY DEF RunRows
  <2>2. runs' = [k \in DOMAIN runs \cup {r} |-> IF k = r THEN x ELSE runs[k]]
    BY <1>3 DEF RunRecorded
  <2> HIDE DEF x
  <2>3. /\ DOMAIN runs' = DOMAIN runs \cup {r} /\ runs'[r] = x
        /\ \A k \in DOMAIN runs : runs'[k] = runs[k]
    BY <1>3, <2>2
  <2>4. \A k \in DOMAIN runs' : runs'[k] \in RunRows
    BY <2>1, <2>3 DEF RunShape
  <2>5. QED
    BY <1>1, <1>3, <2>2, <2>3, <2>4 DEF RunShape, RunsGrown, x
<1>4. QED
  BY <1>2, <1>3

(* An item that moves on leaves the others,                                 *)
LEMMA ItemMoved ==
  ASSUME ItemShape, NEW n \in DOMAIN items, NEW i \in ItemRows, items' = [items EXCEPT ![n] = i],
         i.event = items[n].event, i.cycle = items[n].cycle, i.mail = items[n].mail
  PROVE  /\ ItemShape' /\ ItemsGrown /\ DOMAIN items' = DOMAIN items /\ Len(items') = Len(items)
         /\ items'[n] = i /\ \A k \in DOMAIN items : k # n => items'[k] = items[k]
<1>1. /\ items' \in Seq(ItemRows) /\ Len(items') = Len(items) /\ DOMAIN items' = DOMAIN items
      /\ DOMAIN items = 1..Len(items) /\ Len(items) \in Nat
  BY ExceptSeq, LenProperties DEF ItemShape
<1>2. items'[n] = i /\ \A k \in DOMAIN items : k # n => items'[k] = items[k]
  OBVIOUS
<1>3. QED
  BY <1>1, <1>2 DEF ItemShape, ItemsGrown

(* and one that is queued leaves them all.                                 *)
LEMMA ItemAdded ==
  ASSUME ItemShape, NEW i \in ItemRows, items' = Append(items, i)
  PROVE  /\ ItemShape' /\ ItemsGrown /\ Len(items) \in Nat /\ Len(items') = Len(items) + 1
         /\ DOMAIN items = 1..Len(items) /\ DOMAIN items' = 1..(Len(items) + 1)
         /\ \A k \in DOMAIN items : k \in DOMAIN items' /\ items'[k] = items[k]
         /\ \A k \in DOMAIN items' : k \notin DOMAIN items => k = Len(items) + 1
         /\ items'[Len(items) + 1] = i
<1>1. /\ items' \in Seq(ItemRows) /\ Len(items') = Len(items) + 1
      /\ \A k \in 1..Len(items) : items'[k] = items[k]
      /\ items'[Len(items) + 1] = i
  BY AppendProperties DEF ItemShape
<1>2. DOMAIN items = 1..Len(items) /\ DOMAIN items' = 1..Len(items') /\ Len(items) \in Nat
  BY <1>1, LenProperties DEF ItemShape
<1>3. QED
  BY <1>1, <1>2 DEF ItemShape, ItemsGrown

-----------------------------------------------------------------------------
(* The commands.                                                           *)

(* What is cancelled is sent two commands.                                 *)
LEMMA CancelTyped ==
  ASSUME NEW v, NEW statuses, NEW terminal, NEW s \in Cancel(v, statuses, terminal) \cup {<<>>}
  PROVE  s \in Seq(Commands(Subs))
<1> DEFINE c == StatusChange("completed", "cancelled")
<1>1. Action \in Commands(Subs)
  BY CommandsTyped DEF Subs
<1>2. c \in Commands(Subs)
  BY DEF StatusChange, Command, Commands, Transitions, Statuses, Unset, Subs
<1> HIDE DEF c
<1>3. <<Action, c>> \in Seq(Commands(Subs)) /\ <<>> \in Seq(Commands(Subs))
  BY <1>1, <1>2
<1>4. s = <<>> \/ s = <<Action, c>>
  BY DEF Cancel, When, c
<1>5. QED
  BY <1>3, <1>4

(* A rate confirmation that is received is started,                         *)
LEMMA ReceivedLeaves ==
  ASSUME NEW v, NEW r \in RowsOf(Subs), NEW s \in RateconReceived(v)
  PROVE  s \in Seq(Commands(Subs)) /\ s # <<>> /\ AfterSequence(r, s).sub = "ratecon_started"
<1> DEFINE c == From(Fresh, StatusChange("processing", "ratecon_started"))
<1>1. Action \in Commands(Subs) /\ IsSnapshot(Action.type)
  BY CommandsTyped DEF Subs, Action, Command, IsSnapshot, Snapshots
<1>2. c \in Commands(Subs) /\ ~IsSnapshot(c.type) /\ c.sub = "ratecon_started"
  BY DEF StatusChange, Command, Commands, Transitions, Statuses, Unset, Subs, From, Fresh,
         IsSnapshot, Snapshots
<1>3. s = <<Action, c>>
  BY DEF RateconReceived
<1> HIDE DEF c
<1>4. AfterSequence(r, s).sub = OrElse(c.sub, r.sub)
  BY <1>1, <1>2, <1>3, AfterLogged
<1>5. s \in Seq(Commands(Subs)) /\ s # <<>>
  BY <1>1, <1>2, <1>3, Joined2
<1>6. QED
  BY <1>2, <1>4, <1>5 DEF OrElse, Unset

(* and uploaded only if the command of a success is logged.                 *)
LEMMA UploadedLeaves ==
  ASSUME NEW v, NEW r \in RowsOf(Subs), NEW s \in RateconUploaded(v)
  PROVE  /\ s \in Seq(Commands(Subs)) /\ s # <<>> /\ AfterSequence(r, s).sub # "cancelled"
         /\ AfterSequence(r, s).sub = "document_uploaded" => Head(s) = Action
<1> DEFINE started == [status |-> "processing", sub |-> "ratecon_started"]
           c == From(started, StatusChange("completed", "document_uploaded"))
           d == From(started, StatusChange("completed", "ratecon_started"))
<1>1. Action \in Commands(Subs) /\ IsSnapshot(Action.type)
  BY CommandsTyped DEF Subs, Action, Command, IsSnapshot, Snapshots
<1>2. c \in Commands(Subs) /\ ~IsSnapshot(c.type) /\ c.sub = "document_uploaded"
  BY DEF StatusChange, Command, Commands, Transitions, Statuses, Unset, Subs, From,
         IsSnapshot, Snapshots
<1>3. d \in Commands(Subs) /\ ~IsSnapshot(d.type) /\ d.sub = "ratecon_started"
  BY DEF StatusChange, Command, Commands, Transitions, Statuses, Unset, Subs, From,
         IsSnapshot, Snapshots
<1>4. Exception \in Commands(Subs) /\ IsSnapshot(Exception.type)
  BY DEF Exception, Command, Commands, Snapshots, Unset, IsSnapshot
<1>5. s = <<Action, c>> \/ s = <<Exception, d>>
  BY DEF RateconUploaded
<1> HIDE DEF c, d
<1>6. CASE s = <<Action, c>>
  <2>1. AfterSequence(r, s).sub = OrElse(c.sub, r.sub)
    BY <1>1, <1>2, <1>6, AfterLogged
  <2>2. s \in Seq(Commands(Subs)) /\ s # <<>>
    BY <1>1, <1>2, <1>6, Joined2
  <2>3. Head(s) = Action
    BY <1>6
  <2>4. QED
    BY <1>2, <2>1, <2>2, <2>3 DEF OrElse, Unset
<1>7. CASE s = <<Exception, d>>
  <2>1. AfterSequence(r, s).sub = OrElse(d.sub, r.sub)
    BY <1>3, <1>4, <1>7, AfterLogged
  <2>2. s \in Seq(Commands(Subs)) /\ s # <<>>
    BY <1>3, <1>4, <1>7, Joined2
  <2>3. QED
    BY <1>3, <2>1, <2>2 DEF OrElse, Unset
<1>8. QED
  BY <1>5, <1>6, <1>7

(* The commands of a driver request and of an appointment are commands.     *)
LEMMA DriverTyped ==
  ASSUME NEW v \in ViewsOf(Subs),
         NEW s \in UNION {DriverStarted(v), DriverReminder(v), DriverAssigned(v), {<<Action>>, <<>>}}
  PROVE  s \in Seq(Commands(Subs))
<1> DEFINE c == From(Fresh, StatusChange("processing", "driver_assignment_started"))
           d == SubChange(v.status, "uploaded_to_tms")
           e(sub) == ReviewStep(v, sub)
<1>1. Action \in Commands(Subs)
  BY CommandsTyped DEF Subs
<1>2. c \in Commands(Subs)
  BY DEF StatusChange, Command, Commands, Transitions, Statuses, Unset, Subs, From, Fresh
<1>3. d \in Commands(Subs)
  BY DEF SubChange, Command, Commands, Transitions, Unset, Subs, ViewsOf
<1>4. e("reminder_1_sent") \in Commands(Subs) /\ e("reminder_2_sent") \in Commands(Subs)
  BY DEF ReviewStep, Command, Commands, Transitions, Statuses, Unset, Subs
<1>5. \/ s \in {<<>>, <<Action>>, <<c>>} \/ s \in DriverAssigned(v)
      \/ s \in {<<Action, e("reminder_1_sent")>>, <<Action, e("reminder_2_sent")>>}
  BY DEF DriverStarted, DriverReminder, When
<1>6. ASSUME s \in DriverAssigned(v)
      PROVE  s = <<Action, d>> \/ s = <<Action>>
  <2>1. s = <<Action>> \o (IF v.sub = "uploaded_to_tms" THEN <<>> ELSE <<d>>)
    BY <1>6 DEF DriverAssigned
  <2> HIDE DEF d
  <2>2. <<Action>> \o <<d>> = <<Action, d>>
    BY <1>1, <1>3, Spliced1
  <2>3. <<Action>> \o <<>> = <<Action>>
    <3> DEFINE one == <<Action>>
    <3>1. one \in Seq(Commands(Subs))
      BY <1>1
    <3> HIDE DEF one
    <3>2. one \o <<>> = one
      BY <3>1, ConcatEmptySeq
    <3>3. QED
      BY <3>2 DEF one
  <2>4. QED
    BY <2>1, <2>2, <2>3
<1> HIDE DEF c, d, e
<1>7. /\ <<>> \in Seq(Commands(Subs)) /\ <<Action>> \in Seq(Commands(Subs))
      /\ <<c>> \in Seq(Commands(Subs)) /\ <<Action, d>> \in Seq(Commands(Subs))
      /\ <<Action, e("reminder_1_sent")>> \in Seq(Commands(Subs))
      /\ <<Action, e("reminder_2_sent")>> \in Seq(Commands(Subs))
  BY <1>1, <1>2, <1>3, <1>4, Joined1, Joined2
<1>8. QED
  BY <1>5, <1>6, <1>7

(* A reply puts known commands to an appointment.                           *)
LEMMA AppointmentTyped ==
  ASSUME NEW v \in ViewsOf(Subs), NEW s \in AppointmentReplied(v) \cup {<<>>}
  PROVE  s \in Seq(Commands(Subs))
<1> DEFINE c == From(v, StatusChange("completed", "appointment_scheduled"))
           d == From(v, StatusChange("completed", "rejected"))
<1>1. c \in Commands(Subs) /\ d \in Commands(Subs)
  BY DEF StatusChange, Command, Commands, Transitions, Statuses, Unset, Subs, From, ViewsOf
<1>2. s \in {<<>>, <<c>>, <<d>>}
  BY DEF AppointmentReplied, When
<1> HIDE DEF c, d
<1>3. <<>> \in Seq(Commands(Subs)) /\ <<c>> \in Seq(Commands(Subs)) /\ <<d>> \in Seq(Commands(Subs))
  BY <1>1, Joined1
<1>4. QED
  BY <1>2, <1>3

-----------------------------------------------------------------------------
(* From a thread to a lifecycle.                                           *)

(* The run of a row has a cycle.                                           *)
LEMMA RunOfRow ==
  ASSUME Base, NEW i \in DOMAIN rows, rows[i].run \in DOMAIN runs
  PROVE  /\ rows[i].run \in DOMAIN items
         /\ runs[rows[i].run].cycle = items[rows[i].run].cycle
         /\ runs[rows[i].run].event = items[rows[i].run].event
         /\ runs[rows[i].run].cycle \in Cycles
<1>1. rows[i].run \in DOMAIN items
  BY DEF Base, Shapes, RunShape
<1>2. RunRight(rows[i].run) /\ ItemRight(rows[i].run)
  BY <1>1 DEF Base, Tied
<1>3. QED
  BY <1>1, <1>2 DEF RunRight, ItemRight, OfFlow

(* A thread's rows lead to lifecycles that exist.                           *)
LEMMA ThreadsCycles ==
  ASSUME Base, NEW thread
  PROVE  ThreadCycles(thread) \in SUBSET Cycles
BY RunOfRow DEF ThreadCycles, InThread

(* What is active on a thread is of the flow asked for, and tied to the     *)
(* thread.                                                                  *)
LEMMA FoundActive ==
  ASSUME Base, NEW flow, NEW thread, FindActive(flow, thread) # 0
  PROVE  OfFlow(FindActive(flow, thread), flow) /\ FindActive(flow, thread) \in ThreadCycles(thread)
<1> DEFINE ids == {c \in ThreadCycles(thread) :
                     lifecycles[c].flow = flow /\ Sub(c) \notin {"uploaded_to_tms", "cancelled"}}
<1>1. ids \in SUBSET Cycles
  BY ThreadsCycles
<1>2. FindActive(flow, thread) = Newest(ids)
  BY DEF FindActive
<1>3. \A c \in ids : OfFlow(c, flow) /\ c \in ThreadCycles(thread)
  BY <1>1 DEF OfFlow
<1> HIDE DEF ids
<1>4. StoreShape
  BY DEF Base, Shapes
<1>5. QED
  BY <1>1, <1>2, <1>3, <1>4, NewestIn

(* The load that a thread is about is that of a lifecycle tied to the       *)
(* thread.                                                                  *)
LEMMA FoundContext ==
  ASSUME Base, NEW thread, ContextLoad(thread) # Unset
  PROVE  \E c \in ThreadCycles(thread) : Correlation(c) = ContextLoad(thread)
<1>1. StoreShape /\ ThreadCycles(thread) \in SUBSET Cycles
  BY ThreadsCycles DEF Base, Shapes
<1>2. Newest(ThreadCycles(thread)) # 0
  BY DEF ContextLoad
<1>3. Newest(ThreadCycles(thread)) \in ThreadCycles(thread)
  BY <1>1, <1>2, NewestIn
<1>4. QED
  BY <1>2, <1>3 DEF ContextLoad, Correlation

(* A reply goes to an appointment, or to a driver request of a load that    *)
(* the reply's thread leads to.                                            *)
LEMMA ReplyGoes ==
  ASSUME Base, NEW m, ActiveReply(m) # 0
  PROVE  OfFlow(ActiveReply(m), "appointment_scheduling")
<1> DEFINE a == FindActive("appointment_scheduling", Mail[m].thread)
           b == AwaitingReply(ContextLoad(Mail[m].thread))
           t == AwaitingToken(Mail[m].token)
<1>1. StoreShape
  BY DEF Base, Shapes
<1>2. /\ a # 0 => OfFlow(a, "appointment_scheduling")
      /\ b # 0 => OfFlow(b, "appointment_scheduling")
      /\ t # 0 => OfFlow(t, "appointment_scheduling")
  BY <1>1, FoundActive, FoundAwaiting
<1>3. ActiveReply(m) \in {0, a, b, t}
  BY DEF ActiveReply, Undecided
<1> HIDE DEF a, b, t
<1>4. QED
  BY <1>2, <1>3

(* A driver reply goes to a request whose load its thread is already about. *)
LEMMA DetailsGo ==
  ASSUME Base, NEW m, ActiveDetails(m) # 0
  PROVE  /\ OfFlow(ActiveDetails(m), "driver_assignment")
         /\ \E c \in ThreadCycles(Mail[m].thread) : Correlation(c) = Correlation(ActiveDetails(m))
<1> DEFINE thread == Mail[m].thread
           a == FindActive("driver_assignment", thread)
           load == ContextLoad(thread)
           b == ActiveDriver(load)
<1>1. StoreShape
  BY DEF Base, Shapes
<1>2. a # 0 => OfFlow(a, "driver_assignment") /\ a \in ThreadCycles(thread)
  BY FoundActive
<1>3. b # 0 => OfFlow(b, "driver_assignment") /\ Correlation(b) = load
  BY <1>1, FoundDriver
<1>4. b # 0 => load # Unset
  <2>1. SUFFICES ASSUME b # 0 PROVE load # Unset
    OBVIOUS
  <2>2. lifecycles[b] \in LifecycleRows
    BY <1>1, <1>3, <2>1, ElementOfSeq, LenProperties DEF StoreShape, OfFlow, Cycles
  <2>3. lifecycles[b].load \in Loads
    BY <2>2 DEF LifecycleRows
  <2>4. QED
    BY <1>3, <2>1, <2>3, LoadsAssumption DEF Correlation
<1>5. load # Unset => \E c \in ThreadCycles(thread) : Correlation(c) = load
  BY FoundContext
<1>6. ActiveDetails(m) = a \/ (ActiveDetails(m) = b /\ a = 0)
  BY DEF ActiveDetails
<1> HIDE DEF a, b, load
<1>7. QED
  BY <1>2, <1>3, <1>4, <1>5, <1>6

(* A row of lifecycles is well typed.                                      *)
LEMMA CycleTyped ==
  ASSUME StoreShape, NEW c \in Cycles
  PROVE  /\ lifecycles[c] \in LifecycleRows /\ c \in Nat /\ c # 0 /\ c <= Len(lifecycles)
         /\ lifecycles[c].row \in RowsOf(Subs) /\ View(lifecycles[c].row) \in ViewsOf(Subs)
         /\ Len(lifecycles) \in Nat /\ Correlation(c) \in Loads
<1>1. /\ lifecycles[c] \in LifecycleRows /\ DOMAIN lifecycles = 1..Len(lifecycles)
      /\ Len(lifecycles) \in Nat
  BY ElementOfSeq, LenProperties DEF StoreShape, Cycles
<1>2. lifecycles[c].row \in RowsOf(Subs) /\ lifecycles[c].load \in Loads
  BY <1>1 DEF LifecycleRows
<1>3. View(lifecycles[c].row) \in ViewsOf(Subs)
  BY <1>2 DEF RowsOf, ViewsOf, View
<1>4. QED
  BY <1>1, <1>2, <1>3 DEF Cycles, Correlation

-----------------------------------------------------------------------------
(* What stays right when the tables grow.                                  *)

(* Tables that grow keep their places.                                     *)
LEMMA Places0 ==
  ASSUME Base, Grown, StoreShape', MailShape', ItemShape'
  PROVE  /\ Cycles \subseteq Cycles' /\ DOMAIN rows \subseteq DOMAIN rows'
         /\ DOMAIN items \subseteq DOMAIN items' /\ Len(lifecycles) <= Len(lifecycles')
         /\ Len(lifecycles) \in Nat /\ Len(lifecycles') \in Nat
         /\ Cycles = 1..Len(lifecycles) /\ DOMAIN items = 1..Len(items) /\ DOMAIN rows = 1..Len(rows)
<1>1. StoreShape /\ MailShape /\ ItemShape
  BY DEF Base, Shapes
<1>2. /\ Cycles = 1..Len(lifecycles) /\ Cycles' = 1..Len(lifecycles')
      /\ Len(lifecycles) \in Nat /\ Len(lifecycles') \in Nat
  BY <1>1, LenProperties DEF StoreShape, Cycles
<1>3. /\ DOMAIN rows = 1..Len(rows) /\ DOMAIN rows' = 1..Len(rows')
      /\ Len(rows) \in Nat /\ Len(rows') \in Nat
  BY <1>1, LenProperties DEF MailShape
<1>4. /\ DOMAIN items = 1..Len(items) /\ DOMAIN items' = 1..Len(items')
      /\ Len(items) \in Nat /\ Len(items') \in Nat
  BY <1>1, LenProperties DEF ItemShape
<1>5. QED
  BY <1>2, <1>3, <1>4 DEF Grown, StoreGrown, RowsGrown, ItemsGrown

(* No step changes what a lifecycle is of.                                  *)
LEMMA FlowStays ==
  ASSUME Base, Grown, StoreShape', MailShape', ItemShape', NEW c, NEW flow, OfFlow(c, flow)
  PROVE  OfFlow(c, flow)' /\ Correlation(c)' = Correlation(c)
<1>1. Cycles \subseteq Cycles'
  BY Places0
<1>2. QED
  BY <1>1 DEF OfFlow, Grown, StoreGrown, Correlation

(* No step takes away the row of a mail, or gives it to another.            *)
LEMMA RowStays ==
  ASSUME Base, Grown, StoreShape', MailShape', ItemShape', NEW id, NEW m, RowOf(id, m)
  PROVE  RowOf(id, m)'
<1>1. DOMAIN rows \subseteq DOMAIN rows'
  BY Places0
<1>2. QED
  BY <1>1 DEF RowOf, Grown, RowsGrown

(* An item is right again if what has changed of it is.                     *)
LEMMA ItemMovedRight ==
  ASSUME Base, Grown, StoreShape', MailShape', ItemShape', NEW n \in DOMAIN items, NEW i, items'[n] = i,
         i.at \in StagesOf(i.event),
         i.row = items[n].row \/ RowOf(i.row, i.mail)',
         {i.from, i.found} \subseteq 0..Len(lifecycles'),
         i.at \notin {"queued", "record", "done"} => n \in DOMAIN runs',
         i.at = "place" => i.seen \subseteq Places[LoadOf(n)],
         i.at = "uploaded" /\ UploadSuccess(i.seen) => i.cycle \in documents',
         i.at = "pushDriver" => OfFlow(i.found, "driver_assignment")'
  PROVE  ItemRight(n)'
<1>1. ItemRight(n)
  BY DEF Base, Tied
<1>2. i.event = items[n].event /\ i.cycle = items[n].cycle /\ i.mail = items[n].mail
  BY DEF Grown, ItemsGrown
<1>3. OfFlow(i.cycle, FlowOf(i.event))
  BY <1>1, <1>2 DEF ItemRight
<1>4. OfFlow(i.cycle, FlowOf(i.event))' /\ Correlation(i.cycle)' = Correlation(i.cycle)
  BY <1>3, FlowStays
<1>5. LoadOf(n)' = LoadOf(n)
  BY <1>2, <1>4 DEF LoadOf
<1>6. RowOf(i.row, i.mail)'
  <2>1. CASE i.row = items[n].row
    <3>1. RowOf(i.row, i.mail)
      BY <1>1, <1>2, <2>1 DEF ItemRight
    <3>2. QED
      BY <3>1, RowStays
  <2>2. QED
    BY <2>1
<1>7. i.event # "draft" => i.mail \in Mails
  BY <1>1, <1>2 DEF ItemRight
<1>8. QED
  BY <1>2, <1>4, <1>5, <1>6, <1>7 DEF ItemRight

(* What holds of a run that a step leaves alone still holds.                *)
LEMMA ItemsStay ==
  ASSUME Base, Grown, StoreShape', MailShape', ItemShape', NEW n \in DOMAIN items, items'[n] = items[n]
  PROVE  ItemRight(n)'
<1> DEFINE i == items[n]
<1>1. ItemRight(n)
  BY DEF Base, Tied
<1>2. Len(lifecycles) <= Len(lifecycles') /\ Len(lifecycles) \in Nat /\ Len(lifecycles') \in Nat
      /\ Cycles = 1..Len(lifecycles) /\ DOMAIN runs \subseteq DOMAIN runs'
  BY Places0 DEF Grown, RunsGrown
<1>3. PICK j : j = items[n]
  OBVIOUS
<1>4. {j.from, j.found} \subseteq 0..Len(lifecycles')
  BY <1>1, <1>2, <1>3 DEF ItemRight
<1>5. j.at = "pushDriver" => OfFlow(j.found, "driver_assignment")'
  BY <1>1, <1>3, FlowStays DEF ItemRight
<1>6. j.at = "uploaded" /\ UploadSuccess(j.seen) => j.cycle \in documents'
  BY <1>1, <1>3 DEF ItemRight, Grown
<1>7. QED
  BY <1>1, <1>2, <1>3, <1>4, <1>5, <1>6, ItemMovedRight DEF ItemRight

(* What holds of a record of a run still holds.                             *)
LEMMA RunsStay ==
  ASSUME Base, Grown, StoreShape', MailShape', ItemShape', NEW r \in DOMAIN runs
  PROVE  RunRight(r)' /\ r \in DOMAIN items
<1>1. RunRight(r) /\ r \in DOMAIN items
  BY DEF Base, Tied, Shapes, RunShape
<1>2. QED
  BY <1>1 DEF RunRight, Grown, RunsGrown, ItemsGrown

(* What holds of a row that a step leaves alone still holds.                *)
LEMMA RowsStay ==
  ASSUME Base, Grown, StoreShape', MailShape', ItemShape', NEW i \in DOMAIN rows, rows'[i] = rows[i]
  PROVE  RowRight(i)'
<1>1. RowRight(i)
  BY DEF Base, Tied
<1>2. rows[i].run # 0 => /\ rows[i].run \in DOMAIN runs /\ rows[i].run \in DOMAIN items
                         /\ rows[i].run \in DOMAIN runs'
                         /\ runs'[rows[i].run].cycle = runs[rows[i].run].cycle
                         /\ items'[rows[i].run].event = items[rows[i].run].event
                         /\ items'[rows[i].run].mail = items[rows[i].run].mail
  BY <1>1 DEF RowRight, Base, Shapes, RunShape, Grown, RunsGrown, ItemsGrown
<1>3. QED
  BY <1>1, <1>2 DEF RowRight

(* All of the tables are right if what is new of them is.                   *)
LEMMA TablesRight ==
  ASSUME Base, Grown, StoreShape', RowsStep, RunsStep, ItemsStep
  PROVE  /\ (\A n \in DOMAIN items : ItemRight(n))'
         /\ (\A r \in DOMAIN runs : RunRight(r))'
         /\ (\A i \in DOMAIN rows : RowRight(i))'
<1>1. MailShape' /\ ItemShape'
  BY DEF RowsStep, ItemsStep
<1>2. (\A n \in DOMAIN items : ItemRight(n))'
  BY <1>1, ItemsStay DEF ItemsStep
<1>3. (\A r \in DOMAIN runs : RunRight(r))'
  BY <1>1, RunsStay DEF RunsStep
<1>4. (\A i \in DOMAIN rows : RowRight(i))'
  BY <1>1, RowsStay DEF RowsStep
<1>5. QED
  BY <1>2, <1>3, <1>4

(* The steps of a run, and the reminders, leave what the webhooks are at.   *)
LEMMA ApiStays ==
  ASSUME Base, Grown, StoreStep, MailShape', ItemShape', api' = api,
         \A k \in DOMAIN items' \ DOMAIN items : items'[k].event \in {"start", "reminder"}
  PROVE  ApiRight'
<1>1. ApiRight /\ StoreShape'
  BY DEF Base, Tied, StoreStep
<1>2. api.cycle \in 0..Len(lifecycles')
  BY <1>1, Places0 DEF ApiRight
<1>3. PICK a : a = api
  OBVIOUS
<1>4. /\ \A flow : OfFlow(a.cycle, flow) => OfFlow(a.cycle, flow)' /\ Correlation(a.cycle)' = Correlation(a.cycle)
      /\ RowOf(a.row, a.mail) => RowOf(a.row, a.mail)'
  BY <1>1, FlowStays, RowStays
<1>5. OfFlow(a.cycle, "ratecon") /\ Sub(a.cycle) # "cancelled" => Sub(a.cycle)' # "cancelled"
  BY <1>4 DEF StoreStep, StoreQuiet, OfFlow, Sub
<1>6. ASSUME ApiLinks, a.at = "link"
      PROVE  \E n \in DOMAIN runs' :
               /\ items'[n].mail = a.mail /\ items'[n].event = a.event /\ items'[n].cycle = a.cycle
               /\ \A k \in DOMAIN items' :
                    (items'[k].mail = a.mail /\ items'[k].event = a.event) => k <= n
  <2>1. a.event \in {"reply", "details"}
    BY <1>3, <1>6 DEF ApiLinks
  <2>2. PICK n \in DOMAIN runs :
          /\ items[n].mail = a.mail /\ items[n].event = a.event /\ items[n].cycle = a.cycle
          /\ \A k \in DOMAIN items :
               (items[k].mail = a.mail /\ items[k].event = a.event) => k <= n
    BY <1>3, <1>6 DEF ApiLinks
  <2>3. n \in DOMAIN items /\ n \in DOMAIN runs'
    BY <2>2 DEF Base, Shapes, RunShape, Grown, RunsGrown
  <2>4. ASSUME NEW k \in DOMAIN items', items'[k].mail = a.mail, items'[k].event = a.event
        PROVE  k <= n
    <3>1. k \in DOMAIN items
      BY <2>1, <2>4
    <3>2. QED
      BY <2>2, <2>4, <3>1 DEF Grown, ItemsGrown
  <2>5. QED
    BY <2>2, <2>3, <2>4 DEF Grown, ItemsGrown
<1>7. ApiLinks'
  BY <1>1, <1>3, <1>6 DEF ApiLinks, ApiRight
<1>8. api' = a /\ a = api /\ ApiRight
  BY <1>1, <1>3
<1>9. /\ a.at = "push" /\ a.event = "ratecon" =>
           /\ Mail[a.mail].load \in Loads /\ Correlation(a.cycle)' = Mail[a.mail].load
           /\ Sub(a.cycle)' # "cancelled"
      /\ a.at = "cancelRatecon" =>
           OfFlow(a.cycle, "ratecon")' /\ Correlation(a.cycle)' = Mail[a.mail].load
      /\ a.at = "cancelDriver" => OfFlow(a.cycle, "driver_assignment")'
      /\ a.at \in {"inbound", "push", "link"} => OfFlow(a.cycle, FlowOf(a.event))'
  <2>1. /\ a.at = "push" /\ a.event = "ratecon" =>
             /\ Mail[a.mail].load \in Loads /\ Correlation(a.cycle) = Mail[a.mail].load
             /\ Sub(a.cycle) # "cancelled"
        /\ a.at = "cancelRatecon" =>
             OfFlow(a.cycle, "ratecon") /\ Correlation(a.cycle) = Mail[a.mail].load
        /\ a.at = "cancelDriver" => OfFlow(a.cycle, "driver_assignment")
        /\ a.at \in {"inbound", "push", "link"} => OfFlow(a.cycle, FlowOf(a.event))
    BY <1>8 DEF ApiRight
  <2>2. FlowOf("ratecon") = "ratecon"
    BY DEF FlowOf
  <2>3. a.at = "push" /\ a.event = "ratecon" => OfFlow(a.cycle, "ratecon")
    BY <2>1, <2>2
  <2>4. QED
    BY <1>4, <1>5, <2>1, <2>3
<1>10. RowOf(a.row, a.mail)'
  BY <1>4, <1>8 DEF ApiRight
<1>11. QED
  BY <1>2, <1>7, <1>8, <1>9, <1>10 DEF ApiRight

(* A ratecon that was accepted stands as long as no step cancels it, and    *)
(* the documents stay.                                                     *)
LEMMA AcceptedStays ==
  ASSUME Base, Grown, StoreStep, MailShape', ItemShape', accepted' = accepted,
         (api.at \in Superseding /\ api.event = "ratecon") =>
           (api'.at \in Superseding /\ api'.event = "ratecon" /\ api'.mail = api.mail)
  PROVE  AcceptedRight'
<1> SUFFICES ASSUME NEW l \in Loads, accepted[l] # 0
             PROVE  /\ OfFlow(accepted[l], "ratecon")' /\ Correlation(accepted[l])' = l
                    /\ \/ Sub(accepted[l])' # "cancelled"
                       \/ api'.at \in Superseding /\ api'.event = "ratecon" /\ Mail[api'.mail].load = l
  BY DEF AcceptedRight, Accepted
<1>1. PICK c : c = accepted[l]
  OBVIOUS
<1>2. Accepted(l) /\ StoreShape'
  BY DEF Base, Tied, AcceptedRight, StoreStep
<1>3. OfFlow(c, "ratecon") /\ Correlation(c) = l
  BY <1>1, <1>2 DEF Accepted
<1>4. OfFlow(c, "ratecon")' /\ Correlation(c)' = l
  BY <1>2, <1>3, FlowStays
<1>5. Sub(c) # "cancelled" => Sub(c)' # "cancelled"
  BY <1>4 DEF StoreStep, StoreQuiet, OfFlow, Sub
<1>6. accepted'[l] = c
  BY <1>1
<1>7. QED
  BY <1>1, <1>2, <1>4, <1>5, <1>6 DEF Accepted

(* A completed ratecon keeps its document.                                  *)
LEMMA StoredStays ==
  ASSUME Base, Grown, StoreStep
  PROVE  DocumentedMeansStored'
BY DEF Base, Tied, Grown, StoreGrown, StoreStep, StoreQuiet, DocumentedMeansStored, Sub, Cycles

(* Steps that leave a table.                                                *)
LEMMA StoreSame ==
  ASSUME Base, UNCHANGED storeVars
  PROVE  StoreStep
<1>1. StoreShape /\ Len(lifecycles) \in Nat
  BY LenProperties DEF Base, Shapes, StoreShape
<1>2. QED
  BY <1>1 DEF storeVars, StoreStep, StoreShape, StoreGrown, StoreQuiet, Cycles

(* A step that leaves the mail table.                                       *)
LEMMA RowsSame ==
  ASSUME Base, UNCHANGED rows
  PROVE  RowsStep
<1>1. MailShape /\ Len(rows) \in Nat
  BY LenProperties DEF Base, Shapes, MailShape
<1>2. QED
  BY <1>1 DEF RowsStep, MailShape, RowsGrown

(* A step that leaves the records of runs.                                  *)
LEMMA RunsSame ==
  ASSUME Base, UNCHANGED runs, DOMAIN items \subseteq DOMAIN items'
  PROVE  RunsStep
BY DEF RunsStep, RunShape, RunsGrown, Base, Shapes

(* A step that leaves the queue.                                            *)
LEMMA ItemsSame ==
  ASSUME Base, UNCHANGED items
  PROVE  ItemsStep
<1>1. ItemShape /\ Len(items) \in Nat
  BY LenProperties DEF Base, Shapes, ItemShape
<1>2. QED
  BY <1>1 DEF ItemsStep, ItemShape, ItemsGrown

(* A step that leaves what the runs work on.                                *)
LEMMA WorkSame ==
  ASSUME Base, UNCHANGED <<shipments, located, workVars>>, delivered' \in Seq(Mails),
         accepted' \in [Loads -> Nat], StoreShape', StoreGrown
  PROVE  WorkStep
<1>1. WorkShape /\ TasksRight /\ StoreShape
  BY DEF Base, Shapes, Tied
<1>2. Cycles \subseteq Cycles'
  BY <1>1, LenProperties DEF StoreShape, StoreGrown, Cycles
<1>3. WorkShape' /\ documents \subseteq documents'
  BY <1>1, <1>2 DEF WorkShape, workVars
<1>4. TasksRight'
  BY <1>1, <1>2 DEF TasksRight, OfFlow, StoreGrown, workVars
<1>5. QED
  BY <1>3, <1>4 DEF WorkStep

(* A step that makes the right thing of every table.                        *)
LEMMA Assembled ==
  ASSUME Base, StoreShape', StoreGrown, RowsStep, RunsStep, ItemsStep, WorkStep, WaitShape',
         WaitRight', api' \in ApiRows, ApiRight', AcceptedRight', DocumentedMeansStored'
  PROVE  Base' /\ Grown
<1>1. Grown /\ MailShape' /\ ItemShape' /\ RunShape' /\ WorkShape' /\ TasksRight'
  BY DEF Grown, RowsStep, RunsStep, ItemsStep, WorkStep
<1>2. Shapes'
  BY <1>1 DEF Shapes
<1>3. /\ (\A n \in DOMAIN items : ItemRight(n))'
      /\ (\A r \in DOMAIN runs : RunRight(r))'
      /\ (\A i \in DOMAIN rows : RowRight(i))'
  BY <1>1, TablesRight
<1>4. QED
  BY <1>1, <1>2, <1>3 DEF Base, Tied

(* The same of a step that leaves what was accepted.                        *)
LEMMA StepRight ==
  ASSUME Base, StoreStep, RowsStep, RunsStep, ItemsStep, WorkStep, WaitShape', WaitRight',
         api' \in ApiRows, ApiRight', accepted' = accepted,
         (api.at \in Superseding /\ api.event = "ratecon") =>
           (api'.at \in Superseding /\ api'.event = "ratecon" /\ api'.mail = api.mail)
  PROVE  Base' /\ Grown
<1>1. Grown /\ StoreShape' /\ MailShape' /\ ItemShape' /\ StoreGrown
  BY DEF Grown, StoreStep, RowsStep, RunsStep, ItemsStep, WorkStep
<1>2. AcceptedRight' /\ DocumentedMeansStored'
  BY <1>1, AcceptedStays, StoredStays
<1>3. QED
  BY <1>1, <1>2, Assembled

(* A step of the webhook that only changes what it is at.                   *)
LEMMA WebhookRight ==
  ASSUME Base, UNCHANGED <<shipments, located, storeVars, items, workVars, accepted, commVars>>,
         delivered' \in Seq(Mails), WaitShape', WaitRight', api' \in ApiRows, ApiRight',
         (api.at \in Superseding /\ api.event = "ratecon") =>
           (api'.at \in Superseding /\ api'.event = "ratecon" /\ api'.mail = api.mail)
  PROVE  Base' /\ Grown
<1>1. StoreStep
  BY StoreSame DEF storeVars
<1>2. RowsStep /\ RunsStep /\ ItemsStep
  BY RowsSame, RunsSame, ItemsSame DEF commVars
<1>3. WorkStep
  <2>1. accepted' \in [Loads -> Nat]
    BY DEF Base, Shapes, WorkShape
  <2>2. QED
    BY <1>1, <2>1, WorkSame DEF StoreStep
<1>4. QED
  BY <1>1, <1>2, <1>3, StepRight

(* A step of a run that moves its item.                                     *)
LEMMA RunStepRight ==
  ASSUME Base, NEW n \in DOMAIN items, NEW i \in ItemRows, items' = [items EXCEPT ![n] = i],
         i.event = items[n].event, i.cycle = items[n].cycle, i.mail = items[n].mail,
         StoreStep, RowsStep, RunsStep, WorkStep, UNCHANGED <<inVars, api, accepted>>,
         i.at \in StagesOf(i.event),
         i.row = items[n].row \/ RowOf(i.row, i.mail)',
         {i.from, i.found} \subseteq 0..Len(lifecycles'),
         i.at \notin {"queued", "record", "done"} => n \in DOMAIN runs',
         i.at = "place" => i.seen \subseteq Places[LoadOf(n)],
         i.at = "uploaded" /\ UploadSuccess(i.seen) => i.cycle \in documents',
         i.at = "pushDriver" => OfFlow(i.found, "driver_assignment")'
  PROVE  Base' /\ Grown
<1>1. /\ ItemShape' /\ ItemsGrown /\ DOMAIN items' = DOMAIN items /\ items'[n] = i
      /\ \A k \in DOMAIN items : k # n => items'[k] = items[k]
  BY ItemMoved DEF Base, Shapes
<1>2. Grown /\ StoreShape' /\ MailShape'
  BY <1>1 DEF Grown, StoreStep, RowsStep, RunsStep, WorkStep
<1>3. ItemRight(n)'
  BY <1>1, <1>2, ItemMovedRight
<1>4. ItemsStep
  BY <1>1, <1>3 DEF ItemsStep
<1>5. ApiRight'
  BY <1>1, <1>2, ApiStays
<1>6. WaitShape' /\ WaitRight' /\ api' \in ApiRows
  BY DEF inVars, Base, Shapes, Tied, WaitShape, WaitRight
<1>7. QED
  BY <1>4, <1>5, <1>6, StepRight

-----------------------------------------------------------------------------
(* The steps of the webhook.                                               *)

(* What every state says of what the webhook is at.                        *)
LEMMA ApiFacts ==
  ASSUME Base
  PROVE  /\ api \in ApiRows /\ ApiRight /\ WaitShape /\ WaitRight /\ delivered \in Seq(Mails)
         /\ StoreShape /\ MailShape /\ ItemShape /\ RunShape /\ WorkShape
         /\ Len(lifecycles) \in Nat /\ Cycles = 1..Len(lifecycles)
BY LenProperties DEF Base, Shapes, Tied, WorkShape, StoreShape, Cycles

(* Nothing is at work, or a mail that the appointments have a look at.      *)
LEMMA ApiStarts ==
  ASSUME Base, NEW m \in Mails, NEW a \in {ApiIdle, [ApiIdle EXCEPT !.at = "appointment", !.mail = m]},
         api' = a, UNCHANGED storeVars
  PROVE  api' \in ApiRows /\ ApiRight'
<1>0. ApiIdle \in ApiRows /\ "appointment" \in ApiStages
  BY DEF ApiIdle, ApiRows, ApiStages, Events, Unset
<1> DEFINE b == [ApiIdle EXCEPT !.at = "appointment", !.mail = m]
<1>1. /\ a.at \in {"idle", "appointment"} /\ a.cycle = 0 /\ a.row = 0 /\ a.event = Unset
      /\ a.at # "idle" => a.mail \in Mails
  <2>1. a = ApiIdle \/ a = b
    OBVIOUS
  <2>2. b.at = "appointment" /\ b.cycle = 0 /\ b.row = 0 /\ b.event = Unset /\ b.mail = m
    BY DEF ApiIdle
  <2> HIDE DEF b
  <2>3. QED
    BY <2>1, <2>2 DEF ApiIdle
<1>2. a \in ApiRows
  <2>1. b \in ApiRows
    BY <1>0 DEF ApiRows
  <2>2. QED
    BY <1>0, <2>1
<1>3. Len(lifecycles') \in Nat
  BY ApiFacts DEF storeVars
<1>4. ApiLinks'
  BY <1>1 DEF ApiLinks
<1>5. QED
  BY <1>1, <1>2, <1>3, <1>4 DEF ApiRight, RowOf

(* A mail comes, and the webhook asks the TMS for its load, or for POD's.   *)
LEMMA DeliverRight ==
  ASSUME Base, NEW m \in Mails, Deliver(m)
  PROVE  Base' /\ Grown
<1>1. delivered' \in Seq(Mails)
  BY ApiFacts, AppendProperties DEF Deliver
<1>2. api.at = "idle"
  BY DEF Deliver
<1>3. CASE Classified(m) = "pod_lifecycle"
  <2>1. waiting' = [waiting EXCEPT ![m].pod = @ + 1] /\ api' = api
    BY <1>3 DEF Deliver
  <2>2. WaitShape' /\ WaitRight'
    BY <2>1, ApiFacts DEF WaitShape, WaitRight
  <2>3. ApiRight'
    BY <1>2, <2>1, ApiFacts DEF ApiRight, ApiLinks, RowOf, Deliver, storeVars, commVars
  <2>4. QED
    BY <1>1, <1>2, <2>1, <2>2, <2>3, ApiFacts, WebhookRight DEF Deliver, Superseding, fileVars
<1>4. CASE Classified(m) # "pod_lifecycle"
  <2>1. api' = [ApiIdle EXCEPT !.at = "appointment", !.mail = m] /\ waiting' = waiting
    BY <1>4 DEF Deliver
  <2>2. WaitShape' /\ WaitRight'
    BY <2>1, ApiFacts DEF WaitShape, WaitRight
  <2>3. api' \in ApiRows /\ ApiRight'
    BY <2>1, ApiStarts DEF Deliver
  <2>4. QED
    BY <1>1, <1>2, <2>2, <2>3, WebhookRight DEF Deliver, Superseding, fileVars
<1>5. QED
  BY <1>3, <1>4

(* The mail is looked at by POD, and if there is nothing, goes on.          *)
LEMMA TryPodRight ==
  ASSUME Base, NEW m \in Mails, TryPod(m)
  PROVE  Base' /\ Grown
<1>1. delivered' \in Seq(Mails)
  BY ApiFacts DEF TryPod
<1>2. WaitShape' /\ WaitRight'
  <2>1. waiting \in [Mails -> [ratecon : Nat, pod : Nat]] /\ waiting[m].pod > 0
        /\ waiting' = [waiting EXCEPT ![m].pod = @ - 1]
    BY ApiFacts DEF TryPod, WaitShape
  <2>2. waiting[m].pod - 1 \in Nat
    BY <2>1
  <2>3. QED
    BY <2>1, <2>2, ApiFacts DEF WaitShape, WaitRight
<1>3. api' \in ApiRows /\ ApiRight'
  BY ApiStarts DEF TryPod
<1>4. QED
  BY <1>1, <1>2, <1>3, WebhookRight DEF TryPod, Superseding, fileVars

(* The TMS answers the webhook that waited for it.                          *)
LEMMA FetchRight ==
  ASSUME Base, NEW m \in Mails, Fetch(m)
  PROVE  Base' /\ Grown
<1>1. delivered' \in Seq(Mails) /\ api.at = "idle"
  BY ApiFacts DEF Fetch
<1>2. WaitShape' /\ WaitRight' /\ Mail[m].load \in Loads
  <2>1. waiting \in [Mails -> [ratecon : Nat, pod : Nat]] /\ waiting[m].ratecon > 0
        /\ waiting' = [waiting EXCEPT ![m].ratecon = @ - 1]
    BY ApiFacts DEF Fetch, WaitShape
  <2>2. waiting[m].ratecon - 1 \in Nat
    BY <2>1
  <2>3. QED
    BY <2>1, <2>2, ApiFacts DEF WaitShape, WaitRight
<1>3. api' \in ApiRows /\ ApiRight'
  <2>1. CASE api' = api
    BY <1>1, <2>1, ApiFacts DEF ApiRight, ApiLinks, RowOf, Fetch, storeVars, commVars
  <2>2. CASE api' = [ApiIdle EXCEPT !.at = "upsert", !.mail = m, !.event = "ratecon"]
    <3>1. /\ api'.at = "upsert" /\ api'.mail = m /\ api'.cycle = 0 /\ api'.row = 0
          /\ api'.event = "ratecon"
      BY <2>2 DEF ApiIdle
    <3>2. api' \in ApiRows
      BY <2>2 DEF ApiIdle, ApiRows, ApiStages, Events, Unset
    <3>3. Len(lifecycles') \in Nat
      BY ApiFacts DEF Fetch, storeVars
    <3>4. QED
      BY <1>2, <3>1, <3>2, <3>3 DEF ApiRight, ApiLinks, RowOf
  <2>3. QED
    BY <2>1, <2>2 DEF Fetch
<1>4. QED
  BY <1>1, <1>2, <1>3, WebhookRight DEF Fetch, Superseding, fileVars

(* The webhook looks for the appointment that a reply is of.                *)
LEMMA TryAppointmentRight ==
  ASSUME Base, TryAppointment
  PROVE  Base' /\ Grown
<1> DEFINE c == IF IsReply(api.mail) THEN ActiveReply(api.mail) ELSE 0
<1>1. /\ api.at = "appointment" /\ delivered' = delivered /\ waiting' = waiting
      /\ lifecycles' = lifecycles /\ rows' = rows
  BY DEF TryAppointment, inVars, storeVars, commVars
<1>2. c # 0 => OfFlow(c, "appointment_scheduling")
  BY ReplyGoes
<1>3. \/ c # 0 /\ api' = [api EXCEPT !.at = "inbound", !.cycle = c, !.event = "reply"]
      \/ api' = [api EXCEPT !.at = "driver"]
  BY DEF TryAppointment
<1> HIDE DEF c
<1>4. c # 0 => c \in 1..Len(lifecycles) /\ c \in Nat
  BY <1>2, ApiFacts DEF OfFlow
<1>5. api' \in ApiRows /\ api'.mail = api.mail /\ api'.row = api.row
  BY <1>3, <1>4, ApiFacts DEF ApiRows, ApiStages, Events
<1>6. \/ api'.at = "inbound" /\ api'.event = "reply" /\ api'.cycle = c /\ c # 0
      \/ api'.at = "driver" /\ api'.cycle = api.cycle
  BY <1>3, ApiFacts DEF ApiRows
<1>7. api.mail \in Mails /\ api.cycle \in 0..Len(lifecycles) /\ RowOf(api.row, api.mail)
  BY <1>1, ApiFacts DEF ApiRight
<1>8. ApiRight'
  <2>1. FlowOf("reply") = "appointment_scheduling"
    BY DEF FlowOf
  <2>2. RowOf(api.row, api.mail)'
    BY <1>1, <1>5, <1>7 DEF RowOf
  <2>3. QED
    BY <1>1, <1>2, <1>4, <1>5, <1>6, <1>7, <2>1, <2>2 DEF ApiRight, ApiLinks, OfFlow, Cycles
<1>9. WaitShape' /\ WaitRight' /\ delivered' \in Seq(Mails)
  BY <1>1, ApiFacts DEF WaitShape, WaitRight
<1>10. QED
  BY <1>1, <1>5, <1>8, <1>9, WebhookRight DEF TryAppointment, Superseding, fileVars

(* The webhook looks for the driver request that a reply is of.             *)
LEMMA TryDriverRight ==
  ASSUME Base, TryDriver
  PROVE  Base' /\ Grown
<1> DEFINE c == IF IsReply(api.mail) THEN ActiveDetails(api.mail) ELSE 0
<1>1. /\ api.at = "driver" /\ delivered' = delivered /\ lifecycles' = lifecycles /\ rows' = rows
  BY DEF TryDriver, storeVars, commVars
<1>2. c # 0 => OfFlow(c, "driver_assignment")
  BY DetailsGo
<1>3. \/ /\ c # 0 /\ api' = [api EXCEPT !.at = "push", !.cycle = c, !.event = "details"]
         /\ waiting' = waiting
      \/ /\ api' = ApiIdle
         /\ waiting' = IF Classified(api.mail) = "ratecon"
                         THEN [waiting EXCEPT ![api.mail].ratecon = @ + 1] ELSE waiting
  BY DEF TryDriver
<1> HIDE DEF c
<1>4. c # 0 => c \in 1..Len(lifecycles) /\ c \in Nat
  BY <1>2, ApiFacts DEF OfFlow
<1> DEFINE b == [api EXCEPT !.at = "push", !.cycle = c, !.event = "details"]
<1>5. api' \in ApiRows
  <2>1. ApiIdle \in ApiRows
    BY DEF ApiIdle, ApiRows, ApiStages, Events, Unset
  <2>2. "push" \in ApiStages /\ "details" \in Events /\ api \in ApiRows
    BY ApiFacts DEF ApiStages, Events
  <2>3. c # 0 => b \in ApiRows
    BY <1>4, <2>2 DEF ApiRows
  <2> HIDE DEF b
  <2>4. QED
    BY <1>3, <2>1, <2>3 DEF b
<1>6. \/ /\ api'.at = "push" /\ api'.event = "details" /\ api'.cycle = c /\ c # 0
         /\ api'.mail = api.mail /\ api'.row = api.row
      \/ api'.at = "idle" /\ api'.cycle = 0 /\ api'.row = 0
  <2>1. api \in ApiRows
    BY ApiFacts
  <2>2. /\ b.at = "push" /\ b.event = "details" /\ b.cycle = c
        /\ b.mail = api.mail /\ b.row = api.row
    BY <2>1 DEF ApiRows
  <2>3. ApiIdle.at = "idle" /\ ApiIdle.cycle = 0 /\ ApiIdle.row = 0
    BY DEF ApiIdle
  <2> HIDE DEF b
  <2>4. QED
    BY <1>3, <2>2, <2>3 DEF b
<1>7. api.mail \in Mails /\ api.cycle \in 0..Len(lifecycles) /\ RowOf(api.row, api.mail)
      /\ Len(lifecycles) \in Nat
  BY <1>1, ApiFacts DEF ApiRight
<1>8. ApiRight'
  <2>1. FlowOf("details") = "driver_assignment"
    BY DEF FlowOf
  <2>2. RowOf(api.row, api.mail)'
    BY <1>1, <1>6, <1>7 DEF RowOf
  <2>3. QED
    BY <1>1, <1>2, <1>4, <1>6, <1>7, <2>1, <2>2 DEF ApiRight, ApiLinks, OfFlow, Cycles, RowOf
<1>9. WaitShape' /\ WaitRight'
  <2>1. Classified(api.mail) = "ratecon" => Mail[api.mail].load \in Loads
    BY <1>7, MailAssumption DEF Classified, Unset
  <2>2. WaitShape /\ WaitRight
    BY ApiFacts
  <2>3. CASE waiting' = waiting
    BY <2>2, <2>3 DEF WaitShape, WaitRight
  <2>4. CASE Classified(api.mail) = "ratecon" /\ waiting' = [waiting EXCEPT ![api.mail].ratecon = @ + 1]
    <3> DEFINE m == api.mail
    <3>1. waiting' = [waiting EXCEPT ![m].ratecon = @ + 1] /\ m \in Mails /\ Mail[m].load \in Loads
      BY <1>7, <2>1, <2>4
    <3> HIDE DEF m
    <3>2. waiting[m] \in [ratecon : Nat, pod : Nat]
      BY <2>2, <3>1 DEF WaitShape
    <3>3. waiting' = [waiting EXCEPT ![m] = [waiting[m] EXCEPT !.ratecon = waiting[m].ratecon + 1]]
      BY <3>1
    <3>4. [waiting[m] EXCEPT !.ratecon = waiting[m].ratecon + 1] \in [ratecon : Nat, pod : Nat]
      BY <3>2
    <3>5. QED
      BY <2>2, <3>1, <3>3, <3>4 DEF WaitShape, WaitRight
  <2>5. QED
    BY <1>3, <2>3, <2>4
<1>10. delivered' \in Seq(Mails)
  BY <1>1, ApiFacts
<1>11. QED
  BY <1>1, <1>5, <1>8, <1>9, <1>10, WebhookRight DEF TryDriver, Superseding, fileVars

(* A mail that is recorded has a row of its thread, of no run yet.          *)
LEMMA InboundStep ==
  ASSUME Base, NEW m \in Mails, rows' = WithInbound(m), NEW id, id = InboundId(m)
  PROVE  RowsStep /\ RowOf(id, m)' /\ id \in Nat /\ id # 0
<1>1. MailShape
  BY DEF Base, Shapes
<1>2. /\ MailShape' /\ RowsGrown /\ DOMAIN rows \subseteq DOMAIN rows'
      /\ id \in Nat /\ id # 0 /\ id \in DOMAIN rows' /\ rows'[id].mail = m
      /\ \A i \in DOMAIN rows : rows'[i] = rows[i]
      /\ \A i \in DOMAIN rows' : i \notin DOMAIN rows => rows'[i] = InboundRow(m)
  BY <1>1, InboundAdded
<1>3. ASSUME NEW i \in DOMAIN rows', i \notin DOMAIN rows
      PROVE  RowRight(i)'
  BY <1>2, <1>3 DEF RowRight, InboundRow
<1>4. RowsStep
  BY <1>2, <1>3 DEF RowsStep
<1>5. QED
  BY <1>2, <1>4 DEF RowOf

(* What is linked to a run gets the run's cycle, and is of the run's thread. *)
LEMMA LinkedStep ==
  ASSUME Base, ItemsGrown, UNCHANGED runs, NEW run \in DOMAIN runs, NEW m \in Mails, items[run].mail = m,
         NEW cycle \in {0, runs[run].cycle}, NEW id \in Nat, RowOf(id, m),
         rows' = ThreadLinked(Linked(rows, id, run, cycle), Mail[m].thread, run, cycle)
  PROVE  RowsStep
<1>1. /\ MailShape /\ run \in DOMAIN items /\ run \in Nat /\ run # 0 /\ runs[run].cycle \in Nat
      /\ DOMAIN runs \subseteq DOMAIN items
  BY LenProperties DEF Base, Shapes, RunShape, ItemShape, RunRows
<1>2. /\ MailShape' /\ RowsGrown /\ DOMAIN rows' = DOMAIN rows
      /\ \A i \in DOMAIN rows :
           /\ rows'[i].mail = rows[i].mail /\ rows'[i].thread = rows[i].thread
           /\ rows'[i].direction = rows[i].direction
           /\ \/ rows'[i].run = rows[i].run
              \/ /\ rows[i].run = 0 /\ rows'[i].run = run
                 /\ i = id \/ rows[i].thread = Mail[m].thread
           /\ \/ rows'[i].cycle = rows[i].cycle
              \/ rows'[i].run = run /\ rows'[i].cycle = cycle
  <2>1. cycle \in Nat
    BY <1>1
  <2>2. id # 0 => id \in DOMAIN rows
    BY DEF RowOf
  <2>3. QED
    BY <1>1, <2>1, <2>2, RowsLinked
<1>3. Mails \cap {"request", "draft"} = {}
  BY MailsAssumption
<1>4. ASSUME NEW i \in DOMAIN rows
      PROVE  RowRight(i)'
  <2>1. RowRight(i)
    BY DEF Base, Tied
  <2>2. /\ rows'[i].mail = rows[i].mail /\ rows'[i].thread = rows[i].thread
        /\ rows'[i].direction = rows[i].direction
        /\ \/ rows'[i].run = rows[i].run
           \/ rows[i].run = 0 /\ rows'[i].run = run /\ (i = id \/ rows[i].thread = Mail[m].thread)
        /\ \/ rows'[i].cycle = rows[i].cycle
           \/ rows'[i].run = run /\ rows'[i].cycle = cycle
    BY <1>2
  <2>3. rows'[i].run # 0 => rows'[i].run \in DOMAIN runs /\ rows'[i].run \in DOMAIN items
    BY <1>1, <2>1, <2>2 DEF RowRight
  <2>4. rows'[i].cycle # 0 => rows'[i].run # 0 /\ rows'[i].cycle = runs[rows'[i].run].cycle
    BY <1>1, <2>1, <2>2 DEF RowRight
  <2>5. i = id => rows[i].thread = Mail[m].thread
    <3>1. ASSUME i = id PROVE rows[i].mail = m
      BY <3>1, LenProperties DEF RowOf, MailShape, Base, Shapes
    <3>2. rows[i] \in MailRows
      BY <1>1, ElementOfSeq, LenProperties DEF MailShape
    <3>3. rows[i].direction \in {"inbound", "outbound"}
      BY <3>2 DEF MailRows
    <3>4. QED
      BY <1>3, <2>1, <3>1, <3>3 DEF RowRight, Sent
  <2>6. rows'[i].run # 0 /\ items[rows'[i].run].event = "details" =>
          rows'[i].thread = Mail[items[rows'[i].run].mail].thread
    BY <1>1, <2>1, <2>2, <2>5 DEF RowRight
  <2>7. rows'[i].run # 0 => /\ items'[rows'[i].run].event = items[rows'[i].run].event
                            /\ items'[rows'[i].run].mail = items[rows'[i].run].mail
    BY <2>3 DEF ItemsGrown
  <2>8. QED
    BY <2>1, <2>2, <2>3, <2>4, <2>6, <2>7 DEF RowRight
<1>5. QED
  BY <1>2, <1>4 DEF RowsStep

(* A transaction on a row that is no ratecon, or leaves the ratecon neither *)
(* cancelled nor completed without its document, is quiet.                  *)
LEMMA TransitionStep ==
  ASSUME StoreShape, NEW c \in Cycles, NEW s \in Seq(Commands(Subs)), Transition(c, s),
         lifecycles[c].flow = "ratecon" =>
           \/ s = <<>>
           \/ /\ AfterSequence(lifecycles[c].row, s).sub # "cancelled"
              /\ AfterSequence(lifecycles[c].row, s).sub = "document_uploaded" => c \in documents'
  PROVE  StoreStep /\ Cycles' = Cycles /\ Len(lifecycles') = Len(lifecycles)
<1>1. /\ StoreShape' /\ Cycles' = Cycles /\ Len(lifecycles') = Len(lifecycles) /\ StoreGrown
      /\ \A d \in Cycles : d # c => lifecycles'[d] = lifecycles[d]
      /\ s = <<>> => lifecycles' = lifecycles
      /\ s # <<>> => lifecycles'[c].row = AfterSequence(lifecycles[c].row, s)
  BY Transitioned
<1>2. lifecycles'[c].flow = lifecycles[c].flow
  BY <1>1 DEF StoreGrown
<1>3. StoreQuiet
  <2>1. SUFFICES ASSUME NEW d \in Cycles', lifecycles'[d].flow = "ratecon"
                 PROVE  \/ d \in Cycles /\ lifecycles'[d].row = lifecycles[d].row
                        \/ /\ lifecycles'[d].row.sub # "cancelled"
                           /\ lifecycles'[d].row.sub = "document_uploaded" => d \in documents'
    BY DEF StoreQuiet
  <2>2. QED
    BY <1>1, <1>2, <2>1
<1>4. QED
  BY <1>1, <1>3 DEF StoreStep

(* The reply to an appointment gets its row.                                *)
LEMMA RecordReplyRight ==
  ASSUME Base, RecordReply
  PROVE  Base' /\ Grown
<1>1. /\ api.at = "inbound" /\ UNCHANGED <<delivered, waiting, fileVars, storeVars, items, workVars, accepted, runs>>
  BY DEF RecordReply, inVars
<1>2. api \in ApiRows /\ api.mail \in Mails /\ api.event = "reply" /\ RowOf(api.row, api.mail)
      /\ OfFlow(api.cycle, FlowOf(api.event))
  BY <1>1, ApiFacts DEF ApiRight
<1>3. PICK a : a = api
  OBVIOUS
<1>4. \E id \in Nat : /\ RowsStep /\ RowOf(id, a.mail)'
                      /\ api' = [a EXCEPT !.at = "push", !.row = id]
  <2>1. CASE rows' = WithInbound(a.mail) /\ api' = [api EXCEPT !.at = "push", !.row = InboundId(api.mail)]
    <3>1. PICK id : id = InboundId(a.mail)
      OBVIOUS
    <3>2. RowsStep /\ RowOf(id, a.mail)' /\ id \in Nat
      BY <1>2, <1>3, <2>1, <3>1, InboundStep
    <3>3. QED
      BY <1>3, <2>1, <3>1, <3>2
  <2>2. CASE api' = [api EXCEPT !.at = "push"] /\ rows' = rows
    <3>1. RowsStep
      BY <2>2, RowsSame
    <3>2. RowOf(a.row, a.mail)' /\ a.row \in Nat
      BY <1>2, <1>3, <2>2 DEF RowOf, ApiRows
    <3>3. api' = [a EXCEPT !.at = "push", !.row = a.row]
      BY <1>2, <1>3, <2>2 DEF ApiRows
    <3>4. QED
      BY <3>1, <3>2, <3>3
  <2>3. QED
    BY <1>3, <2>1, <2>2 DEF RecordReply, ApiGoto
<1>5. PICK id \in Nat : /\ RowsStep /\ RowOf(id, a.mail)'
                        /\ api' = [a EXCEPT !.at = "push", !.row = id]
  BY <1>4
<1>6. /\ api'.at = "push" /\ api'.row = id /\ api'.mail = a.mail /\ api'.cycle = a.cycle
      /\ api'.event = "reply" /\ api' \in ApiRows
  BY <1>2, <1>3, <1>5 DEF ApiRows, ApiStages
<1>7. StoreStep /\ RunsStep /\ ItemsStep
  BY <1>1, StoreSame, RunsSame, ItemsSame
<1>8. WorkStep
  BY <1>1, <1>7, ApiFacts, WorkSame DEF StoreStep, fileVars, WorkShape
<1>9. OfFlow(a.cycle, FlowOf("reply"))' /\ a.cycle \in 0..Len(lifecycles')
  BY <1>1, <1>2, <1>3, ApiFacts DEF OfFlow, storeVars, Cycles
<1>10. ApiRight'
  BY <1>2, <1>3, <1>5, <1>6, <1>9 DEF ApiRight, ApiLinks
<1>11. WaitShape' /\ WaitRight'
  BY <1>1, ApiFacts DEF WaitShape, WaitRight
<1>12. QED
  BY <1>1, <1>5, <1>6, <1>7, <1>8, <1>10, <1>11, StepRight DEF Superseding

(* The shipment is written, or the ratecon is given up.                     *)
LEMMA UpsertRight ==
  ASSUME Base, Upsert
  PROVE  Base' /\ Grown
<1>1. /\ api.at = "upsert"
      /\ UNCHANGED <<delivered, waiting, located, storeVars, items, workVars, accepted, rows, runs>>
  BY DEF Upsert, inVars, commVars
<1>2. /\ api \in ApiRows /\ api.mail \in Mails /\ api.event = "ratecon" /\ RowOf(api.row, api.mail)
      /\ Mail[api.mail].load \in Loads /\ api.cycle \in 0..Len(lifecycles)
  BY <1>1, ApiFacts DEF ApiRight
<1>3. StoreStep /\ RowsStep /\ RunsStep /\ ItemsStep
  BY <1>1, StoreSame, RowsSame, RunsSame, ItemsSame
<1>4. WorkStep
  <2>1. shipments' \subseteq Loads
    BY <1>2, ApiFacts DEF Upsert, WorkShape
  <2>2. WorkShape'
    BY <1>1, <2>1, ApiFacts DEF WorkShape, storeVars, workVars, Cycles
  <2>3. TasksRight'
    BY <1>1 DEF Base, Tied, TasksRight, OfFlow, Cycles, storeVars, workVars
  <2>4. QED
    BY <1>1, <2>2, <2>3 DEF WorkStep, workVars
<1>5. api' \in ApiRows /\ ApiRight'
  <2>1. CASE api' = [api EXCEPT !.at = "findRatecon"]
    <3>1. /\ api'.at = "findRatecon" /\ api'.row = api.row /\ api'.mail = api.mail
          /\ api'.cycle = api.cycle /\ api'.event = "ratecon" /\ api' \in ApiRows
      BY <1>2, <2>1 DEF ApiRows, ApiStages
    <3>2. RowOf(api.row, api.mail)'
      BY <1>1, <1>2, <3>1 DEF RowOf
    <3>3. QED
      BY <1>1, <1>2, <3>1, <3>2 DEF ApiRight, ApiLinks, storeVars
  <2>2. CASE api' = ApiIdle
    BY <1>1, <1>2, <2>2, ApiStarts
  <2>3. QED
    BY <2>1, <2>2 DEF Upsert, ApiGoto
<1>6. WaitShape' /\ WaitRight'
  BY <1>1, ApiFacts DEF WaitShape, WaitRight
<1>7. QED
  BY <1>1, <1>3, <1>4, <1>5, <1>6, StepRight DEF Superseding

(* The webhook looks for what the new ratecon supersedes.                   *)
LEMMA FindRight ==
  ASSUME Base, FindRatecon \/ FindDriver
  PROVE  Base' /\ Grown
<1>1. /\ api.at \in {"findRatecon", "findDriver"}
      /\ UNCHANGED <<delivered, waiting, shipments, located, storeVars, items, workVars, accepted, rows, runs>>
  BY DEF FindRatecon, FindDriver, inVars, commVars, fileVars
<1>2. /\ api \in ApiRows /\ api.mail \in Mails /\ api.event = "ratecon" /\ RowOf(api.row, api.mail)
      /\ Mail[api.mail].load \in Loads /\ StoreShape
  BY <1>1, ApiFacts DEF ApiRight
<1>3. \E at \in ApiStages, c \in 0..Len(lifecycles) :
        /\ api' = [api EXCEPT !.at = at, !.cycle = c]
        /\ api.at = "findRatecon" =>
             \/ at = "findDriver"
             \/ /\ at = "cancelRatecon" /\ OfFlow(c, "ratecon")
                /\ Correlation(c) = Mail[api.mail].load
        /\ api.at = "findDriver" =>
             at = "resolve" \/ (at = "cancelDriver" /\ OfFlow(c, "driver_assignment"))
  <2>1. CASE FindRatecon
    <3> DEFINE c == FindLatest("ratecon", Mail[api.mail].load)
               at == IF c = 0 THEN "findDriver" ELSE "cancelRatecon"
    <3>1. c # 0 => OfFlow(c, "ratecon") /\ Correlation(c) = Mail[api.mail].load
      BY <1>2, Found
    <3>2. api' = [api EXCEPT !.at = at, !.cycle = c] /\ api.at = "findRatecon"
      BY <2>1 DEF FindRatecon
    <3> HIDE DEF c
    <3>3. c \in 0..Len(lifecycles)
      BY <3>1, ApiFacts DEF OfFlow
    <3>4. at \in ApiStages /\ (at = "findDriver" \/ (at = "cancelRatecon" /\ c # 0))
      BY DEF ApiStages
    <3> HIDE DEF at
    <3>5. QED
      BY <3>1, <3>2, <3>3, <3>4
  <2>2. CASE FindDriver
    <3> DEFINE c == FindLatest("driver_assignment", Mail[api.mail].load)
               at == IF c = 0 THEN "resolve" ELSE "cancelDriver"
    <3>1. c # 0 => OfFlow(c, "driver_assignment")
      BY <1>2, Found
    <3>2. api' = [api EXCEPT !.at = at, !.cycle = c] /\ api.at = "findDriver"
      BY <2>2 DEF FindDriver
    <3> HIDE DEF c
    <3>3. c \in 0..Len(lifecycles)
      BY <3>1, ApiFacts DEF OfFlow
    <3>4. at \in ApiStages /\ (at = "resolve" \/ (at = "cancelDriver" /\ c # 0))
      BY DEF ApiStages
    <3> HIDE DEF at
    <3>5. QED
      BY <3>1, <3>2, <3>3, <3>4
  <2>3. QED
    BY <2>1, <2>2
<1>4. PICK at \in ApiStages, c \in 0..Len(lifecycles) :
        /\ api' = [api EXCEPT !.at = at, !.cycle = c]
        /\ api.at = "findRatecon" =>
             \/ at = "findDriver"
             \/ /\ at = "cancelRatecon" /\ OfFlow(c, "ratecon")
                /\ Correlation(c) = Mail[api.mail].load
        /\ api.at = "findDriver" =>
             at = "resolve" \/ (at = "cancelDriver" /\ OfFlow(c, "driver_assignment"))
  BY <1>3
<1>5. /\ api'.at = at /\ api'.cycle = c /\ api'.mail = api.mail /\ api'.row = api.row
      /\ api'.event = "ratecon" /\ api' \in ApiRows
  <2>1. c \in Nat
    BY ApiFacts
  <2>2. QED
    BY <1>2, <1>4, <2>1 DEF ApiRows
<1>6. ApiRight'
  <2>1. RowOf(api.row, api.mail)'
    BY <1>1, <1>2, <1>5 DEF RowOf
  <2>2. /\ at = "cancelRatecon" => OfFlow(c, "ratecon")' /\ Correlation(c)' = Mail[api.mail].load
        /\ at = "cancelDriver" => OfFlow(c, "driver_assignment")'
    BY <1>1, <1>4 DEF OfFlow, Correlation, Cycles, storeVars
  <2>3. at \in {"findDriver", "cancelRatecon", "resolve", "cancelDriver"}
    BY <1>1, <1>4
  <2>4. QED
    BY <1>1, <1>2, <1>5, <2>1, <2>2, <2>3 DEF ApiRight, ApiLinks, storeVars
<1>7. WaitShape' /\ WaitRight' /\ delivered' \in Seq(Mails)
  BY <1>1, ApiFacts DEF WaitShape, WaitRight
<1>8. api.at \in Superseding => api'.at \in Superseding
  BY <1>1, <1>4, <1>5 DEF Superseding
<1>9. QED
  BY <1>1, <1>2, <1>5, <1>6, <1>7, <1>8, WebhookRight DEF commVars

(* Cancelling, when it does anything, leaves a cancelled lifecycle.         *)
LEMMA CancelLeaves ==
  ASSUME NEW v, NEW statuses, NEW terminal, NEW s \in Cancel(v, statuses, terminal), NEW r \in RowsOf(Subs)
  PROVE  AfterSequence(r, s).sub = "cancelled"
<1> DEFINE c == StatusChange("completed", "cancelled")
<1>1. Action \in Commands(Subs) /\ IsSnapshot(Action.type)
  BY CommandsTyped DEF Subs, Action, Command, IsSnapshot, Snapshots
<1>2. c \in Commands(Subs) /\ ~IsSnapshot(c.type) /\ c.sub = "cancelled"
  BY DEF StatusChange, Command, Commands, Transitions, Statuses, Unset, Subs, IsSnapshot, Snapshots
<1>3. s = <<Action, c>>
  BY DEF Cancel, When
<1> HIDE DEF c
<1>4. AfterSequence(r, s).sub = OrElse(c.sub, r.sub)
  BY <1>1, <1>2, <1>3, AfterLogged
<1>5. QED
  BY <1>2, <1>4 DEF OrElse, Unset

(* A webhook that goes on to the next of a ratecon's steps.                 *)
LEMMA ApiGoesOn ==
  ASSUME Base, UNCHANGED rows, NEW at \in {"findDriver", "resolve"}, api.event = "ratecon",
         api.mail \in Mails, Mail[api.mail].load \in Loads, RowOf(api.row, api.mail),
         api' = [api EXCEPT !.at = at, !.cycle = 0], Len(lifecycles') \in Nat
  PROVE  /\ api' \in ApiRows /\ ApiRight' /\ api'.at = at /\ api'.event = "ratecon"
         /\ api'.mail = api.mail
<1>1. /\ api'.at = at /\ api'.cycle = 0 /\ api'.mail = api.mail /\ api'.row = api.row
      /\ api'.event = "ratecon" /\ api' \in ApiRows
  <2>1. at \in ApiStages /\ api \in ApiRows
    BY ApiFacts DEF ApiStages
  <2>2. QED
    BY <2>1 DEF ApiRows
<1>2. RowOf(api.row, api.mail)'
  BY <1>1 DEF RowOf
<1>3. QED
  BY <1>1, <1>2 DEF ApiRight, ApiLinks

(* The ratecon before is cancelled: the only step that may cancel one.      *)
LEMMA CancelRateconRight ==
  ASSUME Base, CancelRatecon
  PROVE  Base' /\ Grown
<1>1. /\ api.at = "cancelRatecon" /\ api' = [api EXCEPT !.at = "findDriver", !.cycle = 0]
      /\ UNCHANGED <<delivered, waiting, shipments, located, items, workVars, accepted, rows, runs>>
  BY DEF CancelRatecon, inVars, commVars, fileVars
<1>2. /\ api.mail \in Mails /\ api.event = "ratecon" /\ RowOf(api.row, api.mail) /\ StoreShape
      /\ Mail[api.mail].load \in Loads /\ OfFlow(api.cycle, "ratecon")
      /\ Correlation(api.cycle) = Mail[api.mail].load
  BY <1>1, ApiFacts DEF ApiRight
<1>3. PICK c \in Cycles : c = api.cycle
  BY <1>2 DEF OfFlow
<1>4. PICK s \in RateconSuperseded(View(lifecycles[c].row)) \cup {<<>>} : Transition(c, s)
  BY <1>3 DEF CancelRatecon
<1>5. s \in Seq(Commands(Subs))
  BY CancelTyped DEF RateconSuperseded
<1>6. /\ StoreShape' /\ Cycles' = Cycles /\ Len(lifecycles') = Len(lifecycles) /\ StoreGrown
      /\ \A d \in Cycles : d # c => lifecycles'[d] = lifecycles[d]
      /\ s = <<>> => lifecycles' = lifecycles
      /\ s # <<>> => lifecycles'[c].row = AfterSequence(lifecycles[c].row, s)
  BY <1>2, <1>4, <1>5, Transitioned
<1>7. s = <<>> \/ lifecycles'[c].row.sub = "cancelled"
  <2>1. lifecycles[c].row \in RowsOf(Subs)
    BY <1>2, CycleTyped
  <2>2. QED
    BY <1>4, <1>6, <2>1, CancelLeaves DEF RateconSuperseded
<1>8. RowsStep /\ RunsStep /\ ItemsStep
  BY <1>1, RowsSame, RunsSame, ItemsSame
<1>9. WorkStep
  BY <1>1, <1>6, WorkSame, ApiFacts DEF WorkShape
<1>10. api' \in ApiRows /\ ApiRight' /\ api'.at = "findDriver" /\ api'.event = "ratecon" /\ api'.mail = api.mail
  BY <1>1, <1>2, <1>6, ApiGoesOn, ApiFacts
<1>11. WaitShape' /\ WaitRight'
  BY <1>1, ApiFacts DEF WaitShape, WaitRight
<1>12. DocumentedMeansStored'
  <2>1. SUFFICES ASSUME NEW d \in Cycles', lifecycles'[d].flow = "ratecon",
                        lifecycles'[d].row.sub = "document_uploaded"
                 PROVE  d \in documents'
    BY DEF DocumentedMeansStored, Sub
  <2>2. d \in Cycles /\ lifecycles[d].flow = "ratecon" /\ documents' = documents
    BY <1>1, <1>6, <2>1 DEF StoreGrown, workVars
  <2>3. lifecycles'[d] = lifecycles[d]
    BY <1>6, <1>7, <2>1, <2>2
  <2>4. QED
    BY <2>1, <2>2, <2>3 DEF Base, Tied, DocumentedMeansStored, Sub
<1>13. AcceptedRight'
  <2>1. SUFFICES ASSUME NEW l \in Loads, accepted[l] # 0
                 PROVE  Accepted(l)'
    BY <1>1 DEF AcceptedRight, Accepted
  <2>2. PICK d : d = accepted[l]
    OBVIOUS
  <2>3. Accepted(l)
    BY DEF Base, Tied, AcceptedRight
  <2>4. OfFlow(d, "ratecon") /\ Correlation(d) = l /\ Sub(d) # "cancelled"
    BY <1>1, <2>1, <2>2, <2>3 DEF Accepted, Superseding
  <2>5. OfFlow(d, "ratecon")' /\ Correlation(d)' = l
    BY <1>6, <2>4 DEF OfFlow, Correlation, StoreGrown
  <2>6. d # c => Sub(d)' # "cancelled"
    BY <1>6, <2>4 DEF Sub, OfFlow
  <2>7. d = c => Mail[api'.mail].load = l
    BY <1>2, <1>3, <1>10, <2>4
  <2>8. QED
    BY <1>1, <1>10, <2>2, <2>5, <2>6, <2>7 DEF Accepted, Superseding
<1>14. QED
  BY <1>6, <1>8, <1>9, <1>10, <1>11, <1>12, <1>13, Assembled

(* The driver request before is cancelled.                                  *)
LEMMA CancelDriverRight ==
  ASSUME Base, CancelDriver
  PROVE  Base' /\ Grown
<1>1. /\ api.at = "cancelDriver" /\ api' = [api EXCEPT !.at = "resolve", !.cycle = 0]
      /\ UNCHANGED <<delivered, waiting, shipments, located, items, workVars, accepted, rows, runs>>
  BY DEF CancelDriver, inVars, commVars, fileVars
<1>2. /\ api.mail \in Mails /\ api.event = "ratecon" /\ RowOf(api.row, api.mail) /\ StoreShape
      /\ Mail[api.mail].load \in Loads /\ OfFlow(api.cycle, "driver_assignment")
  BY <1>1, ApiFacts DEF ApiRight
<1>3. PICK c \in Cycles : c = api.cycle
  BY <1>2 DEF OfFlow
<1>4. PICK s \in SupersedeDriver(View(lifecycles[c].row)) \cup {<<>>} : Transition(c, s)
  BY <1>3 DEF CancelDriver
<1>5. s \in Seq(Commands(Subs))
  BY CancelTyped DEF SupersedeDriver
<1>6. StoreStep /\ Len(lifecycles') = Len(lifecycles)
  <2>1. lifecycles[c].flow # "ratecon"
    BY <1>2, <1>3 DEF OfFlow
  <2>2. QED
    BY <1>2, <1>4, <1>5, <2>1, TransitionStep
<1>7. RowsStep /\ RunsStep /\ ItemsStep
  BY <1>1, RowsSame, RunsSame, ItemsSame
<1>8. WorkStep
  BY <1>1, <1>6, WorkSame, ApiFacts DEF WorkShape, StoreStep
<1>9. api' \in ApiRows /\ ApiRight' /\ api'.at = "resolve" /\ api'.event = "ratecon" /\ api'.mail = api.mail
  BY <1>1, <1>2, <1>6, ApiGoesOn, ApiFacts
<1>10. WaitShape' /\ WaitRight'
  BY <1>1, ApiFacts DEF WaitShape, WaitRight
<1>11. QED
  BY <1>1, <1>6, <1>7, <1>8, <1>9, <1>10, StepRight DEF Superseding

(* The new ratecon gets a lifecycle that is not cancelled.                  *)
LEMMA ResolutionRight ==
  ASSUME Base, Resolution
  PROVE  Base' /\ Grown
<1> DEFINE load == Mail[api.mail].load
           found == FindExisting("ratecon", load)
<1>1. /\ api.at = "resolve" /\ api' = [api EXCEPT !.at = "push", !.cycle = ResolvedTo("ratecon", load)]
      /\ UNCHANGED <<delivered, waiting, shipments, located, items, workVars, accepted, rows, runs>>
      /\ ResolveOrCreate("ratecon", load)
  BY DEF Resolution, inVars, commVars, fileVars
<1>2. /\ api \in ApiRows /\ api.mail \in Mails /\ api.event = "ratecon" /\ RowOf(api.row, api.mail)
      /\ StoreShape /\ load \in Loads
  BY <1>1, ApiFacts DEF ApiRight
<1> HIDE DEF load
<1>3. PICK c : c = ResolvedTo("ratecon", load)
  OBVIOUS
<1>4. StoreStep /\ OfFlow(c, "ratecon")' /\ Correlation(c)' = load /\ Sub(c)' # "cancelled"
  <2>1. CASE found # 0
    <3>1. c = found /\ UNCHANGED <<lifecycles, recent>>
      BY <1>1, <1>3, <2>1 DEF ResolveOrCreate, ResolvedTo
    <3>2. OfFlow(c, "ratecon") /\ Correlation(c) = load /\ Sub(c) # "cancelled"
      BY <1>2, <2>1, <3>1, Found
    <3>3. StoreStep
      BY <3>1, StoreSame DEF storeVars
    <3>4. QED
      BY <3>1, <3>2, <3>3 DEF OfFlow, Correlation, Sub, Cycles
  <2>2. CASE found = 0
    <3>1. c = Len(lifecycles) + 1 /\ InsertLifecycle("ratecon", load)
      BY <1>1, <1>3, <2>2 DEF ResolveOrCreate, ResolvedTo
    <3>2. "ratecon" \in Flows /\ "ratecon" # "appointment_scheduling"
      BY DEF Flows
    <3>3. /\ StoreShape' /\ StoreGrown /\ Cycles' = Cycles \cup {Len(lifecycles) + 1}
          /\ \A d \in Cycles : lifecycles'[d] = lifecycles[d]
          /\ lifecycles'[Len(lifecycles) + 1] = [flow |-> "ratecon", load |-> load, row |-> NewRow]
      BY <1>2, <3>1, <3>2, Inserted
    <3>4. /\ c \in Cycles' /\ lifecycles'[c].flow = "ratecon" /\ lifecycles'[c].load = load
          /\ lifecycles'[c].row.sub = "none"
      BY <3>1, <3>3 DEF NewRow
    <3>5. StoreQuiet
      BY <3>1, <3>3, <3>4 DEF StoreQuiet
    <3>6. QED
      BY <3>3, <3>4, <3>5 DEF StoreStep, OfFlow, Correlation, Sub
  <2>3. QED
    BY <2>1, <2>2
<1>5. RowsStep /\ RunsStep /\ ItemsStep
  BY <1>1, RowsSame, RunsSame, ItemsSame
<1>6. WorkStep
  BY <1>1, <1>4, WorkSame, ApiFacts DEF WorkShape, StoreStep
<1>7. c \in Nat /\ c \in 0..Len(lifecycles')
  <2>1. Cycles' = 1..Len(lifecycles') /\ Len(lifecycles') \in Nat
    BY <1>4, LenProperties DEF StoreStep, StoreShape, Cycles
  <2>2. QED
    BY <1>4, <2>1 DEF OfFlow
<1>8. /\ api'.at = "push" /\ api'.cycle = c /\ api'.mail = api.mail /\ api'.row = api.row
      /\ api'.event = "ratecon" /\ api' \in ApiRows
  BY <1>1, <1>2, <1>3, <1>7 DEF ApiRows, ApiStages
<1>9. ApiRight'
  <2>1. RowOf(api.row, api.mail)'
    BY <1>1, <1>2, <1>8 DEF RowOf
  <2>2. FlowOf("ratecon") = "ratecon" /\ Mail[api'.mail].load = load
    BY <1>8 DEF FlowOf, load
  <2>3. QED
    BY <1>2, <1>4, <1>7, <1>8, <2>1, <2>2 DEF ApiRight, ApiLinks
<1>10. WaitShape' /\ WaitRight'
  BY <1>1, ApiFacts DEF WaitShape, WaitRight
<1>11. QED
  BY <1>1, <1>4, <1>5, <1>6, <1>8, <1>9, <1>10, StepRight DEF Superseding

(* An item is made with nothing found and nothing seen.                     *)
LEMMA ItemMade ==
  ASSUME NEW event \in Events, NEW cycle \in Nat, NEW mail \in Mails, NEW row \in Nat, NEW from \in Nat,
         NEW i, i = [event |-> event, cycle |-> cycle, mail |-> mail, row |-> row, from |-> from,
                     at |-> "queued", found |-> 0, seen |-> {}]
  PROVE  /\ i \in ItemRows /\ i.event = event /\ i.cycle = cycle /\ i.mail = mail /\ i.row = row
         /\ i.from = from /\ i.found = 0 /\ i.at = "queued"
<1> DEFINE r == [event |-> event, cycle |-> cycle, mail |-> mail, row |-> row, from |-> from,
                 at |-> "queued", found |-> 0, seen |-> {}]
<1>1. r \in ItemRows
  BY DEF ItemRows, Stages
<1>2. /\ r.event = event /\ r.cycle = cycle /\ r.mail = mail /\ r.row = row
      /\ r.from = from /\ r.found = 0 /\ r.at = "queued"
  OBVIOUS
<1>3. i = r
  OBVIOUS
<1> HIDE DEF r
<1>4. QED
  BY <1>1, <1>2, <1>3

(* The run is queued, of the lifecycle that was resolved.                   *)
LEMMA PushRight ==
  ASSUME Base, Push
  PROVE  Base' /\ Grown
<1>0. PICK n : n = Len(items) + 1
  OBVIOUS
<1>1. /\ api.at = "push"
      /\ UNCHANGED <<delivered, waiting, shipments, located, lifecycles, recent, documents, tasks, reminded, rows>>
  BY DEF Push, inVars, fileVars, storeVars, workVars
<1>2. /\ api \in ApiRows /\ api.mail \in Mails /\ api.event \in {"ratecon", "reply", "details"}
      /\ RowOf(api.row, api.mail) /\ OfFlow(api.cycle, FlowOf(api.event)) /\ ItemShape /\ RunShape
      /\ api.event = "ratecon" =>
           /\ Mail[api.mail].load \in Loads /\ Correlation(api.cycle) = Mail[api.mail].load
           /\ Sub(api.cycle) # "cancelled"
  BY <1>1, ApiFacts DEF ApiRight
<1>3. PICK i : i = [Item(api.event, api.cycle, api.mail) EXCEPT !.row = api.row]
  OBVIOUS
<1>4. /\ i \in ItemRows /\ i.event = api.event /\ i.cycle = api.cycle /\ i.mail = api.mail
      /\ i.row = api.row /\ i.from = 0 /\ i.found = 0 /\ i.at = "queued"
  <2>2. api.event \in Events /\ api.cycle \in Nat /\ api.row \in Nat
    BY <1>2 DEF ApiRows, Events
  <2>3. i = [event |-> api.event, cycle |-> api.cycle, mail |-> api.mail, row |-> api.row,
             from |-> 0, at |-> "queued", found |-> 0, seen |-> {}]
    BY <1>3 DEF Item
  <2>4. 0 \in Nat
    OBVIOUS
  <2>5. QED
    BY ONLY <1>2, <2>2, <2>3, <2>4, ItemMade
<1>5. /\ ItemShape' /\ ItemsGrown /\ Len(items) \in Nat /\ Len(items') = Len(items) + 1
      /\ DOMAIN items = 1..Len(items) /\ DOMAIN items' = 1..n
      /\ \A k \in DOMAIN items : k \in DOMAIN items' /\ items'[k] = items[k]
      /\ \A k \in DOMAIN items' : k \notin DOMAIN items => k = n
      /\ items'[n] = i
  BY <1>0, <1>2, <1>3, <1>4, ItemAdded DEF Push
<1>6. StoreStep /\ RowsStep
  BY <1>1, StoreSame, RowsSame DEF storeVars
<1>7. /\ RunsStep /\ n \in DOMAIN items' /\ n \notin DOMAIN items
      /\ api.event # "ratecon" => n \in DOMAIN runs'
  <2>1. n \in DOMAIN items' /\ n \notin DOMAIN items
    BY <1>0, <1>5
  <2>2. CASE api.event = "ratecon"
    <3>1. UNCHANGED runs
      BY <2>2 DEF Push
    <3>2. DOMAIN items \subseteq DOMAIN items'
      BY <1>5
    <3>3. QED
      BY <2>1, <2>2, <3>1, <3>2, RunsSame
  <2>3. CASE api.event # "ratecon"
    <3>1. runs' = RunRecorded(n, api.cycle, api.event) /\ api.cycle \in Nat /\ api.event \in Events
      BY <1>0, <1>2, <2>3 DEF Push, ApiRows, Events
    <3>2. /\ RunShape' /\ RunsGrown /\ DOMAIN runs' = DOMAIN runs \cup {n}
          /\ n \notin DOMAIN runs => runs'[n] = [cycle |-> api.cycle, event |-> api.event]
      BY <1>2, <1>5, <2>1, <3>1, RunAdded
    <3>3. n \notin DOMAIN runs
      BY <1>2, <2>1 DEF RunShape
    <3>4. RunRight(n)'
      BY <1>4, <1>5, <3>2, <3>3 DEF RunRight
    <3>5. QED
      BY <2>1, <3>2, <3>4 DEF RunsStep
  <2>4. QED
    BY <2>2, <2>3
<1>8. ItemsStep
  <2>1. OfFlow(i.cycle, FlowOf(i.event))
    BY <1>2, <1>4
  <2>2. OfFlow(i.cycle, FlowOf(i.event))'
    BY <1>1, <2>1 DEF OfFlow, Cycles
  <2>3. RowOf(i.row, i.mail)
    BY <1>2, <1>4
  <2>4. RowOf(i.row, i.mail)'
    BY <1>1, <2>3 DEF RowOf
  <2>5. "queued" \in StagesOf(i.event)
    BY <1>2, <1>4 DEF StagesOf
  <2>6. Len(lifecycles') \in Nat
    BY <1>1, ApiFacts
  <2>7. ItemRight(n)'
    BY <1>2, <1>4, <1>5, <2>2, <2>4, <2>5, <2>6 DEF ItemRight
  <2>8. QED
    BY <1>5, <2>7 DEF ItemsStep
<1>9. WorkStep /\ accepted' \in [Loads -> Nat]
  <2>1. accepted' \in [Loads -> Nat]
    BY <1>2, ApiFacts DEF Push, WorkShape, ApiRows
  <2>2. QED
    BY <1>1, <1>6, <2>1, WorkSame, ApiFacts DEF StoreStep, workVars
<1>10. WaitShape' /\ WaitRight'
  BY <1>1, ApiFacts DEF WaitShape, WaitRight
<1>11. api' \in ApiRows /\ ApiRight'
  <2>1. CASE api.event = "ratecon"
    <3>1. api' = ApiIdle
      BY <2>1 DEF Push
    <3>2. QED
      BY <1>1, <1>2, <3>1, ApiStarts DEF storeVars
  <2>2. CASE api.event # "ratecon"
    <3>1. api' = [api EXCEPT !.at = "link"]
      BY <2>2 DEF Push, ApiGoto
    <3>2. /\ api'.at = "link" /\ api'.cycle = api.cycle /\ api'.mail = api.mail
          /\ api'.row = api.row /\ api'.event = api.event /\ api' \in ApiRows
      BY <1>2, <3>1 DEF ApiRows, ApiStages
    <3>3. RowOf(api.row, api.mail)'
      BY <1>1, <1>2, <3>2 DEF RowOf
    <3>4. OfFlow(api.cycle, FlowOf(api.event))'
      BY <1>1, <1>2, <3>2 DEF OfFlow, Cycles
    <3>5. ApiLinks'
      <4>1. \A k \in DOMAIN items' : k <= n
        BY <1>5
      <4>2. /\ n \in DOMAIN runs' /\ items'[n].mail = api'.mail /\ items'[n].event = api'.event
            /\ items'[n].cycle = api'.cycle /\ api'.event \in {"reply", "details"}
        BY <1>2, <1>4, <1>5, <1>7, <2>2, <3>2
      <4>3. QED
        BY <4>1, <4>2 DEF ApiLinks
    <3>6. api.cycle \in 0..Len(lifecycles)
      BY ApiFacts DEF ApiRight
    <3>7. QED
      BY <1>1, <1>2, <3>2, <3>3, <3>4, <3>5, <3>6 DEF ApiRight
  <2>3. QED
    BY <2>1, <2>2
<1>12. DocumentedMeansStored'
  BY <1>1 DEF Base, Tied, DocumentedMeansStored, Sub, Cycles
<1>13. AcceptedRight'
  <2>1. SUFFICES ASSUME NEW l \in Loads
                 PROVE  Accepted(l)'
    BY DEF AcceptedRight
  <2>2. Accepted(l)
    BY DEF Base, Tied, AcceptedRight
  <2>3. CASE api.event = "ratecon" /\ l = Mail[api.mail].load
    <3>1. accepted'[l] = api.cycle
      BY <2>3, ApiFacts DEF Push, WorkShape
    <3>2. PICK c : c = api.cycle
      OBVIOUS
    <3>3. OfFlow(c, "ratecon") /\ Correlation(c) = l /\ Sub(c) # "cancelled"
      BY <1>2, <2>3, <3>2 DEF FlowOf
    <3>4. OfFlow(c, "ratecon")' /\ Correlation(c)' = l /\ Sub(c)' # "cancelled"
      BY <1>1, <3>3 DEF OfFlow, Correlation, Sub, Cycles
    <3>5. QED
      BY <3>1, <3>2, <3>4 DEF Accepted
  <2>4. CASE ~(api.event = "ratecon" /\ l = Mail[api.mail].load)
    <3>1. accepted'[l] = accepted[l]
      BY <2>4, ApiFacts DEF Push, WorkShape
    <3>2. PICK c : c = accepted[l]
      OBVIOUS
    <3>3. c # 0 => OfFlow(c, "ratecon") /\ Correlation(c) = l /\ Sub(c) # "cancelled"
      BY <2>2, <2>4, <3>2 DEF Accepted
    <3>4. c # 0 => OfFlow(c, "ratecon")' /\ Correlation(c)' = l /\ Sub(c)' # "cancelled"
      BY <1>1, <3>3 DEF OfFlow, Correlation, Sub, Cycles
    <3>5. QED
      BY <3>1, <3>2, <3>4 DEF Accepted
  <2>5. QED
    BY <2>3, <2>4
<1>14. QED
  BY <1>6, <1>7, <1>8, <1>9, <1>10, <1>11, <1>12, <1>13, Assembled DEF StoreStep

(* The webhook links the reply's row to the run that it recorded.           *)
LEMMA LinkReplyRight ==
  ASSUME Base, LinkReply
  PROVE  Base' /\ Grown
<1>1. /\ api.at = "link" /\ api' = ApiIdle
      /\ UNCHANGED <<delivered, waiting, shipments, located, lifecycles, recent, items, workVars, accepted, runs>>
  BY DEF LinkReply, inVars, fileVars, storeVars
<1>2. /\ api \in ApiRows /\ api.mail \in Mails /\ RowOf(api.row, api.mail) /\ ApiLinks
  BY <1>1, ApiFacts DEF ApiRight
<1>3. PICK n \in DOMAIN runs :
        /\ items[n].mail = api.mail /\ items[n].event = api.event /\ items[n].cycle = api.cycle
        /\ \A k \in DOMAIN items : (items[k].mail = api.mail /\ items[k].event = api.event) => k <= n
  BY <1>1, <1>2 DEF ApiLinks
<1>4. n \in DOMAIN items /\ runs[n].cycle = api.cycle /\ DOMAIN items \subseteq Nat
  BY <1>3, LenProperties DEF Base, Shapes, RunShape, Tied, RunRight, ItemShape
<1>5. OwnRun = n
  <2> DEFINE P(k) == /\ items[k].mail = api.mail /\ items[k].event = api.event
                     /\ \A j \in DOMAIN items :
                          (items[j].mail = api.mail /\ items[j].event = api.event) => j <= k
  <2>1. P(n)
    BY <1>3
  <2>2. \A k \in DOMAIN items : P(k) => k = n
    BY <1>3, <1>4
  <2>3. OwnRun = CHOOSE k \in DOMAIN items : P(k)
    BY DEF OwnRun
  <2> HIDE DEF P
  <2>4. QED
    BY <1>4, <2>1, <2>2, <2>3
<1>6. PICK cycle : cycle = IF api.event = "reply" THEN api.cycle ELSE 0
  OBVIOUS
<1>7. rows' = ThreadLinked(Linked(rows, api.row, n, cycle), Mail[api.mail].thread, n, cycle)
  BY <1>5, <1>6 DEF LinkReply
<1>8. RowsStep
  <2>1. cycle \in {0, runs[n].cycle} /\ api.row \in Nat
    BY <1>2, <1>4, <1>6 DEF ApiRows
  <2>2. ItemsGrown
    BY <1>1, ItemsSame DEF ItemsStep
  <2>3. QED
    BY <1>1, <1>2, <1>3, <1>7, <2>1, <2>2, LinkedStep
<1>9. StoreStep /\ RunsStep /\ ItemsStep
  BY <1>1, StoreSame, RunsSame, ItemsSame DEF storeVars
<1>10. WorkStep
  BY <1>1, <1>9, WorkSame, ApiFacts DEF WorkShape, StoreStep
<1>11. api' \in ApiRows /\ ApiRight'
  BY <1>1, <1>2, ApiStarts DEF storeVars
<1>12. WaitShape' /\ WaitRight'
  BY <1>1, ApiFacts DEF WaitShape, WaitRight
<1>13. QED
  BY <1>1, <1>8, <1>9, <1>10, <1>11, <1>12, StepRight DEF Superseding

-----------------------------------------------------------------------------
(* The steps of a run.                                                     *)

(* A stage tells what run it is of.                                        *)
LEMMA StageTells ==
  ASSUME NEW event \in Events, NEW at \in StagesOf(event)
  PROVE  /\ "done" \in StagesOf(event)
         /\ at # "done" => {"queued", "record", "link"} \subseteq StagesOf(event) /\ event # "draft"
         /\ at \in {"locate", "place", "received", "upload", "uploaded", "gate", "findDriver",
                    "insertDriver", "pushDriver"} => event = "ratecon"
         /\ at \in {"check", "started"} => event = "start"
         /\ at \in {"send", "remind"} => event = "reminder"
         /\ at \in {"read", "decide"} => event \in {"details", "reply"}
BY DEF StagesOf, Events

(* The stages that the runs of each event pass.                             *)
LEMMA StagesAre ==
  /\ {"locate", "place", "received", "upload", "uploaded", "gate", "findDriver", "insertDriver",
      "pushDriver"} \subseteq StagesOf("ratecon")
  /\ {"check", "started"} \subseteq StagesOf("start")
  /\ {"send", "remind"} \subseteq StagesOf("reminder")
  /\ {"read", "decide"} \subseteq StagesOf("details")
  /\ {"read", "decide"} \subseteq StagesOf("reply")
BY DEF StagesOf

(* What every state says of an item.                                       *)
LEMMA ItemFacts ==
  ASSUME Base, NEW n \in DOMAIN items
  PROVE  /\ items[n] \in ItemRows /\ ItemRight(n) /\ items[n].cycle \in Cycles
         /\ items[n].cycle \in Nat /\ items[n].event \in Events /\ items[n].at \in Stages
         /\ items[n].at \in StagesOf(items[n].event) /\ n \in Nat /\ n # 0
         /\ {items[n].from, items[n].found} \subseteq 0..Len(lifecycles)
         /\ items[n].event # "draft" => items[n].mail \in Mails
<1>1. items[n] \in ItemRows /\ DOMAIN items = 1..Len(items) /\ Len(items) \in Nat
  BY ElementOfSeq, LenProperties DEF Base, Shapes, ItemShape
<1>2. ItemRight(n)
  BY DEF Base, Tied
<1>3. QED
  BY <1>1, <1>2 DEF ItemRight, ItemRows, OfFlow

(* A run's step leaves what the webhook and the other tables hold.          *)
LEMMA WorkKept ==
  ASSUME Base, UNCHANGED <<delivered, shipments, located, workVars, accepted>>, StoreStep
  PROVE  WorkStep
<1>1. delivered' \in Seq(Mails) /\ accepted' \in [Loads -> Nat]
  BY ApiFacts DEF WorkShape
<1>2. QED
  BY <1>1, WorkSame DEF StoreStep

(* A step that leaves every table but the queue.                            *)
LEMMA AllKept ==
  ASSUME Base, UNCHANGED <<inVars, fileVars, storeVars, workVars, accepted, commVars>>,
         DOMAIN items' = DOMAIN items
  PROVE  StoreStep /\ RowsStep /\ RunsStep /\ WorkStep
<1>1. StoreStep /\ RowsStep /\ RunsStep
  BY StoreSame, RowsSame, RunsSame DEF commVars
<1>2. QED
  BY <1>1, WorkKept DEF inVars, fileVars

(* An item that goes on with something found and seen, or nothing new.      *)
LEMMA GoneOn ==
  ASSUME Base, NEW n \in DOMAIN items, NEW at \in StagesOf(items[n].event), at \in Stages,
         NEW seen \in SUBSET (AllPlaces \cup {"stored", "row"} \cup Turned),
         NEW found \in 0..Len(lifecycles'),
         items' = [items EXCEPT ![n] = [items[n] EXCEPT !.at = at, !.seen = seen, !.found = found]],
         at \notin {"queued", "record", "done"} => n \in DOMAIN runs',
         at = "place" => seen \subseteq Places[LoadOf(n)],
         at = "uploaded" /\ UploadSuccess(seen) => items[n].cycle \in documents',
         at = "pushDriver" => OfFlow(found, "driver_assignment")',
         StoreStep, RowsStep, RunsStep, WorkStep, UNCHANGED <<inVars, api, accepted>>
  PROVE  Base' /\ Grown
<1>1. PICK i : i = [items[n] EXCEPT !.at = at, !.seen = seen, !.found = found]
  OBVIOUS
<1>2. Len(lifecycles') \in Nat /\ Len(lifecycles) \in Nat /\ Len(lifecycles) <= Len(lifecycles')
  BY ApiFacts, LenProperties DEF StoreStep, StoreShape, StoreGrown
<1>3. /\ i \in ItemRows /\ i.event = items[n].event /\ i.cycle = items[n].cycle
      /\ i.mail = items[n].mail /\ i.at = at /\ i.seen = seen /\ i.found = found
      /\ i.row = items[n].row /\ i.from = items[n].from
  <2>1. items[n] \in ItemRows /\ found \in Nat
    BY <1>2, ItemFacts
  <2>2. QED
    BY <1>1, <2>1 DEF ItemRows
<1>4. {i.from, i.found} \subseteq 0..Len(lifecycles')
  <2>1. items[n].from \in 0..Len(lifecycles)
    BY ItemFacts
  <2>2. QED
    BY <1>2, <1>3, <2>1
<1>5. items' = [items EXCEPT ![n] = i]
  BY <1>1
<1>6. i.at \in StagesOf(i.event)
  BY <1>3
<1>7. /\ i.at \notin {"queued", "record", "done"} => n \in DOMAIN runs'
      /\ i.at = "place" => i.seen \subseteq Places[LoadOf(n)]
      /\ i.at = "uploaded" /\ UploadSuccess(i.seen) => i.cycle \in documents'
      /\ i.at = "pushDriver" => OfFlow(i.found, "driver_assignment")'
  BY <1>3
<1>8. /\ i \in ItemRows /\ i.event = items[n].event /\ i.cycle = items[n].cycle
      /\ i.mail = items[n].mail /\ i.row = items[n].row
  BY <1>3
<1>9. QED
  BY <1>4, <1>5, <1>6, <1>7, <1>8, RunStepRight

(* A run goes on to its next stage.                                         *)
LEMMA Gone ==
  ASSUME Base, NEW n \in DOMAIN items, NEW at \in StagesOf(items[n].event), at \in Stages,
         items' = [items EXCEPT ![n].at = at],
         at \notin {"queued", "record", "done"} => n \in DOMAIN runs',
         at \notin {"place", "uploaded", "pushDriver"},
         StoreStep, RowsStep, RunsStep, WorkStep, UNCHANGED <<inVars, api, accepted>>
  PROVE  Base' /\ Grown
<1>1. PICK i : i = [items[n] EXCEPT !.at = at]
  OBVIOUS
<1>2. Len(lifecycles') \in Nat /\ Len(lifecycles) \in Nat /\ Len(lifecycles) <= Len(lifecycles')
  BY ApiFacts, LenProperties DEF StoreStep, StoreShape, StoreGrown
<1>3. /\ i \in ItemRows /\ i.event = items[n].event /\ i.cycle = items[n].cycle
      /\ i.mail = items[n].mail /\ i.at = at /\ i.found = items[n].found
      /\ i.row = items[n].row /\ i.from = items[n].from
  BY <1>1, ItemFacts DEF ItemRows
<1>4. {i.from, i.found} \subseteq 0..Len(lifecycles')
  <2>1. {items[n].from, items[n].found} \subseteq 0..Len(lifecycles)
    BY ItemFacts
  <2>2. QED
    BY <1>2, <1>3, <2>1
<1>5. items' = [items EXCEPT ![n] = i]
  BY <1>1
<1>6. QED
  BY <1>3, <1>4, <1>5, RunStepRight

(* A run is done.                                                           *)
LEMMA Ended ==
  ASSUME Base, NEW n \in DOMAIN items, End(n),
         StoreStep, RowsStep, RunsStep, WorkStep, UNCHANGED <<inVars, api, accepted>>
  PROVE  Base' /\ Grown
<1>1. PICK i : i = DoneItem(items[n])
  OBVIOUS
<1>2. Len(lifecycles') \in Nat
  BY LenProperties DEF StoreStep, StoreShape
<1>3. /\ i \in ItemRows /\ i.event = items[n].event /\ i.cycle = items[n].cycle
      /\ i.mail = items[n].mail /\ i.at = "done" /\ i.found = 0 /\ i.row = 0 /\ i.from = 0
  <2> DEFINE r == [event |-> items[n].event, cycle |-> items[n].cycle, mail |-> items[n].mail,
                   row |-> 0, from |-> 0, at |-> "done", found |-> 0, seen |-> {}]
  <2>1. r \in ItemRows
    BY ItemFacts DEF ItemRows, Stages
  <2>2. i = r
    BY <1>1 DEF DoneItem, Item
  <2>3. QED
    BY <2>1, <2>2
<1>4. items' = [items EXCEPT ![n] = i]
  BY <1>1 DEF End
<1>5. "done" \in StagesOf(i.event)
  BY <1>3, ItemFacts, StageTells
<1>6. RowOf(i.row, i.mail)'
  BY <1>3 DEF RowOf
<1>7. {i.from, i.found} \subseteq 0..Len(lifecycles')
  BY <1>2, <1>3
<1>8. QED
  BY <1>3, <1>4, <1>5, <1>6, <1>7, RunStepRight

-----------------------------------------------------------------------------
(* The text of a thread.                                                   *)

(* Positions that are bounded have a greatest one.                          *)
LEMMA GreatestOf ==
  ASSUME NEW k \in Nat, NEW S \in SUBSET (1..k), S # {}
  PROVE  \E i \in S : \A j \in S : i >= j
<1> DEFINE T == {k - i : i \in S}
<1>1. T \in SUBSET Nat /\ T # {}
  <2>1. \A i \in S : k - i \in Nat
    OBVIOUS
  <2>2. T \in SUBSET Nat
    BY <2>1
  <2>3. PICK i : i \in S
    OBVIOUS
  <2>4. k - i \in T
    BY <2>3
  <2>5. QED
    BY <2>2, <2>4
<1>2. PICK t \in T : \A u \in T : t <= u
  BY <1>1, LeastOf
<1>3. PICK i \in S : t = k - i
  OBVIOUS
<1>4. \A j \in S : k - j \in T
  OBVIOUS
<1>5. \A j \in S : k - i <= k - j
  BY <1>2, <1>3, <1>4
<1>6. \A j \in S : i >= j
  BY <1>5
<1>7. QED
  BY <1>6

(* The draft that is found is a row with the text of a draft.               *)
LEMMA FoundDraft ==
  ASSUME MailShape, NEW c
  PROVE  /\ DraftOf(c) # 0 => DraftOf(c) \in DOMAIN rows /\ rows[DraftOf(c)].mail = "draft"
         /\ \A i \in DOMAIN rows :
              (rows[i].mail = "draft" /\ rows[i].run \in DOMAIN runs /\ runs[rows[i].run].cycle = c)
                => DraftOf(c) # 0
<1> DEFINE sent == {i \in DOMAIN rows : /\ rows[i].mail = "draft"
                                        /\ rows[i].run \in DOMAIN runs
                                        /\ runs[rows[i].run].cycle = c}
<1>1. DOMAIN rows = 1..Len(rows) /\ Len(rows) \in Nat
  BY LenProperties DEF MailShape
<1>2. sent \in SUBSET (1..Len(rows))
  BY <1>1
<1>3. DraftOf(c) = IF sent = {} THEN 0 ELSE CHOOSE i \in sent : \A j \in sent : i >= j
  BY DEF DraftOf
<1>4. \A i \in sent : i \in DOMAIN rows /\ rows[i].mail = "draft" /\ i # 0
  BY <1>1
<1>5. \A i \in DOMAIN rows :
        (rows[i].mail = "draft" /\ rows[i].run \in DOMAIN runs /\ runs[rows[i].run].cycle = c)
          => i \in sent
  OBVIOUS
<1> HIDE DEF sent
<1>6. sent # {} => DraftOf(c) \in sent
  <2>1. sent # {} => \E i \in sent : \A j \in sent : i >= j
    BY <1>1, <1>2, GreatestOf
  <2>2. QED
    BY <1>3, <2>1
<1>7. QED
  BY <1>3, <1>4, <1>5, <1>6

(* What a run reads are turns of mails, ours or theirs.                     *)
LEMMA TurnsTyped ==
  ASSUME MailShape, NEW messages \in SUBSET DOMAIN rows, NEW fallback \in SUBSET Mails
  PROVE  Turns(messages, fallback) \in SUBSET Turned
<1> DEFINE turns == UNION {{<<rows[i].mail, word>> : word \in TextOf(i)} : i \in messages}
           body == UNION {{<<m, word>> : word \in MailText[m]} : m \in fallback}
           words == Sent \cup UNION {MailText[m] : m \in Mails}
<1>1. \A i \in messages : rows[i].mail \in Mails \cup Sent
  <2>1. TAKE i \in messages
  <2>2. rows[i] \in MailRows
    BY ElementOfSeq, LenProperties DEF MailShape
  <2>3. QED
    BY <2>2 DEF MailRows
<1>2. \A i \in messages : TextOf(i) \subseteq words
  BY <1>1 DEF TextOf
<1>3. turns \subseteq (Mails \cup Sent) \X words
  <2>1. \A t \in turns : \E i \in messages : \E word \in TextOf(i) : t = <<rows[i].mail, word>>
    OBVIOUS
  <2> HIDE DEF turns, words
  <2>2. QED
    BY <1>1, <1>2, <2>1
<1>4. body \subseteq (Mails \cup Sent) \X words
  <2>1. \A t \in body : \E m \in fallback : \E word \in MailText[m] : t = <<m, word>>
    OBVIOUS
  <2>2. \A m \in fallback : MailText[m] \subseteq words
    OBVIOUS
  <2> HIDE DEF body, words
  <2>3. QED
    BY <2>1, <2>2
<1>5. Turns(messages, fallback) = IF turns # {} THEN turns ELSE body
  BY DEF Turns
<1> HIDE DEF turns, body, words
<1>6. QED
  BY <1>3, <1>4, <1>5 DEF Turned, words

(* What a run reads are words of known mails.                               *)
LEMMA TextTyped ==
  ASSUME MailShape, NEW m \in Mails, NEW c
  PROVE  /\ ThreadText(Mail[m].thread, {m}) \in SUBSET Turned
         /\ ReplyText(Mail[m].thread, c) \in SUBSET Turned
<1>1. ListThread(Mail[m].thread) \in SUBSET DOMAIN rows
  BY DEF ListThread, InThread
<1>2. MergeDraft(ListThread(Mail[m].thread), DraftOf(c)) \in SUBSET DOMAIN rows
  BY <1>1, FoundDraft DEF MergeDraft
<1>3. QED
  BY <1>1, <1>2, TurnsTyped DEF ThreadText, ReplyText

(* A run records its mail, or finds the row that another recorded.          *)
LEMMA RecordMailRight ==
  ASSUME Base, NEW n \in DOMAIN items, RecordMail(n)
  PROVE  Base' /\ Grown
<1>1. /\ items[n].at = "queued" /\ items[n].event \in {"ratecon", "details"}
      /\ UNCHANGED <<inVars, api, fileVars, storeVars, workVars, accepted, runs>>
  BY DEF RecordMail, CanStart
<1>2. items[n].mail \in Mails /\ "record" \in StagesOf(items[n].event) /\ "record" \in Stages
  BY <1>1, ItemFacts, StageTells DEF Stages
<1>3. StoreStep
  BY <1>1, StoreSame
<1>4. WorkStep
  BY <1>1, <1>3, WorkKept DEF inVars, fileVars
<1>5. CASE /\ rows' = WithInbound(items[n].mail)
           /\ items' = [items EXCEPT ![n].at = "record", ![n].row = InboundId(items[n].mail)]
  <2>1. PICK id : id = InboundId(items[n].mail)
    OBVIOUS
  <2>2. PICK m : m = items[n].mail
    OBVIOUS
  <2>3. RowsStep /\ RowOf(id, m)' /\ id \in Nat
    BY <1>2, <1>5, <2>1, <2>2, InboundStep
  <2>4. PICK i : i = [items[n] EXCEPT !.at = "record", !.row = id]
    OBVIOUS
  <2>5. /\ i \in ItemRows /\ i.event = items[n].event /\ i.cycle = items[n].cycle
        /\ i.mail = items[n].mail /\ i.at = "record" /\ i.found = items[n].found
        /\ i.row = id /\ i.from = items[n].from
    BY <1>2, <2>3, <2>4, ItemFacts DEF ItemRows
  <2>6. items' = [items EXCEPT ![n] = i]
    BY <1>5, <2>1, <2>4
  <2>7. {i.from, i.found} \subseteq 0..Len(lifecycles')
    BY <1>1, <2>5, ItemFacts DEF storeVars
  <2>8. RunsStep
    <3>1. DOMAIN items \subseteq DOMAIN items'
      BY <2>6
    <3>2. QED
      BY <1>1, <3>1, RunsSame
  <2>9. RowOf(i.row, i.mail)'
    BY <2>2, <2>3, <2>5
  <2>10. QED
    BY <1>1, <1>2, <1>3, <1>4, <2>3, <2>5, <2>6, <2>7, <2>8, <2>9, RunStepRight
<1>6. CASE items' = [items EXCEPT ![n].at = "record"] /\ rows' = rows
  <2>1. DOMAIN items' = DOMAIN items
    BY <1>6
  <2>2. StoreStep /\ RowsStep /\ RunsStep /\ WorkStep
    BY <1>1, <1>6, <2>1, AllKept DEF commVars
  <2>3. QED
    BY <1>1, <1>2, <1>6, <2>2, Gone
<1>7. QED
  BY <1>5, <1>6 DEF RecordMail, Goto

(* Steps that change nothing but the item.                                 *)
LEMMA PlainRight ==
  ASSUME Base, NEW n \in DOMAIN items,
         \/ StartRun(n) \/ Gate(n) \/ PrepareStart(n) \/ LookUpDriver(n) \/ Locate(n)
         \/ ReadDetails(n) \/ ReadReply(n)
  PROVE  Base' /\ Grown
<1>1. UNCHANGED <<inVars, api, fileVars, storeVars, workVars, accepted, commVars>>
  BY DEF StartRun, Gate, PrepareStart, LookUpDriver, Locate, ReadDetails, ReadReply
<1>2. \/ End(n) \/ \E at : Goto(n, at)
      \/ \E at, found : items' = [items EXCEPT ![n].at = at, ![n].found = found]
      \/ \E at, seen : items' = [items EXCEPT ![n].at = at, ![n].seen = seen]
  BY DEF StartRun, Gate, PrepareStart, LookUpDriver, Locate, ReadDetails, ReadReply
<1>3. DOMAIN items' = DOMAIN items
  BY <1>2 DEF End, Goto
<1>4. StoreStep /\ RowsStep /\ RunsStep /\ WorkStep
  BY <1>1, <1>3, AllKept
<1>5. ASSUME End(n) PROVE Base' /\ Grown
  BY <1>1, <1>4, <1>5, Ended
<1>6. /\ items[n] \in ItemRows /\ ItemRight(n) /\ items[n].at \in StagesOf(items[n].event)
      /\ items[n].event \in Events /\ items[n].seen \in SUBSET (AllPlaces \cup {"stored", "row"} \cup Turned)
      /\ items[n].found \in 0..Len(lifecycles') /\ lifecycles' = lifecycles
      /\ items[n] = [event |-> items[n].event, cycle |-> items[n].cycle, mail |-> items[n].mail,
                     row |-> items[n].row, from |-> items[n].from, at |-> items[n].at,
                     found |-> items[n].found, seen |-> items[n].seen]
  BY <1>1, ItemFacts DEF ItemRows, storeVars
<1>7. items[n].at \notin {"queued", "record", "done"} => n \in DOMAIN runs'
  BY <1>1, <1>6 DEF ItemRight, commVars
<1> DEFINE Seens == SUBSET (AllPlaces \cup {"stored", "row"} \cup Turned)
<1>70. PICK f : f = items[n].found
  OBVIOUS
<1>71. PICK s : s = items[n].seen
  OBVIOUS
<1>72. f \in 0..Len(lifecycles') /\ s \in Seens
  BY <1>6, <1>70, <1>71
<1>8. CASE StartRun(n) \/ (PrepareStart(n) /\ ~End(n))
  <2>1. items' = [items EXCEPT ![n].at = "record"] /\ items[n].at = "queued"
    BY <1>8 DEF StartRun, PrepareStart, Goto, CanStart
  <2>2. "record" \in StagesOf(items[n].event) /\ "record" \in Stages
    BY <1>6, <2>1, StageTells DEF Stages
  <2>3. QED
    BY <1>1, <1>4, <2>1, <2>2, Gone
<1>9. CASE Gate(n) /\ ~End(n)
  <2>1. items' = [items EXCEPT ![n].at = "findDriver"] /\ items[n].at = "gate"
    BY <1>9 DEF Gate, Goto
  <2>2. "findDriver" \in StagesOf(items[n].event) /\ "findDriver" \in Stages
    BY <1>6, <2>1, StageTells, StagesAre DEF Stages
  <2>3. QED
    BY <1>1, <1>4, <1>7, <2>1, <2>2, Gone
<1>10. CASE LookUpDriver(n)
  <2>1. PICK c : c = FindExisting("driver_assignment", LoadOf(n))
    OBVIOUS
  <2>2. PICK at : at = IF c = 0 THEN "insertDriver" ELSE "pushDriver"
    OBVIOUS
  <2>3. items[n].at = "findDriver" /\ items' = [items EXCEPT ![n].at = at, ![n].found = c]
    BY <1>10, <2>1, <2>2 DEF LookUpDriver
  <2>4. c # 0 => OfFlow(c, "driver_assignment")
    BY <2>1, Found, ApiFacts
  <2>5. c \in 0..Len(lifecycles')
    BY <1>6, <2>4, ApiFacts DEF OfFlow
  <2>6. /\ at \in StagesOf(items[n].event) /\ at \in Stages
        /\ at = "insertDriver" \/ (at = "pushDriver" /\ c # 0)
    BY <1>6, <2>2, <2>3, StageTells, StagesAre DEF Stages
  <2>7. items' = [items EXCEPT ![n] = [items[n] EXCEPT !.at = at, !.seen = s, !.found = c]]
    <3>1. [items[n] EXCEPT !.at = at, !.found = c]
            = [items[n] EXCEPT !.at = at, !.seen = s, !.found = c]
      BY <1>6, <1>71
    <3>2. QED
      BY <2>3, <3>1
  <2>8. c # 0 => OfFlow(c, "driver_assignment")'
    BY <1>6, <2>4 DEF OfFlow, Cycles
  <2>9. n \in DOMAIN runs'
    BY <1>7, <2>3
  <2>10. QED
    BY <1>1, <1>4, <1>72, <2>5, <2>6, <2>7, <2>8, <2>9, GoneOn
<1>11. CASE Locate(n) /\ ~End(n)
  <2>1. PICK seen : seen = Missing(LoadOf(n))
    OBVIOUS
  <2>2. PICK at : at = IF Missing(LoadOf(n)) = {} THEN "received" ELSE "place"
    OBVIOUS
  <2>3. items[n].at = "locate" /\ items' = [items EXCEPT ![n].at = at, ![n].seen = seen]
    BY <1>11, <2>1, <2>2 DEF Locate
  <2>4. seen \subseteq Places[LoadOf(n)] /\ seen \in SUBSET (AllPlaces \cup {"stored", "row"} \cup Turned)
    <3>1. LoadOf(n) \in Loads
      BY ItemFacts, CycleTyped, ApiFacts DEF LoadOf
    <3>2. QED
      BY <2>1, <3>1 DEF Missing, AllPlaces, Loads
  <2>5. at \in StagesOf(items[n].event) /\ at \in Stages /\ at \in {"received", "place"}
    BY <1>6, <2>2, <2>3, StageTells, StagesAre DEF Stages
  <2>6. items' = [items EXCEPT ![n] = [items[n] EXCEPT !.at = at, !.seen = seen, !.found = f]]
    <3>1. [items[n] EXCEPT !.at = at, !.seen = seen]
            = [items[n] EXCEPT !.at = at, !.seen = seen, !.found = f]
      BY <1>6, <1>70
    <3>2. QED
      BY <2>3, <3>1
  <2>7. n \in DOMAIN runs'
    BY <1>7, <2>3
  <2>8. QED
    BY <1>1, <1>4, <1>72, <2>4, <2>5, <2>6, <2>7, GoneOn
<1>12. CASE (ReadDetails(n) \/ ReadReply(n)) /\ ~End(n)
  <2>1. PICK seen : /\ seen = ThreadText(Mail[items[n].mail].thread, {items[n].mail})
                       \/ seen = ReplyText(Mail[items[n].mail].thread, items[n].cycle)
                    /\ items' = [items EXCEPT ![n].at = "decide", ![n].seen = seen]
    BY <1>12 DEF ReadDetails, ReadReply
  <2>2. items[n].at = "read"
    BY <1>12 DEF ReadDetails, ReadReply
  <2>3. "decide" \in StagesOf(items[n].event) /\ "decide" \in Stages
    BY <1>6, <2>2, StageTells, StagesAre DEF Stages
  <2>4. seen \in SUBSET (AllPlaces \cup {"stored", "row"} \cup Turned)
    <3>1. items[n].mail \in Mails /\ MailShape
      BY <2>2, ItemFacts, StageTells, ApiFacts
    <3>2. QED
      BY <2>1, <3>1, TextTyped
  <2>5. items' = [items EXCEPT ![n] = [items[n] EXCEPT !.at = "decide", !.seen = seen, !.found = f]]
    <3>1. [items[n] EXCEPT !.at = "decide", !.seen = seen]
            = [items[n] EXCEPT !.at = "decide", !.seen = seen, !.found = f]
      BY <1>6, <1>70
    <3>2. QED
      BY <2>1, <3>1
  <2>6. n \in DOMAIN runs'
    BY <1>7, <2>2
  <2>7. QED
    BY <1>1, <1>4, <1>72, <2>3, <2>4, <2>5, <2>6, GoneOn
<1>13. QED
  BY <1>5, <1>8, <1>9, <1>10, <1>11, <1>12

(* A run is recorded once, as what it was queued for.                       *)
LEMMA RecordRunRight ==
  ASSUME Base, NEW n \in DOMAIN items, RecordRun(n)
  PROVE  Base' /\ Grown
<1>1. /\ items[n].at = "record" /\ items' = [items EXCEPT ![n].at = "link"]
      /\ runs' = RunRecorded(n, items[n].cycle, items[n].event)
      /\ UNCHANGED <<inVars, api, fileVars, storeVars, workVars, accepted, rows>>
  BY DEF RecordRun, Goto
<1>2. "link" \in StagesOf(items[n].event) /\ "link" \in Stages
  BY <1>1, ItemFacts, StageTells DEF Stages
<1>3. StoreStep /\ RowsStep
  BY <1>1, StoreSame, RowsSame
<1>4. WorkStep
  BY <1>1, <1>3, WorkKept DEF inVars, fileVars
<1>5. PICK i : i = [items[n] EXCEPT !.at = "link"]
  OBVIOUS
<1>6. /\ i \in ItemRows /\ i.event = items[n].event /\ i.cycle = items[n].cycle
      /\ i.mail = items[n].mail
  BY <1>2, <1>5, ItemFacts DEF ItemRows
<1>7. /\ ItemShape' /\ ItemsGrown /\ DOMAIN items' = DOMAIN items /\ items'[n] = i
  <2>1. items' = [items EXCEPT ![n] = i]
    BY <1>1, <1>5
  <2>2. QED
    BY <1>6, <2>1, ItemMoved, ApiFacts
<1>8. /\ RunShape' /\ RunsGrown /\ DOMAIN runs' = DOMAIN runs \cup {n}
      /\ n \notin DOMAIN runs => runs'[n] = [cycle |-> items[n].cycle, event |-> items[n].event]
  <2>1. PICK c \in Nat : c = items[n].cycle
    BY ItemFacts
  <2>2. PICK e \in Events : e = items[n].event
    BY ItemFacts
  <2>3. runs' = RunRecorded(n, c, e)
    BY <1>1, <2>1, <2>2
  <2>4. QED
    BY <1>7, <2>1, <2>2, <2>3, ApiFacts, RunAdded
<1>9. n \notin DOMAIN runs => RunRight(n)'
  BY <1>6, <1>7, <1>8 DEF RunRight
<1>10. RunsStep /\ n \in DOMAIN runs'
  BY <1>8, <1>9 DEF RunsStep
<1>11. QED
  BY <1>1, <1>2, <1>3, <1>4, <1>10, Gone

(* A run links the rows of its mail that no run has yet.                    *)
LEMMA LinkRunRight ==
  ASSUME Base, NEW n \in DOMAIN items, LinkRun(n)
  PROVE  Base' /\ Grown
<1>1. /\ items[n].at = "link"
      /\ UNCHANGED <<inVars, api, fileVars, storeVars, workVars, accepted, runs>>
  BY DEF LinkRun
<1>2. PICK at : at = First(items[n].event)
  OBVIOUS
<1>3. items' = [items EXCEPT ![n].at = at]
  BY <1>2 DEF LinkRun, Goto
<1>4. items[n].event \in Events /\ items[n].event # "draft" /\ items[n].mail \in Mails
  BY <1>1, ItemFacts, StageTells
<1>5. at \in StagesOf(items[n].event) /\ at \in {"locate", "check", "send", "read"} /\ at \in Stages
  BY <1>2, <1>4, StagesAre DEF First, Events, Stages
<1>6. n \in DOMAIN runs /\ runs[n].cycle = items[n].cycle /\ runs' = runs
  BY <1>1, ItemFacts DEF ItemRight, Base, Tied, RunRight
<1>7. StoreStep
  BY <1>1, StoreSame
<1>8. DOMAIN items' = DOMAIN items
  BY <1>3
<1>9. RunsStep
  BY <1>6, <1>8, RunsSame
<1>10. WorkStep
  BY <1>1, <1>7, WorkKept DEF inVars, fileVars
<1>11. RowsStep
  <2>1. CASE items[n].row = 0
    BY <2>1, RowsSame DEF LinkRun
  <2>2. CASE items[n].row # 0
    <3>1. PICK m \in Mails : m = items[n].mail
      BY <1>4
    <3>2. PICK id \in Nat : id = items[n].row
      BY ItemFacts DEF ItemRows
    <3>3. PICK c : c = items[n].cycle
      OBVIOUS
    <3>4. rows' = ThreadLinked(Linked(rows, id, n, c), Mail[m].thread, n, c)
      BY <2>2, <3>1, <3>2, <3>3 DEF LinkRun
    <3>5. RowOf(id, m) /\ c \in {0, runs[n].cycle}
      BY <1>6, <3>1, <3>2, <3>3, ItemFacts DEF ItemRight
    <3>6. ItemsGrown
      <4>1. PICK i : i = [items[n] EXCEPT !.at = at]
        OBVIOUS
      <4>2. i \in ItemRows /\ i.event = items[n].event /\ i.cycle = items[n].cycle /\ i.mail = items[n].mail
        BY <1>5, <4>1, ItemFacts DEF ItemRows
      <4>3. items' = [items EXCEPT ![n] = i]
        BY <1>3, <4>1
      <4>4. QED
        BY <4>2, <4>3, ItemMoved, ApiFacts
    <3>7. QED
      BY <1>6, <3>1, <3>4, <3>5, <3>6, LinkedStep
  <2>3. QED
    BY <2>1, <2>2
<1>12. QED
  BY <1>1, <1>3, <1>5, <1>6, <1>7, <1>9, <1>10, <1>11, Gone

(* The missing places of the load's route are inserted.                     *)
LEMMA InsertPlacesRight ==
  ASSUME Base, NEW n \in DOMAIN items, InsertPlaces(n)
  PROVE  Base' /\ Grown
<1>1. /\ items[n].at = "place"
      /\ UNCHANGED <<inVars, api, shipments, storeVars, workVars, accepted, rows, runs>>
  BY DEF InsertPlaces, commVars
<1>2. \/ End(n) /\ located' = located
      \/ /\ located' = located \cup items[n].seen
         /\ items' = [items EXCEPT ![n].at = "received", ![n].seen = {}]
  BY DEF InsertPlaces
<1>3. StoreStep /\ RowsStep
  BY <1>1, StoreSame, RowsSame
<1>4. DOMAIN items' = DOMAIN items
  BY <1>2 DEF End
<1>5. RunsStep
  BY <1>1, <1>4, RunsSame
<1>6. LoadOf(n) \in Loads /\ items[n].seen \subseteq Places[LoadOf(n)]
  BY <1>1, ItemFacts, CycleTyped, ApiFacts DEF LoadOf, ItemRight
<1>7. located' \subseteq AllPlaces
  BY <1>2, <1>6, ApiFacts DEF WorkShape, AllPlaces
<1>8. WorkStep
  <2>1. WorkShape'
    BY <1>1, <1>7, ApiFacts DEF WorkShape, inVars, storeVars, workVars, Cycles
  <2>2. TasksRight'
    BY <1>1 DEF Base, Tied, TasksRight, OfFlow, Cycles, storeVars, workVars
  <2>3. QED
    BY <1>1, <2>1, <2>2 DEF WorkStep, workVars
<1>9. CASE End(n)
  BY <1>1, <1>3, <1>5, <1>8, <1>9, Ended
<1>10. CASE items' = [items EXCEPT ![n].at = "received", ![n].seen = {}]
  <2>1. /\ items[n] = [event |-> items[n].event, cycle |-> items[n].cycle, mail |-> items[n].mail,
                       row |-> items[n].row, from |-> items[n].from, at |-> items[n].at,
                       found |-> items[n].found, seen |-> items[n].seen]
    BY ItemFacts DEF ItemRows
  <2>2. PICK f : f = items[n].found
    OBVIOUS
  <2>3. items' = [items EXCEPT ![n] = [items[n] EXCEPT !.at = "received", !.seen = {}, !.found = f]]
    <3>1. [items[n] EXCEPT !.at = "received", !.seen = {}]
            = [items[n] EXCEPT !.at = "received", !.seen = {}, !.found = f]
      BY <2>1, <2>2
    <3>2. QED
      BY <1>10, <3>1
  <2>4. "received" \in StagesOf(items[n].event) /\ "received" \in Stages
    BY <1>1, ItemFacts, StageTells, StagesAre DEF Stages
  <2>5. f \in 0..Len(lifecycles') /\ n \in DOMAIN runs'
    BY <1>1, <2>2, ItemFacts DEF storeVars, ItemRight
  <2>6. PICK e : e = {}
    OBVIOUS
  <2>7. e \in SUBSET (AllPlaces \cup {"stored", "row"} \cup Turned)
    BY <2>6
  <2>8. items' = [items EXCEPT ![n] = [items[n] EXCEPT !.at = "received", !.seen = e, !.found = f]]
    BY <2>3, <2>6
  <2>9. QED
    BY <1>1, <1>3, <1>5, <1>8, <2>4, <2>5, <2>7, <2>8, GoneOn
<1>11. QED
  BY <1>2, <1>9, <1>10

(* The ratecon's document is filed, and then has a row.                     *)
LEMMA UploadRight ==
  ASSUME Base, NEW n \in DOMAIN items, Upload(n)
  PROVE  Base' /\ Grown
<1>1. /\ items[n].at = "upload"
      /\ UNCHANGED <<inVars, api, fileVars, storeVars, tasks, reminded, accepted, rows, runs>>
  BY DEF Upload, commVars
<1>2. PICK outcome \in Outcomes(items[n].mail) :
        /\ items' = [items EXCEPT ![n].at = "uploaded", ![n].seen = outcome]
        /\ documents' = IF "row" \in outcome THEN documents \cup {items[n].cycle} ELSE documents
  BY DEF Upload
<1>3. StoreStep /\ RowsStep
  BY <1>1, StoreSame, RowsSame
<1>4. DOMAIN items' = DOMAIN items
  BY <1>2
<1>5. RunsStep
  BY <1>1, <1>4, RunsSame
<1>6. WorkStep
  <2>1. WorkShape' /\ documents \subseteq documents'
    BY <1>1, <1>2, ApiFacts, ItemFacts DEF WorkShape, inVars, storeVars, fileVars, Cycles
  <2>2. TasksRight'
    BY <1>1 DEF Base, Tied, TasksRight, OfFlow, Cycles, storeVars
  <2>3. QED
    BY <2>1, <2>2 DEF WorkStep
<1>7. outcome \subseteq {"stored", "row"} /\ (UploadSuccess(outcome) => items[n].cycle \in documents')
  BY <1>2 DEF Outcomes, UploadSuccess
<1>8. items[n] = [event |-> items[n].event, cycle |-> items[n].cycle, mail |-> items[n].mail,
                  row |-> items[n].row, from |-> items[n].from, at |-> items[n].at,
                  found |-> items[n].found, seen |-> items[n].seen]
  BY ItemFacts DEF ItemRows
<1>9. PICK f : f = items[n].found
  OBVIOUS
<1>10. items' = [items EXCEPT ![n] = [items[n] EXCEPT !.at = "uploaded", !.seen = outcome, !.found = f]]
  <2>1. [items[n] EXCEPT !.at = "uploaded", !.seen = outcome]
          = [items[n] EXCEPT !.at = "uploaded", !.seen = outcome, !.found = f]
    BY <1>8, <1>9
  <2>2. QED
    BY <1>2, <2>1
<1>11. "uploaded" \in StagesOf(items[n].event) /\ "uploaded" \in Stages
  BY <1>1, ItemFacts, StageTells, StagesAre DEF Stages
<1>12. f \in 0..Len(lifecycles') /\ n \in DOMAIN runs'
  BY <1>1, <1>9, ItemFacts DEF storeVars, ItemRight
<1>13. outcome \in SUBSET (AllPlaces \cup {"stored", "row"} \cup Turned)
  BY <1>7
<1>14. PICK at \in StagesOf(items[n].event) : at = "uploaded"
  BY <1>11
<1>15. /\ items' = [items EXCEPT ![n] = [items[n] EXCEPT !.at = at, !.seen = outcome, !.found = f]]
       /\ at \in Stages /\ at \notin {"place", "pushDriver"}
  BY <1>10, <1>11, <1>14
<1>16. UNCHANGED <<inVars, api, accepted>>
  BY <1>1
<1>17. QED
  BY <1>3, <1>5, <1>6, <1>7, <1>12, <1>13, <1>15, <1>16, GoneOn

(* A run's transaction on the row of its cycle.                            *)
LEMMA RunTransition ==
  ASSUME Base, NEW n \in DOMAIN items, NEW c \in Cycles, NEW s \in Seq(Commands(Subs)), Transition(c, s),
         UNCHANGED <<inVars, api, fileVars, workVars, accepted, commVars>>,
         DOMAIN items' = DOMAIN items,
         lifecycles[c].flow = "ratecon" =>
           \/ s = <<>>
           \/ /\ AfterSequence(lifecycles[c].row, s).sub # "cancelled"
              /\ AfterSequence(lifecycles[c].row, s).sub = "document_uploaded" => c \in documents
  PROVE  StoreStep /\ RowsStep /\ RunsStep /\ WorkStep
<1>1. documents' = documents
  BY DEF workVars
<1>2. StoreStep
  BY <1>1, ApiFacts, TransitionStep
<1>3. RowsStep /\ RunsStep
  BY RowsSame, RunsSame DEF commVars
<1>4. WorkStep
  BY <1>2, WorkKept DEF inVars, fileVars
<1>5. QED
  BY <1>2, <1>3, <1>4

(* The transactions of a driver request and of an appointment.             *)
LEMMA TransactionRight ==
  ASSUME Base, NEW n \in DOMAIN items, RecordStarted(n) \/ RecordReminder(n) \/ DecideDetails(n) \/ DecideReply(n)
  PROVE  Base' /\ Grown
<1>1. /\ End(n) /\ UNCHANGED <<inVars, api, fileVars, workVars, accepted, commVars>>
      /\ DOMAIN items' = DOMAIN items
  BY DEF RecordStarted, RecordReminder, DecideDetails, DecideReply, End
<1>2. PICK c \in Cycles : c = items[n].cycle
  BY ItemFacts
<1>3. PICK v : v = View(lifecycles[c].row)
  OBVIOUS
<1>4. v \in ViewsOf(Subs)
  BY <1>3, CycleTyped, ApiFacts
<1>5. OfFlow(c, FlowOf(items[n].event)) /\ items[n].at \in StagesOf(items[n].event) /\ items[n].event \in Events
  BY <1>2, ItemFacts DEF ItemRight
<1>6. PICK s : /\ Transition(c, s)
               /\ s \in UNION {DriverStarted(v), DriverReminder(v), DriverAssigned(v), {<<Action>>, <<>>}}
                  \/ s \in AppointmentReplied(v) \cup {<<>>}
  BY <1>2, <1>3 DEF RecordStarted, RecordReminder, DecideDetails, DecideReply
<1>7. s \in Seq(Commands(Subs))
  BY <1>4, <1>6, DriverTyped, AppointmentTyped
<1>8. items[n].event # "ratecon"
  <2>1. items[n].at \in {"started", "remind", "decide"}
    BY DEF RecordStarted, RecordReminder, DecideDetails, DecideReply
  <2>2. QED
    BY <1>5, <2>1, StageTells
<1>9. lifecycles[c].flow # "ratecon"
  BY <1>5, <1>8 DEF OfFlow, FlowOf, Events
<1>10. StoreStep /\ RowsStep /\ RunsStep /\ WorkStep
  BY <1>1, <1>6, <1>7, <1>9, RunTransition
<1>11. QED
  BY <1>1, <1>10, Ended

(* The ratecon's lifecycle says that its mail has been received.            *)
LEMMA RecordReceivedRight ==
  ASSUME Base, NEW n \in DOMAIN items, RecordReceived(n)
  PROVE  Base' /\ Grown
<1>1. /\ items[n].at = "received" /\ items' = [items EXCEPT ![n].at = "upload"]
      /\ UNCHANGED <<inVars, api, fileVars, workVars, accepted, commVars>>
      /\ DOMAIN items' = DOMAIN items
  BY DEF RecordReceived, Goto
<1>2. PICK c \in Cycles : c = items[n].cycle
  BY ItemFacts
<1>3. PICK v : v = View(lifecycles[c].row)
  OBVIOUS
<1>4. PICK s \in RateconReceived(v) : Transition(c, s)
  BY <1>2, <1>3 DEF RecordReceived
<1>5. PICK r \in RowsOf(Subs) : r = lifecycles[c].row
  BY CycleTyped, ApiFacts
<1>6. s \in Seq(Commands(Subs)) /\ AfterSequence(r, s).sub = "ratecon_started"
  BY <1>4, <1>5, ReceivedLeaves
<1>7. StoreStep /\ RowsStep /\ RunsStep /\ WorkStep
  BY <1>1, <1>4, <1>5, <1>6, RunTransition
<1>8. "upload" \in StagesOf(items[n].event) /\ "upload" \in Stages /\ n \in DOMAIN runs'
  BY <1>1, ItemFacts, StageTells, StagesAre DEF Stages, ItemRight, commVars
<1>9. QED
  BY <1>1, <1>7, <1>8, Gone

(* The cycle is completed with its document only when that has its row.     *)
LEMMA RecordUploadRight ==
  ASSUME Base, NEW n \in DOMAIN items, RecordUpload(n)
  PROVE  Base' /\ Grown
<1>1. /\ items[n].at = "uploaded" /\ items' = [items EXCEPT ![n].at = "gate", ![n].seen = {}]
      /\ UNCHANGED <<inVars, api, fileVars, workVars, accepted, commVars>>
      /\ DOMAIN items' = DOMAIN items
  BY DEF RecordUpload
<1>2. PICK c \in Cycles : c = items[n].cycle
  BY ItemFacts
<1>3. PICK v : v = View(lifecycles[c].row)
  OBVIOUS
<1>4. PICK s \in RateconUploaded(v) : (Head(s) = Action) = UploadSuccess(items[n].seen) /\ Transition(c, s)
  BY <1>2, <1>3 DEF RecordUpload
<1>5. PICK r \in RowsOf(Subs) : r = lifecycles[c].row
  BY CycleTyped, ApiFacts
<1>6. /\ s \in Seq(Commands(Subs)) /\ AfterSequence(r, s).sub # "cancelled"
      /\ AfterSequence(r, s).sub = "document_uploaded" => Head(s) = Action
  BY <1>4, <1>5, UploadedLeaves
<1>7. AfterSequence(r, s).sub = "document_uploaded" => c \in documents
  BY <1>1, <1>2, <1>4, <1>6, ItemFacts DEF ItemRight
<1>8. StoreStep /\ RowsStep /\ RunsStep /\ WorkStep
  BY <1>1, <1>4, <1>5, <1>6, <1>7, RunTransition
<1>9. /\ items[n] = [event |-> items[n].event, cycle |-> items[n].cycle, mail |-> items[n].mail,
                     row |-> items[n].row, from |-> items[n].from, at |-> items[n].at,
                     found |-> items[n].found, seen |-> items[n].seen]
  BY ItemFacts DEF ItemRows
<1>10. PICK f : f = items[n].found
  OBVIOUS
<1>11. PICK e : e = {}
  OBVIOUS
<1>12. items' = [items EXCEPT ![n] = [items[n] EXCEPT !.at = "gate", !.seen = e, !.found = f]]
  <2>1. [items[n] EXCEPT !.at = "gate", !.seen = e]
          = [items[n] EXCEPT !.at = "gate", !.seen = e, !.found = f]
    BY <1>9, <1>10
  <2>2. QED
    BY <1>1, <1>11, <2>1
<1>13. "gate" \in StagesOf(items[n].event) /\ "gate" \in Stages /\ n \in DOMAIN runs'
  BY <1>1, ItemFacts, StageTells, StagesAre DEF Stages, ItemRight, commVars
<1>14. f \in 0..Len(lifecycles')
  <2>1. Len(lifecycles') \in Nat /\ Len(lifecycles) \in Nat /\ Len(lifecycles) <= Len(lifecycles')
    BY <1>8, ApiFacts, LenProperties DEF StoreStep, StoreShape, StoreGrown
  <2>2. QED
    BY <1>10, <2>1, ItemFacts
<1>15. e \in SUBSET (AllPlaces \cup {"stored", "row"} \cup Turned)
  BY <1>11
<1>16. PICK at \in StagesOf(items[n].event) : at = "gate"
  BY <1>13
<1>17. /\ items' = [items EXCEPT ![n] = [items[n] EXCEPT !.at = at, !.seen = e, !.found = f]]
       /\ at \in Stages /\ at \notin {"place", "uploaded", "pushDriver"}
  BY <1>12, <1>13, <1>16
<1>18. UNCHANGED <<inVars, api, accepted>>
  BY <1>1
<1>19. QED
  BY <1>8, <1>13, <1>14, <1>15, <1>17, <1>18, GoneOn

(* A driver request of the load is created, and the run has found it.       *)
LEMMA InsertDriverRight ==
  ASSUME Base, NEW n \in DOMAIN items, InsertDriver(n)
  PROVE  Base' /\ Grown
<1>1. PICK new : new = Len(lifecycles) + 1
  OBVIOUS
<1>2. /\ items[n].at = "insertDriver" /\ items' = [items EXCEPT ![n].at = "pushDriver", ![n].found = new]
      /\ UNCHANGED <<inVars, api, fileVars, workVars, accepted, commVars>>
      /\ DOMAIN items' = DOMAIN items
  BY <1>1 DEF InsertDriver
<1>3. PICK load \in Loads : load = LoadOf(n)
  BY ItemFacts, CycleTyped, ApiFacts DEF LoadOf
<1>4. PICK flow \in Flows : flow = "driver_assignment"
  BY DEF Flows
<1>5. /\ StoreShape' /\ StoreGrown /\ Len(lifecycles') = new
      /\ Cycles' = Cycles \cup {new} /\ Cycles = 1..Len(lifecycles)
      /\ \A d \in Cycles : lifecycles'[d] = lifecycles[d]
      /\ lifecycles'[new] = [flow |-> flow, load |-> load, row |-> NewRow]
  <2>1. InsertLifecycle(flow, load)
    BY <1>3, <1>4 DEF InsertDriver
  <2>2. flow # "appointment_scheduling"
    BY <1>4
  <2>3. QED
    BY <1>1, <2>1, <2>2, Inserted, ApiFacts
<1>6. lifecycles'[new].flow = "driver_assignment"
  BY <1>4, <1>5
<1>7. StoreStep
  <2>1. StoreQuiet
    BY <1>5, <1>6 DEF StoreQuiet
  <2>2. QED
    BY <1>5, <2>1 DEF StoreStep
<1>8. RowsStep /\ RunsStep
  BY <1>2, RowsSame, RunsSame DEF commVars
<1>9. WorkStep
  BY <1>2, <1>7, WorkKept DEF inVars, fileVars
<1>10. /\ items[n] = [event |-> items[n].event, cycle |-> items[n].cycle, mail |-> items[n].mail,
                      row |-> items[n].row, from |-> items[n].from, at |-> items[n].at,
                      found |-> items[n].found, seen |-> items[n].seen]
       /\ items[n].seen \in SUBSET (AllPlaces \cup {"stored", "row"} \cup Turned)
  BY ItemFacts DEF ItemRows
<1>11. PICK e : e = items[n].seen
  OBVIOUS
<1>12. items' = [items EXCEPT ![n] = [items[n] EXCEPT !.at = "pushDriver", !.seen = e, !.found = new]]
  <2>1. [items[n] EXCEPT !.at = "pushDriver", !.found = new]
          = [items[n] EXCEPT !.at = "pushDriver", !.seen = e, !.found = new]
    BY <1>10, <1>11
  <2>2. QED
    BY <1>2, <2>1
<1>13. "pushDriver" \in StagesOf(items[n].event) /\ "pushDriver" \in Stages /\ n \in DOMAIN runs'
  BY <1>2, ItemFacts, StageTells, StagesAre DEF Stages, ItemRight, commVars
<1>14. OfFlow(new, "driver_assignment")'
  BY <1>5, <1>6 DEF OfFlow
<1>15. new \in 0..Len(lifecycles')
  BY <1>1, <1>5, ApiFacts
<1>16. e \in SUBSET (AllPlaces \cup {"stored", "row"} \cup Turned)
  BY <1>10, <1>11
<1>17. PICK at \in StagesOf(items[n].event) : at = "pushDriver"
  BY <1>13
<1>18. /\ items' = [items EXCEPT ![n] = [items[n] EXCEPT !.at = at, !.seen = e, !.found = new]]
       /\ at \in Stages /\ at \notin {"place", "uploaded"}
  BY <1>12, <1>13, <1>17
<1>19. UNCHANGED <<inVars, api, accepted>>
  BY <1>2
<1>20. QED
  BY <1>7, <1>8, <1>9, <1>13, <1>14, <1>15, <1>16, <1>18, <1>19, GoneOn

(* A driver request that may start gets its reminders scheduled; the others *)
(* end.                                                                     *)
LEMMA CheckStartRight ==
  ASSUME Base, NEW n \in DOMAIN items, CheckStart(n)
  PROVE  Base' /\ Grown
<1>1. /\ (items' = [items EXCEPT ![n].at = "started"] \/ End(n))
      /\ (tasks' = tasks \cup {[cycle |-> items[n].cycle, mail |-> items[n].mail]} \/ tasks' = tasks)
      /\ UNCHANGED <<inVars, api, fileVars, storeVars, documents, reminded, accepted, commVars>>
      /\ items[n].at = "check"
  BY DEF CheckStart, Goto
<1>2. StoreStep /\ RowsStep
  BY <1>1, StoreSame, RowsSame DEF commVars
<1>3. DOMAIN items' = DOMAIN items
  BY <1>1 DEF End
<1>4. RunsStep
  BY <1>1, <1>3, RunsSame DEF commVars
<1>5. items[n].event = "start" /\ items[n].mail \in Mails /\ items[n].cycle \in Nat
      /\ OfFlow(items[n].cycle, "driver_assignment") /\ n \in DOMAIN runs'
  BY <1>1, ItemFacts, StageTells DEF ItemRight, FlowOf, commVars
<1>6. WorkStep
  <2>1. tasks' \subseteq [cycle : Nat, mail : Mails]
    BY <1>1, <1>5, ApiFacts DEF WorkShape
  <2>2. WorkShape'
    BY <1>1, <2>1, ApiFacts DEF WorkShape, inVars, fileVars, storeVars, Cycles
  <2>3. \A t \in tasks' : OfFlow(t.cycle, "driver_assignment")
    BY <1>1, <1>5 DEF Base, Tied, TasksRight
  <2>4. TasksRight'
    BY <1>1, <2>3 DEF TasksRight, OfFlow, Cycles, storeVars
  <2>5. QED
    BY <1>1, <2>2, <2>4 DEF WorkStep
<1>7. CASE End(n)
  BY <1>1, <1>2, <1>4, <1>6, <1>7, Ended
<1>8. CASE items' = [items EXCEPT ![n].at = "started"]
  <2>1. "started" \in StagesOf(items[n].event) /\ "started" \in Stages
    BY <1>5, StagesAre DEF Stages
  <2>2. QED
    BY <1>1, <1>2, <1>4, <1>5, <1>6, <1>8, <2>1, Gone
<1>9. QED
  BY <1>1, <1>7, <1>8

(* A driver request mails the carrier, and this gets a row of the run.      *)
LEMMA SendReminderRight ==
  ASSUME Base, NEW n \in DOMAIN items, SendReminder(n)
  PROVE  Base' /\ Grown
<1>1. /\ items[n].at = "send"
      /\ \/ End(n) /\ UNCHANGED rows
         \/ /\ items' = [items EXCEPT ![n].at = "remind"]
            /\ rows' \in ThreadReply(Mail[items[n].mail].thread, n, Can("outbound", items[n].mail))
      /\ UNCHANGED <<inVars, api, fileVars, storeVars, workVars, accepted, runs>>
  BY DEF SendReminder, Goto
<1>2. DOMAIN items' = DOMAIN items
  BY <1>1 DEF End
<1>3. StoreStep /\ RunsStep
  BY <1>1, <1>2, StoreSame, RunsSame
<1>4. WorkStep
  BY <1>1, <1>3, WorkKept DEF inVars, fileVars
<1>5. items[n].event = "reminder" /\ items[n].mail \in Mails /\ n \in DOMAIN runs /\ n \in Nat /\ n # 0
      /\ runs' = runs
  BY <1>1, ItemFacts, StageTells DEF ItemRight
<1>6. CASE End(n) /\ UNCHANGED rows
  <2>1. RowsStep
    BY <1>6, RowsSame
  <2>2. QED
    BY <1>1, <1>3, <1>4, <1>6, <2>1, Ended
<1>7. CASE items' = [items EXCEPT ![n].at = "remind"]
  <2>1. RowsStep
    <3>1. PICK thread \in Threads : thread = Mail[items[n].mail].thread
      BY <1>5 DEF Threads
    <3>2. PICK text \in Sent : text = "request"
      BY DEF Sent
    <3>3. PICK e \in MailRows : e = OutboundRow(thread, n, text)
      BY <1>5, OutboundTyped
    <3>4. rows' = rows \/ rows' = Append(rows, e)
      <4>1. CASE End(n) /\ UNCHANGED rows
        BY <4>1
      <4>2. CASE rows' \in ThreadReply(Mail[items[n].mail].thread, n, Can("outbound", items[n].mail))
        BY <3>1, <3>2, <3>3, <4>2 DEF ThreadReply, WithOutbound
      <4>3. QED
        BY <1>1, <4>1, <4>2
    <3>5. CASE rows' = rows
      BY <3>5, RowsSame
    <3>6. CASE rows' = Append(rows, e)
      <4>1. /\ MailShape' /\ RowsGrown
            /\ \A i \in DOMAIN rows : i \in DOMAIN rows' /\ rows'[i] = rows[i]
            /\ \A i \in DOMAIN rows' : i \notin DOMAIN rows => i = Len(rows) + 1
            /\ rows'[Len(rows) + 1] = e
        BY <3>6, RowAdded, ApiFacts
      <4>2. e.direction = "outbound" /\ e.mail \in Sent /\ e.run = n /\ e.cycle = 0
        BY <3>2, <3>3 DEF OutboundRow
      <4>3. items'[n].event = "reminder"
        BY <1>5, <1>7, ItemFacts DEF ItemRows
      <4>4. ASSUME NEW i \in DOMAIN rows', i \notin DOMAIN rows PROVE RowRight(i)'
        <5>1. rows'[i] = e
          BY <4>1, <4>4
        <5>2. QED
          BY <1>5, <4>2, <4>3, <5>1 DEF RowRight
      <4>5. QED
        BY <4>1, <4>4 DEF RowsStep
    <3>7. QED
      BY <3>4, <3>5, <3>6
  <2>2. "remind" \in StagesOf(items[n].event) /\ "remind" \in Stages /\ n \in DOMAIN runs'
    BY <1>5, StagesAre DEF Stages
  <2>3. QED
    BY <1>1, <1>3, <1>4, <1>7, <2>1, <2>2, Gone
<1>8. QED
  BY <1>1, <1>6, <1>7

(* A reminder that comes due is an item of its own.                        *)
LEMMA RemindRight ==
  ASSUME Base, NEW t \in tasks, Remind(t)
  PROVE  Base' /\ Grown
<1>0. PICK n : n = Len(items) + 1
  OBVIOUS
<1>1. /\ UNCHANGED <<inVars, api, fileVars, storeVars, documents, accepted, commVars>>
      /\ tasks' = tasks \ {t} /\ reminded' = reminded + 1 /\ reminded < MaxReminders
  BY DEF Remind
<1>2. t \in [cycle : Nat, mail : Mails] /\ OfFlow(t.cycle, "driver_assignment")
  BY ApiFacts DEF WorkShape, Base, Tied, TasksRight
<1>3. PICK i : i = Item("reminder", t.cycle, t.mail)
  OBVIOUS
<1>4. /\ i \in ItemRows /\ i.event = "reminder" /\ i.cycle = t.cycle /\ i.mail = t.mail
      /\ i.row = 0 /\ i.from = 0 /\ i.found = 0 /\ i.at = "queued"
  <2>1. i = [event |-> "reminder", cycle |-> t.cycle, mail |-> t.mail, row |-> 0,
             from |-> 0, at |-> "queued", found |-> 0, seen |-> {}]
    BY <1>3 DEF Item
  <2>2. "reminder" \in Events /\ 0 \in Nat /\ t.cycle \in Nat /\ t.mail \in Mails
    BY <1>2 DEF Events
  <2>3. QED
    BY ONLY <2>1, <2>2, ItemMade
<1>5. /\ ItemShape' /\ ItemsGrown /\ Len(items) \in Nat /\ Len(items') = Len(items) + 1
      /\ DOMAIN items = 1..Len(items) /\ DOMAIN items' = 1..n
      /\ \A k \in DOMAIN items : k \in DOMAIN items' /\ items'[k] = items[k]
      /\ \A k \in DOMAIN items' : k \notin DOMAIN items => k = n
      /\ items'[n] = i
  BY <1>0, <1>3, <1>4, ItemAdded, ApiFacts DEF Remind
<1>6. StoreStep /\ RowsStep
  BY <1>1, StoreSame, RowsSame DEF commVars
<1>7. RunsStep
  <2>1. DOMAIN items \subseteq DOMAIN items'
    BY <1>5
  <2>2. QED
    BY <1>1, <2>1, RunsSame DEF commVars
<1>8. ItemsStep
  <2>1. OfFlow(i.cycle, FlowOf(i.event))
    BY <1>2, <1>4 DEF FlowOf
  <2>2. OfFlow(i.cycle, FlowOf(i.event))'
    BY <1>1, <2>1 DEF OfFlow, Cycles, storeVars
  <2>3. RowOf(i.row, i.mail)'
    BY <1>4 DEF RowOf
  <2>4. "queued" \in StagesOf(i.event)
    BY <1>4 DEF StagesOf
  <2>5. Len(lifecycles') \in Nat
    BY <1>1, ApiFacts DEF storeVars
  <2>6. ItemRight(n)'
    BY <1>2, <1>4, <1>5, <2>2, <2>3, <2>4, <2>5 DEF ItemRight
  <2>7. QED
    BY <1>5, <2>6 DEF ItemsStep
<1>9. WorkStep
  <2>1. reminded' \in 0..MaxReminders
    BY <1>1, ApiFacts, BoundsAssumption DEF WorkShape
  <2>2. WorkShape'
    BY <1>1, <2>1, ApiFacts DEF WorkShape, inVars, fileVars, storeVars, Cycles
  <2>3. TasksRight'
    BY <1>1 DEF Base, Tied, TasksRight, OfFlow, Cycles, storeVars
  <2>4. QED
    BY <1>1, <2>2, <2>3 DEF WorkStep
<1>10. api' = api /\ WaitShape' /\ WaitRight' /\ api' \in ApiRows
  BY <1>1, ApiFacts DEF inVars, WaitShape, WaitRight
<1>11. ApiRight'
  <2>1. \A k \in DOMAIN items' \ DOMAIN items : items'[k].event \in {"start", "reminder"}
    BY <1>4, <1>5
  <2>2. Grown
    BY <1>1, <1>5, <1>6, <1>7 DEF Grown, StoreStep, RowsStep, RunsStep
  <2>3. QED
    BY <1>5, <1>6, <1>10, <2>1, <2>2, ApiStays DEF RowsStep
<1>12. QED
  BY <1>1, <1>6, <1>7, <1>8, <1>9, <1>10, <1>11, StepRight

(* A run that ends with the request of another.                            *)
LEMMA PushDriverRight ==
  ASSUME Base, NEW n \in DOMAIN items, PushDriver(n)
  PROVE  Base' /\ Grown
<1>0. PICK k : k = Len(items) + 1
  OBVIOUS
<1>1. /\ items[n].at = "pushDriver"
      /\ UNCHANGED <<inVars, api, fileVars, storeVars, workVars, accepted, commVars>>
  BY DEF PushDriver
<1>2. PICK d : d = DoneItem(items[n])
  OBVIOUS
<1>3. PICK table : table = [items EXCEPT ![n] = d]
  OBVIOUS
<1>4. PICK i : i = [Item("start", items[n].found, items[n].mail) EXCEPT
                      !.row = items[n].row, !.from = items[n].cycle]
  OBVIOUS
<1>5. items' = Append(table, i)
  BY <1>2, <1>3, <1>4 DEF PushDriver
<1>6. /\ items[n] \in ItemRows /\ ItemRight(n) /\ items[n].mail \in Mails /\ items[n].event \in Events
      /\ items[n].event = "ratecon" /\ items[n].row \in Nat /\ items[n].cycle \in Nat
      /\ items[n].found \in Nat /\ items[n].cycle \in Cycles
      /\ OfFlow(items[n].found, "driver_assignment") /\ RowOf(items[n].row, items[n].mail)
  BY <1>1, ItemFacts, StageTells DEF ItemRight, ItemRows
<1>7. /\ d \in ItemRows /\ d.event = items[n].event /\ d.cycle = items[n].cycle
      /\ d.mail = items[n].mail /\ d.at = "done" /\ d.found = 0 /\ d.row = 0 /\ d.from = 0
  <2> DEFINE r == [event |-> items[n].event, cycle |-> items[n].cycle, mail |-> items[n].mail,
                   row |-> 0, from |-> 0, at |-> "done", found |-> 0, seen |-> {}]
  <2>1. r \in ItemRows
    BY <1>6 DEF ItemRows, Stages
  <2>2. d = r
    BY <1>2 DEF DoneItem, Item
  <2>3. QED
    BY <2>1, <2>2
<1>8. /\ i \in ItemRows /\ i.event = "start" /\ i.cycle = items[n].found /\ i.mail = items[n].mail
      /\ i.row = items[n].row /\ i.from = items[n].cycle /\ i.found = 0 /\ i.at = "queued"
  <2>1. i = [event |-> "start", cycle |-> items[n].found, mail |-> items[n].mail, row |-> items[n].row,
             from |-> items[n].cycle, at |-> "queued", found |-> 0, seen |-> {}]
    BY <1>4 DEF Item
  <2>2. "start" \in Events
    BY DEF Events
  <2>3. QED
    BY ONLY <1>6, <2>1, <2>2, ItemMade
<1>9. /\ ItemShape' /\ Len(items) \in Nat /\ Len(items') = k
      /\ DOMAIN items = 1..Len(items) /\ DOMAIN items' = 1..k
      /\ \A j \in DOMAIN items : j \in DOMAIN items'
      /\ \A j \in DOMAIN items : j # n => items'[j] = items[j]
      /\ \A j \in DOMAIN items' : j \notin DOMAIN items => j = k
      /\ items'[n] = d /\ items'[k] = i
  <2>1. items \in Seq(ItemRows) /\ DOMAIN items = 1..Len(items) /\ Len(items) \in Nat
    BY ApiFacts, LenProperties DEF ItemShape
  <2>2. table \in Seq(ItemRows) /\ Len(table) = Len(items) /\ DOMAIN table = DOMAIN items
    BY <1>3, <1>7, <2>1, ExceptSeq
  <2>3. /\ items' \in Seq(ItemRows) /\ Len(items') = Len(table) + 1
        /\ \A j \in 1..Len(table) : items'[j] = table[j]
        /\ items'[Len(table) + 1] = i
    BY <1>5, <1>8, <2>2, AppendProperties
  <2>4. \A j \in DOMAIN items : items'[j] = IF j = n THEN d ELSE items[j]
    BY <1>3, <2>1, <2>2, <2>3
  <2>5. DOMAIN items' = 1..k
    BY <1>0, <2>2, <2>3, LenProperties
  <2>6. QED
    BY <1>0, <2>1, <2>2, <2>3, <2>4, <2>5 DEF ItemShape
<1>10. ItemsGrown
  BY <1>0, <1>7, <1>9 DEF ItemsGrown
<1>11. StoreStep /\ RowsStep
  BY <1>1, StoreSame, RowsSame DEF commVars
<1>12. RunsStep
  <2>1. DOMAIN items \subseteq DOMAIN items'
    BY <1>9
  <2>2. QED
    BY <1>1, <2>1, RunsSame DEF commVars
<1>13. Grown
  BY <1>1, <1>10, <1>11, <1>12 DEF Grown, StoreStep, RowsStep, RunsStep, workVars
<1>14. WorkStep
  BY <1>1, <1>11, WorkKept DEF inVars, fileVars
<1>15. ItemRight(n)'
  <2>1. "done" \in StagesOf(d.event)
    BY <1>6, <1>7 DEF StagesOf
  <2>2. RowOf(d.row, d.mail)'
    BY <1>7 DEF RowOf
  <2>3. {d.from, d.found} \subseteq 0..Len(lifecycles')
    BY <1>1, <1>7, ApiFacts DEF storeVars
  <2>4. StoreShape' /\ MailShape'
    BY <1>11 DEF StoreStep, RowsStep
  <2>5. QED
    BY <1>7, <1>9, <1>13, <2>1, <2>2, <2>3, <2>4, ItemMovedRight
<1>16. ItemRight(k)'
  <2>1. OfFlow(i.cycle, FlowOf(i.event))
    BY <1>6, <1>8 DEF FlowOf
  <2>2. OfFlow(i.cycle, FlowOf(i.event))'
    BY <1>1, <2>1 DEF OfFlow, Cycles, storeVars
  <2>3. RowOf(i.row, i.mail)
    BY <1>6, <1>8
  <2>4. RowOf(i.row, i.mail)'
    BY <1>1, <2>3 DEF RowOf, commVars
  <2>5. "queued" \in StagesOf(i.event)
    BY <1>8 DEF StagesOf
  <2>6. {i.from, i.found} \subseteq 0..Len(lifecycles')
    BY <1>1, <1>6, <1>8, ApiFacts DEF storeVars
  <2>7. QED
    BY <1>6, <1>8, <1>9, <2>2, <2>4, <2>5, <2>6 DEF ItemRight
<1>17. ItemsStep
  BY <1>9, <1>10, <1>15, <1>16 DEF ItemsStep
<1>18. api' = api /\ WaitShape' /\ WaitRight' /\ api' \in ApiRows
  BY <1>1, ApiFacts DEF inVars, WaitShape, WaitRight
<1>19. ApiRight'
  <2>1. \A j \in DOMAIN items' \ DOMAIN items : items'[j].event \in {"start", "reminder"}
    BY <1>8, <1>9
  <2>2. QED
    BY <1>9, <1>11, <1>13, <1>18, <2>1, ApiStays DEF RowsStep
<1>20. QED
  BY <1>1, <1>11, <1>12, <1>14, <1>17, <1>18, <1>19, StepRight

-----------------------------------------------------------------------------
(* All steps.                                                              *)

(* Whatever a run does.                                                     *)
LEMMA RunRightStep ==
  ASSUME Base, NEW n \in DOMAIN items, Run(n)
  PROVE  Base' /\ Grown
<1>1. CASE StartRun(n) \/ Gate(n) \/ PrepareStart(n) \/ LookUpDriver(n) \/ Locate(n)
           \/ ReadDetails(n) \/ ReadReply(n)
  BY <1>1, PlainRight
<1>2. CASE RecordMail(n) \/ RecordRun(n) \/ LinkRun(n) \/ InsertPlaces(n) \/ Upload(n)
  BY <1>2, RecordMailRight, RecordRunRight, LinkRunRight, InsertPlacesRight, UploadRight
<1>3. CASE RecordReceived(n) \/ RecordUpload(n) \/ InsertDriver(n) \/ PushDriver(n) \/ CheckStart(n)
           \/ SendReminder(n)
  BY <1>3, RecordReceivedRight, RecordUploadRight, InsertDriverRight, PushDriverRight,
     CheckStartRight, SendReminderRight
<1>4. CASE RecordStarted(n) \/ RecordReminder(n) \/ DecideDetails(n) \/ DecideReply(n)
  BY <1>4, TransactionRight
<1>5. QED
  BY <1>1, <1>2, <1>3, <1>4 DEF Run

(* Whatever the process that serves webhooks does.                          *)
LEMMA WebhookRightStep ==
  ASSUME Base, Webhook
  PROVE  Base' /\ Grown
<1>1. CASE \E m \in Mails : Deliver(m) \/ TryPod(m) \/ Fetch(m)
  BY <1>1, DeliverRight, TryPodRight, FetchRight
<1>2. CASE TryAppointment \/ RecordReply \/ TryDriver \/ Upsert \/ FindRatecon \/ CancelRatecon
  BY <1>2, TryAppointmentRight, RecordReplyRight, TryDriverRight, UpsertRight, FindRight,
     CancelRateconRight
<1>3. CASE FindDriver \/ CancelDriver \/ Resolution \/ Push \/ LinkReply
  BY <1>3, FindRight, CancelDriverRight, ResolutionRight, PushRight, LinkReplyRight
<1>4. QED
  BY <1>1, <1>2, <1>3 DEF Webhook

(* A step of something else.                                                *)
LEMMA Stutters ==
  ASSUME Base, UNCHANGED vars
  PROVE  Base' /\ Grown
<1>1. /\ StoreStep /\ RowsStep /\ RunsStep /\ ItemsStep
  BY StoreSame, RowsSame, RunsSame, ItemsSame DEF vars, storeVars
<1>2. WorkStep
  BY <1>1, WorkKept DEF vars, workVars
<1>3. api' = api /\ WaitShape' /\ WaitRight' /\ api' \in ApiRows /\ accepted' = accepted
  BY ApiFacts DEF vars, WaitShape, WaitRight
<1>4. ApiRight'
  <2>1. \A k \in DOMAIN items' \ DOMAIN items : items'[k].event \in {"start", "reminder"}
    BY DEF vars
  <2>2. Grown
    BY <1>1, <1>2 DEF Grown, StoreStep, RowsStep, RunsStep, ItemsStep, WorkStep
  <2>3. QED
    BY <1>1, <1>3, <2>1, <2>2, ApiStays DEF RowsStep, ItemsStep
<1>5. QED
  BY <1>1, <1>2, <1>3, <1>4, StepRight

(* Every step leaves the tables tied to each other, and takes nothing away. *)
LEMMA StepBase ==
  ASSUME Base, [Next]_vars
  PROVE  Base' /\ Grown
<1>1. CASE Webhook
  BY <1>1, WebhookRightStep
<1>2. CASE \E n \in DOMAIN items : Run(n)
  BY <1>2, RunRightStep
<1>3. CASE \E t \in tasks : Remind(t)
  BY <1>3, RemindRight
<1>4. CASE UNCHANGED vars
  BY <1>4, Stutters
<1>5. QED
  BY <1>1, <1>2, <1>3, <1>4 DEF Next

(* At the start only the appointments mailed before are there.              *)
LEMMA InitBase ==
  ASSUME Init
  PROVE  Base
<1> DEFINE D == DOMAIN Awaiting
<1>1. /\ Len(Awaiting) \in Nat /\ D = 1..Len(Awaiting)
      /\ \A i \in D : Awaiting[i].load \in Loads
      /\ \A i \in D : i \in Nat /\ i # 0 /\ Awaiting[i].thread \in Threads
  BY AwaitingAssumption DEF Threads
<1>2. PICK k \in Nat : k = Len(Awaiting)
  BY <1>1
<1>3. /\ DOMAIN lifecycles = 1..k /\ DOMAIN recent = 1..k /\ DOMAIN items = 1..k /\ DOMAIN rows = 1..k
      /\ DOMAIN runs = 1..k
      /\ \A i \in 1..k : recent[i] = i /\ i \in Nat /\ i # 0
      /\ \A i \in 1..k : Awaiting[i].load \in Loads /\ Awaiting[i].thread \in Threads
  BY <1>1, <1>2 DEF Init
<1>31. \A i \in 1..k :
         lifecycles[i] = [flow |-> "appointment_scheduling", load |-> Awaiting[i].load,
                          row |-> [status |-> "pending_review", sub |-> "awaiting_customer_reply",
                                   pause |-> Unset]]
  BY <1>1, <1>2 DEF Init
<1>32. \A i \in 1..k :
         items[i] = [event |-> "draft", cycle |-> i, mail |-> Unset, row |-> 0, from |-> 0,
                     at |-> "done", found |-> 0, seen |-> {}]
  BY <1>1, <1>2 DEF Init, Item
<1>33. \A i \in 1..k : rows[i] = [mail |-> "draft", thread |-> Awaiting[i].thread, direction |-> "outbound",
                                   run |-> i, cycle |-> 0]
  BY <1>1, <1>2 DEF Init, OutboundRow
<1>34. \A i \in 1..k : runs[i] = [cycle |-> i, event |-> "draft"]
  BY <1>1, <1>2 DEF Init
<1>4. ASSUME NEW i \in 1..k
      PROVE  /\ lifecycles[i] \in LifecycleRows /\ recent[i] \in Nat /\ items[i] \in ItemRows
             /\ rows[i] \in MailRows /\ runs[i] \in RunRows
  <2>2. [status |-> "pending_review", sub |-> "awaiting_customer_reply", pause |-> Unset] \in RowsOf(Subs)
    BY DEF RowsOf, Subs, Statuses
  <2>3. lifecycles[i] \in LifecycleRows
    BY <1>3, <1>31, <2>2 DEF LifecycleRows, Flows
  <2>4. items[i] \in ItemRows
    BY <1>3, <1>32 DEF ItemRows, Events, Stages
  <2>5. rows[i] \in MailRows
    BY <1>3, <1>33 DEF MailRows, Sent
  <2>6. runs[i] \in RunRows
    BY <1>3, <1>34 DEF RunRows, Events
  <2>7. QED
    BY <1>3, <2>3, <2>4, <2>5, <2>6
<1>5. lifecycles \in Seq(LifecycleRows) /\ recent \in Seq(Nat) /\ items \in Seq(ItemRows) /\ rows \in Seq(MailRows)
  <2>1. /\ lifecycles = [i \in 1..k |-> lifecycles[i]] /\ recent = [i \in 1..k |-> recent[i]]
        /\ items = [i \in 1..k |-> items[i]] /\ rows = [i \in 1..k |-> rows[i]]
    BY <1>1, <1>2, <1>3 DEF Init
  <2>2. /\ lifecycles \in [1..k -> LifecycleRows] /\ recent \in [1..k -> Nat]
        /\ items \in [1..k -> ItemRows] /\ rows \in [1..k -> MailRows]
    BY <1>4, <2>1
  <2>3. QED
    BY <2>2
<1>6. Len(lifecycles) = k /\ Len(recent) = k /\ Len(items) = k /\ Len(rows) = k
  BY <1>3, <1>5, LenProperties
<1>7. StoreShape /\ MailShape /\ ItemShape
  BY <1>3, <1>5, <1>6 DEF StoreShape, MailShape, ItemShape, Cycles, ToSet
<1>8. RunShape
  <2>1. runs = [i \in 1..k |-> runs[i]]
    BY <1>1, <1>2, <1>3 DEF Init
  <2>2. QED
    BY <1>3, <1>4, <2>1 DEF RunShape
<1>9. WaitShape /\ WaitRight
  BY DEF Init, WaitShape, WaitRight
<1>10. WorkShape
  <2>1. delivered \in Seq(Mails)
    BY EmptySeq DEF Init
  <2>2. QED
    BY <1>1, <2>1, BoundsAssumption DEF Init, WorkShape
<1>11. api \in ApiRows /\ api = ApiIdle
  BY DEF Init, ApiIdle, ApiRows, ApiStages
<1>12. ASSUME NEW n \in DOMAIN items PROVE ItemRight(n)
  <2>1. n \in 1..k /\ items[n].event = "draft" /\ items[n].cycle = n /\ items[n].at = "done"
        /\ items[n].row = 0 /\ items[n].from = 0 /\ items[n].found = 0
    BY <1>3, <1>32
  <2>2. OfFlow(n, FlowOf("draft")) /\ "done" \in StagesOf("draft")
    BY <1>3, <1>31, <2>1 DEF OfFlow, FlowOf, Cycles, StagesOf
  <2>3. QED
    BY <1>6, <2>1, <2>2 DEF ItemRight, RowOf
<1>13. \A r \in DOMAIN runs : RunRight(r)
  BY <1>3, <1>32, <1>34 DEF RunRight
<1>14. ASSUME NEW i \in DOMAIN rows PROVE RowRight(i)
  <2>1. rows[i].direction = "outbound" /\ rows[i].mail = "draft" /\ rows[i].run = i /\ rows[i].cycle = 0
        /\ i \in DOMAIN runs /\ items[i].event = "draft"
    BY <1>3, <1>32, <1>33
  <2>2. QED
    BY <2>1 DEF RowRight, Sent
<1>15. ApiRight
  BY <1>6, <1>11 DEF ApiIdle, ApiRight, RowOf, ApiLinks
<1>16. TasksRight /\ AcceptedRight
  BY DEF Init, TasksRight, AcceptedRight, Accepted
<1>17. DocumentedMeansStored
  BY <1>3, <1>31 DEF DocumentedMeansStored, Cycles
<1>18. QED
  BY <1>7, <1>8, <1>9, <1>10, <1>11, <1>12, <1>13, <1>14, <1>15, <1>16, <1>17 DEF Base, Shapes, Tied

(* Tied tables are well typed.                                              *)
LEMMA BaseTypeOK ==
  ASSUME Base
  PROVE  TypeOK
<1>1. /\ api \in ApiRows /\ ApiRight /\ WaitShape /\ StoreShape /\ MailShape /\ ItemShape /\ RunShape
      /\ WorkShape /\ Len(lifecycles) \in Nat /\ Cycles = 1..Len(lifecycles)
  BY ApiFacts
<1>2. DOMAIN rows = 1..Len(rows) /\ Len(rows) \in Nat
  BY <1>1, LenProperties DEF MailShape
<1>3. delivered \in Seq(Mails) /\ reminded \in 0..MaxReminders
  BY <1>1 DEF WorkShape
<1>4. \A m \in Mails : waiting[m].ratecon \in Nat /\ waiting[m].pod \in Nat
  BY <1>1 DEF WaitShape
<1>5. /\ api.at \in ApiStages /\ api.mail \in Mails \cup {Unset} /\ api.row \in 0..Len(rows)
      /\ api.cycle \in 0..Len(lifecycles) /\ api.event \in Events \cup {Unset}
  BY <1>1, <1>2 DEF ApiRows, ApiRight, RowOf
<1>6. shipments \subseteq Loads /\ located \subseteq UNION {Places[l] : l \in Loads}
  BY <1>1 DEF WorkShape, AllPlaces
<1>7. ASSUME NEW c \in Cycles
      PROVE  lifecycles[c].flow \in Flows /\ lifecycles[c].load \in Loads /\ Status(c) \in Statuses
  BY <1>1, CycleTyped DEF LifecycleRows, Status, RowsOf
<1>8. Len(recent) = Len(lifecycles) /\ ToSet(recent) = Cycles
  BY <1>1 DEF StoreShape
<1>9. ASSUME NEW n \in DOMAIN items
      PROVE  /\ items[n].event \in Events /\ items[n].at \in Stages /\ items[n].cycle \in Cycles
             /\ items[n].mail \in Mails \cup {Unset} /\ items[n].row \in 0..Len(rows)
             /\ {items[n].from, items[n].found} \subseteq 0..Len(lifecycles)
  BY <1>2, ItemFacts DEF ItemRows, ItemRight, RowOf
<1>10. documents \subseteq Cycles /\ \A t \in tasks : t.cycle \in Cycles
  BY <1>1 DEF WorkShape, Base, Tied, TasksRight, OfFlow
<1>11. accepted \in [Loads -> 0..Len(lifecycles)]
  <2>1. \A l \in Loads : accepted[l] \in 0..Len(lifecycles)
    BY <1>1 DEF Base, Tied, AcceptedRight, Accepted, OfFlow
  <2>2. QED
    BY <1>1, <2>1 DEF WorkShape
<1>12. DOMAIN runs \subseteq DOMAIN items
  BY <1>1 DEF RunShape
<1>13. QED
  BY <1>3, <1>4, <1>5, <1>6, <1>7, <1>8, <1>9, <1>10, <1>11, <1>12 DEF TypeOK

(* Rows tell runs apart, and completed ratecons have documents.             *)
LEMMA BaseRecordInv ==
  ASSUME Base
  PROVE  RecordInv
<1>1. RowsTellRuns
  BY DEF Base, Tied, RowRight, RowsTellRuns
<1>2. DocumentedMeansStored
  BY DEF Base, Tied
<1>3. QED
  BY <1>1, <1>2, BaseTypeOK DEF RecordInv

(* The last ratecon of a load stands while no webhook is at work.           *)
LEMMA BaseStands ==
  ASSUME Base
  PROVE  NewestRateconStands
BY DEF Base, Tied, AcceptedRight, Accepted, Superseding, NewestRateconStands

(* In every reachable state the tables are well typed and tied to each      *)
(* other: each run of the queue, each record of a run, each row of the mail *)
(* table, each scheduled reminder and what the webhook holds between its    *)
(* requests names a lifecycle, a run and a row that exist and are of its    *)
(* kind, load and thread.                                                   *)
THEOREM Invariance == Spec => []Base
<1>1. Init => Base
  BY InitBase
<1>2. Base /\ [Next]_vars => Base'
  BY StepBase
<1>3. QED
  BY <1>1, <1>2, PTL DEF Spec

(* Every state is well typed; a row of the mail table that is tied to a     *)
(* lifecycle is tied to a run of it (communications are linked after they   *)
(* are written); and a ratecon at document_uploaded has its documents row,  *)
(* whichever runs share the cycle.                                          *)
THEOREM TypeCorrect == Spec => []RecordInv
<1>1. Base => RecordInv
  BY BaseRecordInv
<1>2. QED
  BY <1>1, Invariance, PTL

(* While no webhook is at work, the lifecycle that the last ratecon of a    *)
(* load was queued for is not cancelled: superseding cancels the one before *)
(* it, between requests to the database, and never what it then resolves    *)
(* and queues.                                                              *)
THEOREM NewestStands == Spec => []NewestRateconStands
<1>1. Base => NewestRateconStands
  BY BaseStands
<1>2. QED
  BY <1>1, Invariance, PTL

(* A row of the mail table keeps its mail and its thread, and once linked   *)
(* to a run keeps the run, although the webhook and several workers link    *)
(* rows: no later link takes a row from the run that has it.                *)
THEOREM Bound == Spec => BoundOnce
<1>1. Base /\ [Next]_vars =>
        [\A i \in DOMAIN rows :
           /\ rows'[i].mail = rows[i].mail /\ rows'[i].thread = rows[i].thread
           /\ rows[i].run # 0 => rows'[i].run = rows[i].run]_<<rows, runs>>
  <2>1. SUFFICES ASSUME Base, [Next]_vars
                 PROVE  \A i \in DOMAIN rows :
                          /\ rows'[i].mail = rows[i].mail /\ rows'[i].thread = rows[i].thread
                          /\ rows[i].run # 0 => rows'[i].run = rows[i].run
    OBVIOUS
  <2>2. Grown
    BY <2>1, StepBase
  <2>3. QED
    BY <2>2 DEF Grown, RowsGrown
<1>2. QED
  BY <1>1, Invariance, PTL DEF Spec, BoundOnce

-----------------------------------------------------------------------------
(* What a thread was about before a driver reply came.                     *)

ToldBefore(thread, load) ==
  \E i \in InThread(thread) :
    /\ rows[i].run \in DOMAIN runs /\ runs[rows[i].run].event # "details"
    /\ Correlation(runs[rows[i].run].cycle) = load

\* Also of the reply that is about to be queued.
Told ==
  /\ \A n \in DOMAIN items :
       items[n].event = "details" => ToldBefore(Mail[items[n].mail].thread, LoadOf(n))
  /\ api.at = "push" /\ api.event = "details" =>
       ToldBefore(Mail[api.mail].thread, Correlation(api.cycle))

(* A thread goes on telling what it told.                                  *)
LEMMA ToldStays ==
  ASSUME Base, Base', Grown, NEW thread, NEW load, ToldBefore(thread, load)
  PROVE  ToldBefore(thread, load)'
<1>1. PICK i \in InThread(thread) :
        /\ rows[i].run \in DOMAIN runs /\ runs[rows[i].run].event # "details"
        /\ Correlation(runs[rows[i].run].cycle) = load
  BY DEF ToldBefore
<1>2. PICK r : r = rows[i].run
  OBVIOUS
<1>3. i \in DOMAIN rows /\ rows[i].thread = thread
  BY DEF InThread
<1>4. r \in DOMAIN items /\ runs[r].cycle \in Cycles
  BY <1>1, <1>2, <1>3, RunOfRow
<1>5. r # 0
  BY <1>4, ItemFacts
<1>6. i \in DOMAIN rows'
  <2>1. StoreShape' /\ MailShape' /\ ItemShape'
    BY DEF Base, Shapes
  <2>2. QED
    BY <1>3, <2>1, Places0
<1>7. rows'[i].run = r /\ rows'[i].thread = thread
  BY <1>2, <1>3, <1>5 DEF Grown, RowsGrown
<1>8. r \in DOMAIN runs' /\ runs'[r] = runs[r]
  BY <1>1, <1>2 DEF Grown, RunsGrown
<1>9. lifecycles'[runs[r].cycle].load = load
  BY <1>1, <1>2, <1>4 DEF Grown, StoreGrown, Correlation
<1>10. QED
  BY <1>1, <1>2, <1>6, <1>7, <1>8, <1>9 DEF ToldBefore, InThread, Correlation

(* The steps that add an item.                                             *)
LEMMA ItemSteps ==
  ASSUME [Next]_vars
  PROVE  \/ DOMAIN items' = DOMAIN items \/ Push
         \/ \E n \in DOMAIN items : PushDriver(n)
         \/ \E t \in tasks : Remind(t)
<1>1. CASE Webhook
  <2>1. Push \/ UNCHANGED items
    BY <1>1 DEF Webhook, Deliver, TryPod, Fetch, TryAppointment, RecordReply, TryDriver, Upsert,
                FindRatecon, CancelRatecon, FindDriver, CancelDriver, Resolution, LinkReply
  <2>2. QED
    BY <2>1
<1>2. ASSUME NEW n \in DOMAIN items, Run(n)
      PROVE  DOMAIN items' = DOMAIN items \/ PushDriver(n)
  <2>1. CASE RecordMail(n) \/ StartRun(n) \/ RecordRun(n) \/ LinkRun(n) \/ Locate(n)
    BY <2>1 DEF RecordMail, StartRun, RecordRun, LinkRun, Locate, Goto, End
  <2>2. CASE InsertPlaces(n) \/ RecordReceived(n) \/ Upload(n) \/ RecordUpload(n) \/ Gate(n)
    BY <2>2 DEF InsertPlaces, RecordReceived, Upload, RecordUpload, Gate, Goto, End
  <2>3. CASE LookUpDriver(n) \/ InsertDriver(n) \/ PrepareStart(n) \/ CheckStart(n) \/ RecordStarted(n)
    BY <2>3 DEF LookUpDriver, InsertDriver, PrepareStart, CheckStart, RecordStarted, Goto, End
  <2>4. CASE SendReminder(n) \/ RecordReminder(n) \/ ReadDetails(n) \/ ReadReply(n)
             \/ DecideDetails(n) \/ DecideReply(n)
    BY <2>4 DEF SendReminder, RecordReminder, ReadDetails, ReadReply, DecideDetails, DecideReply,
                Goto, End
  <2>5. QED
    BY <1>2, <2>1, <2>2, <2>3, <2>4 DEF Run
<1>3. CASE UNCHANGED vars
  BY <1>3 DEF vars
<1>4. QED
  BY <1>1, <1>2, <1>3 DEF Next

(* A driver reply's item is what the webhook was at.                       *)
LEMMA RepliesPushed ==
  ASSUME Base, [Next]_vars, NEW k \in DOMAIN items' \ DOMAIN items, items'[k].event = "details"
  PROVE  /\ api.at = "push" /\ api.event = "details"
         /\ items'[k].mail = api.mail /\ items'[k].cycle = api.cycle
<1>0. items \in Seq(ItemRows) /\ DOMAIN items = 1..Len(items) /\ Len(items) \in Nat
  BY ApiFacts, LenProperties DEF ItemShape
<1>1. CASE Push
  <2>1. PICK i : i = [Item(api.event, api.cycle, api.mail) EXCEPT !.row = api.row]
    OBVIOUS
  <2>2. items' = Append(items, i) /\ api.at = "push"
    BY <1>1, <2>1 DEF Push
  <2>3. i.event = api.event /\ i.cycle = api.cycle /\ i.mail = api.mail
    BY <2>1 DEF Item
  <2>4. items'[k] = i
    BY <1>0, <2>2
  <2>5. QED
    BY <2>2, <2>3, <2>4
<1>2. ASSUME NEW n \in DOMAIN items, PushDriver(n) PROVE FALSE
  <2>1. PICK i : i = [Item("start", items[n].found, items[n].mail) EXCEPT
                        !.row = items[n].row, !.from = items[n].cycle]
    OBVIOUS
  <2>2. PICK table : table = [items EXCEPT ![n] = DoneItem(@)]
    OBVIOUS
  <2>3. items' = Append(table, i) /\ i.event = "start"
    BY <1>2, <2>1, <2>2 DEF PushDriver, Item
  <2>4. DoneItem(items[n]) \in ItemRows
    <3> DEFINE r == [event |-> items[n].event, cycle |-> items[n].cycle, mail |-> items[n].mail,
                     row |-> 0, from |-> 0, at |-> "done", found |-> 0, seen |-> {}]
    <3>1. r \in ItemRows
      BY ItemFacts DEF ItemRows, Stages
    <3>2. DoneItem(items[n]) = r
      BY DEF DoneItem, Item
    <3>3. QED
      BY <3>1, <3>2
  <2>5. table \in Seq(ItemRows) /\ Len(table) = Len(items)
    BY <1>0, <2>2, <2>4, ExceptSeq
  <2>6. items'[k] = i
    BY <1>0, <2>3, <2>5
  <2>7. QED
    BY <2>3, <2>6
<1>3. ASSUME NEW t \in tasks, Remind(t) PROVE FALSE
  <2>1. PICK i : i = Item("reminder", t.cycle, t.mail)
    OBVIOUS
  <2>2. items' = Append(items, i) /\ i.event = "reminder"
    BY <1>3, <2>1 DEF Remind, Item
  <2>3. items'[k] = i
    BY <1>0, <2>2
  <2>4. QED
    BY <2>2, <2>3
<1>4. QED
  BY <1>1, <1>2, <1>3, ItemSteps

(* The webhook has a driver reply to queue since it looked for the request. *)
LEMMA RepliesFound ==
  ASSUME Base, [Next]_vars, api'.at = "push", api'.event = "details"
  PROVE  api' = api \/ TryDriver
<1>1. api \in ApiRows /\ ApiRight
  BY ApiFacts
<1>2. CASE Webhook
  <2>1. CASE \E m \in Mails : Deliver(m) \/ TryPod(m) \/ Fetch(m)
    <3>1. PICK m \in Mails : Deliver(m) \/ TryPod(m) \/ Fetch(m)
      BY <2>1
    <3>2. \/ UNCHANGED api
          \/ api' \in {ApiIdle, [ApiIdle EXCEPT !.at = "appointment", !.mail = m],
                       [ApiIdle EXCEPT !.at = "upsert", !.mail = m, !.event = "ratecon"]}
      BY <3>1 DEF Deliver, TryPod, Fetch
    <3>3. /\ ApiIdle.at = "idle" /\ [ApiIdle EXCEPT !.at = "appointment", !.mail = m].at = "appointment"
          /\ [ApiIdle EXCEPT !.at = "upsert", !.mail = m, !.event = "ratecon"].at = "upsert"
      BY DEF ApiIdle
    <3>4. QED
      BY <3>2, <3>3
  <2>2. CASE TryAppointment
    BY <1>1, <2>2 DEF TryAppointment, ApiRows
  <2>3. CASE RecordReply
    BY <1>1, <2>3 DEF RecordReply, ApiGoto, ApiRows, ApiRight
  <2>4. CASE Upsert \/ LinkReply
    BY <1>1, <2>4 DEF Upsert, LinkReply, ApiGoto, ApiRows, ApiIdle
  <2>5. CASE FindRatecon \/ FindDriver
    BY <1>1, <2>5 DEF FindRatecon, FindDriver, ApiRows
  <2>6. CASE CancelRatecon \/ CancelDriver
    BY <1>1, <2>6 DEF CancelRatecon, CancelDriver, ApiRows
  <2>7. CASE Resolution
    BY <1>1, <2>7 DEF Resolution, ApiRows, ApiRight
  <2>8. CASE Push
    BY <1>1, <2>8 DEF Push, ApiGoto, ApiRows, ApiIdle
  <2>9. QED
    BY <1>2, <2>1, <2>2, <2>3, <2>4, <2>5, <2>6, <2>7, <2>8 DEF Webhook
<1>3. ASSUME NEW n \in DOMAIN items, Run(n) PROVE api' = api
  BY <1>3 DEF Run, RecordMail, StartRun, RecordRun, LinkRun, Locate, InsertPlaces, RecordReceived, Upload,
              RecordUpload, Gate, LookUpDriver, InsertDriver, PushDriver, PrepareStart, CheckStart,
              RecordStarted, SendReminder, RecordReminder, ReadDetails, ReadReply, DecideDetails, DecideReply
<1>4. ASSUME NEW t \in tasks, Remind(t) PROVE api' = api
  BY <1>4 DEF Remind
<1>5. CASE UNCHANGED vars
  BY <1>5 DEF vars
<1>6. QED
  BY <1>2, <1>3, <1>4, <1>5 DEF Next

(* What leads from a thread to a load led there before any driver reply.    *)
LEMMA ToldFirst ==
  ASSUME Base, Told, NEW thread, NEW d \in ThreadCycles(thread)
  PROVE  ToldBefore(thread, Correlation(d))
<1>1. PICK i \in InThread(thread) : rows[i].run \in DOMAIN runs /\ d = runs[rows[i].run].cycle
  BY DEF ThreadCycles
<1>2. PICK r : r = rows[i].run
  OBVIOUS
<1>3. i \in DOMAIN rows /\ rows[i].thread = thread
  BY DEF InThread
<1>4. /\ r \in DOMAIN items /\ runs[r].cycle = items[r].cycle /\ runs[r].event = items[r].event
  BY <1>1, <1>2, <1>3, RunOfRow
<1>5. CASE runs[r].event # "details"
  BY <1>1, <1>2, <1>5 DEF ToldBefore
<1>6. CASE runs[r].event = "details"
  <2>1. ToldBefore(Mail[items[r].mail].thread, LoadOf(r))
    BY <1>4, <1>6 DEF Told
  <2>2. Mail[items[r].mail].thread = thread
    <3>1. r # 0
      BY <1>4, ItemFacts
    <3>2. RowRight(i)
      BY <1>3 DEF Base, Tied
    <3>3. QED
      BY <1>2, <1>3, <1>4, <1>6, <3>1, <3>2 DEF RowRight
  <2>3. LoadOf(r) = Correlation(d)
    BY <1>1, <1>2, <1>4 DEF LoadOf
  <2>4. QED
    BY <2>1, <2>2, <2>3
<1>7. QED
  BY <1>5, <1>6

(* Every step leaves the threads of the driver replies told: rows only      *)
(* come, and a row keeps its run.                                           *)
LEMMA StepTold ==
  ASSUME Base, Base', Grown, Told, [Next]_vars
  PROVE  Told'
<1>0. /\ StoreShape' /\ MailShape' /\ ItemShape' /\ api \in ApiRows /\ ApiRight
  BY ApiFacts DEF Base, Shapes
<1>1. ASSUME NEW n \in DOMAIN items', items'[n].event = "details"
      PROVE  ToldBefore(Mail[items[n].mail].thread, LoadOf(n))'
  <2>1. PICK m : m = items'[n].mail
    OBVIOUS
  <2>2. PICK c : c = items'[n].cycle
    OBVIOUS
  <2>3. ToldBefore(Mail[m].thread, Correlation(c)) /\ c \in Cycles
    <3>1. CASE n \in DOMAIN items
      <4>1. items[n].event = "details" /\ items[n].mail = m /\ items[n].cycle = c
        BY <1>1, <2>1, <2>2, <3>1 DEF Grown, ItemsGrown
      <4>2. QED
        BY <3>1, <4>1, ItemFacts DEF Told, LoadOf
    <3>2. CASE n \notin DOMAIN items
      <4>1. api.at = "push" /\ api.event = "details" /\ m = api.mail /\ c = api.cycle
        BY <1>1, <2>1, <2>2, <3>2, RepliesPushed
      <4>2. QED
        BY <1>0, <4>1 DEF Told, ApiRight, OfFlow
    <3>3. QED
      BY <3>1, <3>2
  <2>4. PICK l : l = Correlation(c)
    OBVIOUS
  <2>5. PICK th : th = Mail[m].thread
    OBVIOUS
  <2>6. ToldBefore(th, l)'
    BY <2>3, <2>4, <2>5, ToldStays
  <2>7. lifecycles'[c].load = l
    BY <2>3, <2>4 DEF Grown, StoreGrown, Correlation
  <2>8. LoadOf(n)' = l
    BY <2>2, <2>7 DEF LoadOf, Correlation
  <2>9. (Mail[items[n].mail].thread)' = th
    BY <2>1, <2>5
  <2>10. QED
    BY <2>6, <2>8, <2>9 DEF ToldBefore
<1>2. ASSUME api'.at = "push", api'.event = "details"
      PROVE  ToldBefore(Mail[api.mail].thread, Correlation(api.cycle))'
  <2>1. PICK m : m = api'.mail
    OBVIOUS
  <2>2. PICK c : c = api'.cycle
    OBVIOUS
  <2>3. ToldBefore(Mail[m].thread, Correlation(c)) /\ c \in Cycles
    <3>1. CASE api' = api
      BY <1>0, <1>2, <2>1, <2>2, <3>1 DEF Told, ApiRight, OfFlow
    <3>2. CASE TryDriver
      <4>1. c = ActiveDetails(m) /\ c # 0
        <5>1. PICK a : a = IF IsReply(api.mail) THEN ActiveDetails(api.mail) ELSE 0
          OBVIOUS
        <5>2. \/ a # 0 /\ api' = [api EXCEPT !.at = "push", !.cycle = a, !.event = "details"]
              \/ api' = ApiIdle
          BY <3>2, <5>1 DEF TryDriver
        <5>3. a # 0 /\ api' = [api EXCEPT !.at = "push", !.cycle = a, !.event = "details"]
          BY <1>2, <5>2 DEF ApiIdle
        <5>4. c = a /\ m = api.mail
          BY <1>0, <2>1, <2>2, <5>3 DEF ApiRows
        <5>5. QED
          BY <5>1, <5>3, <5>4
      <4>2. OfFlow(c, "driver_assignment")
        BY <4>1, DetailsGo
      <4>3. PICK d \in ThreadCycles(Mail[m].thread) : Correlation(d) = Correlation(c)
        BY <4>1, DetailsGo
      <4>4. QED
        BY <4>2, <4>3, ToldFirst DEF OfFlow
    <3>3. QED
      BY <1>2, <3>1, <3>2, RepliesFound
  <2>4. PICK l : l = Correlation(c)
    OBVIOUS
  <2>5. PICK th : th = Mail[m].thread
    OBVIOUS
  <2>6. ToldBefore(th, l)'
    BY <2>3, <2>4, <2>5, ToldStays
  <2>7. lifecycles'[c].load = l
    BY <2>3, <2>4 DEF Grown, StoreGrown, Correlation
  <2>8. Correlation(api.cycle)' = l
    BY <2>2, <2>7 DEF Correlation
  <2>9. (Mail[api.mail].thread)' = th
    BY <2>1, <2>5
  <2>10. QED
    BY <2>6, <2>8, <2>9 DEF ToldBefore
<1>3. QED
  BY <1>1, <1>2 DEF Told

(* At the start nothing has replied.                                        *)
LEMMA InitTold ==
  ASSUME Init
  PROVE  Told
BY DEF Init, Told, ApiIdle, Item

(* A driver reply is queued for a driver request of a load that its thread  *)
(* was about before any driver reply: the links that replies themselves     *)
(* leave never carry a thread over to another load.                         *)
THEOREM RepliesOfTheirThread == Spec => []OwnThread
<1>1. Init => Base /\ Told
  BY InitBase, InitTold
<1>2. Base /\ Told /\ [Next]_vars => (Base /\ Told)'
  BY StepBase, StepTold
<1>3. Told => OwnThread
  BY DEF Told, ToldBefore, OwnThread
<1>4. QED
  BY <1>1, <1>2, <1>3, PTL DEF Spec

-----------------------------------------------------------------------------
(* The first words of a mail.                                              *)

Parts == Words \cup Marks

\* The sender's words are the k-th part of b, with nothing but divisions before.
Leads(b, k) == k \in 1..Len(b) /\ b[k] = "own" /\ \A j \in 1..(k - 1) : b[j] = "div"
Starts(b) == b \in Seq(Parts) /\ \E k \in 1..Len(b) : Leads(b, k)

(* What is cut off comes last.                                             *)
LEMMA CutTyped ==
  ASSUME NEW b \in Seq(Parts), NEW marks
  PROVE  /\ CutAt(b, marks) \in Seq(Parts) /\ Len(CutAt(b, marks)) \in 0..Len(b)
         /\ marks \cap {"own", "div"} = {} /\ Starts(b) => Starts(CutAt(b, marks))
<1> DEFINE at == {i \in DOMAIN b : b[i] \in marks}
           k == CHOOSE i \in at : \A j \in at : i <= j
<1>1. DOMAIN b = 1..Len(b) /\ Len(b) \in Nat /\ \A i \in 1..Len(b) : b[i] \in Parts
  BY LenProperties, ElementOfSeq
<1>2. CutAt(b, marks) = IF at = {} THEN b ELSE SubSeq(b, 1, k - 1)
  BY DEF CutAt
<1>3. at \in SUBSET Nat /\ at \subseteq 1..Len(b) /\ \A i \in at : b[i] \in marks
  BY <1>1
<1>4. CASE at = {}
  BY <1>1, <1>2, <1>4
<1>5. CASE at # {}
  <2>1. k \in at
    <3> HIDE DEF at
    <3>1. \E i \in at : \A j \in at : i <= j
      BY <1>3, <1>5, LeastOf
    <3>2. QED
      BY <3>1
  <2>2. CutAt(b, marks) = SubSeq(b, 1, k - 1)
    BY <1>2, <1>5
  <2> HIDE DEF k, at
  <2>3. k \in 1..Len(b) /\ b[k] \in marks
    BY <1>3, <2>1
  <2>4. PICK n : n = k - 1
    OBVIOUS
  <2>5. n \in Int /\ 1 \in Int /\ n \in 0..Len(b) /\ \A i \in 1..n : b[i] \in Parts
    BY <1>1, <2>3, <2>4
  <2>6. /\ SubSeq(b, 1, n) \in Seq(Parts)
        /\ Len(SubSeq(b, 1, n)) = IF 1 <= n THEN n - 1 + 1 ELSE 0
        /\ \A i \in 1..(n - 1 + 1) : SubSeq(b, 1, n)[i] = b[1 + i - 1]
    BY ONLY <2>5, SubSeqProperties
  <2> DEFINE cut == SubSeq(b, 1, n)
  <2>7. CutAt(b, marks) = cut
    BY <2>2, <2>4
  <2>8. /\ cut \in Seq(Parts) /\ Len(cut) = n
        /\ \A i \in 1..n : cut[i] = b[i]
    <3> HIDE DEF cut
    <3>1. Len(cut) = IF 1 <= n THEN n - 1 + 1 ELSE 0
      BY <2>6 DEF cut
    <3>2. \A i \in 1..(n - 1 + 1) : cut[i] = b[1 + i - 1]
      BY <2>6 DEF cut
    <3>3. \A i \in 1..n : i \in 1..(n - 1 + 1) /\ 1 + i - 1 = i
      BY <2>5
    <3>4. QED
      BY <2>5, <2>6, <3>1, <3>2, <3>3 DEF cut
  <2> HIDE DEF cut
  <2>9. ASSUME marks \cap {"own", "div"} = {}, Starts(b)
        PROVE  Starts(cut)
    <3>1. PICK l \in 1..Len(b) : Leads(b, l)
      BY <2>9 DEF Starts
    <3>2. k # l /\ ~(k \in 1..(l - 1))
      BY <2>3, <2>9, <3>1 DEF Leads
    <3>3. l \in 1..n
      BY <1>1, <2>3, <2>4, <3>1, <3>2
    <3>4. Leads(cut, l)
      BY <1>1, <2>5, <2>8, <3>1, <3>3 DEF Leads
    <3>5. QED
      BY <2>8, <3>3, <3>4 DEF Starts
  <2>10. QED
    BY <1>1, <2>5, <2>7, <2>8, <2>9
<1>6. QED
  BY <1>4, <1>5

\* f holds what is kept of the first parts, up to the m-th.
Kept(f, b, gone, m) ==
  f = [i \in 0..m |-> IF i = 0 THEN <<>>
                      ELSE IF i \in gone THEN f[i - 1] ELSE Append(f[i - 1], b[i])]

(* However long the body, there is what is kept of it.                      *)
LEMMA KeptExists ==
  ASSUME NEW b, NEW gone, NEW m \in Nat
  PROVE  \E f : Kept(f, b, gone, m)
<1> DEFINE Next1(s, i) == IF i \in gone THEN s ELSE Append(s, b[i])
           Lacking == {k \in Nat : ~ \E f : Kept(f, b, gone, k)}
<1>1. SUFFICES ASSUME Lacking # {}
               PROVE  FALSE
  OBVIOUS
<1>2. PICK k \in Lacking : \A j \in Lacking : k <= j
  BY <1>1, LeastOf
<1>3. k # 0
  <2> DEFINE f == [i \in 0..0 |-> <<>>]
  <2>1. f = [i \in 0..0 |-> IF i = 0 THEN <<>>
                            ELSE IF i \in gone THEN f[i - 1] ELSE Append(f[i - 1], b[i])]
    OBVIOUS
  <2>2. Kept(f, b, gone, 0)
    BY <2>1 DEF Kept
  <2>3. QED
    BY <2>2
<1>4. k - 1 \in Nat /\ k - 1 \notin Lacking
  BY <1>2, <1>3
<1>5. PICK f : Kept(f, b, gone, k - 1)
  BY <1>4
<1>6. \A i \in 0..(k - 1) : f[i] = IF i = 0 THEN <<>> ELSE Next1(f[i - 1], i)
  BY <1>5 DEF Kept
<1> DEFINE g == [i \in 0..k |-> IF i = k THEN Next1(f[k - 1], k) ELSE f[i]]
<1>7. \A i \in 0..(k - 1) : g[i] = f[i]
  BY <1>4
<1>8. g[k] = Next1(f[k - 1], k)
  BY <1>4
<1>9. g = [i \in 0..k |-> g[i]]
  OBVIOUS
<1> HIDE DEF g, Next1
<1>10. \A i \in 0..k : g[i] = IF i = 0 THEN <<>> ELSE Next1(g[i - 1], i)
  <2>1. TAKE i \in 0..k
  <2>2. CASE i = k
    <3>1. k - 1 \in 0..(k - 1)
      BY <1>4
    <3>2. g[k - 1] = f[k - 1]
      BY <1>7, <3>1
    <3>3. QED
      BY <1>3, <1>8, <2>2, <3>2
  <2>3. CASE i # k
    <3>1. i \in 0..(k - 1) /\ (i # 0 => i - 1 \in 0..(k - 1))
      BY <1>4, <2>3
    <3>2. QED
      BY <1>6, <1>7, <3>1
  <2>4. QED
    BY <2>2, <2>3
<1>11. Kept(g, b, gone, k)
  <2>1. g = [i \in 0..k |-> IF i = 0 THEN <<>> ELSE Next1(g[i - 1], i)]
    BY <1>9, <1>10
  <2>2. QED
    BY <2>1 DEF Kept, Next1
<1>12. QED
  BY <1>2, <1>11

(* Where the sender's words are in what is left, if they stay; and only      *)
(* parts that were there are left.                                          *)
LEMMA KeptTyped ==
  ASSUME NEW Q, NEW b \in Seq(Q), NEW gone, NEW l \in Nat
  PROVE  /\ Remaining(b, gone) \in Seq(Q)
         /\ Leads(b, l) /\ l \notin gone =>
              \E j \in 1..l : Leads(Remaining(b, gone), j)
<1> DEFINE f == CHOOSE f : Kept(f, b, gone, Len(b))
           Led == Leads(b, l) /\ l \notin gone
           Divs(s, i) == Len(s) <= i /\ \A j \in 1..Len(s) : s[j] = "div"
           Right(s, i) == /\ s \in Seq(Q)
                          /\ Led /\ i < l => Divs(s, i)
                          /\ Led /\ i >= l => \E j \in 1..l : Leads(s, j)
           Wrong == {i \in 0..Len(b) : ~Right(f[i], i)}
<1>1. DOMAIN b = 1..Len(b) /\ Len(b) \in Nat /\ \A i \in 1..Len(b) : b[i] \in Q
  BY LenProperties, ElementOfSeq
<1>2. Kept(f, b, gone, Len(b))
  BY <1>1, KeptExists
<1>3. Remaining(b, gone) = f[Len(b)]
  BY DEF Remaining, Kept
<1> HIDE DEF f
<1>4. \A i \in 0..Len(b) :
        f[i] = IF i = 0 THEN <<>> ELSE IF i \in gone THEN f[i - 1] ELSE Append(f[i - 1], b[i])
  BY <1>2 DEF Kept
<1>5. Wrong = {}
  <2>1. SUFFICES ASSUME Wrong # {}
                 PROVE  FALSE
    OBVIOUS
  <2>2. Wrong \in SUBSET Nat
    BY <1>1
  <2> HIDE DEF Wrong
  <2>3. PICK k \in Wrong : \A j \in Wrong : k <= j
    BY <2>1, <2>2, LeastOf
  <2>4. k \in 0..Len(b) /\ ~Right(f[k], k)
    BY <2>3 DEF Wrong
  <2>5. Right(<<>>, 0)
    BY EmptySeq DEF Leads
  <2>6. k # 0
    BY <1>1, <1>4, <2>4, <2>5
  <2>7. k - 1 \in 0..Len(b) /\ ~(k <= k - 1) /\ k \in 1..Len(b)
    BY <1>1, <2>4, <2>6
  <2>8. Right(f[k - 1], k - 1)
    BY <2>3, <2>7 DEF Wrong
  <2>9. PICK s : s = f[k - 1]
    OBVIOUS
  <2>10. s \in Seq(Q) /\ b[k] \in Q /\ Len(s) \in Nat
    BY <1>1, <2>7, <2>8, <2>9, LenProperties
  <2>11. f[k] = IF k \in gone THEN s ELSE Append(s, b[k])
    BY <1>4, <2>6, <2>7, <2>9
  <2>12. PICK t : t = Append(s, b[k])
    OBVIOUS
  <2>13. /\ t \in Seq(Q) /\ Len(t) = Len(s) + 1
         /\ \A i \in 1..Len(s) : t[i] = s[i]
         /\ t[Len(s) + 1] = b[k]
    BY <2>10, <2>12, AppendProperties
  <2>14. f[k] \in Seq(Q)
    BY <2>10, <2>11, <2>12, <2>13
  <2>15. ASSUME Led, k < l
         PROVE  Divs(f[k], k)
    <3>1. Divs(s, k - 1)
      BY <2>7, <2>8, <2>9, <2>15
    <3>2. b[k] = "div"
      BY <2>7, <2>15 DEF Leads
    <3>3. Divs(t, k)
      <4>1. k \in Nat /\ Len(s) <= k - 1 /\ Len(t) <= k
        BY <1>1, <2>4, <2>10, <2>13, <3>1
      <4>2. ASSUME NEW j \in 1..Len(t) PROVE t[j] = "div"
        <5>1. j = Len(s) + 1 \/ j \in 1..Len(s)
          BY <2>10, <2>13
        <5>2. QED
          BY <2>13, <3>1, <3>2, <5>1
      <4>3. QED
        BY <4>1, <4>2
    <3>4. Divs(s, k)
      BY <2>7, <2>10, <3>1
    <3>5. QED
      BY <2>11, <2>12, <3>3, <3>4
  <2>16. ASSUME Led, k = l
         PROVE  \E j \in 1..l : Leads(f[k], j)
    <3>1. Divs(s, k - 1)
      BY <2>7, <2>8, <2>9, <2>16
    <3>2. f[k] = t /\ b[k] = "own"
      BY <2>11, <2>12, <2>16 DEF Leads
    <3>3. Len(s) + 1 \in 1..l /\ Leads(t, Len(s) + 1)
      BY <2>7, <2>10, <2>13, <2>16, <3>1, <3>2 DEF Leads
    <3>4. QED
      BY <3>2, <3>3
  <2>17. ASSUME Led, k > l
         PROVE  \E j \in 1..l : Leads(f[k], j)
    <3>1. PICK j \in 1..l : Leads(s, j)
      BY <2>7, <2>8, <2>9, <2>17
    <3>2. Leads(t, j)
      <4>1. j \in 1..Len(s) /\ s[j] = "own" /\ \A i \in 1..(j - 1) : s[i] = "div"
        BY <3>1 DEF Leads
      <4>2. j \in 1..Len(t) /\ \A i \in 1..(j - 1) : i \in 1..Len(s)
        BY <2>10, <2>13, <4>1
      <4>3. QED
        BY <2>13, <4>1, <4>2 DEF Leads
    <3>3. QED
      BY <2>11, <2>12, <3>1, <3>2
  <2>18. QED
    BY <2>4, <2>7, <2>14, <2>15, <2>16, <2>17
<1>6. Right(f[Len(b)], Len(b))
  BY <1>1, <1>5
<1>7. Leads(b, l) => Len(b) >= l
  BY <1>1 DEF Leads
<1>8. QED
  BY <1>1, <1>3, <1>6, <1>7

(* What is left when some parts go that are neither the sender's words nor  *)
(* divisions: the words stay where they are, or come nearer to the front.   *)
LEMMA LeftTyped ==
  ASSUME NEW b \in Seq(Parts), NEW marks
  PROVE  /\ Without(b, marks) \in Seq(Parts)
         /\ \A l \in 1..Len(b) :
              "own" \notin marks /\ Leads(b, l) => \E j \in 1..l : Leads(Without(b, marks), j)
         /\ "own" \notin marks /\ Starts(b) => Starts(Without(b, marks))
<1>1. PICK gone : gone = {i \in DOMAIN b : b[i] \in marks}
  OBVIOUS
<1>2. Without(b, marks) = Remaining(b, gone)
  BY <1>1 DEF Without
<1>3. PICK w : w = Remaining(b, gone)
  OBVIOUS
<1>4. w \in Seq(Parts)
  BY <1>3, KeptTyped
<1>5. Len(b) \in Nat /\ Len(w) \in Nat
  BY <1>4, LenProperties
<1>6. ASSUME NEW l \in 1..Len(b), "own" \notin marks, Leads(b, l)
      PROVE  \E j \in 1..l : Leads(w, j)
  <2>1. l \in Nat /\ l \notin gone
    BY <1>1, <1>5, <1>6 DEF Leads
  <2>2. QED
    BY <1>3, <1>6, <2>1, KeptTyped
<1>7. ASSUME NEW j, Leads(w, j)
      PROVE  j \in 1..Len(w)
  BY <1>7 DEF Leads
<1>8. QED
  BY <1>2, <1>3, <1>4, <1>6, <1>7 DEF Starts

(* The rest of a mail is parts of a mail.                                   *)
LEMMA TailTyped ==
  ASSUME NEW b \in Seq(Parts), NEW n \in 0..Len(b)
  PROVE  SubSeq(b, n + 2, Len(b)) \in Seq(Parts)
<1>1. DOMAIN b = 1..Len(b) /\ Len(b) \in Nat /\ \A i \in 1..Len(b) : b[i] \in Parts
  BY LenProperties, ElementOfSeq
<1>2. PICK k : k = n + 2
  OBVIOUS
<1>3. PICK l : l = Len(b)
  OBVIOUS
<1>4. k \in Int /\ l \in Int /\ \A i \in k..l : b[i] \in Parts
  BY <1>1, <1>2, <1>3
<1>5. SubSeq(b, k, l) \in Seq(Parts)
  BY ONLY <1>4, SubSeqProperties
<1>6. QED
  BY <1>2, <1>3, <1>5

(* What the cleaning of a mail leaves are parts of it, and the first words  *)
(* stay first: all steps but the removal of the header divisions.           *)
LEMMA CleanedTyped ==
  ASSUME NEW b \in Seq(Parts)
  PROVE  /\ StripReplyQuotes(b) \in Seq(Parts) /\ StripHtml(b) \in Seq(Parts)
         /\ CollapseWs(b) \in Seq(Parts)
         /\ Starts(b) => /\ Starts(StripReplyQuotes(b)) /\ Starts(StripHtml(b))
                         /\ Starts(CollapseWs(b))
<1>1. StripReplyQuotes(b) \in Seq(Parts) /\ (Starts(b) => Starts(StripReplyQuotes(b)))
  <2>1. {"quote"} \cap {"own", "div"} = {} /\ {"blockquote"} \cap {"own", "div"} = {}
    OBVIOUS
  <2>2. QED
    BY <2>1, CutTyped DEF StripReplyQuotes
<1>2. StripHtml(b) \in Seq(Parts) /\ (Starts(b) => Starts(StripHtml(b)))
  <2>1. PICK marks : marks = Tags \ {"fwdBlock", "fwdHeader"}
    OBVIOUS
  <2>2. "own" \notin marks
    BY <2>1 DEF Tags
  <2>3. QED
    BY <2>1, <2>2, LeftTyped DEF StripHtml
<1>3. CollapseWs(b) \in Seq(Parts) /\ (Starts(b) => Starts(CollapseWs(b)))
  <2>1. PICK c : c = CollapseWs(b)
    OBVIOUS
  <2>2. DOMAIN b = 1..Len(b) /\ Len(b) \in Nat /\ \A i \in 1..Len(b) : b[i] \in Parts
    BY LenProperties, ElementOfSeq
  <2>3. c = [i \in 1..Len(b) |->
               IF b[i] \in {"fwdBlock", "fwdHeader", "header"} THEN "inline" ELSE b[i]]
    BY <2>1, <2>2 DEF CollapseWs
  <2>4. c \in [1..Len(b) -> Parts]
    BY <2>2, <2>3 DEF Parts, Marks
  <2>5. c \in Seq(Parts) /\ Len(c) = Len(b)
    <3>1. c \in Seq(Parts)
      BY <2>2, <2>4, IsASeq
    <3>2. DOMAIN c = 1..Len(b) /\ DOMAIN c = 1..Len(c) /\ Len(c) \in Nat
      BY <2>4, <3>1, LenProperties
    <3>3. QED
      BY <2>2, <3>1, <3>2
  <2>6. ASSUME NEW k \in 1..Len(b), Leads(b, k) PROVE Leads(c, k)
    BY <2>2, <2>3, <2>5, <2>6 DEF Leads
  <2>7. QED
    BY <2>1, <2>5, <2>6 DEF Starts
<1>4. QED
  BY <1>1, <1>2, <1>3

(* What a forwarded mail is cleaned to are parts of it.  Words that come     *)
(* before any division, or in a mail with no header, stay first.            *)
LEMMA ForwardTyped ==
  ASSUME NEW b \in Seq(Parts)
  PROVE  /\ ProcessForward(b) \in Seq(Parts)
         /\ Starts(b) /\ (b[1] # "div" \/ ~Has(b, "fwdHeader")) => Starts(ProcessForward(b))
<1>1. PICK marks : marks = {"append", "fwdBlock"}
  OBVIOUS
<1>2. PICK w : w = Without(b, marks)
  OBVIOUS
<1>3. w \in Seq(Parts)
  BY <1>2, LeftTyped
<1>4. DOMAIN b = 1..Len(b) /\ Len(b) \in Nat /\ DOMAIN w = 1..Len(w) /\ Len(w) \in Nat
  BY <1>3, LenProperties
<1>5. PICK gone : gone = HeaderDivs(w)
  OBVIOUS
<1>6. ProcessForward(b) = StripReplyQuotes(Remaining(w, gone))
  BY <1>1, <1>2, <1>5 DEF ProcessForward, WithoutHeaders
<1>7. Remaining(w, gone) \in Seq(Parts)
  BY <1>3, KeptTyped
<1>8. ASSUME Starts(b), b[1] # "div" \/ ~Has(b, "fwdHeader")
      PROVE  Starts(Remaining(w, gone))
  <2>1. PICK l \in 1..Len(b) : Leads(b, l)
    BY <1>8 DEF Starts
  <2>2. PICK j \in 1..l : Leads(w, j)
    <3>1. "own" \notin marks
      BY <1>1
    <3>2. QED
      BY <1>2, <2>1, <3>1, LeftTyped
  <2>3. j \in Nat /\ j \in 1..Len(w) /\ w[j] = "own"
    BY <1>4, <2>1, <2>2 DEF Leads
  <2>4. j \notin gone
    <3>1. CASE b[1] # "div"
      <4>1. l = 1
        BY <1>4, <2>1, <3>1 DEF Leads
      <4>2. j = 1
        BY <2>2, <4>1
      <4>3. QED
        BY <1>4, <1>5, <2>3, <4>2 DEF HeaderDivs
    <3>2. CASE ~Has(b, "fwdHeader")
      <4>1. PICK Q : Q = Parts \ {"fwdHeader"}
        OBVIOUS
      <4>2. \A i \in 1..Len(b) : b[i] \in Q
        BY <1>4, <3>2, <4>1, ElementOfSeq DEF Has, ToSet
      <4>3. b \in Seq(Q)
        <5>1. b = [i \in 1..Len(b) |-> b[i]]
          BY <1>4, SeqDef
        <5>2. b \in [1..Len(b) -> Q]
          BY <4>2, <5>1
        <5>3. QED
          BY <1>4, <5>2, IsASeq
      <4>4. w \in Seq(Q)
        BY <1>2, <4>3, KeptTyped DEF Without
      <4>5. \A i \in DOMAIN w : w[i] # "fwdHeader"
        BY <1>4, <4>1, <4>4, ElementOfSeq
      <4>6. QED
        BY <1>5, <4>5 DEF HeaderDivs
    <3>3. QED
      BY <1>8, <3>1, <3>2
  <2>5. PICK i \in 1..j : Leads(Remaining(w, gone), i)
    BY <1>3, <2>2, <2>3, <2>4, KeptTyped
  <2>6. QED
    BY <1>7, <2>5 DEF Starts, Leads
<1>9. QED
  BY <1>6, <1>7, <1>8, CleanedTyped

(* What stays first of two texts stays first of both together.               *)
LEMMA TogetherTyped ==
  ASSUME NEW head, Starts(head), NEW tail \in Seq(Parts)
  PROVE  Starts(head \o tail)
<1>1. PICK k \in 1..Len(head) : Leads(head, k)
  BY DEF Starts
<1>2. head \in Seq(Parts) /\ Len(head) \in Nat /\ Len(tail) \in Nat
  BY LenProperties DEF Starts
<1>3. /\ head \o tail \in Seq(Parts) /\ Len(head \o tail) = Len(head) + Len(tail)
      /\ \A i \in 1..(Len(head) + Len(tail)) :
           (head \o tail)[i] = IF i <= Len(head) THEN head[i] ELSE tail[i - Len(head)]
  BY ONLY <1>2, ConcatProperties
<1>4. PICK all : all = head \o tail
  OBVIOUS
<1>5. \A i \in 1..Len(head) : i \in 1..Len(all) /\ all[i] = head[i]
  BY <1>2, <1>3, <1>4
<1>6. Leads(all, k) /\ k \in 1..Len(all)
  BY <1>1, <1>2, <1>5 DEF Leads
<1>7. QED
  BY <1>3, <1>4, <1>6 DEF Starts

(* The sender's words stay when they come first, unless the header goes     *)
(* together with the division they are in.                                  *)
LEMMA OwnWordsStay ==
  ASSUME NEW b \in Seq(Parts), Starts(b), b[1] # "div" \/ ~Has(b, "fwdHeader") \/ Has(b, "hr")
  PROVE  Starts(NormalizeBody(b))
<1>1. Starts(StripQuotedHtml(b))
  <2>1. PICK above : above = CutAt(b, {"hr"})
    OBVIOUS
  <2>2. above \in Seq(Parts) /\ Len(above) \in 0..Len(b) /\ Starts(above)
    <3>1. {"hr"} \cap {"own", "div"} = {}
      OBVIOUS
    <3>2. QED
      BY <2>1, <3>1, CutTyped
  <2>3. PICK below : below = SubSeq(b, Len(above) + 2, Len(b))
    OBVIOUS
  <2>4. below \in Seq(Parts)
    BY <2>2, <2>3, TailTyped
  <2>5. PICK head : head = CollapseWs(StripHtml(StripReplyQuotes(above)))
    OBVIOUS
  <2>6. PICK tail : tail = CollapseWs(StripHtml(ProcessForward(below)))
    OBVIOUS
  <2>7. Starts(head)
    BY <2>2, <2>5, CleanedTyped
  <2>8. tail \in Seq(Parts)
    BY <2>4, <2>6, CleanedTyped, ForwardTyped
  <2>9. Starts(head \o tail)
    BY <2>7, <2>8, TogetherTyped
  <2>10. CASE Has(b, "hr")
    <3>1. StripQuotedHtml(b) \in {head, head \o tail}
      BY <2>1, <2>3, <2>5, <2>6, <2>10 DEF StripQuotedHtml
    <3>2. QED
      BY <2>7, <2>9, <3>1
  <2>11. CASE ~Has(b, "hr")
    <3>1. PICK p : p = ProcessForward(b)
      OBVIOUS
    <3>2. p \in Seq(Parts) /\ Starts(p)
      BY <2>11, <3>1, ForwardTyped
    <3>3. StripQuotedHtml(b) = StripHtml(StripReplyQuotes(p))
      BY <2>11, <3>1 DEF StripQuotedHtml
    <3>4. QED
      BY <3>2, <3>3, CleanedTyped
  <2>12. QED
    BY <2>10, <2>11
<1>2. ASSUME NEW t, Starts(t) PROVE Starts(StripQuotedPlain(t))
  <2>1. PICK u : u = Without(t, {"header"})
    OBVIOUS
  <2>2. t \in Seq(Parts) /\ "own" \notin {"header"}
    BY <1>2 DEF Starts
  <2>3. u \in Seq(Parts) /\ Starts(u)
    BY <1>2, <2>1, <2>2, LeftTyped
  <2>4. /\ {"inline"} \cap {"own", "div"} = {} /\ {"on", "wrote"} \cap {"own", "div"} = {}
        /\ {"original"} \cap {"own", "div"} = {}
    OBVIOUS
  <2>5. PICK v : v = CutAt(u, {"inline"})
    OBVIOUS
  <2>6. v \in Seq(Parts) /\ Starts(v)
    BY <2>3, <2>4, <2>5, CutTyped
  <2>7. PICK w : w = StripOnWrote(v)
    OBVIOUS
  <2>8. w \in Seq(Parts) /\ Starts(w)
    BY <2>4, <2>6, <2>7, CutTyped DEF StripOnWrote
  <2>9. Starts(CutAt(w, {"original"}))
    BY <2>4, <2>8, CutTyped
  <2>10. StripQuotedPlain(t) = CutAt(w, {"original"})
    BY <2>1, <2>5, <2>7 DEF StripQuotedPlain
  <2>11. QED
    BY <2>9, <2>10
<1>3. QED
  BY <1>1, <1>2 DEF NormalizeBody

(* What is written on top of a mail is in the text that is read of it.      *)
LEMMA OwnInText ==
  ASSUME NEW m \in Mails, TopPosted(m), ~Swallowed(m)
  PROVE  "own" \in MailText[m]
<1>1. PICK b : b = Mail[m].body
  OBVIOUS
<1>2. b \in Seq(Parts)
  BY <1>1, BodyAssumption DEF Parts
<1>3. DOMAIN b = 1..Len(b) /\ Len(b) \in Nat
  BY <1>2, LenProperties
<1>4. Starts(b)
  BY <1>1, <1>2, <1>3 DEF TopPosted, Starts, Leads
<1>5. b[1] # "div" \/ ~Has(b, "fwdHeader") \/ Has(b, "hr")
  <2>1. b # <<>>
    BY <1>4 DEF Starts
  <2>2. QED
    BY <1>1, <2>1 DEF Swallowed
<1>6. PICK t : t = NormalizeBody(b)
  OBVIOUS
<1>7. Starts(t)
  BY <1>2, <1>4, <1>5, <1>6, OwnWordsStay
<1>8. PICK k \in DOMAIN t : t[k] = "own"
  BY <1>7, LenProperties DEF Starts, Leads
<1>9. MailText[m] = ToSet(t)
  BY <1>1, <1>6 DEF MailText
<1>10. QED
  BY <1>8, <1>9 DEF ToSet

-----------------------------------------------------------------------------
(* What is decided on.                                                     *)

\* The draft of an appointment is still tied to the run that sent it.
DraftKept(c) ==
  /\ c \in DOMAIN rows /\ rows[c].mail = "draft" /\ rows[c].run = c
  /\ c \in DOMAIN runs /\ runs[c].cycle = c

Drafts == \A c \in Cycles : lifecycles[c].flow = "appointment_scheduling" => DraftKept(c)

(* Every step leaves the drafts tied to the runs that sent them.            *)
LEMMA StepDrafts ==
  ASSUME Base, Base', Grown, Drafts
  PROVE  Drafts'
<1>1. SUFFICES ASSUME NEW c \in Cycles', lifecycles'[c].flow = "appointment_scheduling"
               PROVE  DraftKept(c)'
  BY DEF Drafts
<1>2. c \in Cycles /\ lifecycles[c].flow = "appointment_scheduling"
  BY <1>1 DEF Grown, StoreGrown, Cycles
<1>3. DraftKept(c) /\ c # 0
  BY <1>2, CycleTyped, ApiFacts DEF Drafts
<1>4. DOMAIN rows \subseteq DOMAIN rows'
  <2>1. StoreShape' /\ MailShape' /\ ItemShape'
    BY DEF Base, Shapes
  <2>2. QED
    BY <2>1, Places0
<1>5. rows'[c].mail = "draft" /\ rows'[c].run = c /\ c \in DOMAIN rows'
  BY <1>3, <1>4 DEF Grown, RowsGrown, DraftKept
<1>6. c \in DOMAIN runs' /\ runs'[c] = runs[c]
  BY <1>3 DEF Grown, RunsGrown, DraftKept
<1>7. QED
  BY <1>3, <1>5, <1>6 DEF DraftKept

(* At the start every appointment has its draft.                            *)
LEMMA InitDrafts ==
  ASSUME Init
  PROVE  Drafts
<1>1. /\ Cycles = DOMAIN Awaiting /\ DOMAIN rows = DOMAIN Awaiting /\ DOMAIN runs = DOMAIN Awaiting
      /\ \A c \in DOMAIN Awaiting : /\ rows[c] = OutboundRow(Awaiting[c].thread, c, "draft")
                                    /\ runs[c] = [cycle |-> c, event |-> "draft"]
  BY DEF Init, Cycles
<1>2. SUFFICES ASSUME NEW c \in DOMAIN Awaiting
               PROVE  DraftKept(c)
  BY <1>1 DEF Drafts
<1>3. rows[c].mail = "draft" /\ rows[c].run = c
  BY <1>1 DEF OutboundRow
<1>4. QED
  BY <1>1, <1>3 DEF DraftKept

(* Whoever is at a decision was there before, or has just read.             *)
LEMMA Deciding ==
  ASSUME Base, [Next]_vars, NEW n \in DOMAIN items', items'[n].at = "decide"
  PROVE  n \in DOMAIN items /\ (items'[n] = items[n] \/ ReadDetails(n) \/ ReadReply(n))
<1>0. items \in Seq(ItemRows) /\ DOMAIN items = 1..Len(items) /\ Len(items) \in Nat
  BY ApiFacts, LenProperties DEF ItemShape
<1>1. ASSUME NEW i, i.at = "queued", items' = Append(items, i)
      PROVE  n \in DOMAIN items /\ items'[n] = items[n]
  <2>1. DOMAIN items' = 1..(Len(items) + 1)
    BY <1>0, <1>1
  <2>2. CASE n = Len(items) + 1
    <3>1. items'[n] = i
      BY <1>0, <1>1, <2>2
    <3>2. QED
      BY <1>1, <3>1
  <2>3. CASE n # Len(items) + 1
    BY <1>0, <1>1, <2>1, <2>3
  <2>4. QED
    BY <2>2, <2>3
<1>2. CASE Webhook
  <2>1. CASE Push
    <3>1. PICK i : i = [Item(api.event, api.cycle, api.mail) EXCEPT !.row = api.row]
      OBVIOUS
    <3>2. i.at = "queued" /\ items' = Append(items, i)
      BY <2>1, <3>1 DEF Push, Item
    <3>3. QED
      BY <1>1, <3>2
  <2>2. CASE ~Push
    <3>1. UNCHANGED items
      BY <1>2, <2>2 DEF Webhook, Deliver, TryPod, Fetch, TryAppointment, RecordReply, TryDriver, Upsert,
                        FindRatecon, CancelRatecon, FindDriver, CancelDriver, Resolution, LinkReply
    <3>2. QED
      BY <3>1
  <2>3. QED
    BY <2>1, <2>2
<1>3. ASSUME NEW t \in tasks, Remind(t)
      PROVE  n \in DOMAIN items /\ items'[n] = items[n]
  <2>1. PICK i : i = Item("reminder", t.cycle, t.mail)
    OBVIOUS
  <2>2. i.at = "queued" /\ items' = Append(items, i)
    BY <1>3, <2>1 DEF Remind, Item
  <2>3. QED
    BY <1>1, <2>2
<1>4. ASSUME NEW k \in DOMAIN items, PushDriver(k)
      PROVE  n \in DOMAIN items /\ items'[n] = items[n]
  <2>1. PICK i : i = [Item("start", items[k].found, items[k].mail) EXCEPT
                        !.row = items[k].row, !.from = items[k].cycle]
    OBVIOUS
  <2>2. PICK d : d = DoneItem(items[k])
    OBVIOUS
  <2>3. PICK table : table = [items EXCEPT ![k] = d]
    OBVIOUS
  <2>4. items' = Append(table, i) /\ i.at = "queued"
    BY <1>4, <2>1, <2>2, <2>3 DEF PushDriver, Item
  <2>5. d \in ItemRows /\ d.at = "done"
    <3> DEFINE r == [event |-> items[k].event, cycle |-> items[k].cycle, mail |-> items[k].mail,
                     row |-> 0, from |-> 0, at |-> "done", found |-> 0, seen |-> {}]
    <3>1. r \in ItemRows
      BY ItemFacts DEF ItemRows, Stages
    <3>2. d = r
      BY <2>2 DEF DoneItem, Item
    <3>3. QED
      BY <3>1, <3>2
  <2>6. table \in Seq(ItemRows) /\ Len(table) = Len(items)
    BY <1>0, <2>3, <2>5, ExceptSeq
  <2>7. DOMAIN items' = 1..(Len(items) + 1)
    BY <1>0, <2>4, <2>6
  <2>8. n # Len(items) + 1
    BY <1>0, <2>4, <2>6
  <2>9. n \in DOMAIN items /\ items'[n] = table[n]
    BY <1>0, <2>4, <2>6, <2>7, <2>8
  <2>10. QED
    BY <2>3, <2>5, <2>9
<1>5. ASSUME NEW k \in DOMAIN items, Run(k), ~PushDriver(k)
      PROVE  n \in DOMAIN items /\ (items'[n] = items[n] \/ ReadDetails(n) \/ ReadReply(n))
  <2>1. ASSUME NEW at, NEW i, i \in ItemRows, i.at = at, at # "decide", items' = [items EXCEPT ![k] = i]
        PROVE  n \in DOMAIN items /\ items'[n] = items[n]
    BY <2>1
  <2>2. items[k] \in ItemRows
    BY ItemFacts
  <2>3. CASE ReadDetails(k) \/ ReadReply(k)
    <3>1. DOMAIN items' = DOMAIN items /\ \A j \in DOMAIN items : j # k => items'[j] = items[j]
      BY <2>3 DEF ReadDetails, ReadReply, End
    <3>2. QED
      BY <2>3, <3>1
  <2>4. DoneItem(items[k]).at = "done"
    <3> DEFINE r == [event |-> items[k].event, cycle |-> items[k].cycle, mail |-> items[k].mail,
                     row |-> 0, from |-> 0, at |-> "done", found |-> 0, seen |-> {}]
    <3>1. DoneItem(items[k]) = r
      BY DEF DoneItem, Item
    <3>2. QED
      BY <3>1
  <2>5. ASSUME End(k) PROVE n \in DOMAIN items /\ items'[n] = items[n]
    BY <2>4, <2>5 DEF End
  <2>6. ASSUME NEW at, Goto(k, at), at # "decide" PROVE n \in DOMAIN items /\ items'[n] = items[n]
    BY <2>2, <2>6 DEF Goto, ItemRows
  <2>7. CASE StartRun(k) \/ Gate(k) \/ PrepareStart(k) \/ RecordRun(k) \/ RecordReceived(k)
             \/ CheckStart(k) \/ SendReminder(k)
    <3>1. End(k) \/ \E at : Goto(k, at) /\ at # "decide"
      BY <2>7 DEF StartRun, Gate, PrepareStart, RecordRun, RecordReceived, CheckStart, SendReminder
    <3>2. QED
      BY <2>5, <2>6, <3>1
  <2>8. CASE RecordStarted(k) \/ RecordReminder(k) \/ DecideDetails(k) \/ DecideReply(k)
    BY <2>5, <2>8 DEF RecordStarted, RecordReminder, DecideDetails, DecideReply
  <2>9. CASE LinkRun(k)
    <3>1. First(items[k].event) # "decide"
      BY <2>2 DEF First, ItemRows, Events
    <3>2. QED
      BY <2>6, <2>9, <3>1 DEF LinkRun
  <2>10. CASE RecordMail(k)
    BY <2>2, <2>6, <2>10 DEF RecordMail, ItemRows
  <2>11. ASSUME NEW at, NEW found, items' = [items EXCEPT ![k].at = at, ![k].found = found], at # "decide"
         PROVE  n \in DOMAIN items /\ items'[n] = items[n]
    BY <2>2, <2>11 DEF ItemRows
  <2>12. ASSUME NEW at, NEW seen, items' = [items EXCEPT ![k].at = at, ![k].seen = seen], at # "decide"
         PROVE  n \in DOMAIN items /\ items'[n] = items[n]
    BY <2>2, <2>12 DEF ItemRows
  <2>13. CASE LookUpDriver(k) \/ InsertDriver(k)
    <3>1. PICK c : c = FindExisting("driver_assignment", LoadOf(k))
      OBVIOUS
    <3>2. PICK at : at = IF c = 0 THEN "insertDriver" ELSE "pushDriver"
      OBVIOUS
    <3>3. PICK new : new = Len(lifecycles) + 1
      OBVIOUS
    <3>4. \/ items' = [items EXCEPT ![k].at = at, ![k].found = c]
          \/ items' = [items EXCEPT ![k].at = "pushDriver", ![k].found = new]
      BY <2>13, <3>1, <3>2, <3>3 DEF LookUpDriver, InsertDriver
    <3>5. at # "decide"
      BY <3>2
    <3>6. QED
      BY <2>11, <3>4, <3>5
  <2>14. CASE Locate(k)
    <3>1. PICK seen : seen = Missing(LoadOf(k))
      OBVIOUS
    <3>2. PICK at : at = IF Missing(LoadOf(k)) = {} THEN "received" ELSE "place"
      OBVIOUS
    <3>3. End(k) \/ items' = [items EXCEPT ![k].at = at, ![k].seen = seen]
      BY <2>14, <3>1, <3>2 DEF Locate
    <3>4. at # "decide"
      BY <3>2
    <3>5. QED
      BY <2>5, <2>12, <3>3, <3>4
  <2>15. CASE Upload(k)
    <3>1. PICK seen : items' = [items EXCEPT ![k].at = "uploaded", ![k].seen = seen]
      BY <2>15 DEF Upload
    <3>2. QED
      BY <2>12, <3>1
  <2>16. CASE InsertPlaces(k) \/ RecordUpload(k)
    <3>1. PICK e : e = {}
      OBVIOUS
    <3>2. \/ End(k) \/ items' = [items EXCEPT ![k].at = "received", ![k].seen = e]
          \/ items' = [items EXCEPT ![k].at = "gate", ![k].seen = e]
      BY <2>16, <3>1 DEF InsertPlaces, RecordUpload
    <3>3. QED
      BY <2>5, <2>12, <3>2
  <2>17. QED
    BY <1>5, <2>3, <2>7, <2>8, <2>9, <2>10, <2>13, <2>14, <2>15, <2>16 DEF Run
<1>6. CASE UNCHANGED vars
  BY <1>6 DEF vars
<1>7. QED
  BY <1>2, <1>3, <1>4, <1>5, <1>6 DEF Next

\* Is the reply of n read in, and what came before it in the thread?
Before(n) == {i \in InThread(Mail[items[n].mail].thread) : i < items[n].row}
ReadIn(n) ==
  (/\ TopPosted(items[n].mail) /\ ~Swallowed(items[n].mail)
   /\ Cardinality(Before(n)) < Limit) => OwnSeen(n)

(* Rows that come later do not come before.                                *)
LEMMA BeforeStays ==
  ASSUME Base, Base', Grown, NEW n \in DOMAIN items, items'[n].row = items[n].row, items[n].row # 0
  PROVE  Before(n)' = Before(n)
<1>1. PICK th : th = Mail[items[n].mail].thread
  OBVIOUS
<1>2. PICK row : row = items[n].row
  OBVIOUS
<1>3. items'[n].mail = items[n].mail /\ items'[n].row = row
  BY <1>2 DEF Grown, ItemsGrown
<1>4. row \in DOMAIN rows /\ DOMAIN rows = 1..Len(rows) /\ Len(rows) \in Nat
      /\ DOMAIN rows \subseteq DOMAIN rows' /\ DOMAIN rows' \in SUBSET Nat /\ \A i \in DOMAIN rows' : i # 0
  <2>1. ItemRight(n)
    BY ItemFacts
  <2>2. StoreShape' /\ MailShape' /\ ItemShape'
    BY DEF Base, Shapes
  <2>3. DOMAIN rows \subseteq DOMAIN rows' /\ DOMAIN rows = 1..Len(rows)
    BY <2>2, Places0
  <2>4. Len(rows) \in Nat
    BY ApiFacts, LenProperties DEF MailShape
  <2>5. DOMAIN rows' = 1..Len(rows') /\ Len(rows') \in Nat
    BY <2>2, LenProperties DEF MailShape
  <2>6. QED
    BY <1>2, <2>1, <2>3, <2>4, <2>5 DEF ItemRight, RowOf
<1>5. \A i \in DOMAIN rows : rows'[i].thread = rows[i].thread
  BY DEF Grown, RowsGrown
<1>6. Before(n) = {i \in DOMAIN rows : rows[i].thread = th /\ i < row}
  BY <1>1, <1>2 DEF Before, InThread
<1>7. Before(n)' = {i \in DOMAIN rows' : rows'[i].thread = th /\ i < row}
  BY <1>1, <1>3 DEF Before, InThread
<1>8. \A i \in DOMAIN rows' : i < row => i \in DOMAIN rows
  BY <1>4
<1>9. QED
  BY <1>4, <1>5, <1>6, <1>7, <1>8

(* A mail that comes among the first of its thread is read.                 *)
LEMMA DetailsRead ==
  ASSUME Base, NEW n \in DOMAIN items, items[n].event = "details", items[n].row # 0,
         NEW seen, seen = ThreadText(Mail[items[n].mail].thread, {items[n].mail}),
         TopPosted(items[n].mail), ~Swallowed(items[n].mail), Cardinality(Before(n)) < Limit
  PROVE  <<items[n].mail, "own">> \in seen
<1>1. PICK m \in Mails : m = items[n].mail
  BY ItemFacts
<1>2. PICK row : row = items[n].row
  OBVIOUS
<1>3. PICK th : th = Mail[m].thread
  OBVIOUS
<1>4. row \in DOMAIN rows /\ rows[row].mail = m /\ DOMAIN rows = 1..Len(rows) /\ Len(rows) \in Nat
  BY <1>1, <1>2, ItemFacts, ApiFacts, LenProperties DEF ItemRight, RowOf, MailShape
<1>5. rows[row].thread = th
  <2>1. rows[row] \in MailRows /\ RowRight(row)
    BY <1>4, ElementOfSeq, ApiFacts DEF MailShape, Base, Tied
  <2>2. m \notin Sent
    BY MailsAssumption DEF Sent
  <2>3. QED
    BY <1>3, <1>4, <2>1, <2>2 DEF RowRight, MailRows
<1>6. row \in ListThread(th)
  <2>1. PICK B : B = {i \in InThread(th) : i < row}
    OBVIOUS
  <2>2. B = Before(n)
    BY <1>1, <1>2, <1>3, <2>1 DEF Before
  <2>3. {j \in InThread(th) : j <= row} = B \cup {row} /\ row \notin B /\ B \subseteq 1..Len(rows)
    BY <1>4, <1>5, <2>1 DEF InThread
  <2>4. IsFiniteSet(B)
    <3>1. IsFiniteSet(1..Len(rows))
      BY <1>4, FS_Interval
    <3>2. QED
      BY <2>3, <3>1, FS_Subset
  <2>5. Cardinality(B \cup {row}) = Cardinality(B) + 1 /\ Cardinality(B) \in Nat
    BY <2>3, <2>4, FS_AddElement, FS_CardinalityType
  <2>6. Cardinality(B) + 1 <= Limit
    BY <2>2, <2>5, LimitAssumption
  <2>7. row \in InThread(th)
    BY <1>4, <1>5 DEF InThread
  <2>8. Cardinality({j \in InThread(th) : j <= row}) <= Limit
    BY <2>3, <2>5, <2>6
  <2>9. QED
    BY <2>7, <2>8 DEF ListThread
<1>7. "own" \in TextOf(row)
  BY <1>1, <1>4, OwnInText DEF TextOf
<1>8. PICK messages : messages = ListThread(th)
  OBVIOUS
<1>9. PICK turns : turns = UNION {{<<rows[i].mail, word>> : word \in TextOf(i)} : i \in messages}
  OBVIOUS
<1>10. <<m, "own">> \in turns
  BY <1>4, <1>6, <1>7, <1>8, <1>9
<1>11. seen = turns
  BY <1>1, <1>3, <1>8, <1>9, <1>10 DEF ThreadText, Turns
<1>12. QED
  BY <1>1, <1>10, <1>11

(* The draft is found, so something that we wrote is read.                  *)
LEMMA DraftIsRead ==
  ASSUME Base, Drafts, NEW n \in DOMAIN items, items[n].event = "reply",
         NEW seen, seen = ReplyText(Mail[items[n].mail].thread, items[n].cycle)
  PROVE  \E turn \in seen : turn[1] \notin Mails
<1>1. PICK c \in Cycles : c = items[n].cycle
  BY ItemFacts
<1>2. DraftKept(c)
  BY <1>1, ItemFacts DEF Drafts, ItemRight, OfFlow, FlowOf
<1>3. PICK d : d = DraftOf(c)
  OBVIOUS
<1>4. d # 0 /\ d \in DOMAIN rows /\ rows[d].mail = "draft"
  BY <1>2, <1>3, FoundDraft, ApiFacts DEF DraftKept
<1>5. PICK listed : listed = ListThread(Mail[items[n].mail].thread)
  OBVIOUS
<1>6. PICK messages : messages = MergeDraft(listed, d)
  OBVIOUS
<1>7. listed \subseteq DOMAIN rows
  BY <1>5 DEF ListThread, InThread
<1>8. PICK i \in messages : i \in DOMAIN rows /\ rows[i].mail \in Sent
  <2>1. CASE \E j \in listed : rows[j].direction = "outbound"
    <3>1. PICK j \in listed : rows[j].direction = "outbound"
      BY <2>1
    <3>2. rows[j].mail \in Sent /\ j \in DOMAIN rows
      BY <1>7, <3>1 DEF Base, Tied, RowRight
    <3>3. j \in messages
      BY <1>6, <2>1 DEF MergeDraft
    <3>4. QED
      BY <3>2, <3>3
  <2>2. CASE ~ \E j \in listed : rows[j].direction = "outbound"
    BY <1>4, <1>6, <2>2 DEF MergeDraft, Sent
  <2>3. QED
    BY <2>1, <2>2
<1>9. PICK w : w = rows[i].mail
  OBVIOUS
<1>10. w \notin Mails /\ w \in TextOf(i)
  BY <1>8, <1>9, MailsAssumption DEF Sent, TextOf
<1>11. PICK turns : turns = UNION {{<<rows[k].mail, word>> : word \in TextOf(k)} : k \in messages}
  OBVIOUS
<1>12. <<w, w>> \in turns
  BY <1>8, <1>9, <1>10, <1>11
<1>13. seen = turns
  BY <1>1, <1>3, <1>5, <1>6, <1>11, <1>12 DEF ReplyText, Turns
<1>14. <<w, w>>[1] = w
  OBVIOUS
<1>15. QED
  BY <1>10, <1>12, <1>13, <1>14

(* A step leaves what has been read, and what it reads is what was written. *)
LEMMA StepText ==
  ASSUME Base, Base', Grown, Drafts, TextInv, [Next]_vars
  PROVE  TextInv'
<1>1. ASSUME NEW n \in DOMAIN items', items'[n].at = "decide", items'[n].event = "details", items'[n].row # 0
      PROVE  ReadIn(n)'
  <2>1. n \in DOMAIN items /\ (items'[n] = items[n] \/ ReadDetails(n) \/ ReadReply(n))
    BY <1>1, Deciding
  <2>2. CASE items'[n] = items[n]
    <3>1. ReadIn(n)
      BY <1>1, <2>1, <2>2 DEF TextInv, ReplyRead, RepliesRead, ReadIn, Before
    <3>2. Before(n)' = Before(n)
      BY <1>1, <2>1, <2>2, BeforeStays
    <3>3. QED
      BY <2>2, <3>1, <3>2 DEF ReadIn, OwnSeen, TopPosted, Swallowed
  <2>3. CASE ReadDetails(n) \/ ReadReply(n)
    <3>1. PICK seen : items' = [items EXCEPT ![n].at = "decide", ![n].seen = seen]
                      /\ (seen = ThreadText(Mail[items[n].mail].thread, {items[n].mail}) \/ ReadReply(n))
      <4>1. ~End(n)
        <5>1. PICK d : d = DoneItem(items[n])
          OBVIOUS
        <5>2. d.at = "done"
          BY <5>1 DEF DoneItem, Item
        <5>3. End(n) => items'[n] = d
          BY <2>1, <5>1 DEF End
        <5>4. QED
          BY <1>1, <5>2, <5>3
      <4>2. QED
        BY <2>3, <4>1 DEF ReadDetails, ReadReply
    <3>2. items[n] \in ItemRows
      BY <2>1, ItemFacts
    <3>3. /\ items'[n].event = items[n].event /\ items'[n].mail = items[n].mail
          /\ items'[n].row = items[n].row /\ items'[n].seen = seen
      BY <2>1, <3>1, <3>2 DEF ItemRows
    <3>4. seen = ThreadText(Mail[items[n].mail].thread, {items[n].mail})
      BY <1>1, <3>1, <3>3 DEF ReadReply
    <3>5. Before(n)' = Before(n)
      BY <1>1, <2>1, <3>3, BeforeStays
    <3>6. (/\ TopPosted(items[n].mail) /\ ~Swallowed(items[n].mail)
           /\ Cardinality(Before(n)) < Limit) => <<items[n].mail, "own">> \in seen
      BY <1>1, <2>1, <3>3, <3>4, DetailsRead
    <3>7. QED
      BY <3>3, <3>5, <3>6 DEF ReadIn, OwnSeen, TopPosted, Swallowed
  <2>4. QED
    BY <2>1, <2>2, <2>3
<1>2. ASSUME NEW n \in DOMAIN items', items'[n].at = "decide", items'[n].event = "reply"
      PROVE  \E turn \in items'[n].seen : turn[1] \notin Mails
  <2>1. n \in DOMAIN items /\ (items'[n] = items[n] \/ ReadDetails(n) \/ ReadReply(n))
    BY <1>2, Deciding
  <2>2. CASE items'[n] = items[n]
    BY <1>2, <2>1, <2>2 DEF TextInv, DraftRead
  <2>3. CASE ReadDetails(n) \/ ReadReply(n)
    <3>1. PICK seen : items' = [items EXCEPT ![n].at = "decide", ![n].seen = seen]
                      /\ (seen = ReplyText(Mail[items[n].mail].thread, items[n].cycle) \/ ReadDetails(n))
      <4>1. ~End(n)
        <5>1. PICK d : d = DoneItem(items[n])
          OBVIOUS
        <5>2. d.at = "done"
          BY <5>1 DEF DoneItem, Item
        <5>3. End(n) => items'[n] = d
          BY <2>1, <5>1 DEF End
        <5>4. QED
          BY <1>2, <5>2, <5>3
      <4>2. QED
        BY <2>3, <4>1 DEF ReadDetails, ReadReply
    <3>2. items[n] \in ItemRows
      BY <2>1, ItemFacts
    <3>3. items'[n].event = items[n].event /\ items'[n].seen = seen
      BY <2>1, <3>1, <3>2 DEF ItemRows
    <3>4. seen = ReplyText(Mail[items[n].mail].thread, items[n].cycle)
      BY <1>2, <3>1, <3>3 DEF ReadDetails
    <3>5. QED
      BY <1>2, <2>1, <3>3, <3>4, DraftIsRead
  <2>4. QED
    BY <2>1, <2>2, <2>3
<1>3. ReplyRead'
  BY <1>1 DEF ReplyRead, RepliesRead, ReadIn, Before
<1>4. DraftRead'
  BY <1>2 DEF DraftRead
<1>5. QED
  BY <1>3, <1>4 DEF TextInv

(* At the start nothing is being decided.                                   *)
LEMMA InitText ==
  ASSUME Init
  PROVE  TextInv
<1>1. \A n \in DOMAIN items : items[n].at = "done"
  BY DEF Init, Item
<1>2. QED
  BY <1>1 DEF TextInv, ReplyRead, RepliesRead, DraftRead

(* A driver reply is decided on a text that has what its sender wrote on    *)
(* top, unless the thread is past the limit of rows read or the words are   *)
(* in a division above a forward header that no rule sets off (the header's *)
(* removal takes these along); an appointment reply is decided on a text   *)
(* that has our draft, also when it comes on a thread of its own.           *)
THEOREM WhatIsDecidedOn == Spec => []TextInv
<1>1. Init => Base /\ Drafts /\ TextInv
  BY InitBase, InitDrafts, InitText
<1>2. Base /\ Drafts /\ TextInv /\ [Next]_vars => (Base /\ Drafts /\ TextInv)'
  BY StepBase, StepDrafts, StepText
<1>3. QED
  BY <1>1, <1>2, PTL DEF Spec
==============================================================================
