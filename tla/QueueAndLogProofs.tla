------------------------- MODULE QueueAndLogProofs -------------------------
(***************************************************************************)
(* Proofs about the two mechanisms that every workflow rests on and that    *)
(* share no variable: the run queue (RunQueue), for every set of keys,      *)
(* items and workers and any number of faults, for lists that hold only     *)
(* what admit wrote; and the transition service with its audit trail        *)
(* (LifecycleLog), for every set of callers, workflows and sub-statuses,    *)
(* any number of transactions, and any requests that are careful: the trail *)
(* tells the row, progress ends a review, and a row is paused exactly while *)
(* an exception is the last that was decided.                               *)
(***************************************************************************)
EXTENDS RunQueue, LifecycleLog, SequenceTheorems, WellFoundedInduction, TLAPS

-----------------------------------------------------------------------------
(* The run queue.                                                          *)

(* Everything responsible for a key holds on to the head of its list: that  *)
(* is why an admission that finds the list empty finds nobody in flight.    *)
HolderHasHead ==
  /\ \A s \in starting : /\ inbox[s.key] # <<>>
                         /\ Head(inbox[s.key]) = s.item
  /\ \A k \in Keys : broker[k] # <<>> => /\ inbox[k] # <<>>
                                         /\ Head(inbox[k]) = Head(broker[k])
  /\ \A w \in Workers : wpc[w] \in {"run", "record", "complete", "publish"} =>
                          /\ inbox[wkey[w]] # <<>>
                          /\ Head(inbox[wkey[w]]) = witem[w]
  /\ \A w \in Workers : wpc[w] = "peek" => inbox[wkey[w]] # <<>>
  /\ \A w \in Workers : wpc[w] # "drop"

IInv == TypeOK /\ AtMostOneInFlight /\ HolderHasHead

-----------------------------------------------------------------------------
(* Facts about lists.                                                      *)

(* RPUSH keeps the head of a list that has one, and becomes the head of one *)
(* that has none, which is when the new length is 1.                        *)
LEMMA PushHead ==
  ASSUME NEW list \in Seq(Items), NEW i \in Items
  PROVE  /\ Append(list, i) \in Seq(Items)
         /\ Append(list, i) # <<>>
         /\ list # <<>> => Head(Append(list, i)) = Head(list)
         /\ list = <<>> => Head(Append(list, i)) = i
         /\ ShouldEnqueue(Len(list) + 1) <=> list = <<>>
  BY EmptySeq, LenProperties, AppendProperties, HeadTailAppend DEF ShouldEnqueue

(* LPOP returns a list of items, and complete chains exactly when it is not *)
(* empty.                                                                   *)
LEMMA PopList ==
  ASSUME NEW list \in Seq(Items)
  PROVE  /\ Pop(list) \in Seq(Items)
         /\ ShouldChain(Len(Pop(list))) <=> Pop(list) # <<>>
         /\ Len(list) <= 1 => Pop(list) = <<>>
         /\ list # <<>> => Head(list) \in Items
<1>1. CASE list = <<>>
  BY <1>1, EmptySeq DEF Pop, ShouldChain
<1>2. CASE list # <<>>
  <2>1. /\ Head(list) \in Items
        /\ Tail(list) \in Seq(Items)
        /\ Len(Tail(list)) = Len(list) - 1
    BY <1>2, HeadTailProperties
  <2>2. Len(Tail(list)) = 0 <=> Tail(list) = <<>>
    BY <2>1, EmptySeq
  <2>3. Len(list) \in Nat /\ Len(Tail(list)) \in Nat
    BY <2>1, LenProperties
  <2>4. QED
    BY <1>2, <2>1, <2>2, <2>3 DEF Pop, ShouldChain
<1>3. QED
  BY <1>1, <1>2

-----------------------------------------------------------------------------
(* The strengthened invariant holds when every list and the broker is empty. *)
LEMMA InitIInv == Init => IInv
<1> SUFFICES ASSUME Init PROVE IInv
  OBVIOUS
<1>1. TypeOK
  BY FaultAssumption, EmptySeq DEF Init, TypeOK, Steps
<1>2. AtMostOneInFlight /\ HolderHasHead
  BY EmptySeq DEF Init, AtMostOneInFlight, HolderHasHead, Busy
<1>3. QED
  BY <1>1, <1>2 DEF IInv

(* Types are preserved by every step, whatever the lists hold: one step per *)
(* action.                                                                  *)
LEMMA TypeStep == TypeOK /\ [Next]_vars => TypeOK'
<1> SUFFICES ASSUME TypeOK, [Next]_vars PROVE TypeOK'
  OBVIOUS
<1> USE DEF TypeOK, Steps
<1>1. ASSUME NEW k \in Keys, NEW i \in Items, Admit(k, i) PROVE TypeOK'
  <2>1. /\ inbox' \in [Keys -> Seq(Items)]
        /\ arrivals' \in [Keys -> Seq(Items)]
    BY <1>1, PushHead DEF Admit
  <2>2. starting' \subseteq [key : Keys, item : Items]
    BY <1>1 DEF Admit
  <2>3. QED BY <1>1, <2>1, <2>2 DEF Admit
<1>2. ASSUME NEW k \in Keys, NEW i \in Items, ForeignPush(k, i) PROVE TypeOK'
  BY <1>2, PushHead DEF ForeignPush
<1>3. ASSUME NEW s \in starting, PublishHead(s) PROVE TypeOK'
  BY <1>3, PushHead DEF PublishHead
<1>4. ASSUME NEW s \in starting, CallerLost(s) PROVE TypeOK'
  BY <1>4, FaultAssumption DEF CallerLost, Fault
<1>5. ASSUME NEW w \in Workers, NEW k \in Keys, Take(w, k) PROVE TypeOK'
  <2>1. Head(broker[k]) \in Items /\ Tail(broker[k]) \in Seq(Items)
    BY <1>5 DEF Take
  <2>2. QED BY <1>5, <2>1, PushHead DEF Take
<1>6. ASSUME NEW w \in Workers, Run(w) PROVE TypeOK'
  BY <1>6 DEF Run, Goto
<1>7. ASSUME NEW w \in Workers, Record(w) PROVE TypeOK'
  BY <1>7, FaultAssumption DEF Record, Goto, Fault
<1>8. ASSUME NEW w \in Workers, Complete(w) PROVE TypeOK'
  <2>1. wkey[w] \in Keys
    BY <1>8 DEF Complete
  <2>2. QED BY <1>8, <2>1, PopList DEF Complete, Goto
<1>9. ASSUME NEW w \in Workers, Peek(w) PROVE TypeOK'
  <2>1. wkey[w] \in Keys
    BY <1>9 DEF Peek
  <2>2. \/ witem' = witem
        \/ inbox[wkey[w]] # <<>> /\ witem' = [witem EXCEPT ![w] = Head(inbox[wkey[w]])]
    BY <1>9 DEF Peek
  <2>3. witem' \in [Workers -> Items \cup {None}]
    BY <2>1, <2>2, PopList, ZenonT(30)
  <2>4. \/ /\ wpc' = [wpc EXCEPT ![w] = "idle"] \/ wpc' = [wpc EXCEPT ![w] = "drop"]
           /\ witem' = witem
        \/ /\ wpc' = [wpc EXCEPT ![w] = "publish"]
           /\ inbox[wkey[w]] # <<>>
           /\ witem' = [witem EXCEPT ![w] = Head(inbox[wkey[w]])]
    BY <1>9 DEF Peek, Goto
  <2>5. inbox[wkey[w]] # <<>> => Head(inbox[wkey[w]]) \in Items
    BY <2>1, PopList
  <2>6. QED BY <1>9, <2>1, <2>3, <2>4, <2>5 DEF Peek, Goto
<1>10. ASSUME NEW w \in Workers, Drop(w) PROVE TypeOK'
  <2>1. wkey[w] \in Keys
    BY <1>10 DEF Drop
  <2>2. QED BY <1>10, <2>1, PopList DEF Drop, Goto
<1>11. ASSUME NEW w \in Workers, PublishNext(w) PROVE TypeOK'
  <2>1. wkey[w] \in Keys /\ witem[w] \in Items
    BY <1>11 DEF PublishNext
  <2>2. QED BY <1>11, <2>1, PushHead DEF PublishNext, Goto
<1>12. ASSUME NEW w \in Workers, WorkerLost(w) PROVE TypeOK'
  BY <1>12, FaultAssumption DEF WorkerLost, Goto, Fault
<1>13. CASE UNCHANGED vars
  BY <1>13 DEF vars
<1>14. QED
  BY <1>1, <1>2, <1>3, <1>4, <1>5, <1>6, <1>7, <1>8, <1>9, <1>10, <1>11,
     <1>12, <1>13 DEF Next, Step

-----------------------------------------------------------------------------
(* One responsible party per key, and each holds the head, is preserved by  *)
(* every step: an admission publishes only when nobody is there, complete   *)
(* passes the responsibility on, and a fault only gives it up.              *)
LEMMA HolderStep == Corrupt = {} /\ IInv /\ [Next]_vars => AtMostOneInFlight' /\ HolderHasHead'
<1> DEFINE Good == AtMostOneInFlight /\ HolderHasHead
<1> SUFFICES ASSUME Corrupt = {}, IInv, [Next]_vars PROVE Good'
  OBVIOUS
<1> USE DEF IInv
<1>1. ASSUME NEW k \in Keys, NEW i \in Items, Admit(k, i) PROVE Good'
  <2>1. CASE inbox[k] = <<>>
    <3>1. /\ broker[k] = <<>>
          /\ \A s \in starting : s.key # k
          /\ Busy(k) = {}
      BY <2>1 DEF HolderHasHead, Busy, TypeOK, Steps
    <3>2. /\ starting' = starting \cup {[key |-> k, item |-> i]}
          /\ Head(inbox'[k]) = i
          /\ inbox'[k] # <<>>
      BY <1>1, <2>1, PushHead DEF Admit, TypeOK
    <3>3. \A s \in starting' : \/ s \in starting /\ s.key # k
                               \/ s = [key |-> k, item |-> i]
      BY <3>1, <3>2
    <3>4. AtMostOneInFlight'
      <4>1. ASSUME NEW s \in starting', NEW t \in starting', s.key = t.key PROVE s = t
        <5>1. CASE s.key = k
          <6>1. s = [key |-> k, item |-> i] /\ t = [key |-> k, item |-> i]
            BY <3>3, <4>1, <5>1
          <6>2. QED BY <6>1
        <5>2. CASE s.key # k
          <6>1. s # [key |-> k, item |-> i] /\ t # [key |-> k, item |-> i]
            BY <4>1, <5>2
          <6>2. s \in starting /\ t \in starting
            BY <3>3, <6>1
          <6>3. s.key \in Keys
            BY <6>2 DEF TypeOK
          <6>4. QED BY <4>1, <6>2, <6>3 DEF AtMostOneInFlight
        <5>3. QED BY <5>1, <5>2
      <4>2. \A j \in Keys : Busy(j)' = Busy(j)
        BY <1>1 DEF Admit, Busy
      <4>3. \A s \in starting' : s.key = k \/ s \in starting
        BY <3>3
      <4>4. UNCHANGED broker
        BY <1>1 DEF Admit
      <4>5. QED BY <3>1, <4>1, <4>2, <4>3, <4>4 DEF AtMostOneInFlight
    <3>5. HolderHasHead'
      <4>1. \A s \in starting' : inbox'[s.key] # <<>> /\ Head(inbox'[s.key]) = s.item
        BY <1>1, <3>2, <3>3 DEF Admit, HolderHasHead, TypeOK
      <4>2. \A j \in Keys : j # k => inbox'[j] = inbox[j]
        BY <1>1 DEF Admit, TypeOK
      <4>3. \A w \in Workers : wpc[w] # "idle" => wkey[w] \in Keys \ {k}
        BY <3>1 DEF Busy, TypeOK
      <4>4. UNCHANGED <<broker, wpc, wkey, witem>>
        BY <1>1 DEF Admit
      <4>5. \A j \in Keys : broker[j] # <<>> => j # k
        BY <3>1
      <4>6. QED BY <4>1, <4>2, <4>3, <4>4, <4>5 DEF HolderHasHead
    <3>6. QED BY <3>4, <3>5
  <2>2. CASE inbox[k] # <<>>
    <3>1. /\ starting' = starting
          /\ Head(inbox'[k]) = Head(inbox[k])
          /\ inbox'[k] # <<>>
      BY <1>1, <2>2, PushHead DEF Admit, TypeOK
    <3>2. AtMostOneInFlight'
      BY <1>1, <3>1 DEF Admit, AtMostOneInFlight, Busy
    <3>3. HolderHasHead'
      BY <1>1, <3>1 DEF Admit, HolderHasHead, TypeOK
    <3>4. QED BY <3>2, <3>3
  <2>3. QED BY <2>1, <2>2
<1>2. ASSUME NEW s \in starting, PublishHead(s) PROVE Good'
  <2>1. s.key \in Keys /\ s.item \in Items
    BY DEF TypeOK
  <2>2. broker[s.key] = <<>> /\ Busy(s.key) = {}
    BY <2>1 DEF AtMostOneInFlight
  <2>3. /\ broker'[s.key] # <<>>
        /\ Head(broker'[s.key]) = s.item
        /\ Len(broker'[s.key]) = 1
    BY <1>2, <2>1, <2>2, EmptySeq, AppendProperties, PushHead DEF PublishHead, TypeOK
  <2>4. \A t \in starting' : t.key # s.key
    BY <1>2, <2>1 DEF PublishHead, AtMostOneInFlight
  <2>5. AtMostOneInFlight'
    BY <1>2, <2>1, <2>2, <2>3, <2>4 DEF PublishHead, AtMostOneInFlight, Busy, TypeOK
  <2>6. HolderHasHead'
    BY <1>2, <2>1, <2>3 DEF PublishHead, HolderHasHead, TypeOK
  <2>7. QED BY <2>5, <2>6
<1>3. ASSUME NEW s \in starting, CallerLost(s) PROVE Good'
  BY <1>3 DEF CallerLost, AtMostOneInFlight, HolderHasHead, Busy
<1>4. ASSUME NEW w \in Workers, NEW k \in Keys, Take(w, k) PROVE Good'
  <2>1. /\ broker[k] \in Seq(Items) /\ broker[k] # <<>> /\ Len(broker[k]) <= 1
        /\ Busy(k) = {}
        /\ \A s \in starting : s.key # k
    BY <1>4 DEF Take, AtMostOneInFlight, TypeOK
  <2>2. broker'[k] = <<>>
    BY <1>4, <2>1, PopList DEF Take, TypeOK, Pop
  <2>3. AtMostOneInFlight'
    BY <1>4, <2>1, <2>2, EmptySeq DEF Take, AtMostOneInFlight, Busy, TypeOK
  <2>4. HolderHasHead'
    BY <1>4, <2>2 DEF Take, HolderHasHead, TypeOK
  <2>5. QED BY <2>3, <2>4
<1>5. ASSUME NEW w \in Workers, Run(w) PROVE Good'
  BY <1>5 DEF Run, Goto, AtMostOneInFlight, HolderHasHead, Busy, TypeOK
<1>6. ASSUME NEW w \in Workers, Record(w) PROVE Good'
  BY <1>6 DEF Record, Goto, AtMostOneInFlight, HolderHasHead, Busy, TypeOK
<1>7. ASSUME NEW w \in Workers, Complete(w) PROVE Good'
  <2> DEFINE k == wkey[w]
  <2>1. k \in Keys /\ w \in Busy(k)
    BY <1>7 DEF Complete, TypeOK, Busy
  <2>2. /\ broker[k] = <<>>
        /\ \A s \in starting : s.key # k
        /\ \A v \in Workers : wpc[v] # "idle" /\ wkey[v] = k => v = w
    BY <2>1 DEF AtMostOneInFlight, Busy
  <2>3. wpc'[w] = "idle" \/ (wpc'[w] = "peek" /\ inbox'[k] # <<>>)
    <3>1. inbox'[k] = Pop(inbox[k])
      BY <1>7, <2>1 DEF Complete, TypeOK
    <3>2. wpc'[w] = IF ShouldChain(Len(Pop(inbox[k]))) THEN "peek" ELSE "idle"
      BY <1>7 DEF Complete, Goto, TypeOK
    <3>3. QED BY <2>1, <3>1, <3>2, PopList DEF TypeOK
  <2>4. AtMostOneInFlight'
    BY <1>7, <2>1, <2>2, <2>3 DEF Complete, Goto, AtMostOneInFlight, Busy, TypeOK
  <2>5. HolderHasHead'
    BY <1>7, <2>1, <2>2, <2>3 DEF Complete, Goto, HolderHasHead, TypeOK
  <2>6. QED BY <2>4, <2>5
<1>8. ASSUME NEW w \in Workers, Peek(w) PROVE Good'
  <2>1. AtMostOneInFlight'
    <3>1. \E step \in Steps : wpc' = [wpc EXCEPT ![w] = step]
      BY <1>8 DEF Peek, Goto, Steps
    <3>2. UNCHANGED <<wkey, broker, starting>> /\ wpc[w] # "idle"
      BY <1>8 DEF Peek, Goto
    <3>3. ASSUME NEW k \in Keys, NEW v \in Busy(k)' PROVE v \in Busy(k)
      BY <3>1, <3>2, <3>3 DEF Busy, TypeOK
    <3>4. ASSUME NEW k \in Keys, Busy(k) = {} PROVE Busy(k)' = {}
      BY <3>3, <3>4
    <3>5. \A k \in Keys : \A v \in Busy(k)' : v \in Busy(k)
      BY <3>3
    <3>6. \A k \in Keys : Busy(k) = {} => Busy(k)' = {}
      BY <3>4
    <3>7. \A k \in Keys : Len(broker'[k]) = Len(broker[k]) /\ broker'[k] = broker[k]
      BY <3>2
    <3>8. QED BY <3>2, <3>5, <3>6, <3>7 DEF AtMostOneInFlight
  <2>2. HolderHasHead'
    BY <1>8 DEF Peek, Goto, IsObject, HolderHasHead, TypeOK
  <2>3. QED BY <2>1, <2>2
<1>9. ASSUME NEW w \in Workers, PublishNext(w) PROVE Good'
  <2> DEFINE k == wkey[w]
  <2>1. k \in Keys /\ w \in Busy(k) /\ witem[w] \in Items
    BY <1>9 DEF PublishNext, TypeOK, Busy
  <2>2. /\ broker[k] = <<>>
        /\ \A s \in starting : s.key # k
        /\ \A v \in Workers : wpc[v] # "idle" /\ wkey[v] = k => v = w
    BY <2>1 DEF AtMostOneInFlight, Busy
  <2>3. /\ broker'[k] # <<>>
        /\ Head(broker'[k]) = witem[w]
        /\ Len(broker'[k]) = 1
    BY <1>9, <2>1, <2>2, EmptySeq, AppendProperties, PushHead DEF PublishNext, TypeOK
  <2>4. AtMostOneInFlight'
    BY <1>9, <2>1, <2>2, <2>3 DEF PublishNext, Goto, AtMostOneInFlight, Busy, TypeOK
  <2>5. HolderHasHead'
    BY <1>9, <2>1, <2>3 DEF PublishNext, Goto, HolderHasHead, TypeOK
  <2>6. QED BY <2>4, <2>5
<1>10. ASSUME NEW w \in Workers, WorkerLost(w) PROVE Good'
  BY <1>10 DEF WorkerLost, Goto, AtMostOneInFlight, HolderHasHead, Busy, TypeOK
<1>11. ASSUME NEW k \in Keys, NEW i \in Items, ForeignPush(k, i) PROVE Good'
  BY <1>11 DEF ForeignPush
<1>12. ASSUME NEW w \in Workers, Drop(w) PROVE Good'
  BY <1>12 DEF Drop, HolderHasHead
<1>13. CASE UNCHANGED vars
  BY <1>13 DEF vars, AtMostOneInFlight, HolderHasHead, Busy
<1>14. QED
  BY <1>1, <1>2, <1>3, <1>4, <1>5, <1>6, <1>7, <1>8, <1>9, <1>10, <1>11,
     <1>12, <1>13 DEF Next, Step

-----------------------------------------------------------------------------
(* The strengthened invariant holds in every reachable state, when no list  *)
(* has a foreign entry.                                                     *)
THEOREM Invariance == ASSUME Corrupt = {} PROVE Spec => []IInv
<1>1. IInv /\ [Next]_vars => IInv'
  BY TypeStep, HolderStep DEF IInv
<1>2. QED
  BY InitIInv, <1>1, PTL DEF Spec

(* The run queue's variables keep their types; also with foreign entries,   *)
(* the type invariant needs no help from the others.                        *)
THEOREM TypeCorrect == Spec => []TypeOK
<1>1. Init => TypeOK
  BY InitIInv DEF IInv
<1>2. QED
  BY <1>1, TypeStep, PTL DEF Spec

(* For any keys, items, workers and faults: at most one caller, message or  *)
(* worker is in flight for a key.                                           *)
THEOREM OneInFlight == ASSUME Corrupt = {} PROVE Spec => []AtMostOneInFlight
<1>1. IInv => AtMostOneInFlight
  BY DEF IInv
<1>2. QED
  BY Invariance, <1>1, PTL

(* ... hence two graph attempts for a key never overlap ...                 *)
THEOREM OneAttempt == ASSUME Corrupt = {} PROVE Spec => []AtMostOneAttempt
<1>1. IInv => AtMostOneAttempt
  <2> SUFFICES ASSUME IInv,
                      NEW v \in Workers, NEW w \in Workers,
                      {wpc[v], wpc[w]} \subseteq {"run", "record"},
                      wkey[v] = wkey[w]
               PROVE  v = w
    BY DEF AtMostOneAttempt
  <2>1. wkey[w] \in Keys /\ v \in Busy(wkey[w]) /\ w \in Busy(wkey[w])
    BY DEF IInv, TypeOK, Busy
  <2>2. QED
    BY <2>1 DEF IInv, AtMostOneInFlight
<1>2. QED
  BY Invariance, <1>1, PTL

(* ... and complete pops the item whose attempt has just ended.             *)
THEOREM OwnItem == ASSUME Corrupt = {} PROVE Spec => []CompletesItsOwnItem
<1>1. IInv => CompletesItsOwnItem
  BY DEF IInv, HolderHasHead, CompletesItsOwnItem
<1>2. QED
  BY Invariance, <1>1, PTL

-----------------------------------------------------------------------------
(* Who answers for a key.                                                  *)

(* A busy worker is alone with its key.                                     *)
LEMMA Alone ==
  ASSUME IInv, NEW w \in Workers, wpc[w] # "idle"
  PROVE  /\ wkey[w] \in Keys
         /\ Busy(wkey[w]) = {w}
         /\ broker[wkey[w]] = <<>>
         /\ \A s \in starting : s.key # wkey[w]
<1>1. wkey[w] \in Keys /\ w \in Busy(wkey[w])
  BY DEF IInv, TypeOK, Busy
<1>2. QED
  BY <1>1 DEF IInv, AtMostOneInFlight

(* So is a caller that has still to publish the head.                       *)
LEMMA CallerAlone ==
  ASSUME IInv, NEW s \in starting
  PROVE  /\ s.key \in Keys /\ s.item \in Items
         /\ inbox[s.key] # <<>>
         /\ Busy(s.key) = {}
         /\ broker[s.key] = <<>>
         /\ \A t \in starting : t.key = s.key => t = s
  BY DEF IInv, TypeOK, AtMostOneInFlight, HolderHasHead

(* An empty list has nobody in flight.                                      *)
LEMMA EmptyIsFree ==
  ASSUME IInv, NEW k \in Keys, inbox[k] = <<>>
  PROVE  /\ broker[k] = <<>>
         /\ \A s \in starting : s.key # k
         /\ Busy(k) = {}
  BY DEF IInv, HolderHasHead, Busy, TypeOK, Steps

(* The status of a key depends on nothing but what is stored under it.      *)
LEMMA StatusFrame ==
  ASSUME NEW k \in Keys,
         inbox'[k] = inbox[k], broker'[k] = broker[k],
         (\E s \in starting' : s.key = k) <=> (\E s \in starting : s.key = k),
         Busy(k)' = Busy(k), Running(k)' <=> Running(k)
  PROVE  StatusOf(k)' = StatusOf(k)
  BY DEF StatusOf, Orphaned, InFlight

-----------------------------------------------------------------------------
(* Refinement: every step of the queue is a step of SerialExecution, or     *)
(* leaves what the abstract specification sees unchanged.                   *)

(* Empty lists map to idle keys.                                            *)
LEMMA RefineInit == Init => Serial!Init
<1> SUFFICES ASSUME Init PROVE Serial!Init
  OBVIOUS
<1>1. \A k \in Keys : StatusOf(k) = "idle"
  BY DEF Init, StatusOf, Running, Orphaned, Busy
<1>2. QED
  BY <1>1 DEF Init, Serial!Init

(* Every step of the queue is a Submit, Begin, End or Halt of one key, or a *)
(* stutter.                                                                 *)
LEMMA RefineStep == Corrupt = {} /\ IInv /\ IInv' /\ [Next]_vars => [Serial!Next]_(Serial!vars)
<1> DEFINE st == [j \in Keys |-> StatusOf(j)]
           Stutter == inbox' = inbox /\ st' = st /\ log' = log
           Moves(k, to) == st' = [st EXCEPT ![k] = to]
<1> SUFFICES ASSUME Corrupt = {}, IInv, IInv', [Next]_vars
             PROVE  Serial!Next \/ Stutter
  BY DEF Serial!vars
<1>a. ASSUME NEW k \in Keys, NEW to,
             \A j \in Keys \ {k} : StatusOf(j)' = StatusOf(j),
             StatusOf(k)' = to
      PROVE  Moves(k, to)
  BY <1>a
<1>b. ASSUME NEW w \in Workers, NEW step \in Steps, wpc[w] # "idle",
             wpc' = [wpc EXCEPT ![w] = step], UNCHANGED wkey
      PROVE  /\ step = "idle" => Busy(wkey[w])' = {}
             /\ step # "idle" => Busy(wkey[w])' = {w}
             /\ \A j \in Keys \ {wkey[w]} : Busy(j)' = Busy(j) /\ (Running(j)' <=> Running(j))
  <2>1. Busy(wkey[w]) = {w}
    BY <1>b, Alone
  <2>2. wpc \in [Workers -> Steps]
    BY DEF IInv, TypeOK
  <2>3. QED
    BY <1>b, <2>1, <2>2 DEF Busy, Running
<1>1. ASSUME NEW k \in Keys, NEW i \in Items, Admit(k, i) PROVE Serial!Submit(k, i)
  <2>1. UNCHANGED <<broker, wpc, wkey>>
    BY <1>1 DEF Admit
  <2>2. \A j \in Keys : Busy(j)' = Busy(j) /\ (Running(j)' <=> Running(j))
    BY <2>1 DEF Busy, Running
  <2>3. \A j \in Keys \ {k} : /\ inbox'[j] = inbox[j]
                              /\ (\E s \in starting' : s.key = j) <=> (\E s \in starting : s.key = j)
    BY <1>1 DEF Admit, IInv, TypeOK
  <2>4. ASSUME NEW j \in Keys \ {k} PROVE StatusOf(j)' = StatusOf(j)
    <3>1. inbox'[j] = inbox[j] /\ broker'[j] = broker[j]
      BY <2>1, <2>2, <2>3
    <3>2. (\E u \in starting' : u.key = j) <=> (\E u \in starting : u.key = j)
      BY <2>1, <2>2, <2>3
    <3>3. Busy(j)' = Busy(j) /\ (Running(j)' <=> Running(j))
      BY <2>1, <2>2, <2>3
    <3>4. QED BY <3>1, <3>2, <3>3, StatusFrame
  <2>5. inbox'[k] # <<>>
    BY <1>1, PushHead DEF Admit, IInv, TypeOK
  <2>6. StatusOf(k)' = StatusOf(k)
    <3>1. CASE inbox[k] = <<>>
      <4>1. [key |-> k, item |-> i] \in starting'
        BY <1>1, <3>1, PushHead DEF Admit, IInv, TypeOK
      <4>2. InFlight(k)'
        BY <4>1 DEF InFlight
      <4>3. Busy(k) = {} /\ Busy(k)' = {}
        BY <2>2, <3>1, EmptyIsFree
      <4>4. QED
        BY <3>1, <4>2, <4>3 DEF StatusOf, Running, Orphaned
    <3>2. CASE inbox[k] # <<>>
      <4>1. starting' = starting
        BY <1>1, <3>2, PushHead DEF Admit, IInv, TypeOK
      <4>2. InFlight(k)' <=> InFlight(k)
        BY <2>1, <2>2, <4>1 DEF InFlight
      <4>3. QED
        BY <2>2, <2>5, <3>2, <4>2 DEF StatusOf, Orphaned
    <3>3. QED BY <3>1, <3>2
  <2>7. st' = st
    BY <2>4, <2>6
  <2>8. QED
    BY <1>1, <2>7 DEF Admit, Serial!Submit
<1>2. ASSUME NEW s \in starting, PublishHead(s) PROVE Stutter
  <2> DEFINE k == s.key
  <2>1. k \in Keys /\ Busy(k) = {}
    BY CallerAlone
  <2>2. UNCHANGED <<inbox, wpc, wkey, log>>
    BY <1>2 DEF PublishHead
  <2>3. \A j \in Keys : Busy(j)' = Busy(j) /\ (Running(j)' <=> Running(j))
    BY <2>2 DEF Busy, Running
  <2>4. \A j \in Keys \ {k} : /\ broker'[j] = broker[j]
                              /\ (\E t \in starting' : t.key = j) <=> (\E t \in starting : t.key = j)
    BY <1>2, <2>1 DEF PublishHead, IInv, TypeOK
  <2>5. ASSUME NEW j \in Keys \ {k} PROVE StatusOf(j)' = StatusOf(j)
    <3>1. inbox'[j] = inbox[j] /\ broker'[j] = broker[j]
      BY <2>2, <2>3, <2>4
    <3>2. (\E u \in starting' : u.key = j) <=> (\E u \in starting : u.key = j)
      BY <2>2, <2>3, <2>4
    <3>3. Busy(j)' = Busy(j) /\ (Running(j)' <=> Running(j))
      BY <2>2, <2>3, <2>4
    <3>4. QED BY <3>1, <3>2, <3>3, StatusFrame
  <2>6. broker'[k] # <<>>
    BY <1>2, <2>1, CallerAlone, PushHead DEF PublishHead, IInv, TypeOK
  <2>7. InFlight(k) /\ InFlight(k)'
    BY <2>6 DEF InFlight
  <2>8. StatusOf(k)' = StatusOf(k)
    BY <2>3, <2>1, <2>7 DEF StatusOf, Orphaned
  <2>9. QED
    BY <2>2, <2>5, <2>8
<1>3. ASSUME NEW s \in starting, CallerLost(s) PROVE Serial!Halt(s.key)
  <2> DEFINE k == s.key
  <2>1. k \in Keys /\ Busy(k) = {} /\ broker[k] = <<>> /\ inbox[k] # <<>>
    BY CallerAlone
  <2>2. UNCHANGED <<inbox, broker, wpc, wkey, log>>
    BY <1>3 DEF CallerLost
  <2>3. \A j \in Keys : Busy(j)' = Busy(j) /\ (Running(j)' <=> Running(j))
    BY <2>2 DEF Busy, Running
  <2>4. \A j \in Keys \ {k} :
          (\E t \in starting' : t.key = j) <=> (\E t \in starting : t.key = j)
    BY <1>3 DEF CallerLost
  <2>5. \A j \in Keys \ {k} : StatusOf(j)' = StatusOf(j)
    BY <2>2, <2>3, <2>4, StatusFrame
  <2>6. \A t \in starting' : t.key # k
    BY <1>3, CallerAlone DEF CallerLost
  <2>7. StatusOf(k) = "idle" /\ StatusOf(k)' = "halted"
    BY <2>1, <2>2, <2>3, <2>6 DEF StatusOf, Running, Orphaned, InFlight
  <2>8. st[k] = "idle" /\ Moves(k, "halted")
    BY <2>1, <2>5, <2>7, <1>a
  <2>9. QED
    BY <2>1, <2>2, <2>8 DEF Serial!Halt
<1>4. ASSUME NEW w \in Workers, NEW k \in Keys, Take(w, k) PROVE Serial!Begin(k)
  <2>1. /\ broker[k] # <<>> /\ Busy(k) = {} /\ wpc[w] = "idle"
        /\ inbox[k] # <<>> /\ Head(inbox[k]) = Head(broker[k])
    BY <1>4 DEF Take, IInv, AtMostOneInFlight, HolderHasHead
  <2>2. UNCHANGED <<inbox, starting>>
    BY <1>4 DEF Take
  <2>3. \A j \in Keys \ {k} : /\ broker'[j] = broker[j]
                              /\ Busy(j)' = Busy(j)
                              /\ Running(j)' <=> Running(j)
    BY <1>4, <2>1 DEF Take, IInv, TypeOK, Busy, Running
  <2>4. ASSUME NEW j \in Keys \ {k} PROVE StatusOf(j)' = StatusOf(j)
    <3>1. inbox'[j] = inbox[j] /\ broker'[j] = broker[j]
      BY <2>2, <2>3
    <3>2. (\E u \in starting' : u.key = j) <=> (\E u \in starting : u.key = j)
      BY <2>2, <2>3
    <3>3. Busy(j)' = Busy(j) /\ (Running(j)' <=> Running(j))
      BY <2>2, <2>3
    <3>4. QED BY <3>1, <3>2, <3>3, StatusFrame
  <2>5. StatusOf(k) = "idle"
    BY <2>1 DEF StatusOf, Running, Orphaned, InFlight
  <2>6. wpc'[w] = "run" /\ wkey'[w] = k
    BY <1>4 DEF Take, IInv, TypeOK
  <2>7. StatusOf(k)' = "running"
    BY <2>6 DEF StatusOf, Running, Busy
  <2>8. st[k] = "idle" /\ Moves(k, "running")
    BY <2>4, <2>5, <2>7, <1>a
  <2>9. log' = [log EXCEPT ![k] = Append(@, Head(inbox[k]))]
    BY <1>4, <2>1 DEF Take
  <2>10. QED
    BY <2>1, <2>2, <2>8, <2>9 DEF Serial!Begin
<1>5. ASSUME NEW w \in Workers, Run(w) \/ Record(w) PROVE Stutter
  <2>1. UNCHANGED <<inbox, starting, broker, wkey, log>> /\ wpc[w] \in {"run", "record"}
    BY <1>5 DEF Run, Record, Goto
  <2>2. PICK step \in {"record", "complete"} : wpc' = [wpc EXCEPT ![w] = step]
    BY <1>5 DEF Run, Record, Goto
  <2>3. Busy(wkey[w]) = {w} /\ Busy(wkey[w])' = {w} /\ wpc'[w] \in {"record", "complete"}
    BY <2>1, <2>2, <1>b, Alone DEF Steps, IInv, TypeOK
  <2>4. Running(wkey[w]) /\ Running(wkey[w])'
    BY <2>1, <2>3 DEF Running
  <2>5. \A j \in Keys : Busy(j)' = Busy(j) /\ (Running(j)' <=> Running(j))
    BY <2>1, <2>2, <2>3, <2>4, <1>b DEF Steps
  <2>6. QED
    BY <2>1, <2>5, StatusFrame
<1>6. ASSUME NEW w \in Workers, Complete(w) PROVE Serial!End(wkey[w])
  <2>0. PICK k \in Keys : k = wkey[w]
    BY <1>6, Alone DEF Complete
  <2>1. /\ wpc[w] = "complete" /\ k \in Keys /\ Busy(k) = {w}
        /\ broker[k] = <<>> /\ \A s \in starting : s.key # k
    BY <2>0, <1>6, Alone DEF Complete
  <2>2. UNCHANGED <<starting, broker, wkey, log>>
    BY <2>0, <1>6 DEF Complete, Goto
  <2>3. inbox[k] # <<>> /\ inbox' = [inbox EXCEPT ![k] = Tail(inbox[k])]
    BY <2>0, <1>6, <2>1 DEF Complete, Pop, IInv, HolderHasHead
  <2>4. PICK step \in {"peek", "idle"} :
          /\ wpc' = [wpc EXCEPT ![w] = step]
          /\ step = "peek" <=> Tail(inbox[k]) # <<>>
    BY <2>0, <1>6, <2>1, <2>3, PopList DEF Complete, Goto, Pop, IInv, TypeOK
  <2>5. /\ \A j \in Keys \ {k} : Busy(j)' = Busy(j) /\ (Running(j)' <=> Running(j))
        /\ step = "idle" => Busy(k)' = {}
        /\ step # "idle" => Busy(k)' = {w}
    BY <2>0, <2>1, <2>2, <2>4, <1>b DEF Steps
  <2>6. \A j \in Keys \ {k} : StatusOf(j)' = StatusOf(j)
    BY <2>0, <2>2, <2>3, <2>5, StatusFrame DEF IInv, TypeOK
  <2>7. StatusOf(k) = "running"
    BY <2>0, <2>1 DEF StatusOf, Running
  <2>8. StatusOf(k)' = "idle"
    <3>1. wpc'[w] = step /\ inbox'[k] = Tail(inbox[k])
      BY <2>0, <2>1, <2>3, <2>4 DEF IInv, TypeOK
    <3>2. QED
      BY <2>0, <2>4, <2>5, <3>1 DEF StatusOf, Running, Orphaned, InFlight
  <2>9. st[k] = "running" /\ Moves(k, "idle")
    BY <2>0, <2>1, <2>6, <2>7, <2>8, <1>a
  <2>10. QED
    BY <2>0, <2>2, <2>3, <2>9 DEF Serial!End
<1>7. ASSUME NEW w \in Workers, NEW step \in {"idle", "publish"},
             wpc[w] # "idle",
             wpc' = [wpc EXCEPT ![w] = step],
             step = "publish" => wpc[w] = "peek",
             UNCHANGED <<inbox, starting, broker, wkey, log>>
      PROVE  Serial!Halt(wkey[w]) \/ Stutter
  <2>0. PICK k \in Keys : k = wkey[w]
    BY <1>7, Alone
  <2>1. /\ k \in Keys /\ Busy(k) = {w}
        /\ broker[k] = <<>> /\ \A s \in starting : s.key # k
    BY <2>0, <1>7, Alone
  <2>2. inbox[k] # <<>>
    BY <2>0, <1>7 DEF IInv, TypeOK, HolderHasHead, Steps
  <2>3. /\ \A j \in Keys \ {k} : Busy(j)' = Busy(j) /\ (Running(j)' <=> Running(j))
        /\ step = "idle" => Busy(k)' = {}
        /\ step # "idle" => Busy(k)' = {w}
    BY <2>0, <1>7, <1>b DEF Steps
  <2>4. \A j \in Keys \ {k} : StatusOf(j)' = StatusOf(j)
    BY <2>0, <1>7, <2>3, StatusFrame
  <2>5. StatusOf(k) \in {"idle", "running"}
    BY <2>0, <2>1 DEF StatusOf, Orphaned, InFlight
  <2>6. CASE step = "idle"
    <3>1. StatusOf(k)' = "halted"
      BY <2>0, <1>7, <2>1, <2>2, <2>3, <2>6 DEF StatusOf, Running, Orphaned, InFlight
    <3>2. st[k] \in {"idle", "running"} /\ Moves(k, "halted")
      BY <2>0, <2>1, <2>4, <2>5, <3>1, <1>a
    <3>3. QED
      BY <2>0, <1>7, <2>2, <3>2 DEF Serial!Halt
  <2>7. CASE step = "publish"
    <3>1. wpc'[w] = "publish" /\ wpc[w] = "peek"
      BY <2>0, <1>7, <2>7 DEF IInv, TypeOK
    <3>2. StatusOf(k) = "idle" /\ StatusOf(k)' = "idle"
      BY <2>0, <2>1, <2>3, <2>7, <3>1 DEF StatusOf, Running, Orphaned, InFlight
    <3>3. QED
      BY <2>0, <1>7, <2>4, <3>2
  <2>8. QED BY <2>0, <2>6, <2>7
<1>8. ASSUME NEW w \in Workers, Peek(w) PROVE Serial!Halt(wkey[w]) \/ Stutter
  <2>1. /\ wpc[w] = "peek"
        /\ UNCHANGED <<inbox, starting, broker, wkey, log>>
        /\ \E step \in {"idle", "publish"} : wpc' = [wpc EXCEPT ![w] = step]
    BY <1>8 DEF Peek, Goto, IsObject
  <2>2. QED BY <1>7, <2>1
<1>9. ASSUME NEW w \in Workers, WorkerLost(w) PROVE Serial!Halt(wkey[w]) \/ Stutter
  <2>1. /\ wpc[w] # "idle"
        /\ UNCHANGED <<inbox, starting, broker, wkey, log>>
        /\ wpc' = [wpc EXCEPT ![w] = "idle"]
    BY <1>9 DEF WorkerLost, Goto
  <2>2. QED BY <1>7, <2>1
<1>10. ASSUME NEW w \in Workers, PublishNext(w) PROVE Stutter
  <2>0. PICK k \in Keys : k = wkey[w]
    BY <1>10, Alone DEF PublishNext
  <2>1. /\ wpc[w] = "publish" /\ k \in Keys /\ Busy(k) = {w} /\ witem[w] \in Items
    BY <2>0, <1>10, Alone DEF PublishNext, IInv, TypeOK
  <2>2. UNCHANGED <<inbox, starting, wkey, log>>
    BY <2>0, <1>10 DEF PublishNext, Goto
  <2>3. /\ \A j \in Keys \ {k} : /\ broker'[j] = broker[j]
                                 /\ Busy(j)' = Busy(j) /\ (Running(j)' <=> Running(j))
        /\ Busy(k)' = {}
    BY <2>0, <1>10, <2>1, <1>b DEF PublishNext, Goto, Steps, IInv, TypeOK
  <2>4. broker'[k] # <<>>
    BY <2>0, <1>10, <2>1, PushHead DEF PublishNext, IInv, TypeOK
  <2>5. \A j \in Keys \ {k} : StatusOf(j)' = StatusOf(j)
    BY <2>0, <2>2, <2>3, StatusFrame
  <2>6. StatusOf(k) = "idle" /\ StatusOf(k)' = "idle"
    BY <2>0, <2>1, <2>3, <2>4 DEF StatusOf, Running, Orphaned, InFlight
  <2>7. QED
    BY <2>0, <2>2, <2>5, <2>6
<1>11. ASSUME NEW w \in Workers, Drop(w) PROVE FALSE
  BY <1>11 DEF Drop, IInv, HolderHasHead
<1>12. ASSUME NEW k \in Keys, NEW i \in Items, ForeignPush(k, i) PROVE FALSE
  BY <1>12 DEF ForeignPush
<1>13. CASE UNCHANGED vars
  BY <1>13 DEF vars, StatusOf, Running, Orphaned, InFlight, Busy
<1>14. ASSUME NEW w \in Workers, wpc[w] # "idle" PROVE wkey[w] \in Keys
  BY <1>14, Alone
<1>15. QED
  <2>1. ASSUME NEW w \in Workers, Step(w) \/ WorkerLost(w) PROVE Serial!Next \/ Stutter
    <3>1. wkey[w] \in Keys
      BY <2>1, <1>14 DEF Step, Run, Record, Complete, Peek, Drop, PublishNext, WorkerLost
    <3>2. QED
      BY <2>1, <3>1, <1>5, <1>6, <1>8, <1>9, <1>10, <1>11 DEF Step, Serial!Next
  <2>2. ASSUME NEW s \in starting, PublishHead(s) \/ CallerLost(s)
        PROVE  Serial!Next \/ Stutter
    BY <2>2, <1>2, <1>3, CallerAlone DEF Serial!Next
  <2>3. QED
    BY <1>1, <1>4, <1>12, <1>13, <2>1, <2>2 DEF Next, Serial!Next

(* Callers of the run queue see the attempts of a key happen one at a time, *)
(* in arrival order and at most once, whatever is lost: the queue, bridge,  *)
(* broker and workers implement SerialExecution.                            *)
THEOREM Refinement == ASSUME Corrupt = {} PROVE Spec => SerialSpec
<1>1. Corrupt = {} /\ IInv /\ IInv' /\ [Next]_vars => [Serial!Next]_(Serial!vars)
  BY RefineStep
<1>2. QED
  BY Invariance, RefineInit, <1>1, PTL DEF Spec, SerialSpec, Serial!Spec

-----------------------------------------------------------------------------
(* What waits, and what is attempted.                                      *)

\* What is in a list.
Within(list, i) == \E n \in 1..Len(list) : list[n] = i

(* What is in a list after a push,                                          *)
LEMMA PushWithin ==
  ASSUME NEW list \in Seq(Items), NEW i \in Items
  PROVE  \A j : Within(Append(list, i), j) <=> Within(list, j) \/ j = i
<1>1. Len(list) \in Nat
  BY LenProperties
<1>2. /\ Len(Append(list, i)) = Len(list) + 1 /\ Append(list, i)[Len(list) + 1] = i
      /\ \A n \in 1..Len(list) : Append(list, i)[n] = list[n]
  BY AppendProperties
<1>3. 1..(Len(list) + 1) = 1..Len(list) \cup {Len(list) + 1}
  BY <1>1
<1>4. QED
  BY <1>2, <1>3 DEF Within

(* and after a pop.                                                         *)
LEMMA PopWithin ==
  ASSUME NEW list \in Seq(Items)
  PROVE  /\ \A j : Within(Pop(list), j) => Within(list, j)
         /\ list # <<>> => Within(list, Head(list))
<1>1. Len(list) \in Nat
  BY LenProperties
<1>2. CASE list # <<>>
  <2>1. /\ Head(list) = list[1] /\ Len(list) >= 1 /\ Len(Tail(list)) = Len(list) - 1
        /\ \A n \in 1..Len(Tail(list)) : Tail(list)[n] = list[n + 1]
    BY <1>1, <1>2, EmptySeq, HeadTailProperties
  <2>2. 1 \in 1..Len(list) /\ \A n \in 1..Len(Tail(list)) : n + 1 \in 1..Len(list)
    BY <1>1, <2>1
  <2>3. QED
    BY <1>2, <2>1, <2>2 DEF Within, Pop
<1>3. QED
  BY <1>2 DEF Pop

\* Every entry of a list has been pushed.
Pushed == \A k \in Keys : \A i : Within(inbox[k], i) => Within(arrivals[k], i)

LEMMA PushedStep == TypeOK /\ Pushed /\ [Next]_vars => Pushed'
<1> SUFFICES ASSUME TypeOK, Pushed, [Next]_vars, NEW j \in Keys
             PROVE  \A i : Within(inbox[j], i)' => Within(arrivals[j], i)'
  BY DEF Pushed
<1>1. inbox \in [Keys -> Seq(Items)] /\ arrivals \in [Keys -> Seq(Items)]
  BY DEF TypeOK
<1>2. /\ inbox[j] \in Seq(Items) /\ arrivals[j] \in Seq(Items)
      /\ \A i : Within(inbox[j], i) => Within(arrivals[j], i)
  BY <1>1 DEF Pushed
<1>3. ASSUME NEW x \in {inbox[j], Pop(inbox[j])}, inbox'[j] = x, arrivals' = arrivals
      PROVE  \A i : Within(inbox[j], i)' => Within(arrivals[j], i)'
  <2>1. \A i : Within(x, i) => Within(inbox[j], i)
    BY <1>2, <1>3, PopWithin
  <2>2. QED
    BY <1>2, <1>3, <2>1
<1>4. ASSUME NEW k \in Keys, NEW i \in Items, Admit(k, i) \/ ForeignPush(k, i)
      PROVE  \A n : Within(inbox[j], n)' => Within(arrivals[j], n)'
  <2>1. /\ inbox' = [inbox EXCEPT ![k] = Append(@, i)]
        /\ arrivals' = [arrivals EXCEPT ![k] = Append(@, i)]
    BY <1>4 DEF Admit, ForeignPush
  <2>2. CASE j = k
    <3>1. inbox'[j] = Append(inbox[j], i) /\ arrivals'[j] = Append(arrivals[j], i)
      BY <1>1, <2>1, <2>2
    <3>2. QED
      BY <1>2, <3>1, PushWithin
  <2>3. CASE j # k
    BY <1>1, <1>2, <2>1, <2>3
  <2>4. QED
    BY <2>2, <2>3
<1>5. ASSUME NEW w \in Workers, Complete(w) \/ Drop(w)
      PROVE  \A i : Within(inbox[j], i)' => Within(arrivals[j], i)'
  <2>1. arrivals' = arrivals /\ inbox' = [inbox EXCEPT ![wkey[w]] = Pop(inbox[wkey[w]])]
    BY <1>5 DEF Complete, Drop
  <2>2. inbox'[j] \in {inbox[j], Pop(inbox[j])}
    BY <1>1, <2>1
  <2>3. QED
    BY <1>3, <2>1, <2>2
<1>6. CASE UNCHANGED <<inbox, arrivals>>
  BY <1>3, <1>6
<1>7. \/ UNCHANGED <<inbox, arrivals>>
      \/ \E k \in Keys, i \in Items : Admit(k, i) \/ ForeignPush(k, i)
      \/ \E w \in Workers : Complete(w) \/ Drop(w)
  BY DEF Next, Step, vars, PublishHead, CallerLost, Take, Run, Record, Peek, PublishNext, WorkerLost
<1>8. QED
  BY <1>4, <1>5, <1>6, <1>7

\* A blank item has been pushed for k.
BlankPushed(k) == \E i \in Blank : Within(arrivals[k], i)

\* Whatever waits has somebody who answers for it, or a blank item before it.
Answered == faults = 0 => \A k \in Keys : inbox[k] = <<>> \/ InFlight(k) \/ BlankPushed(k)

LEMMA AnsweredMeans == TypeOK => (Answered <=> NeverOrphaned)
  BY DEF Answered, NeverOrphaned, Orphaned, BlankPushed, Within

(* Before the first fault the responsibility for a key is handed on, by the *)
(* push that finds the list empty and by the pop that leaves it so.         *)
LEMMA AnsweredStep ==
  Corrupt = {} /\ IInv /\ Pushed /\ Answered /\ [Next]_vars => Answered'
<1> SUFFICES ASSUME Corrupt = {}, IInv, Pushed, Answered, [Next]_vars, faults' = 0, NEW j \in Keys
             PROVE  inbox'[j] = <<>> \/ InFlight(j)' \/ BlankPushed(j)'
  BY DEF Answered
<1>1. TypeOK /\ AtMostOneInFlight /\ HolderHasHead /\ faults \in Nat
  BY FaultAssumption DEF IInv, TypeOK
<1>2. /\ inbox \in [Keys -> Seq(Items)] /\ arrivals \in [Keys -> Seq(Items)]
      /\ broker \in [Keys -> Seq(Items)] /\ wpc \in [Workers -> Steps]
      /\ wkey \in [Workers -> Keys \cup {None}]
      /\ \A w \in Workers : wpc[w] # "idle" => wkey[w] \in Keys
  BY <1>1 DEF TypeOK
<1>3. ~Fault /\ faults = 0
  <2>1. faults' # faults + 1
    BY <1>1
  <2>2. ~Fault
    BY <2>1 DEF Fault
  <2>3. faults' = faults
    BY <2>2 DEF Next, Step, vars, Admit, ForeignPush, PublishHead, CallerLost, Take, Run, Record,
                Complete, Peek, Drop, PublishNext, WorkerLost
  <2>4. QED
    BY <2>2, <2>3
<1>4. inbox[j] = <<>> \/ InFlight(j) \/ BlankPushed(j)
  BY <1>3 DEF Answered
<1>5. BlankPushed(j) => BlankPushed(j)'
  <2>1. CASE arrivals' = arrivals
    BY <2>1 DEF BlankPushed
  <2>2. ASSUME NEW k \in Keys, NEW i \in Items, arrivals' = [arrivals EXCEPT ![k] = Append(@, i)]
        PROVE  BlankPushed(j) => BlankPushed(j)'
    <3>1. arrivals'[j] = arrivals[j] \/ arrivals'[j] = Append(arrivals[j], i)
      BY <1>2, <2>2
    <3>2. \A n : Within(arrivals[j], n) => Within(Append(arrivals[j], i), n)
      BY <1>2, PushWithin
    <3>3. QED
      BY <3>1, <3>2 DEF BlankPushed
  <2>3. \/ arrivals' = arrivals
        \/ \E k \in Keys, i \in Items : arrivals' = [arrivals EXCEPT ![k] = Append(@, i)]
    BY DEF Next, Step, vars, Admit, ForeignPush, PublishHead, CallerLost, Take, Run, Record,
           Complete, Peek, Drop, PublishNext, WorkerLost
  <2>4. QED
    BY <2>1, <2>2, <2>3
<1>6. ASSUME inbox'[j] = <<>> \/ inbox[j] # <<>>, InFlight(j) => InFlight(j)'
      PROVE  inbox'[j] = <<>> \/ InFlight(j)' \/ BlankPushed(j)'
  BY <1>4, <1>5, <1>6
<1>7. ASSUME NEW k \in Keys, NEW i \in Items, Admit(k, i)
      PROVE  inbox'[j] = <<>> \/ InFlight(j)' \/ BlankPushed(j)'
  <2>1. starting \subseteq starting' /\ UNCHANGED <<broker, wpc, wkey>>
    BY <1>7 DEF Admit
  <2>2. InFlight(j) => InFlight(j)'
    BY <2>1 DEF InFlight, Busy
  <2>3. CASE j = k /\ inbox[j] = <<>>
    <3>1. [key |-> j, item |-> i] \in starting'
      BY <1>2, <1>7, <2>3, PushHead DEF Admit
    <3>2. QED
      BY <3>1 DEF InFlight
  <2>4. CASE j # k \/ inbox[j] # <<>>
    <3>1. inbox'[j] = <<>> \/ inbox[j] # <<>>
      BY <1>2, <1>7, <2>4 DEF Admit
    <3>2. QED
      BY <1>6, <2>2, <3>1
  <2>5. QED
    BY <2>3, <2>4
<1>8. ASSUME NEW s \in starting, PublishHead(s)
      PROVE  inbox'[j] = <<>> \/ InFlight(j)' \/ BlankPushed(j)'
  <2>1. /\ inbox' = inbox /\ UNCHANGED <<wpc, wkey>> /\ starting' = starting \ {s}
        /\ broker' = [broker EXCEPT ![s.key] = Append(@, s.item)]
    BY <1>8 DEF PublishHead
  <2>2. s.key \in Keys /\ s.item \in Items
    BY <1>1 DEF TypeOK
  <2>3. CASE j = s.key
    <3>1. broker'[j] # <<>>
      BY <1>2, <2>1, <2>2, <2>3, PushHead
    <3>2. QED
      BY <3>1 DEF InFlight
  <2>4. CASE j # s.key
    <3>1. broker'[j] = broker[j]
      BY <1>2, <2>1, <2>4
    <3>2. QED
      BY <1>6, <2>1, <2>4, <3>1 DEF InFlight, Busy
  <2>5. QED
    BY <2>3, <2>4
<1>9. ASSUME NEW w \in Workers, NEW k \in Keys, Take(w, k)
      PROVE  inbox'[j] = <<>> \/ InFlight(j)' \/ BlankPushed(j)'
  <2>1. /\ inbox' = inbox /\ starting' = starting /\ wpc[w] = "idle"
        /\ broker' = [broker EXCEPT ![k] = Tail(@)]
        /\ wpc' = [wpc EXCEPT ![w] = "run"] /\ wkey' = [wkey EXCEPT ![w] = k]
    BY <1>9 DEF Take
  <2>2. CASE j = k
    <3>1. w \in Busy(j)'
      BY <1>2, <2>1, <2>2 DEF Busy
    <3>2. QED
      BY <3>1 DEF InFlight
  <2>3. CASE j # k
    <3>1. broker'[j] = broker[j] /\ Busy(j) \subseteq Busy(j)'
      BY <1>2, <2>1, <2>3 DEF Busy
    <3>2. QED
      BY <1>6, <2>1, <3>1 DEF InFlight
  <2>4. QED
    BY <2>2, <2>3
<1>10. ASSUME NEW w \in Workers, NEW step \in Steps \ {"idle"}, wpc[w] # "idle",
              wpc' = [wpc EXCEPT ![w] = step], wkey' = wkey, broker' = broker,
              starting' = starting
       PROVE  InFlight(j) => InFlight(j)'
  <2>1. Busy(j) \subseteq Busy(j)'
    BY <1>2, <1>10 DEF Busy
  <2>2. QED
    BY <1>10, <2>1 DEF InFlight
<1>11. ASSUME NEW w \in Workers, wpc[w] # "idle", wpc' = [wpc EXCEPT ![w] = "idle"], wkey' = wkey,
              wkey[w] # j, broker'[j] = broker[j], starting' = starting
       PROVE  InFlight(j) => InFlight(j)'
  <2>1. Busy(j) \subseteq Busy(j)'
    BY <1>2, <1>11 DEF Busy
  <2>2. QED
    BY <1>11, <2>1 DEF InFlight
<1>12. ASSUME NEW w \in Workers, Run(w) \/ Record(w)
       PROVE  inbox'[j] = <<>> \/ InFlight(j)' \/ BlankPushed(j)'
  <2>1. /\ inbox' = inbox /\ starting' = starting /\ broker' = broker /\ wkey' = wkey
        /\ wpc[w] # "idle"
        /\ \E step \in {"complete", "record"} : wpc' = [wpc EXCEPT ![w] = step]
    BY <1>12 DEF Run, Record, Goto
  <2>2. {"complete", "record"} \subseteq Steps \ {"idle"}
    BY DEF Steps
  <2>3. QED
    BY <1>6, <1>10, <2>1, <2>2
<1>13. ASSUME NEW w \in Workers, Complete(w)
       PROVE  inbox'[j] = <<>> \/ InFlight(j)' \/ BlankPushed(j)'
  <2> DEFINE left == Pop(inbox[wkey[w]])
  <2>1. /\ wkey[w] \in Keys /\ wpc[w] = "complete" /\ starting' = starting /\ broker' = broker
        /\ wkey' = wkey /\ inbox' = [inbox EXCEPT ![wkey[w]] = left]
        /\ wpc' = [wpc EXCEPT ![w] = IF ShouldChain(Len(left)) THEN "peek" ELSE "idle"]
    BY <1>2, <1>13 DEF Complete, Goto
  <2>2. ShouldChain(Len(left)) <=> left # <<>>
    BY <1>2, <2>1, PopList
  <2> HIDE DEF left
  <2>3. CASE wkey[w] = j
    <3>1. CASE left = <<>>
      BY <1>2, <2>1, <2>3, <3>1
    <3>2. CASE left # <<>>
      <4>1. w \in Busy(j)'
        BY <1>2, <2>1, <2>2, <2>3, <3>2 DEF Busy
      <4>2. QED
        BY <4>1 DEF InFlight
    <3>3. QED
      BY <3>1, <3>2
  <2>4. CASE wkey[w] # j
    <3>1. inbox'[j] = inbox[j]
      BY <1>2, <2>1, <2>4
    <3>2. Busy(j) \subseteq Busy(j)'
      BY <1>2, <2>1, <2>4 DEF Busy
    <3>3. QED
      BY <1>6, <2>1, <3>1, <3>2 DEF InFlight
  <2>5. QED
    BY <2>3, <2>4
<1>14. ASSUME NEW w \in Workers, Peek(w)
       PROVE  inbox'[j] = <<>> \/ InFlight(j)' \/ BlankPushed(j)'
  <2>1. /\ wkey[w] \in Keys /\ wpc[w] = "peek" /\ starting' = starting /\ broker' = broker
        /\ wkey' = wkey /\ inbox' = inbox /\ inbox[wkey[w]] # <<>>
    BY <1>1, <1>2, <1>14 DEF Peek, Goto, HolderHasHead
  <2> DEFINE head == Head(inbox[wkey[w]])
  <2>2. /\ head \in Items /\ Within(inbox[wkey[w]], head)
    BY <1>2, <2>1, PopList, PopWithin
  <2>3. \/ wpc' = [wpc EXCEPT ![w] = "publish"]
        \/ head \in Blank /\ wpc' = [wpc EXCEPT ![w] = "idle"]
    BY <1>14, <2>1 DEF Peek, Goto, IsObject
  <2> HIDE DEF head
  <2>4. CASE wpc' = [wpc EXCEPT ![w] = "publish"]
    <3>1. "publish" \in Steps \ {"idle"}
      BY DEF Steps
    <3>2. QED
      BY <1>6, <1>10, <2>1, <2>4, <3>1
  <2>5. CASE head \in Blank /\ wpc' = [wpc EXCEPT ![w] = "idle"] /\ wkey[w] = j
    <3>1. Within(arrivals[j], head)
      BY <2>1, <2>2, <2>5 DEF Pushed
    <3>2. QED
      BY <1>5, <2>5, <3>1 DEF BlankPushed
  <2>6. CASE wpc' = [wpc EXCEPT ![w] = "idle"] /\ wkey[w] # j
    BY <1>6, <1>11, <2>1, <2>6
  <2>7. QED
    BY <2>3, <2>4, <2>5, <2>6
<1>15. ASSUME NEW w \in Workers, PublishNext(w)
       PROVE  inbox'[j] = <<>> \/ InFlight(j)' \/ BlankPushed(j)'
  <2>1. /\ wkey[w] \in Keys /\ wpc[w] = "publish" /\ starting' = starting /\ inbox' = inbox
        /\ wkey' = wkey /\ wpc' = [wpc EXCEPT ![w] = "idle"] /\ witem[w] \in Items
        /\ broker' = [broker EXCEPT ![wkey[w]] = Append(@, witem[w])]
    BY <1>1, <1>2, <1>15 DEF PublishNext, Goto, TypeOK
  <2>2. CASE wkey[w] = j
    <3>1. broker'[j] # <<>>
      BY <1>2, <2>1, <2>2, PushHead
    <3>2. QED
      BY <3>1 DEF InFlight
  <2>3. CASE wkey[w] # j
    <3>1. broker'[j] = broker[j]
      BY <1>2, <2>1, <2>3
    <3>2. QED
      BY <1>6, <1>11, <2>1, <2>3, <3>1
  <2>4. QED
    BY <2>2, <2>3
<1>16. CASE UNCHANGED vars
  BY <1>6, <1>16 DEF vars, InFlight, Busy
<1>17. /\ \A k \in Keys, i \in Items : ~ForeignPush(k, i)
       /\ \A s \in starting : ~CallerLost(s)
       /\ \A w \in Workers : ~Drop(w) /\ ~WorkerLost(w)
  BY <1>1, <1>3 DEF ForeignPush, CallerLost, Drop, WorkerLost, HolderHasHead
<1>18. QED
  BY <1>7, <1>8, <1>9, <1>12, <1>13, <1>14, <1>15, <1>16, <1>17, Zenon DEF Next, Step

(* Without a fault and a blank payload, what waits is never without a task  *)
(* that will come to it: no admission slips between the pop that drains a   *)
(* list and the decision not to chain.                                      *)
THEOREM NobodyOrphaned == ASSUME Corrupt = {} PROVE Spec => []NeverOrphaned
<1>1. Init => Pushed /\ Answered
  BY EmptySeq DEF Init, Pushed, Answered, Within
<1>2. IInv /\ Pushed /\ Answered /\ [Next]_vars => Pushed' /\ Answered'
  BY PushedStep, AnsweredStep DEF IInv
<1>3. IInv /\ Answered => NeverOrphaned
  BY AnsweredMeans DEF IInv
<1>4. QED
  BY <1>1, <1>2, <1>3, Invariance, PTL DEF Spec

\* Whoever is going to publish, has published or attempted, had an object.
Sound ==
  /\ \A s \in starting : s.item \notin Corrupt
  /\ \A w \in Workers : wpc[w] = "publish" => witem[w] \notin Corrupt
  /\ \A k \in Keys : \A i \in Corrupt : ~Within(broker[k], i) /\ ~Within(log[k], i)

LEMMA SoundStep == TypeOK /\ Sound /\ [Next]_vars => Sound'
<1> SUFFICES ASSUME TypeOK, Sound, [Next]_vars
             PROVE  Sound'
  OBVIOUS
<1>1. /\ broker \in [Keys -> Seq(Items)] /\ log \in [Keys -> Seq(Items)]
      /\ wpc \in [Workers -> Steps] /\ witem \in [Workers -> Items \cup {None}]
      /\ starting \subseteq [key : Keys, item : Items]
      /\ \A w \in Workers : wpc[w] = "publish" => witem[w] \in Items /\ wkey[w] \in Keys
      /\ \A k \in Keys : \A i \in Corrupt : ~Within(broker[k], i) /\ ~Within(log[k], i)
  BY DEF TypeOK, Sound
<1>2. ASSUME NEW k \in Keys, NEW i \in Items \ Corrupt, broker' = [broker EXCEPT ![k] = Append(@, i)]
      PROVE  \A j \in Keys : \A n \in Corrupt : ~Within(broker[j], n)'
  <2>1. \A j \in Keys : broker'[j] = IF j = k THEN Append(broker[k], i) ELSE broker[j]
    BY <1>1, <1>2
  <2>2. \A n : Within(Append(broker[k], i), n) <=> Within(broker[k], n) \/ n = i
    BY <1>1, PushWithin
  <2>3. QED
    BY <1>1, <1>2, <2>1, <2>2
<1>3. ASSUME NEW k \in Keys, NEW i \in Items, Admit(k, i)
      PROVE  Sound'
  <2>1. /\ i \notin Corrupt /\ UNCHANGED <<broker, wpc, witem, log>>
        /\ starting' \subseteq starting \cup {[key |-> k, item |-> i]}
    BY <1>3 DEF Admit
  <2>2. QED
    BY <2>1 DEF Sound
<1>4. ASSUME NEW s \in starting, PublishHead(s)
      PROVE  Sound'
  <2>1. /\ s.key \in Keys /\ s.item \in Items \ Corrupt /\ UNCHANGED <<wpc, witem, log>>
        /\ starting' = starting \ {s}
        /\ broker' = [broker EXCEPT ![s.key] = Append(@, s.item)]
    BY <1>1, <1>4 DEF PublishHead, Sound
  <2>2. \A j \in Keys : \A n \in Corrupt : ~Within(broker[j], n)'
    BY <1>2, <2>1
  <2>3. QED
    BY <2>1, <2>2 DEF Sound
<1>5. ASSUME NEW w \in Workers, NEW k \in Keys, Take(w, k)
      PROVE  Sound'
  <2>1. /\ broker[k] # <<>> /\ broker' = [broker EXCEPT ![k] = Tail(@)]
        /\ wpc' = [wpc EXCEPT ![w] = "run"] /\ witem' = [witem EXCEPT ![w] = Head(broker[k])]
        /\ log' = [log EXCEPT ![k] = Append(@, Head(broker[k]))] /\ starting' = starting
    BY <1>5 DEF Take
  <2> DEFINE head == Head(broker[k])
             rest == Pop(broker[k])
  <2>2. /\ head \in Items /\ Within(broker[k], head) /\ rest = Tail(broker[k])
        /\ \A i : Within(rest, i) => Within(broker[k], i)
    BY <1>1, <2>1, PopList, PopWithin DEF Pop
  <2>3. head \notin Corrupt
    BY <1>1, <2>2
  <2>4. \A i : Within(Append(log[k], head), i) <=> Within(log[k], i) \/ i = head
    BY <1>1, <2>2, PushWithin
  <2> HIDE DEF rest, head
  <2>5. \A j \in Keys : broker'[j] = IF j = k THEN rest ELSE broker[j]
    BY <1>1, <2>1, <2>2
  <2>6. \A j \in Keys : log'[j] = IF j = k THEN Append(log[k], head) ELSE log[j]
    BY <1>1, <2>1 DEF head
  <2>7. \A j \in Keys : \A i \in Corrupt : ~Within(broker[j], i)' /\ ~Within(log[j], i)'
    BY <1>1, <2>2, <2>3, <2>4, <2>5, <2>6
  <2>8. \A v \in Workers : wpc'[v] = "publish" => wpc[v] = "publish" /\ witem'[v] = witem[v]
    BY <1>1, <2>1
  <2>9. QED
    BY <2>1, <2>7, <2>8 DEF Sound
<1>6. ASSUME NEW w \in Workers, Peek(w)
      PROVE  Sound'
  <2>1. /\ starting' = starting /\ broker' = broker /\ log' = log
        /\ \/ /\ witem' = witem
              /\ wpc' = [wpc EXCEPT ![w] = "idle"] \/ wpc' = [wpc EXCEPT ![w] = "drop"]
           \/ /\ wpc' = [wpc EXCEPT ![w] = "publish"]
              /\ IsObject(Head(inbox[wkey[w]]))
              /\ witem' = [witem EXCEPT ![w] = Head(inbox[wkey[w]])]
    BY <1>6 DEF Peek, Goto
  <2>2. \A v \in Workers : wpc'[v] = "publish" => witem'[v] \notin Corrupt
    BY <1>1, <2>1 DEF Sound, IsObject
  <2>3. QED
    BY <2>1, <2>2 DEF Sound
<1>7. ASSUME NEW w \in Workers, PublishNext(w)
      PROVE  Sound'
  <2>1. /\ wpc[w] = "publish" /\ starting' = starting /\ log' = log /\ witem' = witem
        /\ wpc' = [wpc EXCEPT ![w] = "idle"]
        /\ broker' = [broker EXCEPT ![wkey[w]] = Append(@, witem[w])]
    BY <1>7 DEF PublishNext, Goto
  <2>2. wkey[w] \in Keys /\ witem[w] \in Items \ Corrupt
    BY <1>1, <2>1 DEF Sound
  <2>3. \A j \in Keys : \A n \in Corrupt : ~Within(broker[j], n)'
    BY <1>2, <2>1, <2>2
  <2>4. \A v \in Workers : wpc'[v] = "publish" => wpc[v] = "publish"
    BY <1>1, <2>1
  <2>5. QED
    BY <2>1, <2>3, <2>4 DEF Sound
<1>8. ASSUME starting' \subseteq starting, broker' = broker, log' = log, witem' = witem,
             \/ wpc' = wpc
             \/ \E w \in Workers, step \in Steps \ {"publish"} : wpc' = [wpc EXCEPT ![w] = step]
      PROVE  Sound'
  <2>1. \A v \in Workers : wpc'[v] = "publish" => wpc[v] = "publish"
    BY <1>1, <1>8
  <2>2. QED
    BY <1>8, <2>1 DEF Sound
<1>9. ASSUME NEW w \in Workers, Run(w) \/ Record(w) \/ Complete(w) \/ Drop(w) \/ WorkerLost(w)
       PROVE  Sound'
  <2>1. /\ starting' = starting /\ broker' = broker /\ log' = log /\ witem' = witem
        /\ \E step \in {"complete", "record", "peek", "idle"} : wpc' = [wpc EXCEPT ![w] = step]
    BY <1>9 DEF Run, Record, Complete, Drop, WorkerLost, Goto
  <2>2. {"complete", "record", "peek", "idle"} \subseteq Steps \ {"publish"}
    BY DEF Steps
  <2>3. QED
    BY <1>8, <2>1, <2>2
<1>10. CASE \/ \E k \in Keys, i \in Items : ForeignPush(k, i)
            \/ \E s \in starting : CallerLost(s)
            \/ UNCHANGED vars
  BY <1>8, <1>10 DEF ForeignPush, CallerLost, vars
<1>11. QED
  BY <1>3, <1>4, <1>5, <1>6, <1>7, <1>9, <1>10, Zenon DEF Next, Step

(* What is in a list and does not decode to an object is never attempted,   *)
(* whoever writes it there and whenever: peek_head drops it.                *)
THEOREM CorruptDropped == Spec => []CorruptNeverAttempted
<1>1. Init => Sound
  BY EmptySeq DEF Init, Sound, Within
<1>2. TypeOK /\ Sound => CorruptNeverAttempted
  BY DEF Sound, CorruptNeverAttempted, Within
<1>3. QED
  BY <1>1, <1>2, SoundStep, TypeCorrect, PTL DEF Spec

-----------------------------------------------------------------------------
(* The transition service and its audit trail.                             *)

\* How many commands of its request transaction t has applied.
Applied(t) == Len(t.sent) - Len(t.todo)

Request(t) ==
  /\ t.sent # <<>>
  /\ Careful(t.sent)
  /\ Len(t.todo) <= Len(t.sent)
  /\ \A i \in DOMAIN t.todo : t.todo[i] = t.sent[Applied(t) + i]

\* t goes on from its row, in the columns in which the next step relies on it.
GoesOn(t) ==
  /\ StartsFromRow(t.sent, Applied(t) + 1, t.sent[1].fromStatus)
       => t.current.status = t.row.status
  /\ StartsFromRow(t.sent, Applied(t) + 1, t.sent[1].fromSub)
       => t.current.sub = t.row.sub

\* Until its first transition t has not changed the row r it has locked.
Untouched(t, r) ==
  /\ t.locked = View(r)
  /\ (\A i \in 1..Applied(t) : IsSnapshot(t.sent[i].type)) => t.row = r

AsksReview(r) == \E n \in DOMAIN r : r[n].status = "pending_review"

\* t has not moved the sub-status and left the row waiting for a review.
Resumed(t, r) ==
  t.row.sub # r.sub /\ t.row.status = "pending_review"
    => t.pause # Unset \/ AsksReview(t.sent)

\* What t has written carries the pause of its request.
Carried(t) == t.wrote => t.row.pause = t.pause

Good(t, r) ==
  /\ Request(t) /\ GoesOn(t) /\ Untouched(t, r)
  /\ Resumed(t, r) /\ Carried(t) /\ Tells(t.log, t.row)

LogInv ==
  /\ LogTypeOK
  /\ Tells(trail, row)
  /\ holder # Idle => Good(tx, row)

-----------------------------------------------------------------------------
(* The pure part.                                                          *)

(* A set of positions that is not empty has a least one.                    *)
LEMMA LeastPosition ==
  ASSUME NEW S \in SUBSET Nat, S # {}
  PROVE  \E n \in S : \A m \in S : n <= m
<1> DEFINE Less == {p \in Nat \X Nat : p[1] < p[2]}
<1>1. OpToRel(<, Nat) = Less
  BY DEF OpToRel
<1>2. IsWellFoundedOn(Less, Nat)
  BY <1>1, NatLessThanWellFounded
<1> HIDE DEF Less
<1>3. PICK n \in S : \A m \in S : ~(<<m, n>> \in Less)
  BY <1>2, WFMin
<1>4. \A m \in S : ~(m < n)
  BY <1>3 DEF Less
<1>5. QED
  BY <1>4

(* The pause of a request is that of one of its commands, or system_error.  *)
LEMMA PauseType ==
  ASSUME NEW r \in Seq(Commands(Subs))
  PROVE  PauseOf(r) \in PauseTypes \cup {Unset}
<1> DEFINE failures == {n \in DOMAIN r : r[n].type = "exception"}
           named == {n \in failures : r[n].pause # Unset}
           first == CHOOSE n \in named : \A m \in named : n <= m
<1>1. named \subseteq Nat /\ named \subseteq DOMAIN r
  <2>1. DOMAIN r = 1..Len(r) /\ Len(r) \in Nat
    BY LenProperties
  <2>2. QED
    BY <2>1
<1>2. CASE named = {}
  <2>1. PauseOf(r) \in {Unset, "system_error"}
    BY <1>2 DEF PauseOf
  <2>2. QED
    BY <2>1 DEF PauseTypes
<1>3. CASE named # {}
  <2>1. \E n \in named : \A m \in named : n <= m
    BY <1>1, <1>3, LeastPosition
  <2>2. first \in named
    BY <2>1
  <2>3. r[first] \in Commands(Subs)
    BY <1>1, <2>2, ElementOfSeq, LenProperties
  <2>4. PauseOf(r) = r[first].pause
    BY <1>3 DEF PauseOf
  <2>5. r[first].pause \in PauseTypes \cup {Unset}
    BY <2>3 DEF Commands
  <2>6. QED
    BY <2>4, <2>5
<1>4. QED
  BY <1>2, <1>3

(* A log that grows by a note tells what it told.                           *)
LEMMA TellsNote ==
  ASSUME NEW l \in Seq(Entries), NEW e \in Entries, ~IsTransition(e), NEW r, Tells(l, r)
  PROVE  Tells(Append(l, e), r)
<1> DEFINE a == Append(l, e)
<1>1. /\ Len(l) \in Nat
      /\ Len(a) = Len(l) + 1
      /\ DOMAIN a = 1..(Len(l) + 1)
      /\ DOMAIN l = 1..Len(l)
      /\ \A i \in 1..Len(l) : a[i] = l[i]
      /\ a[Len(l) + 1] = e
  BY AppendProperties, LenProperties
<1>2. SUFFICES ASSUME NEW n \in DOMAIN a, LastOf(a, n, IsTransition)
               PROVE  a[n].after = View(r)
  BY DEF Tells
<1>3. IsTransition(a[n]) /\ \A m \in DOMAIN a : m > n => ~IsTransition(a[m])
  BY <1>2 DEF LastOf
<1>4. n \in 1..Len(l)
  BY <1>1, <1>3
<1>5. n \in DOMAIN l /\ IsTransition(l[n]) /\ \A m \in DOMAIN l : m > n => ~IsTransition(l[m])
  BY <1>1, <1>3, <1>4
<1>6. LastOf(l, n, IsTransition)
  BY <1>5 DEF LastOf
<1>7. l[n].after = View(r)
  BY <1>5, <1>6 DEF Tells
<1>8. QED
  BY <1>1, <1>4, <1>7

(* A log that grows by a transition tells where it went.                    *)
LEMMA TellsMove ==
  ASSUME NEW l \in Seq(Entries), NEW e \in Entries, IsTransition(e), NEW r, e.after = View(r)
  PROVE  Tells(Append(l, e), r)
<1> DEFINE a == Append(l, e)
<1>1. /\ Len(l) \in Nat
      /\ DOMAIN a = 1..(Len(l) + 1)
      /\ a[Len(l) + 1] = e
  BY AppendProperties, LenProperties
<1>2. SUFFICES ASSUME NEW n \in DOMAIN a, LastOf(a, n, IsTransition)
               PROVE  a[n].after = View(r)
  BY DEF Tells
<1>3. \A m \in DOMAIN a : m > n => ~IsTransition(a[m])
  BY <1>2 DEF LastOf
<1>4. n = Len(l) + 1
  BY <1>1, <1>3
<1>5. QED
  BY <1>1, <1>4

-----------------------------------------------------------------------------
(* Opening a transaction, and one step of it.                              *)

(* A view of a row is a view, and what OrElse gives is a column.            *)
LEMMA RowView ==
  ASSUME NEW r \in Rows
  PROVE  View(r) \in Views
BY DEF Rows, View, Views

(* A transaction that has applied nothing is well typed and good.           *)
LEMMA OpenGood ==
  ASSUME NEW n \in Nat, NEW r \in Rows, NEW l \in Seq(Entries), Tells(l, r),
         NEW s \in Seq(Commands(Subs)), s # <<>>, Careful(s)
  PROVE  /\ Open(n, r, l, s) \in Transactions
         /\ Good(Open(n, r, l, s), r)
<1> DEFINE t == Open(n, r, l, s)
<1>1. /\ Len(s) \in Nat /\ Len(s) >= 1
      /\ DOMAIN s = 1..Len(s)
      /\ Head(s) = s[1] /\ s[1] \in Commands(Subs)
  BY LenProperties, EmptySeq, ElementOfSeq, HeadTailProperties
<1>2. /\ t.number = n /\ t.locked = View(r) /\ t.row = r
      /\ t.current = Current(s[1], r) /\ t.log = l
      /\ t.pause = PauseOf(s) /\ t.wrote = FALSE
      /\ t.sent = s /\ t.todo = s
  BY <1>1 DEF Open
<1>3. Current(s[1], r) \in Views
  BY <1>1, RowView DEF Current, OrElse, Views, Commands, Rows
<1>4. t \in Transactions
  BY <1>1, <1>3, PauseType, RowView DEF Open, Transactions
<1>5. Applied(t) = 0
  BY <1>1, <1>2 DEF Applied
<1>6. Request(t)
  BY <1>1, <1>2, <1>5 DEF Request
<1>7. GoesOn(t)
  <2>1. IsSnapshot(s[1].type) => Current(s[1], r) = View(r)
    BY DEF Current
  <2>2. ~IsSnapshot(s[1].type) =>
          /\ s[1].fromStatus = Unset => Current(s[1], r).status = r.status
          /\ s[1].fromSub = Unset => Current(s[1], r).sub = r.sub
    BY DEF Current, OrElse
  <2>3. QED
    BY <1>2, <2>1, <2>2 DEF GoesOn, StartsFromRow, View
<1>8. Untouched(t, r) /\ Resumed(t, r) /\ Carried(t)
  BY <1>2 DEF Untouched, Resumed, Carried
<1>9. QED
  BY <1>2, <1>4, <1>6, <1>7, <1>8 DEF Good

(* The command applied next, and the request once it is applied.            *)
LEMMA NextCommand ==
  ASSUME NEW t \in Transactions, Request(t), t.todo # <<>>,
         NEW u \in Transactions, u.sent = t.sent, u.todo = Tail(t.todo)
  PROVE  /\ Head(t.todo) \in Commands(Subs)
         /\ Applied(t) \in Nat
         /\ Applied(t) + 1 \in DOMAIN t.sent
         /\ Head(t.todo) = t.sent[Applied(t) + 1]
         /\ Applied(u) = Applied(t) + 1
         /\ Request(u)
<1>1. /\ t.todo \in Seq(Commands(Subs)) /\ t.sent \in Seq(Commands(Subs))
  BY DEF Transactions
<1>2. /\ Len(t.sent) \in Nat /\ Len(t.todo) \in Nat
      /\ DOMAIN t.sent = 1..Len(t.sent) /\ DOMAIN t.todo = 1..Len(t.todo)
  BY <1>1, LenProperties
<1>3. /\ Head(t.todo) \in Commands(Subs) /\ Head(t.todo) = t.todo[1]
      /\ Len(t.todo) >= 1
      /\ Tail(t.todo) \in Seq(Commands(Subs))
      /\ Len(Tail(t.todo)) = Len(t.todo) - 1
      /\ \A i \in 1..Len(Tail(t.todo)) : Tail(t.todo)[i] = t.todo[i + 1]
  BY <1>1, <1>2, HeadTailProperties, EmptySeq
<1>4. DOMAIN Tail(t.todo) = 1..(Len(t.todo) - 1)
  BY <1>3, LenProperties
<1>5. Len(t.todo) <= Len(t.sent) /\ \A i \in DOMAIN t.todo : t.todo[i] = t.sent[Applied(t) + i]
  BY DEF Request
<1>6. Applied(t) \in Nat /\ Applied(u) = Applied(t) + 1 /\ Applied(t) + 1 \in DOMAIN t.sent
  <2>1. \E c \in Nat : c = Len(u.todo)
    BY <1>3, LenProperties
  <2>2. PICK a, b, c \in Nat : a = Len(t.sent) /\ b = Len(t.todo) /\ c = Len(u.todo)
    BY <1>2, <2>1
  <2>3. c = b - 1 /\ b >= 1 /\ b <= a
    BY <1>3, <1>5, <2>2
  <2>4. Applied(t) = a - b /\ Applied(u) = a - c
    BY <2>2 DEF Applied
  <2>5. a - b \in Nat /\ a - c = (a - b) + 1 /\ (a - b) + 1 \in 1..a
    BY <2>3
  <2>6. QED
    BY <1>2, <2>2, <2>4, <2>5
<1>7. Head(t.todo) = t.sent[Applied(t) + 1]
  BY <1>2, <1>3, <1>5
<1>8. \A i \in DOMAIN u.todo : u.todo[i] = u.sent[Applied(u) + i]
  <2>1. ASSUME NEW i \in 1..(Len(t.todo) - 1)
        PROVE  Tail(t.todo)[i] = t.sent[Applied(t) + 1 + i]
    <3>1. i + 1 \in DOMAIN t.todo /\ Tail(t.todo)[i] = t.todo[i + 1]
      BY <1>2, <1>3
    <3>2. t.todo[i + 1] = t.sent[Applied(t) + (i + 1)]
      BY <1>5, <3>1
    <3>3. Applied(t) + (i + 1) = Applied(t) + 1 + i
      BY <1>6
    <3>4. QED
      BY <3>1, <3>2, <3>3
  <2>2. QED
    BY <1>4, <1>6, <2>1
<1>9. Len(u.todo) <= Len(u.sent)
  BY <1>2, <1>3, <1>5
<1>10. QED
  BY <1>3, <1>6, <1>7, <1>8, <1>9 DEF Request

(* A snapshot keeps a transaction good.                                     *)
LEMMA SnapshotGood ==
  ASSUME NEW t \in Transactions, NEW r \in Rows, Good(t, r), t.todo # <<>>,
         IsSnapshot(Head(t.todo).type)
  PROVE  ApplySnapshot(t) \in Transactions /\ Good(ApplySnapshot(t), r)
<1> DEFINE u == ApplySnapshot(t)
           e == Entry(t.number, Head(t.todo).type, t.locked, t.locked)
<1>1. /\ Request(t) /\ GoesOn(t) /\ Untouched(t, r)
      /\ Resumed(t, r) /\ Carried(t) /\ Tells(t.log, t.row)
  BY DEF Good
<1>2. /\ t.todo \in Seq(Commands(Subs)) /\ t.log \in Seq(Entries) /\ t.locked \in Views
      /\ t.number \in Nat
  BY DEF Transactions
<1>3. e \in Entries /\ ~IsTransition(e)
  BY <1>2 DEF Entry, Entries, IsTransition, IsSnapshot, Snapshots, Transitions
<1>4. Append(t.log, e) \in Seq(Entries) /\ Tail(t.todo) \in Seq(Commands(Subs))
  BY <1>2, <1>3, AppendProperties, HeadTailProperties
<1>5. /\ u.number = t.number /\ u.locked = t.locked /\ u.row = t.row
      /\ u.current = t.locked /\ u.log = Append(t.log, e) /\ u.pause = t.pause
      /\ u.wrote = t.wrote /\ u.sent = t.sent /\ u.todo = Tail(t.todo)
  BY DEF ApplySnapshot, Transactions
<1>6. u \in Transactions
  BY <1>2, <1>4 DEF ApplySnapshot, Transactions
<1> HIDE DEF u
<1>7. /\ Applied(t) \in Nat
      /\ DOMAIN t.sent = 1..Len(t.sent) /\ Len(t.sent) \in Nat
      /\ Applied(t) + 1 \in DOMAIN t.sent
      /\ Head(t.todo) = t.sent[Applied(t) + 1]
      /\ Applied(u) = Applied(t) + 1
      /\ Request(u)
  BY <1>1, <1>5, <1>6, NextCommand, LenProperties DEF Transactions
<1>8. Untouched(u, r)
  <2>1. (\A i \in 1..Applied(u) : IsSnapshot(u.sent[i].type))
          => \A i \in 1..Applied(t) : IsSnapshot(t.sent[i].type)
    <3>1. 1..Applied(t) \subseteq 1..Applied(u) /\ u.sent = t.sent
      BY <1>5, <1>7
    <3>2. QED
      BY <3>1
  <2>2. QED
    BY <1>1, <1>5, <2>1 DEF Untouched
<1>9. GoesOn(u)
  <2>1. ASSUME NEW from, StartsFromRow(u.sent, Applied(u) + 1, from)
        PROVE  u.current = View(u.row)
    <3>1. u.sent = t.sent
      BY <1>5
    <3>2. \A i, j \in DOMAIN t.sent :
            i < j /\ j < Applied(u) + 1 /\ ~IsSnapshot(t.sent[i].type)
              => ~IsSnapshot(t.sent[j].type)
      BY <2>1, <3>1 DEF StartsFromRow
    <3>3. \A i \in 1..Applied(t) : IsSnapshot(t.sent[i].type)
      <4>1. TAKE i \in 1..Applied(t)
      <4>2. /\ i \in DOMAIN t.sent /\ i < Applied(t) + 1
            /\ Applied(t) + 1 < Applied(u) + 1
        BY <1>7
      <4>3. IsSnapshot(t.sent[Applied(t) + 1].type)
        BY <1>7
      <4>4. QED
        BY <1>7, <3>2, <4>2, <4>3
    <3>4. QED
      BY <1>1, <1>5, <3>3 DEF Untouched
  <2>2. QED
    BY <2>1 DEF GoesOn, View
<1>10. Resumed(u, r) /\ Carried(u)
  BY <1>1, <1>5 DEF Resumed, Carried
<1>11. Tells(u.log, u.row)
  BY <1>1, <1>2, <1>3, <1>5, TellsNote
<1>12. QED
  BY <1>6, <1>7, <1>8, <1>9, <1>10, <1>11 DEF Good, u

(* A transition of a careful request takes the row where it says.           *)
LEMMA TransitionGood ==
  ASSUME NEW t \in Transactions, NEW r \in Rows, Good(t, r), t.todo # <<>>,
         ~IsSnapshot(Head(t.todo).type)
  PROVE  ApplyTransition(t) \in Transactions /\ Good(ApplyTransition(t), r)
<1> DEFINE u == ApplyTransition(t)
           c == Head(t.todo)
           n == Applied(t) + 1
           target == TargetStatus(c, t.current, t.pause)
           after == [status |-> OrElse(target, t.current.status),
                     sub |-> OrElse(c.sub, t.current.sub)]
           writes == target # Unset \/ c.sub # Unset
           e == Entry(t.number, c.type, t.current, after)
<1>1. /\ Request(t) /\ GoesOn(t) /\ Untouched(t, r)
      /\ Resumed(t, r) /\ Carried(t) /\ Tells(t.log, t.row)
  BY DEF Good
<1>2. /\ t.todo \in Seq(Commands(Subs)) /\ t.log \in Seq(Entries) /\ t.current \in Views
      /\ t.number \in Nat /\ t.row \in Rows /\ t.pause \in PauseTypes \cup {Unset}
      /\ t.wrote \in BOOLEAN
  BY DEF Transactions
<1>3. c \in Commands(Subs) /\ Tail(t.todo) \in Seq(Commands(Subs))
  BY <1>2, HeadTailProperties
<1>4. target \in Statuses \cup {Unset} /\ c.sub \in Subs \cup {Unset}
  BY <1>3 DEF TargetStatus, Commands, Statuses
<1>5. after \in Views
  BY <1>2, <1>4 DEF OrElse, Views
<1>6. c.type \in Transitions
  BY <1>3 DEF Commands, IsSnapshot
<1>7. e \in Entries /\ IsTransition(e) /\ e.after = after
  BY <1>2, <1>5, <1>6 DEF Entry, Entries, IsTransition
<1>8. Append(t.log, e) \in Seq(Entries)
  BY <1>2, <1>7, AppendProperties
<1>9. Updated(t.row, target, c.sub, t.pause) \in Rows
  BY <1>2, <1>4 DEF Updated, OrElse, Rows
<1>10. /\ u.number = t.number /\ u.locked = t.locked
       /\ u.row = IF writes THEN Updated(t.row, target, c.sub, t.pause) ELSE t.row
       /\ u.current = after /\ u.log = Append(t.log, e) /\ u.pause = t.pause
       /\ u.wrote = (t.wrote \/ writes) /\ u.sent = t.sent /\ u.todo = Tail(t.todo)
  BY DEF ApplyTransition, Transactions
<1>11. u \in Transactions
  <2>1. u.row \in Rows /\ u.wrote \in BOOLEAN
    BY <1>2, <1>9, <1>10
  <2>2. QED
    BY <1>2, <1>3, <1>5, <1>8, <1>9, <2>1 DEF ApplyTransition, Transactions
<1>12. /\ Applied(t) \in Nat
       /\ n \in DOMAIN t.sent
       /\ c = t.sent[n]
       /\ Applied(u) = Applied(t) + 1
       /\ Request(u)
  BY <1>1, <1>10, <1>11, NextCommand
<1>13. /\ c.status # Unset \/ t.current.status = t.row.status
       /\ c.sub # Unset \/ t.current.sub = t.row.sub
  <2>1. /\ c.status # Unset \/ StartsFromRow(t.sent, n, t.sent[1].fromStatus)
        /\ c.sub # Unset \/ StartsFromRow(t.sent, n, t.sent[1].fromSub)
    BY <1>1, <1>12 DEF Request, Careful
  <2>2. QED
    BY <1>1, <2>1 DEF GoesOn
<1>14. u.row.status = after.status /\ u.row.sub = after.sub
  <2>1. c.status # Unset => target = c.status
    BY DEF TargetStatus
  <2>2. u.row.status = OrElse(target, t.row.status) /\ u.row.sub = OrElse(c.sub, t.row.sub)
    BY <1>10 DEF Updated, OrElse
  <2>3. QED
    BY <1>13, <2>1, <2>2 DEF OrElse
<1>15. after = View(u.row)
  BY <1>14 DEF View
<1>16. Tells(u.log, u.row)
  BY <1>2, <1>7, <1>10, <1>15, TellsMove
<1>17. GoesOn(u)
  BY <1>10, <1>14 DEF GoesOn
<1>18. Untouched(u, r)
  <2>1. ~\A i \in 1..Applied(u) : IsSnapshot(u.sent[i].type)
    <3>1. n \in 1..Applied(u) /\ ~IsSnapshot(u.sent[n].type)
      BY <1>10, <1>12
    <3>2. QED
      BY <3>1
  <2>2. QED
    BY <1>1, <1>10, <2>1 DEF Untouched
<1>19. Resumed(u, r)
  <2>1. SUFFICES ASSUME u.row.sub # r.sub, u.row.status = "pending_review",
                        t.pause = Unset, ~AsksReview(t.sent)
                 PROVE  FALSE
    BY <1>10 DEF Resumed
  <2>2. c.status # "pending_review"
    BY <1>12, <2>1 DEF AsksReview
  <2>3. target = Unset
    BY <1>10, <2>1, <2>2 DEF TargetStatus, Updated, OrElse
  <2>4. t.row.status = "pending_review" /\ t.current.status = "pending_review"
    BY <1>10, <1>14, <2>1, <2>3 DEF Updated, OrElse
  <2>5. c.sub = Unset
    BY <2>1, <2>3, <2>4 DEF TargetStatus, Unset
  <2>6. u.row = t.row
    BY <1>10, <2>3, <2>5
  <2>7. QED
    BY <1>1, <2>1, <2>4, <2>6 DEF Resumed
<1>20. Carried(u)
  <2>1. CASE writes
    <3>1. u.row = Updated(t.row, target, c.sub, t.pause) /\ u.pause = t.pause
      BY <1>10, <2>1
    <3>2. QED
      BY <3>1 DEF Carried, Updated
  <2>2. CASE ~writes
    <3>1. u.row = t.row /\ u.pause = t.pause
      BY <1>10, <2>2
    <3>2. u.wrote = t.wrote
      <4>1. u.wrote = (t.wrote \/ writes)
        BY <1>10
      <4>2. QED
        BY <1>2, <2>2, <4>1
    <3>3. QED
      BY <1>1, <3>1, <3>2 DEF Carried
  <2>3. QED
    BY <2>1, <2>2
<1>21. QED
  BY <1>11, <1>12, <1>16, <1>17, <1>18, <1>19, <1>20 DEF Good

(* What a good transaction commits is a row, told by its log.               *)
LEMMA CommitGood ==
  ASSUME NEW t \in Transactions, NEW r \in Rows, Good(t, r)
  PROVE  /\ Paused(t) \in Rows
         /\ Tells(t.log, Paused(t))
         /\ Paused(t).sub # r.sub /\ Paused(t).status = "pending_review"
              => Paused(t).pause # Unset \/ AsksReview(t.sent)
<1>1. t.row \in Rows /\ t.pause \in PauseTypes \cup {Unset}
  BY DEF Transactions
<1>2. /\ Paused(t) \in Rows /\ View(Paused(t)) = View(t.row)
      /\ Paused(t).sub = t.row.sub /\ Paused(t).status = t.row.status
  BY <1>1 DEF Paused, Rows, View
<1>3. t.pause # Unset => Paused(t).pause # Unset
  BY <1>1 DEF Good, Carried, Paused, Rows
<1>4. Tells(t.log, Paused(t))
  BY <1>2 DEF Good, Tells
<1>5. QED
  BY <1>2, <1>3, <1>4 DEF Good, Resumed

-----------------------------------------------------------------------------
(* The invariant.                                                          *)

(* It holds of a new lifecycle, which has no activity.                      *)
LEMMA InitLogInv == LogInit => LogInv
<1> SUFFICES ASSUME LogInit PROVE LogInv
  OBVIOUS
<1>1. row \in Rows
  BY SubsAssumption DEF LogInit, Rows, Statuses
<1>2. trail \in Seq(Entries) /\ DOMAIN trail = {}
  BY EmptySeq DEF LogInit
<1>3. LogTypeOK
  BY <1>1, <1>2 DEF LogInit, LogTypeOK
<1>4. Tells(trail, row)
  BY <1>2 DEF Tells
<1>5. QED
  BY <1>3, <1>4 DEF LogInit, LogInv

(* It is kept by every step of every caller.                                *)
LEMMA StepLogInv == LogInv /\ [LogNext]_logVars => LogInv'
<1> SUFFICES ASSUME LogInv, [LogNext]_logVars PROVE LogInv'
  OBVIOUS
<1>1. /\ workflow \in Workflows /\ row \in Rows /\ trail \in Seq(Entries)
      /\ view \in [Callers -> SUBSET Views] /\ holder \in Callers \cup {Idle}
      /\ holder # Idle => tx \in Transactions /\ Good(tx, row)
      /\ Tells(trail, row)
  BY DEF LogInv, LogTypeOK
<1>2. ASSUME NEW c \in Callers, Read(c) PROVE LogInv'
  <2>1. View(row) \in Views
    BY <1>1, RowView
  <2>2. QED
    BY <1>1, <1>2, <2>1 DEF Read, LogInv, LogTypeOK
<1>3. ASSUME NEW c \in Callers, Begin(c) PROVE LogInv'
  <2>1. PICK v \in view[c] : \E s \in Requests[workflow][v] :
               tx' = Open(Committed + 1, row, trail, s)
    BY <1>3 DEF Begin
  <2>2. PICK s \in Requests[workflow][v] : tx' = Open(Committed + 1, row, trail, s)
    BY <2>1
  <2>3. v \in Views
    BY <1>1
  <2>4. s \in Seq(Commands(Subs)) /\ s # <<>> /\ Careful(s)
    BY <1>1, <2>3, RequestsAssumption, CarefulAssumption
  <2>5. Committed + 1 \in Nat
    <3>1. CASE trail = <<>>
      BY <3>1 DEF Committed
    <3>2. CASE trail # <<>>
      <4>1. trail[Len(trail)] \in Entries
        BY <1>1, <3>2, LenProperties, EmptySeq, ElementOfSeq
      <4>2. Committed \in Nat
        BY <3>2, <4>1 DEF Committed, Entries
      <4>3. QED
        BY <4>2
    <3>3. QED
      BY <3>1, <3>2
  <2>6. tx' \in Transactions /\ Good(tx', row)
    BY <1>1, <2>2, <2>4, <2>5, OpenGood
  <2>7. UNCHANGED <<workflow, row, trail>> /\ holder' = c /\ view' = [view EXCEPT ![c] = {}]
    BY <1>3 DEF Begin
  <2>8. view' \in [Callers -> SUBSET Views]
    BY <1>1, <2>7
  <2>9. QED
    BY <1>1, <2>6, <2>7, <2>8 DEF LogInv, LogTypeOK
<1>4. CASE StepCommand
  <2>1. tx \in Transactions /\ Good(tx, row) /\ tx.todo # <<>> /\ tx' = Apply(tx)
    BY <1>1, <1>4 DEF StepCommand
  <2>2. tx' \in Transactions /\ Good(tx', row)
    BY <1>1, <2>1, SnapshotGood, TransitionGood DEF Apply
  <2>3. UNCHANGED <<workflow, row, trail, view, holder>>
    BY <1>4 DEF StepCommand
  <2>4. QED
    BY <1>1, <2>2, <2>3 DEF LogInv, LogTypeOK
<1>5. CASE Commit
  <2>1. /\ tx \in Transactions /\ Good(tx, row) /\ row' = Paused(tx) /\ trail' = tx.log
        /\ holder' = Idle /\ UNCHANGED <<workflow, view>>
    BY <1>1, <1>5 DEF Commit
  <2>2. row' \in Rows /\ Tells(trail', row')
    BY <1>1, <2>1, CommitGood
  <2>3. trail' \in Seq(Entries)
    BY <2>1 DEF Transactions
  <2>4. QED
    BY <1>1, <2>1, <2>2, <2>3 DEF LogInv, LogTypeOK
<1>6. CASE Rollback
  BY <1>1, <1>6 DEF Rollback, LogInv, LogTypeOK
<1>7. CASE UNCHANGED logVars
  BY <1>1, <1>7 DEF logVars, LogInv, LogTypeOK
<1>8. QED
  BY <1>2, <1>3, <1>4, <1>5, <1>6, <1>7 DEF LogNext

(* IInv is an invariant of every instance.                                  *)
THEOREM LogInvariance == LogSpec => []LogInv
<1>1. QED
  BY InitLogInv, StepLogInv, PTL DEF LogSpec

(* Rows, activities and transactions keep the columns and enums of the      *)
(* schema, whatever the callers send.                                       *)
THEOREM LogTypeCorrect == LogSpec => []LogTypeOK
<1>1. LogInv => LogTypeOK
  BY DEF LogInv
<1>2. QED
  BY <1>1, LogInvariance, PTL

(* The last transition in activity_logs says what the row holds, for any    *)
(* number of callers that decide on stale reads and win in any order, as    *)
(* long as each sequence is careful.                                        *)
THEOREM TrailCorrect == LogSpec => []TrailTellsRow
<1>1. LogInv => TrailTellsRow
  BY DEF LogInv, TrailTellsRow
<1>2. QED
  BY <1>1, LogInvariance, PTL

(* No commit moves a sub-status and leaves the row waiting for a reviewer,  *)
(* unless it asks for the review or records a failure.                      *)
THEOREM ReviewCorrect == LogSpec => ReviewEndsOnProgress
<1> DEFINE A == row'.sub # row.sub /\ row'.status = "pending_review" =>
                  \/ row'.pause # Unset
                  \/ \E n \in DOMAIN tx.sent : tx.sent[n].status = "pending_review"
<1>1. LogInv /\ [LogNext]_logVars => [A]_row
  <2> SUFFICES ASSUME LogInv, [LogNext]_logVars, row' # row PROVE A
    OBVIOUS
  <2>1. Commit
    BY DEF LogNext, Read, Begin, StepCommand, Rollback, logVars
  <2>2. /\ row \in Rows /\ tx \in Transactions /\ Good(tx, row) /\ row' = Paused(tx)
    BY <2>1 DEF Commit, LogInv, LogTypeOK
  <2>3. QED
    BY <2>2, CommitGood DEF AsksReview
<1>2. QED
  BY <1>1, LogInvariance, PTL DEF LogSpec, ReviewEndsOnProgress

-----------------------------------------------------------------------------
(* Pauses: an invariant of its own, which says how the log has grown.      *)

Fails(r) == \E n \in DOMAIN r : r[n].type = "exception"

\* t has logged one entry per command applied, under its own number.
Logged(t, l) ==
  /\ \A m \in DOMAIN l : l[m].number < t.number
  /\ Len(t.log) = Len(l) + Applied(t)
  /\ \A m \in DOMAIN l : t.log[m] = l[m]
  /\ \A i \in 1..Applied(t) :
       t.log[Len(l) + i].number = t.number /\ t.log[Len(l) + i].type = t.sent[i].type

\* t writes with its first transition, and the pause is that of its request.
Pauses(t) ==
  /\ NamesColumn(t.sent)
  /\ t.pause # Unset <=> Fails(t.sent)
  /\ t.wrote => \E i \in 1..Applied(t) : ~IsSnapshot(t.sent[i].type)
  /\ (\E i \in 1..Applied(t) : ~IsSnapshot(t.sent[i].type)) => t.wrote

\* The entry n of l comes from a transaction that failed.
OfFailure(l, n) == \E m \in DOMAIN l : l[m].number = l[n].number /\ l[m].type = "exception"

LastFailed(l) == \E n \in DOMAIN l : LastOf(l, n, Decides) /\ OfFailure(l, n)

Newest(l) == IF l = <<>> THEN 0 ELSE l[Len(l)].number

Numbered(l) == \A m \in DOMAIN l : l[m].number <= Newest(l)

Followed == /\ Numbered(trail)
            /\ PausedWhileFailed
            /\ holder # Idle => Logged(tx, trail) /\ Pauses(tx)

(* A request has a pause exactly if one of its commands records a failure.  *)
LEMMA PauseMeans ==
  ASSUME NEW r \in Seq(Commands(Subs))
  PROVE  PauseOf(r) # Unset <=> Fails(r)
<1> DEFINE failures == {n \in DOMAIN r : r[n].type = "exception"}
           named == {n \in failures : r[n].pause # Unset}
           first == CHOOSE n \in named : \A m \in named : n <= m
<1>1. named \subseteq Nat
  <2>1. DOMAIN r = 1..Len(r) /\ Len(r) \in Nat
    BY LenProperties
  <2>2. QED
    BY <2>1
<1>2. CASE failures = {}
  BY <1>2 DEF PauseOf, Fails
<1>3. CASE failures # {} /\ named = {}
  <2>1. PauseOf(r) = "system_error"
    BY <1>3 DEF PauseOf
  <2>2. QED
    BY <1>3, <2>1 DEF Fails, Unset
<1>4. CASE failures # {} /\ named # {}
  <2>1. \E n \in named : \A m \in named : n <= m
    BY <1>1, <1>4, LeastPosition
  <2>2. first \in named
    BY <2>1
  <2>3. PauseOf(r) = r[first].pause
    BY <1>4 DEF PauseOf
  <2>4. QED
    BY <1>4, <2>2, <2>3 DEF Fails
<1>5. QED
  BY <1>2, <1>3, <1>4

(* A step logs one entry, under the number of its transaction.              *)
LEMMA StepLogged ==
  ASSUME NEW t \in Transactions, NEW l \in Seq(Entries), Request(t), t.todo # <<>>,
         Apply(t) \in Transactions, Logged(t, l), Pauses(t)
  PROVE  Logged(Apply(t), l) /\ Pauses(Apply(t))
<1> DEFINE u == Apply(t)
           c == Head(t.todo)
           n == Applied(t) + 1
           target == TargetStatus(c, t.current, t.pause)
           writes == target # Unset \/ c.sub # Unset
<1>1. \E before, after : u.log = Append(t.log, Entry(t.number, c.type, before, after))
  <2>1. CASE IsSnapshot(c.type)
    BY <2>1 DEF Apply, ApplySnapshot, Transactions
  <2>2. CASE ~IsSnapshot(c.type)
    BY <2>2 DEF Apply, ApplyTransition, Transactions
  <2>3. QED
    BY <2>1, <2>2
<1>2. PICK before, after : u.log = Append(t.log, Entry(t.number, c.type, before, after))
  BY <1>1
<1>3. u.number = t.number /\ u.sent = t.sent /\ u.pause = t.pause /\ u.todo = Tail(t.todo)
  BY DEF Apply, ApplySnapshot, ApplyTransition, Transactions
<1>4. t.todo \in Seq(Commands(Subs)) /\ t.sent \in Seq(Commands(Subs)) /\ t.log \in Seq(Entries)
      /\ t.number \in Nat /\ t.wrote \in BOOLEAN
  BY DEF Transactions
<1>5. /\ Applied(t) \in Nat /\ n \in DOMAIN t.sent /\ c = t.sent[n]
      /\ Applied(u) = n
  BY <1>3, NextCommand
<1>6. /\ Len(t.log) \in Nat /\ Len(l) \in Nat
      /\ DOMAIN l = 1..Len(l)
  BY <1>4, LenProperties
<1>7. /\ Len(u.log) = Len(t.log) + 1
      /\ u.log[Len(t.log) + 1] = Entry(t.number, c.type, before, after)
      /\ \A i \in 1..Len(t.log) : u.log[i] = t.log[i]
  <2>1. u.log = [i \in 1..(Len(t.log) + 1) |->
                   IF i = Len(t.log) + 1 THEN Entry(t.number, c.type, before, after)
                   ELSE t.log[i]]
    BY <1>2, <1>4
  <2>2. Len(u.log) = Len(t.log) + 1
    BY <1>6, <2>1
  <2>3. QED
    BY <1>6, <2>1, <2>2
<1> HIDE DEF u
<1>8. Logged(u, l)
  <2>1. /\ \A m \in DOMAIN l : l[m].number < t.number
        /\ Len(t.log) = Len(l) + Applied(t)
        /\ \A m \in DOMAIN l : t.log[m] = l[m]
        /\ \A i \in 1..Applied(t) :
             t.log[Len(l) + i].number = t.number /\ t.log[Len(l) + i].type = t.sent[i].type
    BY DEF Logged
  <2>2. Len(u.log) = Len(l) + Applied(u)
    BY <1>5, <1>6, <1>7, <2>1
  <2>3. ASSUME NEW m \in DOMAIN l PROVE u.log[m] = l[m]
    <3>1. m \in 1..Len(t.log)
      BY <1>5, <1>6, <2>1
    <3>2. QED
      BY <1>7, <2>1, <3>1
  <2>4. ASSUME NEW i \in 1..Applied(u)
        PROVE  u.log[Len(l) + i].number = u.number /\ u.log[Len(l) + i].type = u.sent[i].type
    <3>1. CASE i \in 1..Applied(t)
      <4>1. Len(l) + i \in 1..Len(t.log)
        BY <1>5, <1>6, <2>1, <3>1
      <4>2. QED
        BY <1>3, <1>7, <2>1, <3>1, <4>1
    <3>2. CASE i = n
      <4>1. Len(l) + i = Len(t.log) + 1
        BY <1>5, <1>6, <2>1, <3>2
      <4>2. QED
        BY <1>3, <1>5, <1>7, <3>2, <4>1 DEF Entry
    <3>3. i \in 1..Applied(t) \/ i = n
      BY <1>5
    <3>4. QED
      BY <3>1, <3>2, <3>3
  <2>5. QED
    BY <1>3, <2>1, <2>2, <2>3, <2>4 DEF Logged
<1>9. Pauses(u)
  <2>1. IsSnapshot(c.type) => u.wrote = t.wrote
    BY DEF u, Apply, ApplySnapshot, Transactions
  <2>2. ~IsSnapshot(c.type) => u.wrote
    <3>1. SUFFICES ASSUME ~IsSnapshot(c.type) PROVE u.wrote
      OBVIOUS
    <3>2. c.status # Unset \/ c.sub # Unset
      BY <1>5, <3>1 DEF Pauses, NamesColumn
    <3>3. writes
      BY <3>2 DEF TargetStatus
    <3>4. u.wrote = (t.wrote \/ writes)
      BY <3>1 DEF u, Apply, ApplyTransition, Transactions
    <3>5. QED
      BY <3>3, <3>4, Zenon
  <2>3. 1..Applied(t) \subseteq 1..Applied(u) /\ n \in 1..Applied(u)
        /\ \A i \in 1..Applied(u) : i \in 1..Applied(t) \/ i = n
    BY <1>5
  <2>4. /\ NamesColumn(u.sent)
        /\ u.pause # Unset <=> Fails(u.sent)
    BY <1>3 DEF Pauses
  <2>5. ASSUME u.wrote PROVE \E i \in 1..Applied(u) : ~IsSnapshot(u.sent[i].type)
    <3>1. CASE ~IsSnapshot(c.type)
      BY <1>3, <1>5, <2>3, <3>1
    <3>2. CASE IsSnapshot(c.type)
      <4>1. t.wrote
        BY <2>1, <2>5, <3>2, Zenon
      <4>2. QED
        BY <1>3, <2>3, <4>1 DEF Pauses
    <3>3. QED
      BY <3>1, <3>2
  <2>6. ASSUME NEW i \in 1..Applied(u), ~IsSnapshot(u.sent[i].type) PROVE u.wrote
    <3>1. CASE ~IsSnapshot(c.type)
      BY <2>2, <3>1, Zenon
    <3>2. CASE IsSnapshot(c.type)
      <4>1. i \in 1..Applied(t)
        BY <1>3, <1>5, <2>3, <2>6, <3>2
      <4>2. t.wrote
        BY <1>3, <2>6, <4>1 DEF Pauses
      <4>3. QED
        BY <2>1, <3>2, <4>2, Zenon
    <3>3. QED
      BY <3>1, <3>2
  <2>7. QED
    BY <2>4, <2>5, <2>6, Zenon DEF Pauses
<1>10. QED
  BY <1>8, <1>9 DEF u

(* A transaction that has logged nothing.                                   *)
LEMMA OpenLogged ==
  ASSUME NEW n \in Nat, NEW r \in Rows, NEW l \in Seq(Entries),
         \A m \in DOMAIN l : l[m].number < n,
         NEW s \in Seq(Commands(Subs)), NamesColumn(s)
  PROVE  Logged(Open(n, r, l, s), l) /\ Pauses(Open(n, r, l, s))
<1> DEFINE t == Open(n, r, l, s)
<1>1. /\ t.number = n /\ t.log = l /\ t.pause = PauseOf(s) /\ t.wrote = FALSE
      /\ t.sent = s /\ t.todo = s
  BY DEF Open
<1> HIDE DEF t
<1>2. Len(s) \in Nat /\ Len(l) \in Nat
  BY LenProperties
<1>3. Applied(t) = 0
  BY <1>1, <1>2 DEF Applied
<1>4. Logged(t, l)
  BY <1>1, <1>2, <1>3 DEF Logged
<1>5. Pauses(t)
  BY <1>1, <1>3, PauseMeans DEF Pauses
<1>6. QED
  BY <1>4, <1>5 DEF t

(* The last entry that decides, and what it says, when the log grows by     *)
(* entries none of which decides.                                           *)
LEMMA NotesFail ==
  ASSUME NEW l \in Seq(Entries), NEW a \in Seq(Entries), Len(l) <= Len(a),
         \A m \in DOMAIN l : a[m] = l[m],
         \A m \in DOMAIN a \ DOMAIN l :
           ~Decides(a[m]) /\ \A k \in DOMAIN l : a[m].number # l[k].number
  PROVE  LastFailed(a) <=> LastFailed(l)
<1>1. Len(l) \in Nat /\ Len(a) \in Nat /\ DOMAIN l = 1..Len(l) /\ DOMAIN a = 1..Len(a)
  BY LenProperties
<1>2. DOMAIN l \subseteq DOMAIN a
  BY <1>1
<1>3. ASSUME NEW n \in DOMAIN l PROVE LastOf(a, n, Decides) <=> LastOf(l, n, Decides)
  BY <1>2 DEF LastOf
<1>4. ASSUME NEW n \in DOMAIN l PROVE OfFailure(a, n) <=> OfFailure(l, n)
  <2>1. ASSUME NEW m \in DOMAIN a, a[m].number = a[n].number PROVE m \in DOMAIN l
    BY <1>3, <2>1
  <2>2. QED
    BY <1>2, <2>1 DEF OfFailure
<1>5. ASSUME NEW n \in DOMAIN a, LastOf(a, n, Decides) PROVE n \in DOMAIN l
  BY <1>5 DEF LastOf
<1>6. QED
  BY <1>2, <1>3, <1>4, <1>5 DEF LastFailed

(* An entry that decides has a last one at or after it.                     *)
LEMMA LastDecides ==
  ASSUME NEW a \in Seq(Entries), NEW k \in DOMAIN a, Decides(a[k])
  PROVE  \E n \in DOMAIN a : k <= n /\ LastOf(a, n, Decides)
<1> DEFINE S == {p \in Nat : \E n \in DOMAIN a : Decides(a[n]) /\ k <= n /\ p = Len(a) - n}
<1>1. Len(a) \in Nat /\ DOMAIN a = 1..Len(a)
  BY LenProperties
<1>2. Len(a) - k \in S
  BY <1>1
<1>3. PICK p \in S : \A q \in S : p <= q
  BY <1>2, LeastPosition
<1>4. PICK n \in DOMAIN a : Decides(a[n]) /\ k <= n /\ p = Len(a) - n
  BY <1>3
<1>5. ASSUME NEW m \in DOMAIN a, m > n, Decides(a[m]) PROVE FALSE
  <2>1. Len(a) - m \in S
    BY <1>1, <1>4, <1>5
  <2>2. Len(a) - n <= Len(a) - m
    BY <1>3, <1>4, <2>1
  <2>3. QED
    BY <1>1, <1>5, <2>2
<1>6. QED
  BY <1>4, <1>5 DEF LastOf

(* A commit leaves the row paused exactly if the last entry that decides    *)
(* is of a transaction that failed.                                         *)
LEMMA CommitLogged ==
  ASSUME NEW t \in Transactions, NEW r \in Rows, NEW l \in Seq(Entries),
         Good(t, r), Logged(t, l), Pauses(t), t.todo = <<>>,
         r.pause # Unset <=> LastFailed(l)
  PROVE  /\ Numbered(t.log)
         /\ Paused(t).pause # Unset <=> LastFailed(t.log)
<1> DEFINE a == t.log
           size == Applied(t)
<1>1. /\ a \in Seq(Entries) /\ t.sent \in Seq(Commands(Subs)) /\ t.row \in Rows
      /\ t.number \in Nat /\ t.wrote \in BOOLEAN /\ t.pause \in PauseTypes \cup {Unset}
  BY DEF Transactions
<1>2. /\ Len(l) \in Nat /\ DOMAIN l = 1..Len(l)
      /\ Len(a) \in Nat /\ DOMAIN a = 1..Len(a)
      /\ Len(t.sent) \in Nat /\ DOMAIN t.sent = 1..Len(t.sent)
  BY <1>1, LenProperties
<1>3. size = Len(t.sent) /\ size >= 1
  <2>1. Len(t.todo) = 0
    BY EmptySeq
  <2>2. t.sent # <<>>
    BY DEF Good, Request
  <2>3. Len(t.sent) # 0
    BY <1>1, <2>2, EmptySeq
  <2>4. QED
    BY <1>2, <2>1, <2>3 DEF Applied
<1>4. /\ Len(a) = Len(l) + size
      /\ \A m \in DOMAIN l : a[m] = l[m] /\ l[m].number < t.number
      /\ \A i \in 1..size : a[Len(l) + i].number = t.number /\ a[Len(l) + i].type = t.sent[i].type
  BY DEF Logged
<1> HIDE DEF a, size
<1>5. ASSUME NEW m \in DOMAIN a \ DOMAIN l
      PROVE  \E i \in DOMAIN t.sent : a[m].number = t.number /\ a[m].type = t.sent[i].type
  <2>1. m - Len(l) \in 1..size /\ Len(l) + (m - Len(l)) = m
    BY <1>2, <1>3, <1>4
  <2>2. QED
    BY <1>2, <1>3, <1>4, <2>1
<1>6. ASSUME NEW i \in DOMAIN t.sent
      PROVE  /\ Len(l) + i \in DOMAIN a \ DOMAIN l
             /\ a[Len(l) + i].number = t.number
             /\ a[Len(l) + i].type = t.sent[i].type
  <2>1. i \in 1..size
    BY <1>2, <1>3
  <2>2. QED
    BY <1>2, <1>3, <1>4, <2>1
<1>7. \A m \in DOMAIN l : m \in DOMAIN a /\ a[m].number < t.number
  BY <1>2, <1>3, <1>4
<1>8. Numbered(a)
  <2>1. Newest(a) = t.number
    <3>1. a # <<>>
      BY <1>1, <1>2, <1>3, <1>4, EmptySeq
    <3>2. Len(a) = Len(l) + size /\ size \in 1..size
      BY <1>2, <1>3, <1>4
    <3>3. QED
      BY <1>4, <3>1, <3>2 DEF Newest
  <2>2. ASSUME NEW m \in DOMAIN a PROVE a[m].number <= t.number
    <3>1. CASE m \in DOMAIN l
      <4>1. l[m] \in Entries /\ a[m] = l[m] /\ a[m].number < t.number
        BY <1>4, <1>7, <3>1, <1>2, ElementOfSeq
      <4>2. l[m].number \in Nat
        BY <4>1 DEF Entries
      <4>3. QED
        BY <1>1, <4>1, <4>2
    <3>2. CASE m \notin DOMAIN l
      BY <1>1, <1>5, <3>2
    <3>3. QED
      BY <3>1, <3>2
  <2>3. QED
    BY <2>1, <2>2 DEF Numbered
<1>9. ASSUME \E i \in DOMAIN t.sent : t.sent[i].type \in Transitions \cup {"exception"}
      PROVE  LastFailed(a) <=> Fails(t.sent)
  <2>1. PICK i \in DOMAIN t.sent : t.sent[i].type \in Transitions \cup {"exception"}
    BY <1>9
  <2>2. Len(l) + i \in DOMAIN a /\ Decides(a[Len(l) + i])
    BY <1>6, <2>1 DEF Decides, IsTransition
  <2>3. PICK n \in DOMAIN a : Len(l) + i <= n /\ LastOf(a, n, Decides)
    BY <2>2, LastDecides, <1>1 DEF a
  <2>4. n \notin DOMAIN l
    BY <1>2, <2>1, <2>3
  <2>5. a[n].number = t.number
    BY <1>5, <2>3, <2>4
  <2>6. OfFailure(a, n) <=> Fails(t.sent)
    <3>1. ASSUME Fails(t.sent) PROVE OfFailure(a, n)
      <4>1. PICK j \in DOMAIN t.sent : t.sent[j].type = "exception"
        BY <3>1 DEF Fails
      <4>2. QED
        BY <1>6, <2>5, <4>1 DEF OfFailure
    <3>2. ASSUME OfFailure(a, n) PROVE Fails(t.sent)
      <4>1. PICK m \in DOMAIN a : a[m].number = a[n].number /\ a[m].type = "exception"
        BY <3>2 DEF OfFailure
      <4>2. m \notin DOMAIN l
        <5>1. ASSUME m \in DOMAIN l PROVE FALSE
          <6>1. a[m].number < t.number /\ a[m].number = t.number
            BY <1>7, <2>5, <4>1, <5>1
          <6>2. QED
            BY <1>1, <6>1
        <5>2. QED
          BY <5>1
      <4>3. QED
        BY <1>5, <4>1, <4>2 DEF Fails
    <3>3. QED
      BY <3>1, <3>2
  <2>7. ASSUME NEW k \in DOMAIN a, LastOf(a, k, Decides) PROVE k = n
    <3>1. ~(k > n) /\ ~(n > k)
      BY <2>3, <2>7 DEF LastOf
    <3>2. QED
      BY <1>2, <3>1
  <2>8. QED
    BY <2>3, <2>6, <2>7 DEF LastFailed
<1>10. CASE Fails(t.sent)
  <2>1. \E i \in DOMAIN t.sent : t.sent[i].type \in Transitions \cup {"exception"}
    BY <1>10 DEF Fails
  <2>2. t.pause # Unset
    BY <1>10 DEF Pauses
  <2>3. Paused(t).pause = t.pause
    BY <1>1, <2>2 DEF Good, Carried, Paused, Rows
  <2>4. QED
    BY <1>8, <1>9, <1>10, <2>1, <2>2, <2>3 DEF a
<1>11. CASE ~Fails(t.sent)
  <2>1. t.pause = Unset /\ Paused(t) = t.row
    BY <1>11 DEF Pauses, Paused
  <2>2. CASE \E i \in DOMAIN t.sent : ~IsSnapshot(t.sent[i].type)
    <3>1. PICK i \in DOMAIN t.sent : ~IsSnapshot(t.sent[i].type)
      BY <2>2
    <3>2. t.sent[i].type \in Transitions
      <4>1. t.sent[i] \in Commands(Subs)
        BY <1>1, <1>2, ElementOfSeq
      <4>2. QED
        BY <3>1, <4>1 DEF Commands, IsSnapshot
    <3>3. t.wrote
      BY <1>2, <1>3, <3>1 DEF Pauses, size
    <3>4. t.row.pause = Unset
      BY <2>1, <3>3 DEF Good, Carried
    <3>5. ~LastFailed(a)
      BY <1>9, <1>11, <3>2
    <3>6. QED
      BY <1>8, <2>1, <3>4, <3>5 DEF a
  <2>3. CASE \A i \in DOMAIN t.sent : IsSnapshot(t.sent[i].type)
    <3>1. t.row = r
      BY <1>2, <1>3, <2>3 DEF Good, Untouched, size
    <3>2. ASSUME NEW m \in DOMAIN a \ DOMAIN l
          PROVE  ~Decides(a[m]) /\ \A k \in DOMAIN l : a[m].number # l[k].number
      <4>1. PICK i \in DOMAIN t.sent : a[m].number = t.number /\ a[m].type = t.sent[i].type
        BY <1>5
      <4>2. ~Decides(a[m])
        BY <1>11, <2>3, <4>1
           DEF Decides, IsTransition, Fails, IsSnapshot, Snapshots, Transitions
      <4>3. ASSUME NEW k \in DOMAIN l, a[m].number = l[k].number PROVE FALSE
        <5>1. l[k].number < t.number /\ l[k].number = t.number
          BY <1>4, <4>1, <4>3
        <5>2. QED
          BY <1>1, <5>1
      <4>4. QED
        BY <4>2, <4>3
    <3>3. Len(l) <= Len(a)
      BY <1>2, <1>3, <1>4
    <3>4. LastFailed(a) <=> LastFailed(l)
      BY <1>1, <1>4, <3>2, <3>3, NotesFail DEF a
    <3>5. QED
      BY <1>8, <2>1, <3>1, <3>4 DEF a
  <2>4. QED
    BY <2>2, <2>3
<1>12. QED
  BY <1>10, <1>11

LEMMA InitFollowed == LogInit => Followed
<1> SUFFICES ASSUME LogInit PROVE Followed
  OBVIOUS
<1>1. DOMAIN trail = {} /\ row.pause = Unset /\ holder = Idle
  BY EmptySeq DEF LogInit
<1>2. QED
  BY <1>1 DEF Followed, Numbered, PausedWhileFailed

(* Whatever the callers do, the log grows by whole transactions, numbered   *)
(* in their order.                                                          *)
LEMMA StepFollowed == LogInv /\ Followed /\ [LogNext]_logVars => Followed'
<1> SUFFICES ASSUME LogInv, Followed, [LogNext]_logVars PROVE Followed'
  OBVIOUS
<1>1. /\ workflow \in Workflows /\ row \in Rows /\ trail \in Seq(Entries)
      /\ view \in [Callers -> SUBSET Views]
      /\ holder # Idle => tx \in Transactions /\ Good(tx, row)
  BY DEF LogInv, LogTypeOK
<1>2. /\ Numbered(trail)
      /\ row.pause # Unset <=> LastFailed(trail)
      /\ holder # Idle => Logged(tx, trail) /\ Pauses(tx)
  BY DEF Followed, PausedWhileFailed, LastFailed, OfFailure
<1>3. SUFFICES /\ Numbered(trail)'
               /\ row'.pause # Unset <=> LastFailed(trail')
               /\ holder' # Idle => Logged(tx', trail') /\ Pauses(tx')
  BY DEF Followed, PausedWhileFailed, LastFailed, OfFailure
<1>4. ASSUME NEW c \in Callers, Read(c)
      PROVE  UNCHANGED <<row, trail, holder, tx>>
  BY <1>4 DEF Read
<1>5. ASSUME NEW c \in Callers, Begin(c)
      PROVE  UNCHANGED <<row, trail>> /\ Logged(tx', trail) /\ Pauses(tx')
  <2>1. PICK v \in view[c] : \E s \in Requests[workflow][v] :
               tx' = Open(Committed + 1, row, trail, s)
    BY <1>5 DEF Begin
  <2>2. PICK s \in Requests[workflow][v] : tx' = Open(Committed + 1, row, trail, s)
    BY <2>1
  <2>3. v \in Views
    BY <1>1
  <2>4. s \in Seq(Commands(Subs)) /\ NamesColumn(s)
    BY <1>1, <2>3, RequestsAssumption, NamesAssumption
  <2>5. Committed = Newest(trail)
    BY DEF Committed, Newest
  <2>6. Committed + 1 \in Nat /\ \A m \in DOMAIN trail : trail[m].number < Committed + 1
    <3>1. ASSUME NEW m \in DOMAIN trail PROVE trail[m].number \in Nat
      <4>1. trail[m] \in Entries
        BY <1>1, ElementOfSeq, LenProperties
      <4>2. QED
        BY <4>1 DEF Entries
    <3>2. Committed \in Nat
      <4>1. CASE trail = <<>>
        BY <4>1 DEF Committed
      <4>2. CASE trail # <<>>
        <5>1. Len(trail) \in DOMAIN trail
          BY <1>1, <4>2, EmptySeq, LenProperties
        <5>2. QED
          BY <3>1, <4>2, <5>1 DEF Committed
      <4>3. QED
        BY <4>1, <4>2
    <3>3. ASSUME NEW m \in DOMAIN trail PROVE trail[m].number < Committed + 1
      <4>1. trail[m].number <= Committed /\ trail[m].number \in Nat
        BY <1>2, <2>5, <3>1 DEF Numbered
      <4>2. QED
        BY <3>2, <4>1
    <3>4. QED
      BY <3>2, <3>3
  <2>7. Logged(tx', trail) /\ Pauses(tx')
    BY <1>1, <2>2, <2>4, <2>6, OpenLogged
  <2>8. QED
    BY <1>5, <2>7 DEF Begin
<1>6. ASSUME StepCommand PROVE UNCHANGED <<row, trail>> /\ Logged(tx', trail) /\ Pauses(tx')
  <2>1. /\ tx \in Transactions /\ Good(tx, row) /\ Logged(tx, trail) /\ Pauses(tx)
        /\ tx.todo # <<>> /\ tx' = Apply(tx) /\ UNCHANGED <<row, trail>>
    BY <1>1, <1>2, <1>6 DEF StepCommand
  <2>2. Apply(tx) \in Transactions
    BY <1>1, <2>1, SnapshotGood, TransitionGood DEF Apply
  <2>3. Request(tx)
    BY <2>1 DEF Good
  <2>4. QED
    BY <1>1, <2>1, <2>2, <2>3, StepLogged
<1>7. ASSUME Commit
      PROVE  /\ holder' = Idle
             /\ Numbered(trail')
             /\ row'.pause # Unset <=> LastFailed(trail')
  <2>1. /\ tx \in Transactions /\ Good(tx, row) /\ Logged(tx, trail) /\ Pauses(tx)
        /\ tx.todo = <<>> /\ row' = Paused(tx) /\ trail' = tx.log /\ holder' = Idle
    BY <1>1, <1>2, <1>7 DEF Commit
  <2>2. QED
    BY <1>1, <1>2, <2>1, CommitLogged
<1>8. ASSUME Rollback PROVE UNCHANGED <<row, trail>> /\ holder' = Idle
  BY <1>8 DEF Rollback
<1>9. QED
  BY <1>2, <1>4, <1>5, <1>6, <1>7, <1>8 DEF LogNext, logVars, Numbered, Newest

(* A row carries a pause exactly while the last transaction that decided    *)
(* anything recorded an exception (_resolve_pause_context), for callers     *)
(* whose every transition names a column.                                   *)
THEOREM PauseCorrect == LogSpec => []PausedWhileFailed
<1>1. LogSpec => []Followed
  BY InitFollowed, StepFollowed, LogInvariance, PTL DEF LogSpec
<1>2. Followed => PausedWhileFailed
  BY DEF Followed
<1>3. QED
  BY <1>1, <1>2, PTL
=============================================================================
