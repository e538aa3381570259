------------------------------ MODULE RunQueue ------------------------------
(***************************************************************************)
(* The per-key run queue: a Redis list for each key (inbox:lifecycle:<id>  *)
(* or inbox:email_ingress:<id>), a publish bridge that puts a Celery       *)
(* message on the broker only for the head of the list, and the Celery     *)
(* task that runs the head and then starts the next one.                   *)
(*                                                                         *)
(* Every Redis command, every publication and every part of the task       *)
(* between two of them is one atomic step; callers and workers interleave. *)
(* A fault is the loss of a process, or an exception where the code has no *)
(* handler: whatever the process still had to do is never done, and Celery *)
(* does not deliver the message again (acks early, no autoretry).          *)
(***************************************************************************)
EXTENDS Naturals, Sequences

CONSTANTS Keys,       \* serialization keys
          Items,      \* work items; a caller enqueues each at most once
          Workers,    \* Celery worker processes
          Blank,      \* items without tenant_slug, workflow_name or payload
          Corrupt,    \* list entries that do not decode to an object
          None,       \* no key, no item
          MaxFaults   \* how many faults a behaviour may have

ASSUME ItemAssumption == Blank \subseteq Items /\ Corrupt \subseteq Items
ASSUME NoneAssumption == None \notin Keys /\ None \notin Items
ASSUME FaultAssumption == MaxFaults \in Nat

VARIABLES
  inbox,      \* inbox[k]: the Redis list of k, head first
  starting,   \* [key, item]: admitted as head, caller has still to publish
  broker,     \* broker[k]: Celery messages for k that no worker has taken
  wpc,        \* wpc[w]: where worker w is in run_workflow_async
  wkey,       \* wkey[w]: the key of its message
  witem,      \* witem[w]: the item it runs, or is about to publish
  failed,     \* the items in failed:workflows
  arrivals,   \* history: arrivals[k], every item pushed on inbox[k]
  log,        \* history: log[k], every attempt for k
  faults      \* how many faults there have been

vars == <<inbox, starting, broker, wpc, wkey, witem, failed,
          arrivals, log, faults>>

Steps == {"idle", "run", "record", "complete", "peek", "drop", "publish"}

TypeOK ==
  /\ inbox \in [Keys -> Seq(Items)]
  /\ starting \subseteq [key : Keys, item : Items]
  /\ broker \in [Keys -> Seq(Items)]
  /\ wpc \in [Workers -> Steps]
  /\ wkey \in [Workers -> Keys \cup {None}]
  /\ witem \in [Workers -> Items \cup {None}]
  /\ \A w \in Workers : wpc[w] # "idle" => wkey[w] \in Keys
  /\ \A w \in Workers : wpc[w] \in {"run", "record", "complete", "publish"}
                          => witem[w] \in Items
  /\ failed \subseteq Items
  /\ arrivals \in [Keys -> Seq(Items)]
  /\ log \in [Keys -> Seq(Items)]
  /\ faults \in 0..MaxFaults

Init ==
  /\ inbox = [k \in Keys |-> <<>>]
  /\ starting = {}
  /\ broker = [k \in Keys |-> <<>>]
  /\ wpc = [w \in Workers |-> "idle"]
  /\ wkey = [w \in Workers |-> None]
  /\ witem = [w \in Workers |-> None]
  /\ failed = {}
  /\ arrivals = [k \in Keys |-> <<>>]
  /\ log = [k \in Keys |-> <<>>]
  /\ faults = 0

-----------------------------------------------------------------------------
(* LifecycleRunQueueService.                                               *)

\* Faulty variants of the operators below, used as mutants.
EnqueueSecondToo(length) == length <= 2
EnqueueAlways(length) == length >= 1
ChainAllButLast(remaining) == remaining > 1
PopNewest(list) == IF list = <<>> THEN list ELSE SubSeq(list, 1, Len(list) - 1)
AcceptAnything(entry) == TRUE

ShouldEnqueue(length) == length = 1

ShouldChain(remaining) == remaining > 0

\* LPOP: an empty list stays empty.
Pop(list) == IF list = <<>> THEN list ELSE Tail(list)

\* The entry decodes to a JSON object.
IsObject(entry) == entry \notin Corrupt

Used(i) == \E k \in Keys : \E n \in 1..Len(arrivals[k]) : arrivals[k][n] = i

Fault == /\ faults < MaxFaults
         /\ faults' = faults + 1

-----------------------------------------------------------------------------
(* A caller: a webhook request, a reminder task or a running graph.        *)

\* enqueue up to the RPUSH and the length Redis returns for it.
Admit(k, i) ==
  /\ i \notin Corrupt
  /\ ~Used(i)
  /\ inbox' = [inbox EXCEPT ![k] = Append(@, i)]
  /\ arrivals' = [arrivals EXCEPT ![k] = Append(@, i)]
  /\ starting' = IF ShouldEnqueue(Len(inbox[k]) + 1)
                   THEN starting \cup {[key |-> k, item |-> i]}
                   ELSE starting
  /\ UNCHANGED <<broker, wpc, wkey, witem, failed, log, faults>>

\* The rest of enqueue: apply_async of the item that became the head.
PublishHead(s) ==
  /\ s \in starting
  /\ starting' = starting \ {s}
  /\ broker' = [broker EXCEPT ![s.key] = Append(@, s.item)]
  /\ UNCHANGED <<inbox, wpc, wkey, witem, failed, arrivals, log, faults>>

\* apply_async raises, or the caller dies between RPUSH and apply_async.
CallerLost(s) ==
  /\ s \in starting
  /\ Fault
  /\ starting' = starting \ {s}
  /\ UNCHANGED <<inbox, broker, wpc, wkey, witem, failed, arrivals, log>>

\* A list entry that is not a JSON object, which peek_head guards against;
\* nothing in the program writes one.
ForeignPush(k, i) ==
  /\ i \in Corrupt
  /\ ~Used(i)
  /\ inbox' = [inbox EXCEPT ![k] = Append(@, i)]
  /\ arrivals' = [arrivals EXCEPT ![k] = Append(@, i)]
  /\ UNCHANGED <<starting, broker, wpc, wkey, witem, failed, log, faults>>

-----------------------------------------------------------------------------
(* A Celery worker executing run_workflow_async.                           *)

\* The message is acknowledged when it is taken, before the task runs.
Take(w, k) ==
  /\ wpc[w] = "idle"
  /\ broker[k] # <<>>
  /\ broker' = [broker EXCEPT ![k] = Tail(@)]
  /\ wpc' = [wpc EXCEPT ![w] = "run"]
  /\ wkey' = [wkey EXCEPT ![w] = k]
  /\ witem' = [witem EXCEPT ![w] = Head(broker[k])]
  /\ log' = [log EXCEPT ![k] = Append(@, Head(broker[k]))]
  /\ UNCHANGED <<inbox, starting, failed, arrivals, faults>>

Goto(w, step) ==
  /\ wpc' = [wpc EXCEPT ![w] = step]
  /\ UNCHANGED wkey

\* WorkflowService.run returns, or raises.
Run(w) ==
  /\ wpc[w] = "run"
  /\ \E outcome \in {"complete", "record"} : Goto(w, outcome)
  /\ UNCHANGED <<inbox, starting, broker, witem, failed, arrivals, log, faults>>

\* A faulty variant of Record: the key is recorded instead of the item.
RecordKey(w) ==
  /\ wpc[w] = "record"
  /\ Goto(w, "complete")
  /\ failed' = failed \cup {wkey[w]}
  /\ UNCHANGED <<inbox, starting, broker, witem, arrivals, log, faults>>

\* The except branch; a Redis error in it still reaches finally.
Record(w) ==
  /\ wpc[w] = "record"
  /\ Goto(w, "complete")
  /\ \/ failed' = failed \cup {witem[w]} /\ UNCHANGED faults
     \/ Fault /\ UNCHANGED failed
  /\ UNCHANGED <<inbox, starting, broker, witem, arrivals, log>>

\* The MULTI of LPOP and LLEN.
Complete(w) ==
  LET left == Pop(inbox[wkey[w]]) IN
  /\ wpc[w] = "complete"
  /\ inbox' = [inbox EXCEPT ![wkey[w]] = left]
  /\ Goto(w, IF ShouldChain(Len(left)) THEN "peek" ELSE "idle")
  /\ UNCHANGED <<starting, broker, witem, failed, arrivals, log, faults>>

\* LINDEX 0 and what is decided from the entry it returns.
Peek(w) ==
  LET list == inbox[wkey[w]] IN
  /\ wpc[w] = "peek"
  /\ \/ /\ list = <<>>                           \* drained
        /\ Goto(w, "idle")
        /\ UNCHANGED witem
     \/ /\ list # <<>> /\ ~IsObject(Head(list))
        /\ Goto(w, "drop")
        /\ UNCHANGED witem
     \/ /\ list # <<>> /\ IsObject(Head(list))
        /\ Head(list) \in Blank                      \* left for ops
        /\ Goto(w, "idle")
        /\ UNCHANGED witem
     \/ /\ list # <<>> /\ IsObject(Head(list))
        /\ Head(list) \notin Blank
        /\ Goto(w, "publish")
        /\ witem' = [witem EXCEPT ![w] = Head(list)]
  /\ UNCHANGED <<inbox, starting, broker, failed, arrivals, log, faults>>

\* LPOP of the corrupt head, then around the loop.
Drop(w) ==
  /\ wpc[w] = "drop"
  /\ inbox' = [inbox EXCEPT ![wkey[w]] = Pop(@)]
  /\ Goto(w, "peek")
  /\ UNCHANGED <<starting, broker, witem, failed, arrivals, log, faults>>

PublishNext(w) ==
  /\ wpc[w] = "publish"
  /\ broker' = [broker EXCEPT ![wkey[w]] = Append(@, witem[w])]
  /\ Goto(w, "idle")
  /\ UNCHANGED <<inbox, starting, witem, failed, arrivals, log, faults>>

\* The process dies or the task raises outside its try block: in
\* WorkflowService(), complete, peek_head or apply_async.
WorkerLost(w) ==
  /\ wpc[w] # "idle"
  /\ Fault
  /\ Goto(w, "idle")
  /\ UNCHANGED <<inbox, starting, broker, witem, failed, arrivals, log>>

-----------------------------------------------------------------------------
Step(w) == Run(w) \/ Record(w) \/ Complete(w) \/ Peek(w) \/ Drop(w) \/ PublishNext(w)

Next ==
  \/ \E k \in Keys, i \in Items : Admit(k, i) \/ ForeignPush(k, i)
  \/ \E s \in starting : PublishHead(s) \/ CallerLost(s)
  \/ \E w \in Workers, k \in Keys : Take(w, k)
  \/ \E w \in Workers : Step(w) \/ WorkerLost(w)

Spec == Init /\ [][Next]_vars

(* A caller that lives publishes, the broker delivers to a free worker, and *)
(* a graph attempt ends: nothing in the code bounds an attempt, but every   *)
(* wait in it is on a database or an HTTP client with a timeout.            *)
Fairness ==
  /\ \A k \in Keys, i \in Items : WF_vars(PublishHead([key |-> k, item |-> i]))
  /\ \A k \in Keys : WF_vars(\E w \in Workers : Take(w, k))
  /\ \A w \in Workers : WF_vars(Step(w))

FairSpec == Spec /\ Fairness

-----------------------------------------------------------------------------
(* Who is responsible for the head of inbox[k].                            *)

\* Workers between taking a message for k and having started the next one.
Busy(k) == {w \in Workers : wpc[w] # "idle" /\ wkey[w] = k}

InFlight(k) == \/ \E s \in starting : s.key = k
               \/ broker[k] # <<>>
               \/ Busy(k) # {}

\* Entries wait and nobody will ever run them.
Orphaned(k) == inbox[k] # <<>> /\ ~InFlight(k)

(* At most one Celery task is in flight for a key, counting the caller that *)
(* is about to publish it, the message on the broker and the worker that    *)
(* has it; the class docstring of LifecycleRunQueueService states it.       *)
AtMostOneInFlight ==
  \A k \in Keys :
    /\ Len(broker[k]) <= 1
    /\ \A v, w \in Busy(k) : v = w
    /\ \A s, t \in starting : s.key = k /\ t.key = k => s = t
    /\ broker[k] # <<>> => Busy(k) = {}
    /\ (\E s \in starting : s.key = k) => broker[k] = <<>> /\ Busy(k) = {}

(* Two graph attempts never run at once for one key; what the serialization *)
(* is for, whatever the list holds.                                         *)
AtMostOneAttempt ==
  \A v, w \in Workers :
    {wpc[v], wpc[w]} \subseteq {"run", "record"} /\ wkey[v] = wkey[w] => v = w

(* complete pops whatever is at the head; it is the item of the attempt     *)
(* that just ended, for as long as the attempt lasts.                       *)
CompletesItsOwnItem ==
  \A w \in Workers : wpc[w] \in {"run", "record", "complete"} =>
    /\ inbox[wkey[w]] # <<>>
    /\ Head(inbox[wkey[w]]) = witem[w]

(* Before the first fault, entries never wait with nobody responsible for   *)
(* them, unless a blank payload is among them: the RPUSH that finds the list *)
(* non-empty and the LPOP that leaves it so never miss one another.         *)
NeverOrphaned ==
  faults = 0 => \A k \in Keys : Orphaned(k) => \E n \in 1..Len(arrivals[k]) : arrivals[k][n] \in Blank

(* Every admitted item is attempted, failures of earlier attempts included, *)
(* unless its own key has been orphaned: a lost process stops no other key. *)
AdmittedEventuallyRuns ==
  \A k \in Keys, i \in Items \ Corrupt :
    (\E n \in 1..Len(arrivals[k]) : arrivals[k][n] = i)
      ~> \/ \E n \in 1..Len(log[k]) : log[k][n] = i
         \/ Orphaned(k)

(* What peek_head drops is never attempted, even when it was pushed while   *)
(* the list was empty or while the head before it was running.              *)
CorruptNeverAttempted ==
  \A k \in Keys : \A n \in 1..Len(log[k]) : log[k][n] \notin Corrupt

-----------------------------------------------------------------------------
(* The queue implements SerialExecution.                                   *)

Running(k) == \E w \in Busy(k) : wpc[w] \in {"run", "record", "complete"}

StatusOf(k) == IF Running(k) THEN "running"
               ELSE IF Orphaned(k) THEN "halted"
               ELSE "idle"

Serial == INSTANCE SerialExecution WITH
            queue <- inbox,
            status <- [k \in Keys |-> StatusOf(k)],
            log <- log

(* With lists that hold only what admit wrote, callers see one attempt at a *)
(* time, in order, at most once, through any interleaving and any faults.   *)
SerialSpec == Serial!Spec
=============================================================================
