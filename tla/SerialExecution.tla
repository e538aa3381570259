-------------------------- MODULE SerialExecution --------------------------
(***************************************************************************)
(* What the run queue promises its callers, with Redis, Celery and the     *)
(* workers hidden: the work items submitted for one key (a lifecycle, or   *)
(* an inbound email delivery) are attempted one at a time, in the order in *)
(* which they were submitted, each at most once.  A lost process may halt  *)
(* a key; a halted key keeps accepting items and never attempts another.   *)
(***************************************************************************)
EXTENDS Naturals, Sequences

CONSTANTS Keys,    \* serialization keys
          Items    \* work items

VARIABLES queue,   \* queue[k]: items submitted for k and not yet finished
          status,  \* status[k]: what is happening to the head of queue[k]
          log      \* log[k]: the items attempted for k, in order

vars == <<queue, status, log>>

Statuses == {"idle", "running", "halted"}

TypeOK == /\ queue \in [Keys -> Seq(Items)]
          /\ status \in [Keys -> Statuses]
          /\ log \in [Keys -> Seq(Items)]

Init == /\ queue = [k \in Keys |-> <<>>]
        /\ status = [k \in Keys |-> "idle"]
        /\ log = [k \in Keys |-> <<>>]

Submit(k, i) == /\ queue' = [queue EXCEPT ![k] = Append(@, i)]
                /\ UNCHANGED <<status, log>>

Begin(k) == /\ status[k] = "idle"
            /\ queue[k] # <<>>
            /\ status' = [status EXCEPT ![k] = "running"]
            /\ log' = [log EXCEPT ![k] = Append(@, Head(queue[k]))]
            /\ UNCHANGED queue

\* The attempt ended, in success or in failure: its item leaves the queue.
End(k) == /\ status[k] = "running"
          /\ queue[k] # <<>>
          /\ status' = [status EXCEPT ![k] = "idle"]
          /\ queue' = [queue EXCEPT ![k] = Tail(@)]
          /\ UNCHANGED log

\* Whoever was responsible for the head is gone; the head stays.
Halt(k) == /\ status[k] \in {"idle", "running"}
           /\ queue[k] # <<>>
           /\ status' = [status EXCEPT ![k] = "halted"]
           /\ UNCHANGED <<queue, log>>

Next == \E k \in Keys : \/ \E i \in Items : Submit(k, i)
                        \/ Begin(k)
                        \/ End(k)
                        \/ Halt(k)

Spec == Init /\ [][Next]_vars
=============================================================================
