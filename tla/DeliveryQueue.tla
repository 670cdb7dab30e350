---------------------------- MODULE DeliveryQueue ----------------------------
(***************************************************************************)
(* The orchestrator's inbox: the webhook_deliveries table of ledger.py,    *)
(* which is both idempotency ledger and work queue, and the asyncio worker *)
(* of webhook.py that drains it.                                           *)
(*                                                                         *)
(* The table survives the process.  Everything else here (the lock table,  *)
(* the counts that decide when a lock is dropped, the slots, the tasks) is *)
(* the memory of one process and is gone when it stops.  The event loop is *)
(* one thread, so the code between two awaits is one action.               *)
(***************************************************************************)
EXTENDS Naturals, FiniteSets

CONSTANTS
  Deliveries,     \* the deliveries (guids) that may be handed in
  Payload,        \* Payload[d]: the fields of d's payload thread_key reads
  Absent,         \* the value of a payload field that is not there
  Concurrency,    \* worker_concurrency: deliveries processed at once
  Limit,          \* claim_pending's limit
  MaxRestarts,    \* bound: how often the process may stop and start again
  MaxDbErrors     \* bound: how many statements of the worker may fail

ThreadKey(d) ==
  LET p == Payload[d] IN
    <<p.repo, IF p.issue # Absent THEN p.issue
              ELSE IF p.input # Absent THEN p.input ELSE "repo">>

Threads == {ThreadKey(d) : d \in Deliveries}

(* Absent is no delivery: it also stands for "no lock". *)
ASSUME QueueAssumption ==
  /\ IsFiniteSet(Deliveries)
  /\ Absent \notin Deliveries
  /\ Concurrency \in Nat \ {0}
  /\ Limit \in Nat \ {0}
  /\ MaxRestarts \in Nat
  /\ MaxDbErrors \in Nat

VARIABLES
  (* the database *)
  status,       \* status[d]: the row's status; "absent" when there is no row
  arrival,      \* arrival[d]: received_at, as a place in the order of arrival
  (* the process *)
  worker,       \* "up", "draining" (stop was set), "dead" (its loop raised), "down"
  task,         \* task[d]: where d's process() coroutine is
  lock,         \* lock[d]: the lock object that coroutine was given
  ticket,       \* ticket[d]: its place in the order the coroutines were created
  issueLocks,   \* issueLocks[k]: the lock object in the table for thread k
  waiting,      \* waiting[k]: deliveries holding or queued on that lock
  slots,        \* the semaphore's value
  (* history *)
  attempts,     \* attempts[d]: how often the processor was started on d
  restarts,     \* how often the process has started again
  dbErrors      \* how many of the worker's statements have failed

table == <<status, arrival>>
locks == <<lock, ticket, issueLocks, waiting>>
history == <<attempts, restarts, dbErrors>>
vars == <<status, arrival, worker, task, lock, ticket, issueLocks, waiting,
          slots, attempts, restarts, dbErrors>>

Statuses == {"absent", "pending", "processing", "done", "failed"}

(* "queued": waiting for its issue's lock.  "locked": holds it, waiting    *)
(* for a slot.  "running": the processor is at work in its thread.         *)
(* "returned", "raised": the processor ended, the row is still to be       *)
(* stamped.  "lost": the stamp itself raised and the coroutine died of it. *)
Holding == {"locked", "running", "returned", "raised"}
InSlot  == {"running", "returned", "raised"}
Live    == {"queued"} \cup Holding
Tasks   == {"none", "lost"} \cup Live

TypeOK ==
  /\ status \in [Deliveries -> Statuses]
  /\ arrival \in [Deliveries -> Nat]
  /\ worker \in {"up", "draining", "dead", "down"}
  /\ task \in [Deliveries -> Tasks]
  /\ lock \in [Deliveries -> Deliveries \cup {Absent}]
  /\ ticket \in [Deliveries -> Nat]
  /\ issueLocks \in [Threads -> Deliveries \cup {Absent}]
  /\ waiting \in [Threads -> Nat]
  /\ slots \in 0 .. Concurrency
  /\ attempts \in [Deliveries -> Nat]
  /\ restarts \in Nat
  /\ dbErrors \in 0 .. MaxDbErrors

(* The memory of a process that has just started. *)
FreshProcess ==
  /\ task' = [d \in Deliveries |-> "none"]
  /\ lock' = [d \in Deliveries |-> Absent]
  /\ ticket' = [d \in Deliveries |-> 0]
  /\ issueLocks' = [k \in Threads |-> Absent]
  /\ waiting' = [k \in Threads |-> 0]
  /\ slots' = Concurrency

Init ==
  /\ status = [d \in Deliveries |-> "absent"]
  /\ arrival = [d \in Deliveries |-> 0]
  /\ worker = "up"
  /\ task = [d \in Deliveries |-> "none"]
  /\ lock = [d \in Deliveries |-> Absent]
  /\ ticket = [d \in Deliveries |-> 0]
  /\ issueLocks = [k \in Threads |-> Absent]
  /\ waiting = [k \in Threads |-> 0]
  /\ slots = Concurrency
  /\ attempts = [d \in Deliveries |-> 0]
  /\ restarts = 0
  /\ dbErrors = 0
-----------------------------------------------------------------------------
(***************************************************************************)
(* Taking deliveries in.  POST /webhooks/github, /events, /dispatch and    *)
(* the reconciler all end in record_delivery; a guid the table has is a    *)
(* redelivery and changes nothing, whatever became of the first one.       *)
(***************************************************************************)
(* A plausible slip: a delivery that is no longer queued is taken in again. *)
FreshUnlessQueued(d) == status[d] \notin {"pending", "processing"}

Fresh(d) == status[d] = "absent"

RecordDelivery(d) ==
  /\ worker # "down"
  /\ IF Fresh(d)
     THEN /\ status' = [status EXCEPT ![d] = "pending"]
          /\ arrival' = [arrival EXCEPT ![d] =
                           1 + Cardinality({e \in Deliveries : arrival[e] # 0})]
     ELSE UNCHANGED table
  /\ UNCHANGED <<worker, task, locks, slots, history>>
-----------------------------------------------------------------------------
(***************************************************************************)
(* The worker loop.                                                        *)
(***************************************************************************)
Pending == {d \in Deliveries : status[d] = "pending"}

(* A plausible slip: the claim without its ORDER BY. *)
IsSomePending(S) ==
  /\ S \subseteq Pending
  /\ \/ Cardinality(S) = Limit
     \/ S = Pending /\ Cardinality(S) < Limit

(* What SELECT ... WHERE pending ORDER BY received_at LIMIT n returns. *)
IsOldestPending(S) ==
  /\ S \subseteq Pending
  /\ \A d \in S, e \in Pending \ S : arrival[d] < arrival[e]
  /\ \/ Cardinality(S) = Limit
     \/ S = Pending /\ Cardinality(S) < Limit

OfThread(S, k) == {d \in S : ThreadKey(d) = k}

(* A plausible slip: every batch makes its locks anew. *)
LockOfBatch(S, k) == CHOOSE d \in OfThread(S, k) : TRUE

(* issue_locks.setdefault(key, Lock()): the lock in the table, else a new  *)
(* one.  A lock object is named after a delivery of the batch that made    *)
(* it, which no other lock of this process can be.                         *)
LockFor(S, k) ==
  IF issueLocks[k] # Absent THEN issueLocks[k] ELSE CHOOSE d \in OfThread(S, k) : TRUE

Created == Cardinality({d \in Deliveries : ticket[d] # 0})

ClaimPending ==
  /\ worker = "up"
  /\ \E S \in SUBSET Pending :
       /\ S # {}
       /\ IsOldestPending(S)
       /\ status' = [d \in Deliveries |-> IF d \in S THEN "processing" ELSE status[d]]
       /\ task' = [d \in Deliveries |-> IF d \in S THEN "queued" ELSE task[d]]
       /\ lock' = [d \in Deliveries |->
                     IF d \in S THEN LockFor(S, ThreadKey(d)) ELSE lock[d]]
       /\ ticket' = [d \in Deliveries |->
                       IF d \in S
                       THEN Created + Cardinality({e \in S : arrival[e] <= arrival[d]})
                       ELSE ticket[d]]
       /\ issueLocks' = [k \in Threads |->
                           IF OfThread(S, k) = {} THEN issueLocks[k] ELSE LockFor(S, k)]
       /\ waiting' = [k \in Threads |-> waiting[k] + Cardinality(OfThread(S, k))]
  /\ UNCHANGED <<arrival, worker, slots, history>>

(* Nothing guards the claim: an error ends the loop, and with it all       *)
(* claiming, while the coroutines it created go on.                        *)
ClaimFails ==
  /\ worker = "up"
  /\ dbErrors < MaxDbErrors
  /\ dbErrors' = dbErrors + 1
  /\ worker' = "dead"
  /\ UNCHANGED <<table, task, locks, slots, attempts, restarts>>
-----------------------------------------------------------------------------
(***************************************************************************)
(* One delivery's coroutine: async with lock, slots.                       *)
(***************************************************************************)

(* asyncio.Lock is first in, first out: free, and nobody came before d. *)
AcquireLock(d) ==
  /\ task[d] = "queued"
  /\ \A e \in Deliveries : lock[e] = lock[d] =>
       /\ task[e] \notin Holding
       /\ task[e] = "queued" => ticket[d] <= ticket[e]
  /\ task' = [task EXCEPT ![d] = "locked"]
  /\ UNCHANGED <<table, worker, locks, slots, history>>

SlotIsFree == slots > 0

(* A slot is free: the processor starts in a thread of its own. *)
AcquireSlot(d) ==
  /\ task[d] = "locked"
  /\ SlotIsFree
  /\ slots' = slots - 1
  /\ task' = [task EXCEPT ![d] = "running"]
  /\ attempts' = [attempts EXCEPT ![d] = @ + 1]
  /\ UNCHANGED <<table, worker, locks, restarts, dbErrors>>

ProcessorEnds(d) ==
  /\ task[d] = "running"
  /\ \E end \in {"returned", "raised"} : task' = [task EXCEPT ![d] = end]
  /\ UNCHANGED <<table, worker, locks, slots, history>>

(* waiting[key] -= 1, and the lock goes with the last one counted. *)
DropLock(k) ==
  /\ waiting' = [waiting EXCEPT ![k] = @ - 1]
  /\ issueLocks' = IF waiting[k] = 1 THEN [issueLocks EXCEPT ![k] = Absent]
                                     ELSE issueLocks

(* The row is stamped; lock, slot and count are given back in one go. *)
Finish(d) ==
  /\ task[d] \in {"returned", "raised"}
  /\ status' = [status EXCEPT ![d] = IF task[d] = "raised" THEN "failed" ELSE "done"]
  /\ task' = [task EXCEPT ![d] = "none"]
  /\ slots' = slots + 1
  /\ DropLock(ThreadKey(d))
  /\ UNCHANGED <<arrival, worker, lock, ticket, history>>

(* finish_delivery(guid) raised inside the try: one more exception, to be  *)
(* stamped as the delivery's own.                                          *)
StampRaises(d) ==
  /\ task[d] = "returned"
  /\ dbErrors < MaxDbErrors
  /\ dbErrors' = dbErrors + 1
  /\ task' = [task EXCEPT ![d] = "raised"]
  /\ UNCHANGED <<table, worker, locks, slots, attempts, restarts>>

(* A plausible slip: the slot is given back after the stamp, not in a with. *)
LoseStampAndSlot(d) ==
  /\ task[d] = "raised"
  /\ dbErrors < MaxDbErrors
  /\ dbErrors' = dbErrors + 1
  /\ task' = [task EXCEPT ![d] = "lost"]
  /\ UNCHANGED <<table, worker, locks, slots, attempts, restarts>>

(* finish_delivery(guid, error) raised inside the except: the coroutine    *)
(* dies of it.  Leaving the async with gives lock and slot back, but the   *)
(* row stays at processing and the count is never taken down.              *)
LoseStamp(d) ==
  /\ task[d] = "raised"
  /\ dbErrors < MaxDbErrors
  /\ dbErrors' = dbErrors + 1
  /\ task' = [task EXCEPT ![d] = "lost"]
  /\ slots' = slots + 1
  /\ UNCHANGED <<table, worker, locks, attempts, restarts>>
-----------------------------------------------------------------------------
(***************************************************************************)
(* The process stops and starts.  Deliveries are only handed in, and the   *)
(* bounds on the model count, between a start and a stop.                  *)
(***************************************************************************)
StopWorker ==
  /\ worker = "up"
  /\ restarts < MaxRestarts
  /\ worker' = "draining"
  /\ UNCHANGED <<table, task, locks, slots, history>>

(* gather(inflight) is through: a clean exit. *)
Drained ==
  /\ worker = "draining"
  /\ \A d \in Deliveries : task[d] \notin Live
  /\ worker' = "down"
  /\ FreshProcess
  /\ UNCHANGED <<table, history>>

Crash ==
  /\ worker # "down"
  /\ restarts < MaxRestarts
  /\ worker' = "down"
  /\ FreshProcess
  /\ UNCHANGED <<table, history>>

(* A plausible slip: a start does not take up what the last process left. *)
RequeueNothing == UNCHANGED status

(* requeue_processing: what a prior process left unfinished is pending again. *)
RequeueProcessing ==
  status' = [d \in Deliveries |-> IF status[d] = "processing" THEN "pending" ELSE status[d]]

StartWorker ==
  /\ worker = "down"
  /\ worker' = "up"
  /\ RequeueProcessing
  /\ restarts' = restarts + 1
  /\ UNCHANGED <<arrival, task, locks, slots, attempts, dbErrors>>

(* The loop's first statement raises: the service answers, the loop never  *)
(* began, and what the last process left stays at processing.              *)
RequeueFails ==
  /\ worker = "down"
  /\ dbErrors < MaxDbErrors
  /\ dbErrors' = dbErrors + 1
  /\ worker' = "dead"
  /\ restarts' = restarts + 1
  /\ UNCHANGED <<table, task, locks, slots, attempts>>
-----------------------------------------------------------------------------
Next ==
  \/ \E d \in Deliveries : \/ RecordDelivery(d)
                           \/ AcquireLock(d)
                           \/ AcquireSlot(d)
                           \/ ProcessorEnds(d)
                           \/ Finish(d)
                           \/ StampRaises(d)
                           \/ LoseStamp(d)
  \/ ClaimPending
  \/ ClaimFails
  \/ StopWorker
  \/ Drained
  \/ Crash
  \/ StartWorker
  \/ RequeueFails

Spec == Init /\ [][Next]_vars

(* The event loop runs whatever can run; asyncio's locks and semaphores    *)
(* are first in, first out, so a coroutine waiting for a slot that is free *)
(* again and again gets one; every role run the processor makes is bounded *)
(* in time; and the container is restarted when it exits                   *)
(* (docker-compose.yml, restart: unless-stopped).                          *)
Fairness ==
  /\ WF_vars(ClaimPending)
  /\ WF_vars(Drained)
  /\ WF_vars(StartWorker)
  /\ \A d \in Deliveries : /\ WF_vars(AcquireLock(d))
                           /\ SF_vars(AcquireSlot(d))
                           /\ WF_vars(ProcessorEnds(d))
                           /\ WF_vars(Finish(d))

FairSpec == Spec /\ Fairness
-----------------------------------------------------------------------------
(***************************************************************************)
(* Properties.                                                             *)
(***************************************************************************)

(* Two deliveries of one issue are never at work at the same time: the     *)
(* lock a coroutine took from the table is the lock every other coroutine  *)
(* of its issue took, although the table forgets a lock as soon as its     *)
(* count says nobody needs it (webhook.py, worker_loop and process).       *)
OneAtATimePerIssue ==
  \A d, e \in Deliveries :
    /\ d # e /\ ThreadKey(d) = ThreadKey(e)
    /\ task[d] \in Holding
    => task[e] \notin Holding

(* No slot is leaked on any way out of process(), the one through a stamp  *)
(* that raised included, and none is given back twice: the pool never      *)
(* shrinks until the engine stands still, and never exceeds the cap.       *)
SlotsConserved ==
  slots + Cardinality({d \in Deliveries : task[d] \in InSlot}) = Concurrency

(* One issue's deliveries are worked on in the order they arrived, across  *)
(* batches, restarts and redeliveries: while d is at work nothing of its   *)
(* issue that arrived before it is still to be done.  The one exception is *)
(* a delivery whose stamp was lost.                                        *)
InOrderPerIssue ==
  \A d, e \in Deliveries :
    /\ task[d] \in Holding
    /\ ThreadKey(e) = ThreadKey(d)
    /\ arrival[e] # 0 /\ arrival[e] < arrival[d]
    => status[e] \in {"done", "failed"} \/ task[e] = "lost"

(* The loop died of requeue_processing, before its first claim. *)
NeverBegan == worker = "dead" /\ \A d \in Deliveries : ticket[d] = 0

(* A row at processing always has a coroutine of this very process behind  *)
(* it (or is the known casualty of a lost stamp): no other row waits for a *)
(* stamp that nobody is going to make, unless the worker never began, and  *)
(* then no delivery at all is at work.                                     *)
ProcessingIsOwned ==
  worker # "down" =>
    \A d \in Deliveries :
      /\ task[d] # "none" => status[d] = "processing" /\ ~ NeverBegan
      /\ status[d] = "processing" => task[d] # "none" \/ NeverBegan

(* The processor is started on a delivery once, and once more only for a   *)
(* restart of the process: no redelivery and no second claim starts it     *)
(* again (the engine contract's idempotency).                              *)
AtMostOncePerProcess ==
  \A d \in Deliveries : attempts[d] <= 1 + restarts

(* The lock table holds a lock exactly while something is counted on it,   *)
(* so it does not grow with every issue ever seen.                         *)
LockTableIsCounted ==
  \A k \in Threads :
    /\ issueLocks[k] = Absent <=> waiting[k] = 0
    /\ waiting[k] = Cardinality({d \in OfThread(Deliveries, k) : task[d] # "none"})

(* A stamped row keeps its stamp: no redelivery, restart or late coroutine *)
(* takes a delivery that was settled back into the queue.                  *)
StampsAreFinal ==
  [][\A d \in Deliveries :
       status[d] \in {"done", "failed"} => status'[d] = status[d]]_vars

(* Every accepted delivery is eventually stamped, however often the        *)
(* process goes away in between (ledger.py: "a crash between ack and       *)
(* processing loses nothing").  The only ways to stay unstamped are the    *)
(* worker's own loop having died and the delivery's stamp having been      *)
(* lost, and both last only until the next restart.                        *)
AcceptedIsStamped ==
  \A d \in Deliveries :
    status[d] # "absent" ~>
      status[d] \in {"done", "failed"} \/ worker = "dead" \/ task[d] = "lost"
-----------------------------------------------------------------------------
(* The queue implements the promise of Inbox.tla. *)
Progress(d) ==
  CASE status[d] = "absent"              -> "out"
    [] status[d] \in {"done", "failed"}  -> "settled"
    [] task[d] = "lost"                  -> "stranded"
    [] task[d] \in InSlot                -> "handling"
    [] OTHER                             -> "waiting"

Promise ==
  INSTANCE Inbox WITH ThreadOf <- [d \in Deliveries |-> ThreadKey(d)],
                      progress <- [d \in Deliveries |-> Progress(d)],
                      place    <- arrival

KeepsPromise == Promise!Spec
=============================================================================
