------------------------ MODULE DeliveryQueueProofs ------------------------
(***************************************************************************)
(* For every set of deliveries, every payload, every number of slots and   *)
(* every batch size, and however often the process stops and its           *)
(* statements fail: the types, one delivery of an issue at a time, the     *)
(* slots, and the counts the lock table is kept by; a delivery is worked   *)
(* on once per process, an issue's deliveries in the order they arrived,   *)
(* and so the queue keeps the promise of Inbox.tla.                        *)
(***************************************************************************)
EXTENDS DeliveryQueue, FiniteSetTheorems, TLAPS

(* Rows and coroutines belong together: only a row at processing has a     *)
(* coroutine, and a process that is down has none.                         *)
Owned ==
  /\ \A d \in Deliveries : task[d] # "none" => status[d] = "processing"
  /\ worker = "down" => \A d \in Deliveries : task[d] = "none"

(* A coroutine that may still enter, or is in, the critical section was    *)
(* given the lock that is in the table now.                                *)
OneLock ==
  \A d \in Deliveries :
    task[d] \in Live => /\ lock[d] = issueLocks[ThreadKey(d)]
                        /\ lock[d] # Absent

(* The coroutines of thread k that were counted and not counted off. *)
CountedOn(k) == {d \in OfThread(Deliveries, k) : task[d] # "none"}

(* Coroutines in a slot. *)
Inside == {d \in Deliveries : task[d] \in InSlot}

QueueInv ==
  /\ TypeOK
  /\ Owned
  /\ OneLock
  /\ LockTableIsCounted
  /\ SlotsConserved
  /\ OneAtATimePerIssue
-----------------------------------------------------------------------------
(* thread_key gives every delivery a thread of the table. *)
LEMMA KeyOfDelivery == \A d \in Deliveries : ThreadKey(d) \in Threads
  BY DEF Threads

LEMMA SubsetsAreFinite ==
  ASSUME NEW S, S \subseteq Deliveries
  PROVE  IsFiniteSet(S) /\ Cardinality(S) \in Nat
  BY QueueAssumption, FS_Subset, FS_CardinalityType DEF QueueAssumption

LEMMA InitTypeOK == Init => TypeOK
  <1> USE QueueAssumption DEF QueueAssumption
  <1> QED
    BY DEF Init, TypeOK, Statuses, Tasks

(* The lock a batch gives to a delivery of it is a lock, never Absent. *)
LEMMA LockForIsALock ==
  ASSUME TypeOK, NEW S, S \subseteq Deliveries, NEW k \in Threads, OfThread(S, k) # {}
  PROVE  LockFor(S, k) \in Deliveries
  <1>1. issueLocks[k] \in Deliveries \cup {Absent}
    BY DEF TypeOK
  <1>2. (CHOOSE d \in OfThread(S, k) : TRUE) \in Deliveries
    BY DEF OfThread
  <1> QED
    BY <1>1, <1>2 DEF LockFor

LEMMA ClaimTypeOK ==
  ASSUME TypeOK, ClaimPending
  PROVE  TypeOK'
  <1>1. PICK S \in SUBSET Pending :
          /\ status' = [d \in Deliveries |-> IF d \in S THEN "processing" ELSE status[d]]
          /\ task' = [d \in Deliveries |-> IF d \in S THEN "queued" ELSE task[d]]
          /\ lock' = [d \in Deliveries |->
                        IF d \in S THEN LockFor(S, ThreadKey(d)) ELSE lock[d]]
          /\ ticket' = [d \in Deliveries |->
                          IF d \in S
                          THEN Created + Cardinality({e \in S : arrival[e] <= arrival[d]})
                          ELSE ticket[d]]
          /\ issueLocks' = [k \in Threads |->
                              IF OfThread(S, k) = {} THEN issueLocks[k] ELSE LockFor(S, k)]
          /\ waiting' = [k \in Threads |-> waiting[k] + Cardinality(OfThread(S, k))]
    BY DEF ClaimPending
  <1>2. S \subseteq Deliveries
    BY DEF Pending
  <1>3. status' \in [Deliveries -> Statuses] /\ task' \in [Deliveries -> Tasks]
    BY <1>1 DEF TypeOK, Statuses, Tasks, Live
  <1>4. \A d \in S : LockFor(S, ThreadKey(d)) \in Deliveries
    BY <1>2, KeyOfDelivery, LockForIsALock DEF OfThread
  <1>5. lock' \in [Deliveries -> Deliveries \cup {Absent}]
    BY <1>1, <1>4 DEF TypeOK
  <1>6. issueLocks' \in [Threads -> Deliveries \cup {Absent}]
    BY <1>1, <1>2, LockForIsALock DEF TypeOK
  <1>7. Created \in Nat
    BY SubsetsAreFinite DEF Created
  <1>8. \A d \in Deliveries : Cardinality({e \in S : arrival[e] <= arrival[d]}) \in Nat
    BY <1>2, SubsetsAreFinite
  <1>9. ticket' \in [Deliveries -> Nat]
    BY <1>1, <1>7, <1>8 DEF TypeOK
  <1>10. \A k \in Threads : Cardinality(OfThread(S, k)) \in Nat
    BY <1>2, SubsetsAreFinite DEF OfThread
  <1>11. waiting' \in [Threads -> Nat]
    BY <1>1, <1>10 DEF TypeOK
  <1> QED
    BY <1>3, <1>5, <1>6, <1>9, <1>11 DEF TypeOK, ClaimPending, history

(* Moving a coroutine that is counted to another state it is counted in    *)
(* leaves the lock table's books right.                                    *)
LEMMA MovingKeepsCounts ==
  ASSUME TypeOK, LockTableIsCounted,
         NEW d \in Deliveries, task[d] # "none",
         NEW t \in Tasks \ {"none"}, task' = [task EXCEPT ![d] = t],
         UNCHANGED <<issueLocks, waiting>>
  PROVE  LockTableIsCounted'
  <1>1. ASSUME NEW k \in Threads
        PROVE  {e \in OfThread(Deliveries, k) : task'[e] # "none"}
                 = {e \in OfThread(Deliveries, k) : task[e] # "none"}
    BY DEF TypeOK, OfThread
  <1> QED
    BY <1>1 DEF LockTableIsCounted, OfThread

(* Entering a slot and leaving one change the number inside by one. *)
LEMMA InsideGrows ==
  ASSUME TypeOK, NEW d \in Deliveries, task[d] \notin InSlot,
         NEW t \in InSlot, task' = [task EXCEPT ![d] = t]
  PROVE  Cardinality(Inside') = Cardinality(Inside) + 1
  <1>1. Inside' = Inside \cup {d} /\ d \notin Inside
    BY DEF Inside, TypeOK, InSlot
  <1>2. IsFiniteSet(Inside)
    BY SubsetsAreFinite DEF Inside
  <1> QED
    BY <1>1, <1>2, FS_AddElement

LEMMA InsideShrinks ==
  ASSUME TypeOK, NEW d \in Deliveries, task[d] \in InSlot,
         NEW t \in Tasks \ InSlot, task' = [task EXCEPT ![d] = t]
  PROVE  /\ Cardinality(Inside') = Cardinality(Inside) - 1
         /\ Cardinality(Inside) \in Nat \ {0}
  <1>1. Inside' = Inside \ {d} /\ d \in Inside
    BY DEF Inside, TypeOK
  <1>2. IsFiniteSet(Inside) /\ Cardinality(Inside) \in Nat /\ IsFiniteSet(Inside')
          /\ Cardinality(Inside') \in Nat
    BY SubsetsAreFinite DEF Inside
  <1>3. Cardinality(Inside') = Cardinality(Inside) - 1
    BY <1>1, <1>2, FS_RemoveElement
  <1> QED
    BY <1>2, <1>3

LEMMA InsideStays ==
  ASSUME \A d \in Deliveries : task'[d] \in InSlot <=> task[d] \in InSlot
  PROVE  Inside' = Inside
  BY DEF Inside
-----------------------------------------------------------------------------
LEMMA InitQueueInv == Init => QueueInv
  <1> SUFFICES ASSUME Init PROVE QueueInv
    OBVIOUS
  <1>1. TypeOK
    BY InitTypeOK
  <1>2. Owned /\ OneLock /\ OneAtATimePerIssue
    BY DEF Init, Owned, OneLock, OneAtATimePerIssue, Live, Holding
  <1>3. \A k \in Threads : {d \in OfThread(Deliveries, k) : task[d] # "none"} = {}
    BY DEF Init, OfThread
  <1>4. LockTableIsCounted
    BY <1>3, FS_EmptySet DEF Init, LockTableIsCounted
  <1>5. {d \in Deliveries : task[d] \in InSlot} = {}
    BY DEF Init, InSlot
  <1>6. SlotsConserved
    BY <1>5, FS_EmptySet, QueueAssumption DEF Init, SlotsConserved, QueueAssumption
  <1> QED
    BY <1>1, <1>2, <1>4, <1>6 DEF QueueInv

LEMMA RecordInv ==
  ASSUME QueueInv, NEW d \in Deliveries, RecordDelivery(d)
  PROVE  QueueInv'
  <1>1. Cardinality({e \in Deliveries : arrival[e] # 0}) \in Nat
    BY SubsetsAreFinite
  <1>2. TypeOK'
    BY <1>1 DEF QueueInv, TypeOK, RecordDelivery, table, locks, history, Statuses
  <1>3. Owned'
    BY DEF QueueInv, TypeOK, Owned, RecordDelivery, Fresh, table, locks, history
  <1> QED
    BY <1>2, <1>3 DEF QueueInv, OneLock, LockTableIsCounted, SlotsConserved, OneAtATimePerIssue,
       RecordDelivery, locks, Live, Holding, InSlot, OfThread

LEMMA AcquireLockInv ==
  ASSUME QueueInv, NEW d \in Deliveries, AcquireLock(d)
  PROVE  QueueInv'
  <1> USE DEF QueueInv
  <1>1. TypeOK'
    BY DEF TypeOK, AcquireLock, table, locks, history, Tasks, Live, Holding
  <1>2. Owned' /\ OneLock'
    BY DEF TypeOK, AcquireLock, table, locks, history, Owned, OneLock, Live, Holding
  <1>3. LockTableIsCounted'
    BY MovingKeepsCounts DEF AcquireLock, locks, Tasks, Live, Holding
  <1>4. \A e \in Deliveries : task'[e] \in InSlot <=> task[e] \in InSlot
    BY DEF TypeOK, AcquireLock, InSlot
  <1>5. SlotsConserved'
    BY <1>4 DEF SlotsConserved, AcquireLock, InSlot
  <1>6. OneAtATimePerIssue'
    <2> SUFFICES ASSUME NEW x \in Deliveries, NEW y \in Deliveries,
                        x # y, ThreadKey(x) = ThreadKey(y),
                        task'[x] \in Holding, task'[y] \in Holding
                 PROVE  FALSE
      BY DEF OneAtATimePerIssue
    <2>1. CASE x # d /\ y # d
      BY <2>1 DEF TypeOK, AcquireLock, OneAtATimePerIssue
    <2>2. ASSUME NEW z \in Deliveries, z # d, ThreadKey(z) = ThreadKey(d), task[z] \in Holding
          PROVE  FALSE
      <3>1. lock[z] = lock[d]
        BY <2>2 DEF OneLock, AcquireLock, Live
      <3> QED
        BY <2>2, <3>1 DEF AcquireLock
    <2> QED
      BY <2>1, <2>2 DEF TypeOK, AcquireLock
  <1> QED
    BY <1>1, <1>2, <1>3, <1>5, <1>6

LEMMA AcquireSlotInv ==
  ASSUME QueueInv, NEW d \in Deliveries, AcquireSlot(d)
  PROVE  QueueInv'
  <1> USE DEF QueueInv
  <1>1. TypeOK'
    BY QueueAssumption DEF QueueAssumption, TypeOK, AcquireSlot, SlotIsFree, table, locks, Tasks, Live, Holding
  <1>2. Owned' /\ OneLock' /\ OneAtATimePerIssue'
    BY DEF TypeOK, AcquireSlot, table, locks, Owned, OneLock, OneAtATimePerIssue, Live, Holding
  <1>3. LockTableIsCounted'
    BY MovingKeepsCounts DEF AcquireSlot, locks, Tasks, Live, Holding
  <1>4. Cardinality(Inside') = Cardinality(Inside) + 1
    BY InsideGrows DEF AcquireSlot, InSlot
  <1>5. Cardinality(Inside) \in Nat
    BY SubsetsAreFinite DEF Inside
  <1>6. SlotsConserved'
    BY <1>4, <1>5, QueueAssumption
       DEF QueueAssumption, SlotsConserved, AcquireSlot, Inside, TypeOK
  <1> QED
    BY <1>1, <1>2, <1>3, <1>6

(* ProcessorEnds and StampRaises: a coroutine in its slot stays there. *)
LEMMA StaysInSlotInv ==
  ASSUME QueueInv, NEW d \in Deliveries, task[d] \in InSlot,
         NEW t \in InSlot, task' = [task EXCEPT ![d] = t],
         dbErrors' \in 0 .. MaxDbErrors,
         UNCHANGED <<table, worker, locks, slots, attempts, restarts>>
  PROVE  QueueInv'
  <1> USE DEF QueueInv
  <1>1. TypeOK'
    BY DEF TypeOK, table, locks, Tasks, Live, Holding, InSlot
  <1>2. Owned' /\ OneLock' /\ OneAtATimePerIssue'
    BY DEF TypeOK, table, locks, Owned, OneLock, OneAtATimePerIssue, Live, Holding, InSlot
  <1>3. LockTableIsCounted'
    BY MovingKeepsCounts DEF locks, Tasks, Live, Holding, InSlot
  <1>4. \A e \in Deliveries : task'[e] \in InSlot <=> task[e] \in InSlot
    BY DEF TypeOK, InSlot
  <1>5. SlotsConserved'
    BY <1>4 DEF SlotsConserved, InSlot
  <1> QED
    BY <1>1, <1>2, <1>3, <1>5

(* A stamped delivery is counted off its lock, and the lock leaves the     *)
(* table only when that was the last delivery counted.                     *)
LEMMA FinishInv ==
  ASSUME QueueInv, NEW d \in Deliveries, Finish(d)
  PROVE  QueueInv'
  <1> USE DEF QueueInv
  <1> DEFINE k == ThreadKey(d)
             Others == {e \in OfThread(Deliveries, k) : task'[e] # "none"}
  <1>1. k \in Threads /\ task[d] \in InSlot /\ task' = [task EXCEPT ![d] = "none"]
    BY KeyOfDelivery DEF Finish, InSlot
  <1>2. /\ CountedOn(k) = Others \cup {d}
        /\ d \notin Others
    BY <1>1 DEF CountedOn, OfThread, TypeOK, InSlot
  <1>3. IsFiniteSet(Others) /\ Cardinality(Others) \in Nat
    BY SubsetsAreFinite DEF OfThread
  <1>4. waiting[k] = Cardinality(Others) + 1
    <2>1. waiting[k] = Cardinality(CountedOn(k))
      BY <1>1 DEF LockTableIsCounted, CountedOn
    <2> HIDE DEF Others
    <2>2. Cardinality(Others \cup {d}) = Cardinality(Others) + 1
      BY <1>2, <1>3, FS_AddElement
    <2> QED
      BY <1>2, <2>1, <2>2
  <1>5. waiting[k] = 1 <=> Others = {}
    BY <1>3, <1>4, FS_EmptySet
  <1>6. waiting' = [waiting EXCEPT ![k] = @ - 1]
        /\ issueLocks' = IF waiting[k] = 1 THEN [issueLocks EXCEPT ![k] = Absent]
                                           ELSE issueLocks
    BY DEF Finish, DropLock
  <1>7. /\ Cardinality(Inside') = Cardinality(Inside) - 1
        /\ Cardinality(Inside) \in Nat \ {0}
    BY <1>1, InsideShrinks DEF Tasks, InSlot
  <1>8. slots' = slots + 1 /\ slots' \in 0 .. Concurrency
    BY <1>7, QueueAssumption
       DEF QueueAssumption, Finish, SlotsConserved, Inside, TypeOK
  <1>9. TypeOK'
    <2>1. waiting' \in [Threads -> Nat]
      BY <1>1, <1>3, <1>4, <1>6 DEF TypeOK
    <2>2. issueLocks' \in [Threads -> Deliveries \cup {Absent}]
      BY <1>6 DEF TypeOK
    <2> QED
      BY <1>8, <2>1, <2>2 DEF TypeOK, Finish, history, Statuses, Tasks
  <1>10. Owned'
    BY DEF TypeOK, Owned, Finish
  <1>11. OneLock'
    <2> SUFFICES ASSUME NEW e \in Deliveries, task'[e] \in Live
                 PROVE  lock'[e] = issueLocks'[ThreadKey(e)] /\ lock'[e] # Absent
      BY DEF OneLock
    <2>1. e # d /\ task[e] = task'[e] /\ lock'[e] = lock[e]
      BY <1>1 DEF TypeOK, Finish, Live, Holding
    <2>2. lock[e] = issueLocks[ThreadKey(e)] /\ lock[e] # Absent
      BY <2>1 DEF OneLock
    <2>3. ThreadKey(e) = k => e \in Others
      BY <2>1 DEF OfThread, Live, Holding
    <2>4. issueLocks'[ThreadKey(e)] = issueLocks[ThreadKey(e)]
      BY <1>1, <1>5, <1>6, <2>3, KeyOfDelivery DEF TypeOK
    <2> QED
      BY <2>1, <2>2, <2>4
  <1>12. LockTableIsCounted'
    <2> SUFFICES ASSUME NEW j \in Threads
                 PROVE  /\ issueLocks'[j] = Absent <=> waiting'[j] = 0
                        /\ waiting'[j] = Cardinality({e \in OfThread(Deliveries, j) : task'[e] # "none"})
      BY DEF LockTableIsCounted, OfThread
    <2>1. CASE j = k
      <3>1. waiting'[k] = Cardinality(Others)
        BY <1>1, <1>3, <1>4, <1>6 DEF TypeOK
      <3>2. issueLocks'[k] = Absent <=> waiting[k] = 1
        <4>1. issueLocks[k] # Absent
          <5>1. waiting[k] # 0
            BY <1>3, <1>4
          <5> QED
            BY <1>1, <5>1 DEF LockTableIsCounted
        <4> QED
          BY <1>1, <1>6, <4>1 DEF TypeOK
      <3>3. waiting[k] = 1 <=> waiting'[k] = 0
        BY <3>1, <1>3, <1>4
      <3> QED
        BY <2>1, <3>1, <3>2, <3>3
    <2>2. CASE j # k
      <3>1. {e \in OfThread(Deliveries, j) : task'[e] # "none"}
              = {e \in OfThread(Deliveries, j) : task[e] # "none"}
        BY <1>1, <2>2 DEF OfThread, TypeOK
      <3> QED
        BY <2>2, <1>6, <3>1 DEF TypeOK, LockTableIsCounted
    <2> QED
      BY <2>1, <2>2
  <1>13. SlotsConserved'
    BY <1>7, <1>8, QueueAssumption
       DEF QueueAssumption, SlotsConserved, Inside, TypeOK
  <1>14. OneAtATimePerIssue'
    BY <1>1 DEF TypeOK, OneAtATimePerIssue, Holding
  <1> QED
    BY <1>9, <1>10, <1>11, <1>12, <1>13, <1>14

LEMMA LoseStampInv ==
  ASSUME QueueInv, NEW d \in Deliveries, LoseStamp(d)
  PROVE  QueueInv'
  <1> USE DEF QueueInv
  <1>1. /\ Cardinality(Inside') = Cardinality(Inside) - 1
        /\ Cardinality(Inside) \in Nat \ {0}
    BY InsideShrinks DEF LoseStamp, Tasks, Live, Holding, InSlot
  <1>2. slots' = slots + 1 /\ slots' \in 0 .. Concurrency
    BY <1>1, QueueAssumption
       DEF QueueAssumption, LoseStamp, SlotsConserved, Inside, TypeOK
  <1>3. TypeOK'
    BY <1>2, QueueAssumption DEF QueueAssumption, TypeOK, LoseStamp, table, locks, Tasks
  <1>4. Owned' /\ OneLock' /\ OneAtATimePerIssue'
    BY DEF TypeOK, LoseStamp, table, locks, Owned, OneLock, OneAtATimePerIssue, Live, Holding
  <1>5. LockTableIsCounted'
    BY MovingKeepsCounts DEF LoseStamp, locks, Tasks, Live, Holding
  <1>6. SlotsConserved'
    BY <1>1, <1>2, QueueAssumption
       DEF QueueAssumption, SlotsConserved, Inside, TypeOK
  <1> QED
    BY <1>3, <1>4, <1>5, <1>6

(* A batch: every delivery of it gets the lock every live coroutine of its *)
(* issue has, and is counted on it.                                        *)
LEMMA ClaimInv ==
  ASSUME QueueInv, ClaimPending
  PROVE  QueueInv'
  <1> USE DEF QueueInv
  <1>1. PICK S \in SUBSET Pending :
          /\ status' = [d \in Deliveries |-> IF d \in S THEN "processing" ELSE status[d]]
          /\ task' = [d \in Deliveries |-> IF d \in S THEN "queued" ELSE task[d]]
          /\ lock' = [d \in Deliveries |->
                        IF d \in S THEN LockFor(S, ThreadKey(d)) ELSE lock[d]]
          /\ issueLocks' = [k \in Threads |->
                              IF OfThread(S, k) = {} THEN issueLocks[k] ELSE LockFor(S, k)]
          /\ waiting' = [k \in Threads |-> waiting[k] + Cardinality(OfThread(S, k))]
    BY DEF ClaimPending
  <1>2. S \subseteq Deliveries /\ \A d \in S : task[d] = "none"
    BY DEF Pending, Owned
  <1>3. worker = "up" /\ worker' = worker /\ slots' = slots
    BY DEF ClaimPending
  <1>4. \A k \in Threads : OfThread(S, k) # {} => LockFor(S, k) \in Deliveries
    BY <1>2, LockForIsALock
  <1>5. TypeOK'
    BY ClaimTypeOK
  <1>6. Owned'
    BY <1>1, <1>3 DEF Owned
  <1>7. OneLock'
    <2> SUFFICES ASSUME NEW d \in Deliveries, task'[d] \in Live
                 PROVE  lock'[d] = issueLocks'[ThreadKey(d)] /\ lock'[d] # Absent
      BY DEF OneLock
    <2> DEFINE k == ThreadKey(d)
    <2>1. k \in Threads
      BY KeyOfDelivery
    <2>2. CASE d \in S
      <3>1. OfThread(S, k) # {}
        BY <2>2 DEF OfThread
      <3> QED
        BY <1>1, <1>4, <2>1, <2>2, <3>1, QueueAssumption DEF QueueAssumption
    <2>3. CASE d \notin S
      <3>1. lock'[d] = lock[d] /\ lock[d] = issueLocks[k] /\ lock[d] # Absent
        BY <1>1, <2>3 DEF OneLock
      <3>2. issueLocks'[k] = issueLocks[k]
        BY <1>1, <2>1, <3>1 DEF LockFor
      <3> QED
        BY <3>1, <3>2
    <2> QED
      BY <2>2, <2>3
  <1>8. LockTableIsCounted'
    <2> SUFFICES ASSUME NEW k \in Threads
                 PROVE  /\ issueLocks'[k] = Absent <=> waiting'[k] = 0
                        /\ waiting'[k] = Cardinality({e \in OfThread(Deliveries, k) : task'[e] # "none"})
      BY DEF LockTableIsCounted, OfThread
    <2> DEFINE Old == {e \in OfThread(Deliveries, k) : task[e] # "none"}
               New == OfThread(S, k)
    <2>1. /\ IsFiniteSet(Old) /\ Cardinality(Old) \in Nat
          /\ IsFiniteSet(New) /\ Cardinality(New) \in Nat
      BY <1>2, SubsetsAreFinite DEF OfThread
    <2>2. {e \in OfThread(Deliveries, k) : task'[e] # "none"} = Old \cup New
      BY <1>1, <1>2 DEF OfThread
    <2>3. Old \cap New = {}
      BY <1>2 DEF OfThread
    <2>4. Cardinality(Old \cup New) = Cardinality(Old) + Cardinality(New)
      <3>1. Cardinality(Old \cap New) = 0
        BY <2>3, FS_EmptySet
      <3> HIDE DEF Old, New
      <3>2. Cardinality(Old \cup New) = Cardinality(Old) + Cardinality(New) - Cardinality(Old \cap New)
        BY <2>1, FS_Union
      <3> QED
        BY <2>1, <3>1, <3>2
    <2>5. waiting'[k] = Cardinality(Old) + Cardinality(New)
      BY <1>1 DEF LockTableIsCounted
    <2>6. CASE New = {}
      BY <1>1, <2>1, <2>2, <2>4, <2>5, <2>6, FS_EmptySet DEF LockTableIsCounted
    <2>7. CASE New # {}
      <3>1. Cardinality(New) # 0
        BY <2>1, <2>7, FS_EmptySet
      <3>2. issueLocks'[k] # Absent
        BY <1>1, <1>4, <2>7, QueueAssumption DEF QueueAssumption
      <3>3. waiting'[k] # 0
        <4> HIDE DEF Old, New
        <4> QED
          BY <2>1, <2>5, <3>1
      <3> QED
        BY <2>2, <2>4, <2>5, <3>2, <3>3
    <2> QED
      BY <2>6, <2>7
  <1>9. \A e \in Deliveries : task'[e] \in InSlot <=> task[e] \in InSlot
    BY <1>1, <1>2 DEF InSlot
  <1>10. SlotsConserved'
    BY <1>3, <1>9 DEF SlotsConserved, InSlot
  <1>11. OneAtATimePerIssue'
    BY <1>1, <1>2 DEF OneAtATimePerIssue, Holding
  <1> QED
    BY <1>5, <1>6, <1>7, <1>8, <1>10, <1>11

(* A process that is down, or has just come up, has an empty memory. *)
LEMMA FreshProcessInv ==
  ASSUME QueueInv, FreshProcess, worker' = "down", UNCHANGED <<table, history>>
  PROVE  QueueInv'
  <1> USE DEF QueueInv
  <1>1. TypeOK'
    BY QueueAssumption DEF QueueAssumption, TypeOK, FreshProcess, table, history, Tasks
  <1>2. Owned' /\ OneLock' /\ OneAtATimePerIssue'
    BY DEF FreshProcess, Owned, OneLock, OneAtATimePerIssue, Live, Holding
  <1>3. \A k \in Threads : {d \in OfThread(Deliveries, k) : task'[d] # "none"} = {}
    BY DEF FreshProcess, OfThread
  <1>4. LockTableIsCounted'
    BY <1>3, FS_EmptySet DEF FreshProcess, LockTableIsCounted, OfThread
  <1>5. {d \in Deliveries : task'[d] \in InSlot} = {}
    BY DEF FreshProcess, InSlot
  <1>6. Cardinality({d \in Deliveries : task'[d] \in InSlot}) = 0
    BY <1>5, FS_EmptySet
  <1>7. SlotsConserved'
    BY <1>6, QueueAssumption DEF FreshProcess, SlotsConserved, QueueAssumption
  <1> QED
    BY <1>1, <1>2, <1>4, <1>7

(* The steps of the worker that touch no coroutine. *)
LEMMA WorkerInv ==
  ASSUME QueueInv, ClaimFails \/ StopWorker \/ StartWorker \/ RequeueFails
  PROVE  QueueInv'
  <1> USE DEF QueueInv
  <1>1. UNCHANGED <<task, locks, slots>> /\ worker' # "down"
    BY DEF ClaimFails, StopWorker, StartWorker, RequeueFails
  <1>2. TypeOK'
    <2>1. CASE ClaimFails
      BY <2>1, QueueAssumption DEF QueueAssumption, ClaimFails, TypeOK, table, locks
    <2>2. CASE StopWorker
      BY <2>2 DEF StopWorker, TypeOK, table, locks, history
    <2>3. CASE StartWorker
      BY <2>3, QueueAssumption
         DEF QueueAssumption, StartWorker, RequeueProcessing, TypeOK, locks, Statuses
    <2>4. CASE RequeueFails
      BY <2>4, QueueAssumption DEF QueueAssumption, RequeueFails, TypeOK, table, locks
    <2> QED
      BY <2>1, <2>2, <2>3, <2>4
  <1>3. Owned'
    BY <1>1 DEF ClaimFails, StopWorker, StartWorker, RequeueFails, RequeueProcessing, Owned, table
  <1>4. OneLock' /\ LockTableIsCounted' /\ SlotsConserved' /\ OneAtATimePerIssue'
    BY <1>1 DEF locks, OneLock, LockTableIsCounted, SlotsConserved, OneAtATimePerIssue,
       Live, Holding, InSlot, OfThread
  <1> QED
    BY <1>2, <1>3, <1>4

LEMMA NextInv == QueueInv /\ [Next]_vars => QueueInv'
  <1> SUFFICES ASSUME QueueInv, [Next]_vars PROVE QueueInv'
    OBVIOUS
  <1>1. ASSUME NEW d \in Deliveries, RecordDelivery(d) PROVE QueueInv'
    BY <1>1, RecordInv
  <1>2. ASSUME NEW d \in Deliveries, AcquireLock(d) PROVE QueueInv'
    BY <1>2, AcquireLockInv
  <1>3. ASSUME NEW d \in Deliveries, AcquireSlot(d) PROVE QueueInv'
    BY <1>3, AcquireSlotInv
  <1>4. ASSUME NEW d \in Deliveries, ProcessorEnds(d) PROVE QueueInv'
    <2>1. PICK t \in InSlot : task' = [task EXCEPT ![d] = t]
      BY <1>4 DEF ProcessorEnds, InSlot
    <2> QED
      BY <1>4, <2>1, StaysInSlotInv DEF ProcessorEnds, history, InSlot, QueueInv, TypeOK
  <1>5. ASSUME NEW d \in Deliveries, Finish(d) PROVE QueueInv'
    BY <1>5, FinishInv
  <1>6. ASSUME NEW d \in Deliveries, StampRaises(d) PROVE QueueInv'
    <2>1. dbErrors' \in 0 .. MaxDbErrors
      BY <1>6, QueueAssumption DEF QueueAssumption, StampRaises, QueueInv, TypeOK
    <2> QED
      BY <1>6, <2>1, StaysInSlotInv DEF StampRaises, InSlot
  <1>7. ASSUME NEW d \in Deliveries, LoseStamp(d) PROVE QueueInv'
    BY <1>7, LoseStampInv
  <1>8. CASE ClaimPending
    BY <1>8, ClaimInv
  <1>9. CASE Drained \/ Crash
    BY <1>9, FreshProcessInv DEF Drained, Crash
  <1>10. CASE ClaimFails \/ StopWorker \/ StartWorker \/ RequeueFails
    BY <1>10, WorkerInv
  <1>11. CASE UNCHANGED vars
    BY <1>11 DEF vars, QueueInv, TypeOK, Owned, OneLock, LockTableIsCounted, SlotsConserved,
       OneAtATimePerIssue, Live, Holding, InSlot, OfThread
  <1> QED
    BY <1>1, <1>2, <1>3, <1>4, <1>5, <1>6, <1>7, <1>8, <1>9, <1>10, <1>11 DEF Next

LEMMA QueueInvHolds == Spec => []QueueInv
  BY InitQueueInv, NextInv, PTL DEF Spec

(* The queue's variables keep their types: no count goes below zero and    *)
(* the semaphore never holds more than its permits.                        *)
THEOREM QueueTypeOK == Spec => []TypeOK
  <1>1. QueueInv => TypeOK
    BY DEF QueueInv
  <1> QED
    BY QueueInvHolds, <1>1, PTL

(* However many deliveries, slots and restarts there are, two deliveries   *)
(* of one issue are never at work at the same time.                        *)
THEOREM QueueSerializesAnIssue == Spec => []OneAtATimePerIssue
  <1>1. QueueInv => OneAtATimePerIssue
    BY DEF QueueInv
  <1> QED
    BY QueueInvHolds, <1>1, PTL

(* No way out of process() leaks a slot or gives one back twice. *)
THEOREM QueueConservesSlots == Spec => []SlotsConserved
  <1>1. QueueInv => SlotsConserved
    BY DEF QueueInv
  <1> QED
    BY QueueInvHolds, <1>1, PTL

(* A lock is in the table exactly while a delivery is counted on it. *)
THEOREM QueueCountsItsLocks == Spec => []LockTableIsCounted
  <1>1. QueueInv => LockTableIsCounted
    BY DEF QueueInv
  <1> QED
    BY QueueInvHolds, <1>1, PTL

(* A delivery that was stamped keeps its stamp: only a row that is pending *)
(* is claimed, only one at processing is stamped or queued again.          *)
THEOREM QueueStampsAreFinal == Spec => StampsAreFinal
  <1> DEFINE Final == \A d \in Deliveries : status[d] \in {"done", "failed"} => status'[d] = status[d]
  <1>1. QueueInv /\ [Next]_vars => [Final]_vars
    <2> SUFFICES ASSUME QueueInv, [Next]_vars,
                        NEW d \in Deliveries, status[d] \in {"done", "failed"}
                 PROVE  status'[d] = status[d]
      BY DEF Final
    <2> USE DEF QueueInv
    <2>1. ASSUME NEW e \in Deliveries, RecordDelivery(e) PROVE status'[d] = status[d]
      BY <2>1 DEF RecordDelivery, Fresh, TypeOK, table
    <2>2. ASSUME NEW e \in Deliveries,
                 AcquireLock(e) \/ AcquireSlot(e) \/ ProcessorEnds(e) \/ StampRaises(e) \/ LoseStamp(e)
          PROVE  status'[d] = status[d]
      BY <2>2 DEF AcquireLock, AcquireSlot, ProcessorEnds, StampRaises, LoseStamp, table
    <2>3. ASSUME NEW e \in Deliveries, Finish(e) PROVE status'[d] = status[d]
      BY <2>3 DEF Finish, TypeOK, Owned
    <2>4. CASE ClaimPending
      BY <2>4 DEF ClaimPending, Pending
    <2>5. CASE ClaimFails \/ StopWorker \/ Drained \/ Crash
      BY <2>5 DEF ClaimFails, StopWorker, Drained, Crash, table
    <2>6. CASE StartWorker
      BY <2>6 DEF StartWorker, RequeueProcessing
    <2>7. CASE RequeueFails \/ UNCHANGED vars
      BY <2>7 DEF RequeueFails, table, vars
    <2> QED
      BY <2>1, <2>2, <2>3, <2>4, <2>5, <2>6, <2>7 DEF Next
  <1> QED
    BY <1>1, QueueInvHolds, PTL DEF Spec, StampsAreFinal

-----------------------------------------------------------------------------
(***************************************************************************)
(* Order, ownership, and the promise of Inbox.tla.                         *)
(***************************************************************************)

(* A settled row, or one in the hands of its coroutine, may have been      *)
(* started in this process; a row still to be started has not been.        *)
StartedHere(d) ==
  \/ worker = "down"
  \/ task[d] \in InSlot \cup {"lost"}
  \/ status[d] \in {"done", "failed"}

AttemptsCounted ==
  \A d \in Deliveries : /\ attempts[d] <= 1 + restarts
                        /\ ~ StartedHere(d) => attempts[d] <= restarts

(* received_at orders the rows there are: no two share a place. *)
ArrivalsOrdered ==
  /\ \A d \in Deliveries :
       /\ status[d] = "absent" <=> arrival[d] = 0
       /\ arrival[d] <= Cardinality({e \in Deliveries : arrival[e] # 0})
  /\ \A d, e \in Deliveries : d # e /\ arrival[d] # 0 => arrival[d] # arrival[e]

(* Tickets are handed out to this process's coroutines, one after another. *)
TicketsCounted ==
  \A d \in Deliveries :
    /\ ticket[d] <= Created
    /\ task[d] # "none" => ticket[d] # 0
    /\ worker = "down" \/ status[d] \in {"absent", "pending"} => ticket[d] = 0

(* What is still pending arrived after what its issue has at work. *)
PendingIsLater ==
  \A d, e \in Deliveries :
    /\ ThreadKey(d) = ThreadKey(e)
    /\ task[d] \in Live
    /\ status[e] = "pending"
    => arrival[d] < arrival[e]

(* An issue's coroutines line up for its lock in the order of arrival. *)
LineIsInOrder ==
  \A d, e \in Deliveries :
    /\ ThreadKey(d) = ThreadKey(e)
    /\ task[d] = "queued" /\ task[e] = "queued"
    /\ arrival[d] < arrival[e]
    => ticket[d] < ticket[e]

OrderInv ==
  /\ ProcessingIsOwned
  /\ AttemptsCounted
  /\ ArrivalsOrdered
  /\ TicketsCounted
  /\ PendingIsLater
  /\ LineIsInOrder
  /\ InOrderPerIssue

Rows == {d \in Deliveries : arrival[d] # 0}
-----------------------------------------------------------------------------
LEMMA InitOrderInv == Init => OrderInv
  <1> SUFFICES ASSUME Init PROVE OrderInv
    OBVIOUS
  <1>1. {e \in Deliveries : arrival[e] # 0} = {} /\ {d \in Deliveries : ticket[d] # 0} = {}
    BY DEF Init
  <1>2. Cardinality({e \in Deliveries : arrival[e] # 0}) = 0 /\ Created = 0
    BY <1>1, FS_EmptySet DEF Created
  <1>3. ArrivalsOrdered /\ TicketsCounted
    BY <1>2 DEF Init, ArrivalsOrdered, TicketsCounted
  <1> QED
    BY <1>3 DEF Init, OrderInv, ProcessingIsOwned, NeverBegan, AttemptsCounted, PendingIsLater,
       LineIsInOrder, InOrderPerIssue, Live, Holding

(* A delivery that is taken in goes to the end of the line. *)
LEMMA RecordOrder ==
  ASSUME QueueInv, OrderInv, NEW d \in Deliveries, RecordDelivery(d), Fresh(d)
  PROVE  /\ OrderInv'
         /\ arrival'[d] \in Nat \ {0}
         /\ arrival' = [arrival EXCEPT ![d] = arrival'[d]]
         /\ \A e \in Deliveries : arrival[e] < arrival'[d]
  <1> USE DEF QueueInv, OrderInv
  <1>1. IsFiniteSet(Rows) /\ Cardinality(Rows) \in Nat
    BY SubsetsAreFinite DEF Rows
  <1>2. arrival' = [arrival EXCEPT ![d] = 1 + Cardinality(Rows)]
        /\ status' = [status EXCEPT ![d] = "pending"]
        /\ UNCHANGED <<worker, task, locks, slots, history>>
    BY DEF RecordDelivery, Rows
  <1>3. status[d] = "absent" /\ arrival[d] = 0 /\ task[d] = "none"
    BY DEF Fresh, ArrivalsOrdered, Owned
  <1>4. Rows' = Rows \cup {d} /\ d \notin Rows
    <2>1. arrival'[d] # 0 /\ \A e \in Deliveries : e # d => arrival'[e] = arrival[e]
      BY <1>1, <1>2 DEF TypeOK
    <2> QED
      BY <1>3, <2>1 DEF Rows
  <1>5. Cardinality(Rows') = Cardinality(Rows) + 1
    BY <1>1, <1>4, FS_AddElement
  <1>6. \A e \in Deliveries : arrival[e] \in Nat /\ arrival[e] <= Cardinality(Rows)
    BY DEF TypeOK, ArrivalsOrdered, Rows
  <1>7. arrival'[d] = 1 + Cardinality(Rows) /\ \A e \in Deliveries : e # d => arrival'[e] = arrival[e]
    BY <1>2 DEF TypeOK
  <1>8. ArrivalsOrdered'
    <2>1. \A e \in Deliveries : status'[e] = "absent" <=> arrival'[e] = 0
      <3>1. status'[d] = "pending" /\ arrival'[d] # 0
        BY <1>1, <1>2, <1>7 DEF TypeOK
      <3>2. \A e \in Deliveries : e # d => status'[e] = status[e] /\ arrival'[e] = arrival[e]
        BY <1>2, <1>7 DEF TypeOK
      <3> QED
        BY <3>1, <3>2 DEF ArrivalsOrdered
    <2>2. \A e \in Deliveries : arrival'[e] <= Cardinality(Rows')
      BY <1>1, <1>5, <1>6, <1>7
    <2>3. \A x, y \in Deliveries : x # y /\ arrival'[x] # 0 => arrival'[x] # arrival'[y]
      BY <1>1, <1>6, <1>7 DEF ArrivalsOrdered
    <2> QED
      BY <2>1, <2>2, <2>3 DEF ArrivalsOrdered, Rows
  <1>9. ProcessingIsOwned'
    BY <1>2, <1>3 DEF ProcessingIsOwned, NeverBegan, TypeOK, locks
  <1>10. AttemptsCounted'
    BY <1>2, <1>3 DEF AttemptsCounted, StartedHere, TypeOK, history, InSlot
  <1>11. TicketsCounted'
    BY <1>2, <1>3 DEF TicketsCounted, TypeOK, Created, locks
  <1>12. PendingIsLater'
    BY <1>1, <1>2, <1>3, <1>6, <1>7 DEF PendingIsLater, TypeOK, Live, Holding
  <1>13. LineIsInOrder'
    BY <1>2, <1>3, <1>7 DEF LineIsInOrder, locks
  <1>14. InOrderPerIssue'
    BY <1>1, <1>2, <1>3, <1>6, <1>7 DEF InOrderPerIssue, TypeOK, Holding
  <1>15. arrival' = [arrival EXCEPT ![d] = arrival'[d]]
    BY <1>2, <1>7
  <1>16. arrival'[d] \in Nat \ {0} /\ \A e \in Deliveries : arrival[e] < arrival'[d]
    BY <1>1, <1>6, <1>7
  <1> QED
    BY <1>8, <1>9, <1>10, <1>11, <1>12, <1>13, <1>14, <1>15, <1>16

(* The line's next delivery is the oldest of its issue that is not done. *)
LEMMA AcquireLockOrder ==
  ASSUME QueueInv, OrderInv, NEW d \in Deliveries, AcquireLock(d)
  PROVE  OrderInv'
  <1> USE DEF QueueInv, OrderInv
  <1>1. /\ task[d] = "queued"
        /\ task' = [task EXCEPT ![d] = "locked"]
        /\ UNCHANGED <<status, arrival, worker, ticket, attempts, restarts>>
    BY DEF AcquireLock, table, locks, history
  <1>2. ProcessingIsOwned' /\ AttemptsCounted'
    BY <1>1 DEF ProcessingIsOwned, NeverBegan, AttemptsCounted, StartedHere, TypeOK, InSlot
  <1>3. ArrivalsOrdered' /\ TicketsCounted'
    BY <1>1 DEF ArrivalsOrdered, TicketsCounted, Created
  <1>4. PendingIsLater' /\ LineIsInOrder'
    BY <1>1 DEF PendingIsLater, LineIsInOrder, TypeOK, Live, Holding
  <1>5. InOrderPerIssue'
    <2> SUFFICES ASSUME NEW e \in Deliveries, ThreadKey(e) = ThreadKey(d),
                        arrival[e] # 0, arrival[e] < arrival[d],
                        status[e] \notin {"done", "failed"}, task[e] # "lost"
                 PROVE  FALSE
      BY <1>1 DEF InOrderPerIssue, TypeOK, Holding
    <2>1. e # d /\ status[e] \in {"pending", "processing"} /\ worker # "down"
      <3>1. e # d
        BY DEF TypeOK
      <3>2. status[e] \in {"pending", "processing"}
        BY DEF TypeOK, Statuses, ArrivalsOrdered
      <3> QED
        BY <1>1, <3>1, <3>2 DEF Owned
    <2>2. CASE status[e] = "pending"
      BY <1>1, <2>2 DEF PendingIsLater, TypeOK, Live
    <2>3. CASE status[e] = "processing"
      <3>1. task[e] \in Live
        <4>1. ~ NeverBegan
          BY <1>1 DEF NeverBegan, TicketsCounted
        <4> QED
          BY <2>1, <2>3, <4>1 DEF ProcessingIsOwned, TypeOK, Tasks
      <3>2. lock[e] = lock[d]
        BY <1>1, <3>1 DEF OneLock, Live
      <3>3. task[e] = "queued" /\ ticket[d] <= ticket[e]
        BY <3>1, <3>2 DEF AcquireLock, Live
      <3>4. ticket[e] < ticket[d]
        BY <1>1, <3>3 DEF LineIsInOrder
      <3> QED
        BY <3>3, <3>4 DEF TypeOK
    <2> QED
      BY <2>1, <2>2, <2>3
  <1> QED
    BY <1>2, <1>3, <1>4, <1>5

(* AcquireSlot, ProcessorEnds, StampRaises and LoseStamp: a coroutine that *)
(* holds its lock moves on, and its row stays at processing.               *)
LEMMA HolderOrder ==
  ASSUME QueueInv, OrderInv, NEW d \in Deliveries, task[d] \in Holding,
         NEW t \in InSlot \cup {"lost"}, task' = [task EXCEPT ![d] = t],
         \/ task[d] = "locked" /\ attempts' = [attempts EXCEPT ![d] = @ + 1]
         \/ task[d] \in InSlot /\ attempts' = attempts,
         UNCHANGED <<status, arrival, worker, ticket, restarts>>
  PROVE  OrderInv'
  <1> USE DEF QueueInv, OrderInv
  <1>1. worker # "down" /\ status[d] = "processing"
    BY DEF Owned, Holding
  <1>2. ProcessingIsOwned'
    BY <1>1 DEF ProcessingIsOwned, NeverBegan, TypeOK, Holding, InSlot
  <1>3. AttemptsCounted'
    <2>1. attempts'[d] <= 1 + restarts
      BY <1>1 DEF AttemptsCounted, StartedHere, TypeOK, InSlot
    <2>2. StartedHere(d)'
      BY DEF StartedHere, TypeOK
    <2>3. \A e \in Deliveries : e # d => attempts'[e] = attempts[e] /\ StartedHere(e)' = StartedHere(e)
      BY DEF StartedHere, TypeOK
    <2> QED
      BY <2>1, <2>2, <2>3 DEF AttemptsCounted
  <1>4. ArrivalsOrdered' /\ TicketsCounted'
    BY DEF ArrivalsOrdered, TicketsCounted, Created, TypeOK, Holding
  <1>5. PendingIsLater' /\ LineIsInOrder' /\ InOrderPerIssue'
    BY DEF PendingIsLater, LineIsInOrder, InOrderPerIssue, TypeOK, Live, Holding, InSlot
  <1> QED
    BY <1>2, <1>3, <1>4, <1>5

LEMMA FinishOrder ==
  ASSUME QueueInv, OrderInv, NEW d \in Deliveries, Finish(d)
  PROVE  OrderInv'
  <1> USE DEF QueueInv, OrderInv
  <1>1. PICK s \in {"done", "failed"} : status' = [status EXCEPT ![d] = s]
    BY DEF Finish
  <1>2. /\ task[d] \in InSlot
        /\ task' = [task EXCEPT ![d] = "none"]
        /\ UNCHANGED <<arrival, worker, ticket, attempts, restarts>>
    BY DEF Finish, history, InSlot
  <1>3. status[d] = "processing" /\ worker # "down"
    BY <1>2 DEF Owned, InSlot
  <1>4. ProcessingIsOwned' /\ AttemptsCounted'
    BY <1>1, <1>2, <1>3 DEF ProcessingIsOwned, NeverBegan, AttemptsCounted, StartedHere, TypeOK
  <1>5. ArrivalsOrdered' /\ TicketsCounted'
    BY <1>1, <1>2, <1>3 DEF ArrivalsOrdered, TicketsCounted, Created, TypeOK
  <1>6. PendingIsLater' /\ LineIsInOrder' /\ InOrderPerIssue'
    BY <1>1, <1>2 DEF PendingIsLater, LineIsInOrder, InOrderPerIssue, TypeOK, Live, Holding
  <1> QED
    BY <1>4, <1>5, <1>6

(* A batch takes the oldest of what is pending, and lines it up behind the *)
(* coroutines there are.                                                   *)
LEMMA ClaimOrder ==
  ASSUME QueueInv, OrderInv, ClaimPending
  PROVE  OrderInv'
  <1> USE DEF QueueInv, OrderInv
  <1> DEFINE Rank(S, d) == Cardinality({e \in S : arrival[e] <= arrival[d]})
  <1>1. PICK S \in SUBSET Pending :
          /\ IsOldestPending(S)
          /\ status' = [d \in Deliveries |-> IF d \in S THEN "processing" ELSE status[d]]
          /\ task' = [d \in Deliveries |-> IF d \in S THEN "queued" ELSE task[d]]
          /\ ticket' = [d \in Deliveries |->
                          IF d \in S THEN Created + Rank(S, d) ELSE ticket[d]]
    BY DEF ClaimPending
  <1>2. worker = "up" /\ UNCHANGED <<arrival, worker, attempts, restarts>>
    BY DEF ClaimPending, history
  <1>3. /\ S \subseteq Deliveries
        /\ \A d \in S : status[d] = "pending" /\ task[d] = "none" /\ ticket[d] = 0
    BY DEF Pending, Owned, TicketsCounted
  <1>4. Created \in Nat /\ Cardinality(S) \in Nat /\ IsFiniteSet(S)
    BY <1>3, SubsetsAreFinite DEF Created
  <1>5. \A d \in S : Rank(S, d) \in 1 .. Cardinality(S)
    <2> SUFFICES ASSUME NEW d \in S PROVE Rank(S, d) \in 1 .. Cardinality(S)
      OBVIOUS
    <2> DEFINE R == {e \in S : arrival[e] <= arrival[d]}
    <2>1. IsFiniteSet(R) /\ Cardinality(R) \in Nat /\ Cardinality(R) <= Cardinality(S)
      BY <1>3, <1>4, FS_Subset, FS_CardinalityType
    <2>2. d \in R
      BY <1>3 DEF TypeOK
    <2>3. Cardinality(R) # 0
      BY <2>1, <2>2, FS_EmptySet
    <2> QED
      BY <1>4, <2>1, <2>3
  <1>6. \A d, e \in S : arrival[d] < arrival[e] => Rank(S, d) < Rank(S, e)
    <2> SUFFICES ASSUME NEW d \in S, NEW e \in S, arrival[d] < arrival[e]
                 PROVE  Rank(S, d) < Rank(S, e)
      OBVIOUS
    <2> DEFINE R(x) == {f \in S : arrival[f] <= arrival[x]}
    <2>1. R(d) \subseteq R(e) /\ e \in R(e) /\ e \notin R(d)
      BY <1>3 DEF TypeOK
    <2>2. IsFiniteSet(R(e)) /\ R(d) # R(e)
      BY <1>3, <2>1, SubsetsAreFinite
    <2>3. Cardinality(R(d)) \in Nat /\ Cardinality(R(e)) \in Nat
      BY <1>3, SubsetsAreFinite
    <2> HIDE DEF R
    <2>4. Cardinality(R(d)) < Cardinality(R(e))
      BY <2>1, <2>2, <2>3, FS_Subset
    <2> QED
      BY <2>4 DEF R
  <1> HIDE DEF Rank
  <1>7. Created' = Created + Cardinality(S)
    <2> DEFINE Old == {d \in Deliveries : ticket[d] # 0}
    <2>1. {d \in Deliveries : ticket'[d] # 0} = Old \cup S
      <3>1. \A d \in S : ticket'[d] # 0
        BY <1>1, <1>3, <1>4, <1>5
      <3>2. \A d \in Deliveries \ S : ticket'[d] = ticket[d]
        BY <1>1
      <3> QED
        BY <1>3, <3>1, <3>2
    <2>2. Old \cap S = {} /\ IsFiniteSet(Old)
      BY <1>3, SubsetsAreFinite
    <2>3. Created = Cardinality(Old) /\ Created' = Cardinality(Old \cup S)
      BY <2>1 DEF Created
    <2> HIDE DEF Old
    <2>4. Cardinality(Old \cap S) = 0
      BY <2>2, FS_EmptySet
    <2>5. Cardinality(Old \cup S) = Cardinality(Old) + Cardinality(S) - Cardinality(Old \cap S)
      BY <1>4, <2>2, FS_Union
    <2> QED
      BY <1>4, <2>3, <2>4, <2>5
  <1>8. ProcessingIsOwned'
    BY <1>1, <1>2, <1>3 DEF ProcessingIsOwned, NeverBegan
  <1>9. AttemptsCounted'
    <2>1. \A d \in Deliveries : StartedHere(d)' <=> StartedHere(d)
      BY <1>1, <1>2, <1>3 DEF StartedHere, InSlot
    <2> QED
      BY <1>2, <2>1 DEF AttemptsCounted
  <1>10. ArrivalsOrdered'
    BY <1>1, <1>2, <1>3 DEF ArrivalsOrdered
  <1>11. TicketsCounted'
    <2> SUFFICES ASSUME NEW d \in Deliveries
                 PROVE  /\ ticket'[d] <= Created'
                        /\ task'[d] # "none" => ticket'[d] # 0
                        /\ status'[d] \in {"absent", "pending"} => ticket'[d] = 0
      BY <1>2 DEF TicketsCounted
    <2>1. CASE d \in S
      BY <1>1, <1>4, <1>5, <1>7, <2>1
    <2>2. CASE d \notin S
      BY <1>1, <1>4, <1>7, <2>2 DEF TicketsCounted, TypeOK
    <2> QED
      BY <2>1, <2>2
  <1>12. PendingIsLater'
    <2> SUFFICES ASSUME NEW d \in Deliveries, NEW e \in Deliveries,
                        ThreadKey(d) = ThreadKey(e),
                        task'[d] \in Live, status'[e] = "pending"
                 PROVE  arrival[d] < arrival[e]
      BY <1>2 DEF PendingIsLater
    <2>1. e \in Pending \ S
      BY <1>1 DEF Pending
    <2>2. CASE d \in S
      BY <1>1, <2>1, <2>2 DEF IsOldestPending
    <2>3. CASE d \notin S
      BY <1>1, <2>1, <2>3 DEF PendingIsLater, Pending
    <2> QED
      BY <2>2, <2>3
  <1>13. LineIsInOrder'
    <2> SUFFICES ASSUME NEW d \in Deliveries, NEW e \in Deliveries,
                        ThreadKey(d) = ThreadKey(e),
                        task'[d] = "queued", task'[e] = "queued",
                        arrival[d] < arrival[e]
                 PROVE  ticket'[d] < ticket'[e]
      BY <1>2 DEF LineIsInOrder
    <2>1. CASE d \in S /\ e \in S
      BY <1>1, <1>3, <1>4, <1>5, <1>6, <2>1
    <2>2. CASE d \notin S /\ e \notin S
      BY <1>1, <2>2 DEF LineIsInOrder
    <2>3. CASE d \notin S /\ e \in S
      BY <1>1, <1>3, <1>4, <1>5, <2>3 DEF TicketsCounted, TypeOK
    <2>4. CASE d \in S /\ e \notin S
      <3>1. arrival[e] < arrival[d]
        BY <1>1, <1>3, <2>4 DEF PendingIsLater, Live
      <3> QED
        BY <3>1 DEF TypeOK
    <2> QED
      BY <2>1, <2>2, <2>3, <2>4
  <1>14. InOrderPerIssue'
    <2> SUFFICES ASSUME NEW d \in Deliveries, NEW e \in Deliveries,
                        task'[d] \in Holding, ThreadKey(e) = ThreadKey(d),
                        arrival[e] # 0, arrival[e] < arrival[d]
                 PROVE  status'[e] \in {"done", "failed"} \/ task'[e] = "lost"
      BY <1>2 DEF InOrderPerIssue
    <2>1. task[d] \in Holding
      BY <1>1 DEF Holding
    <2>2. status[e] \in {"done", "failed"} \/ task[e] = "lost"
      BY <2>1 DEF InOrderPerIssue
    <2>3. e \notin S
      BY <1>3, <2>2
    <2> QED
      BY <1>1, <2>2, <2>3
  <1> QED
    BY <1>8, <1>9, <1>10, <1>11, <1>12, <1>13, <1>14

(* Drained and Crash: no coroutine is left, and no row changes. *)
LEMMA FreshProcessOrder ==
  ASSUME QueueInv, OrderInv, FreshProcess, worker' = "down", UNCHANGED <<table, history>>
  PROVE  OrderInv'
  <1> USE DEF QueueInv, OrderInv
  <1>1. /\ \A d \in Deliveries : task'[d] = "none" /\ ticket'[d] = 0
        /\ UNCHANGED <<status, arrival, attempts, restarts>>
    BY DEF FreshProcess, table, history
  <1>2. ProcessingIsOwned' /\ AttemptsCounted'
    BY <1>1 DEF ProcessingIsOwned, NeverBegan, AttemptsCounted, StartedHere
  <1>3. ArrivalsOrdered'
    BY <1>1 DEF ArrivalsOrdered
  <1>4. TicketsCounted'
    <2>1. Cardinality({d \in Deliveries : ticket'[d] # 0}) \in Nat
      BY SubsetsAreFinite
    <2> QED
      BY <1>1, <2>1 DEF TicketsCounted, Created
  <1>5. PendingIsLater' /\ LineIsInOrder' /\ InOrderPerIssue'
    BY <1>1 DEF PendingIsLater, LineIsInOrder, InOrderPerIssue, Live, Holding
  <1> QED
    BY <1>2, <1>3, <1>4, <1>5

(* What a prior process left at processing is pending again. *)
LEMMA StartOrder ==
  ASSUME QueueInv, OrderInv, StartWorker
  PROVE  OrderInv'
  <1> USE DEF QueueInv, OrderInv
  <1>1. /\ worker = "down" /\ worker' = "up" /\ restarts' = restarts + 1
        /\ status' = [d \in Deliveries |->
                        IF status[d] = "processing" THEN "pending" ELSE status[d]]
        /\ UNCHANGED <<arrival, task, ticket, attempts>>
    BY DEF StartWorker, RequeueProcessing, locks
  <1>2. \A d \in Deliveries : task[d] = "none" /\ ticket[d] = 0
    BY <1>1 DEF Owned, TicketsCounted
  <1>3. ProcessingIsOwned'
    BY <1>1, <1>2 DEF ProcessingIsOwned, NeverBegan
  <1>4. AttemptsCounted'
    BY <1>1 DEF AttemptsCounted, TypeOK
  <1>5. ArrivalsOrdered'
    BY <1>1 DEF ArrivalsOrdered
  <1>6. TicketsCounted'
    BY <1>1, <1>2 DEF TicketsCounted, Created
  <1>7. PendingIsLater' /\ LineIsInOrder' /\ InOrderPerIssue'
    BY <1>1, <1>2 DEF PendingIsLater, LineIsInOrder, InOrderPerIssue, Live, Holding
  <1> QED
    BY <1>3, <1>4, <1>5, <1>6, <1>7

(* A start that fails leaves rows at processing without a coroutine, and   *)
(* makes no coroutine that could overtake them.                            *)
LEMMA RequeueFailsOrder ==
  ASSUME QueueInv, OrderInv, RequeueFails
  PROVE  OrderInv'
  <1> USE DEF QueueInv, OrderInv
  <1>1. /\ worker = "down" /\ worker' = "dead" /\ restarts' = restarts + 1
        /\ UNCHANGED <<status, arrival, task, ticket, attempts>>
    BY DEF RequeueFails, table, locks
  <1>2. \A d \in Deliveries : task[d] = "none" /\ ticket[d] = 0
    BY <1>1 DEF Owned, TicketsCounted
  <1>3. ProcessingIsOwned'
    BY <1>1, <1>2 DEF ProcessingIsOwned, NeverBegan
  <1>4. AttemptsCounted'
    BY <1>1 DEF AttemptsCounted, StartedHere, TypeOK
  <1>5. ArrivalsOrdered'
    BY <1>1 DEF ArrivalsOrdered
  <1>6. TicketsCounted'
    BY <1>1, <1>2 DEF TicketsCounted, Created
  <1>7. PendingIsLater' /\ LineIsInOrder' /\ InOrderPerIssue'
    BY <1>1, <1>2 DEF PendingIsLater, LineIsInOrder, InOrderPerIssue, Live, Holding
  <1> QED
    BY <1>3, <1>4, <1>5, <1>6, <1>7

LEMMA NextOrder == QueueInv /\ OrderInv /\ [Next]_vars => OrderInv'
  <1> SUFFICES ASSUME QueueInv, OrderInv, [Next]_vars PROVE OrderInv'
    OBVIOUS
  <1>1. ASSUME UNCHANGED <<status, arrival, worker, task, ticket, attempts, restarts>>
        PROVE  OrderInv'
    BY <1>1 DEF OrderInv, ProcessingIsOwned, NeverBegan, AttemptsCounted, StartedHere, ArrivalsOrdered,
       TicketsCounted, Created, PendingIsLater, LineIsInOrder, InOrderPerIssue
  <1>2. ASSUME NEW d \in Deliveries, RecordDelivery(d) PROVE OrderInv'
    BY <1>1, <1>2, RecordOrder DEF RecordDelivery, table, locks, history
  <1>3. ASSUME NEW d \in Deliveries, AcquireLock(d) PROVE OrderInv'
    BY <1>3, AcquireLockOrder
  <1>4. ASSUME NEW d \in Deliveries, AcquireSlot(d) PROVE OrderInv'
    <2>1. /\ task[d] = "locked" /\ task' = [task EXCEPT ![d] = "running"]
          /\ attempts' = [attempts EXCEPT ![d] = @ + 1]
          /\ UNCHANGED <<status, arrival, worker, ticket, restarts>>
      BY <1>4 DEF AcquireSlot, table, locks
    <2>2. task[d] \in Holding /\ "running" \in InSlot \cup {"lost"}
      BY <2>1 DEF Holding, InSlot
    <2> QED
      BY <2>1, <2>2, HolderOrder
  <1>5. ASSUME NEW d \in Deliveries, ProcessorEnds(d) PROVE OrderInv'
    <2>1. PICK t \in InSlot : task' = [task EXCEPT ![d] = t]
      BY <1>5 DEF ProcessorEnds, InSlot
    <2> QED
      BY <1>5, <2>1, HolderOrder DEF ProcessorEnds, Holding, InSlot, table, locks, history
  <1>6. ASSUME NEW d \in Deliveries, StampRaises(d) PROVE OrderInv'
    BY <1>6, HolderOrder DEF StampRaises, Holding, InSlot, table, locks
  <1>7. ASSUME NEW d \in Deliveries, LoseStamp(d) PROVE OrderInv'
    BY <1>7, HolderOrder DEF LoseStamp, Holding, InSlot, table, locks
  <1>8. ASSUME NEW d \in Deliveries, Finish(d) PROVE OrderInv'
    BY <1>8, FinishOrder
  <1>9. CASE ClaimPending
    BY <1>9, ClaimOrder
  <1>10. CASE Drained \/ Crash
    BY <1>10, FreshProcessOrder DEF Drained, Crash
  <1>11. CASE StartWorker
    BY <1>11, StartOrder
  <1>12. CASE ClaimFails \/ StopWorker
    <2>1. /\ worker = "up" /\ worker' \in {"dead", "draining"}
          /\ UNCHANGED <<status, arrival, task, ticket, attempts, restarts>>
      BY <1>12 DEF ClaimFails, StopWorker, table, locks, history
    <2> QED
      BY <2>1 DEF OrderInv, ProcessingIsOwned, NeverBegan, AttemptsCounted, StartedHere, ArrivalsOrdered,
         TicketsCounted, Created, PendingIsLater, LineIsInOrder, InOrderPerIssue
  <1>13. CASE UNCHANGED vars
    BY <1>1, <1>13 DEF vars
  <1>14. CASE RequeueFails
    BY <1>14, RequeueFailsOrder
  <1> QED
    BY <1>14, <1>2, <1>3, <1>4, <1>5, <1>6, <1>7, <1>8, <1>9, <1>10, <1>11, <1>12, <1>13 DEF Next

LEMMA OrderInvHolds == Spec => [](QueueInv /\ OrderInv)
  <1>1. Init => QueueInv /\ OrderInv
    BY InitQueueInv, InitOrderInv
  <1>2. (QueueInv /\ OrderInv) /\ [Next]_vars => (QueueInv /\ OrderInv)'
    BY NextInv, NextOrder
  <1> QED
    BY <1>1, <1>2, PTL DEF Spec

(* One issue's deliveries are worked on in the order they arrived. *)
THEOREM QueueKeepsOrder == Spec => []InOrderPerIssue
  <1>1. OrderInv => InOrderPerIssue
    BY DEF OrderInv
  <1> QED
    BY OrderInvHolds, <1>1, PTL

(* No row at processing waits for a stamp that nobody is going to make,    *)
(* unless the worker died of its first statement.                          *)
THEOREM QueueOwnsWhatItClaims == Spec => []ProcessingIsOwned
  <1>1. OrderInv => ProcessingIsOwned
    BY DEF OrderInv
  <1> QED
    BY OrderInvHolds, <1>1, PTL

(* Only a restart makes the processor start on a delivery again. *)
THEOREM QueueStartsOnce == Spec => []AtMostOncePerProcess
  <1>1. OrderInv => AtMostOncePerProcess
    BY DEF OrderInv, AttemptsCounted, AtMostOncePerProcess
  <1> QED
    BY OrderInvHolds, <1>1, PTL
-----------------------------------------------------------------------------
(* Each step of the queue is a step of the promise, or none of it. *)
LEMMA InitIsPromised == Init => Promise!Init
  <1> SUFFICES ASSUME Init PROVE Promise!Init
    OBVIOUS
  <1>1. \A d \in Deliveries : Progress(d) = "out"
    BY DEF Init, Progress, InSlot
  <1> QED
    BY <1>1 DEF Init, Promise!Init

LEMMA StepIsPromised ==
  ASSUME QueueInv, OrderInv, [Next]_vars
  PROVE  [Promise!Next]_Promise!inboxVars
  <1> USE DEF QueueInv, OrderInv
  <1> DEFINE Now == [d \in Deliveries |-> Progress(d)]
  <1>1. ASSUME arrival' = arrival, \A d \in Deliveries : Progress(d)' = Progress(d)
        PROVE  UNCHANGED Promise!inboxVars
    BY <1>1 DEF Promise!inboxVars
  <1>0. ASSUME NEW d \in Deliveries, NEW now, NEW then,
               Progress(d) = now, Progress(d)' = then,
               \A e \in Deliveries : e # d => Progress(e)' = Progress(e)
        PROVE  Now[d] = now /\ Now' = [Now EXCEPT ![d] = then]
    BY <1>0
  <1>2. ASSUME NEW d \in Deliveries, RecordDelivery(d), Fresh(d) PROVE Promise!Accept(d)
    <2>1. /\ arrival'[d] \in Nat
          /\ arrival' = [arrival EXCEPT ![d] = arrival'[d]]
          /\ \A e \in Deliveries : arrival[e] < arrival'[d]
      BY <1>2, RecordOrder
    <2>2. Now[d] = "out" /\ Now' = [Now EXCEPT ![d] = "waiting"]
      <3>1. /\ status[d] = "absent" /\ task[d] = "none"
            /\ status' = [status EXCEPT ![d] = "pending"] /\ task' = task
        BY <1>2 DEF RecordDelivery, Fresh, Owned
      <3>2. Progress(d) = "out" /\ Progress(d)' = "waiting"
        BY <3>1 DEF Progress, TypeOK, InSlot
      <3>3. \A e \in Deliveries : e # d => Progress(e)' = Progress(e)
        BY <3>1 DEF Progress, TypeOK
      <3> QED
        BY <1>0, <3>2, <3>3
    <2> QED
      BY <2>1, <2>2 DEF Promise!Accept
  <1>3. ASSUME NEW d \in Deliveries, AcquireSlot(d) PROVE Promise!Begin(d)
    <2>1. /\ task[d] = "locked" /\ task' = [task EXCEPT ![d] = "running"]
          /\ UNCHANGED <<status, arrival>>
      BY <1>3 DEF AcquireSlot, table
    <2>2. status[d] = "processing"
      BY <2>1 DEF Owned
    <2>3. Now[d] = "waiting" /\ Now' = [Now EXCEPT ![d] = "handling"]
      <3>1. Progress(d) = "waiting" /\ Progress(d)' = "handling"
        BY <2>1, <2>2 DEF Progress, TypeOK, InSlot
      <3>2. \A e \in Deliveries : e # d => Progress(e)' = Progress(e)
        BY <2>1 DEF Progress, TypeOK
      <3> QED
        BY <1>0, <3>1, <3>2
    <2>4. \A e \in Deliveries :
            ThreadKey(e) = ThreadKey(d) /\ Now[e] # "out" /\ arrival[e] < arrival[d]
            => Now[e] \in {"settled", "stranded"}
      <3> SUFFICES ASSUME NEW e \in Deliveries, ThreadKey(e) = ThreadKey(d),
                          status[e] # "absent", arrival[e] < arrival[d]
                   PROVE  Progress(e) \in {"settled", "stranded"}
        <4>1. \A e \in Deliveries : status[e] = "absent" => Progress(e) = "out"
          BY DEF Progress, Owned, InSlot
        <4> QED
          BY <4>1
      <3>1. arrival[e] # 0 /\ task[d] \in Holding
        BY <2>1 DEF ArrivalsOrdered, Holding
      <3>2. status[e] \in {"done", "failed"} \/ task[e] = "lost"
        BY <3>1 DEF InOrderPerIssue
      <3>3. CASE status[e] \in {"done", "failed"}
        BY <3>3 DEF Progress, Owned, InSlot
      <3>4. CASE task[e] = "lost"
        BY <3>4 DEF Progress, Owned, InSlot
      <3> QED
        BY <3>2, <3>3, <3>4
    <2>5. \A e \in Deliveries : ThreadKey(e) = ThreadKey(d) => Now[e] # "handling"
      BY <2>1, <2>3 DEF Progress, OneAtATimePerIssue, Holding, InSlot
    <2> QED
      BY <2>1, <2>3, <2>4, <2>5 DEF Promise!Begin, Promise!Before
  <1>4. ASSUME NEW d \in Deliveries, Finish(d) PROVE Promise!Settle(d)
    <2>1. status[d] = "processing" /\ task[d] \in InSlot
      BY <1>4 DEF Finish, Owned, InSlot
    <2>2. Now[d] = "handling" /\ Now' = [Now EXCEPT ![d] = "settled"]
      <3>1. Progress(d) = "handling" /\ Progress(d)' = "settled"
        BY <1>4, <2>1 DEF Finish, Progress, TypeOK, InSlot
      <3>2. \A e \in Deliveries : e # d => Progress(e)' = Progress(e)
        BY <1>4 DEF Finish, Progress, TypeOK
      <3> QED
        BY <1>0, <3>1, <3>2
    <2> QED
      BY <1>4, <2>2 DEF Finish, Promise!Settle
  <1>5. ASSUME NEW d \in Deliveries, LoseStamp(d) PROVE Promise!Strand(d)
    <2>1. status[d] = "processing" /\ task[d] \in InSlot
      BY <1>5 DEF LoseStamp, Owned, InSlot
    <2>2. Now[d] = "handling" /\ Now' = [Now EXCEPT ![d] = "stranded"]
      <3>1. Progress(d) = "handling" /\ Progress(d)' = "stranded"
        BY <1>5, <2>1 DEF LoseStamp, Progress, TypeOK, InSlot, table
      <3>2. \A e \in Deliveries : e # d => Progress(e)' = Progress(e)
        BY <1>5 DEF LoseStamp, Progress, TypeOK, table
      <3> QED
        BY <1>0, <3>1, <3>2
    <2> QED
      BY <1>5, <2>2 DEF LoseStamp, Promise!Strand, table
  <1>6. ASSUME Drained \/ Crash PROVE Promise!Interrupt
    <2>1. UNCHANGED <<status, arrival>> /\ \A d \in Deliveries : task'[d] = "none"
      BY <1>6 DEF Drained, Crash, FreshProcess, table
    <2>2. \A d \in Deliveries :
            Now'[d] = IF Now[d] \in {"handling", "stranded"} THEN "waiting" ELSE Now[d]
      BY <2>1 DEF Progress, Owned, InSlot
    <2> QED
      BY <2>1, <2>2 DEF Promise!Interrupt
  <1>7. ASSUME NEW d \in Deliveries, RecordDelivery(d), ~ Fresh(d)
        PROVE  UNCHANGED Promise!inboxVars
    BY <1>1, <1>7 DEF RecordDelivery, Progress, table
  <1>8. ASSUME NEW d \in Deliveries, AcquireLock(d) \/ ProcessorEnds(d) \/ StampRaises(d)
        PROVE  UNCHANGED Promise!inboxVars
    BY <1>1, <1>8 DEF AcquireLock, ProcessorEnds, StampRaises, Progress, TypeOK, InSlot, table
  <1>9. ASSUME ClaimPending PROVE UNCHANGED Promise!inboxVars
    <2>1. \A d \in Deliveries : Progress(d)' = Progress(d)
      BY <1>9 DEF ClaimPending, Pending, Progress, Owned, InSlot
    <2> QED
      BY <1>1, <1>9, <2>1 DEF ClaimPending
  <1>10. ASSUME ClaimFails \/ StopWorker PROVE UNCHANGED Promise!inboxVars
    BY <1>1, <1>10 DEF ClaimFails, StopWorker, Progress, table
  <1>11. ASSUME StartWorker PROVE UNCHANGED Promise!inboxVars
    <2>1. \A d \in Deliveries : Progress(d)' = Progress(d)
      BY <1>11 DEF StartWorker, RequeueProcessing, Progress, Owned, InSlot
    <2> QED
      BY <1>1, <1>11, <2>1 DEF StartWorker
  <1>12. ASSUME RequeueFails \/ UNCHANGED vars PROVE UNCHANGED Promise!inboxVars
    BY <1>1, <1>12 DEF RequeueFails, table, vars, Progress
  <1> QED
    BY <1>2, <1>3, <1>4, <1>5, <1>6, <1>7, <1>8, <1>9, <1>10, <1>11, <1>12
       DEF Next, Promise!Next

(* The queue implements the inbox: whatever the process does, whoever      *)
(* hands in deliveries sees them accepted once, worked on one at a time    *)
(* and in order per issue, settled for good, and put back in line by an    *)
(* interruption, never forgotten.                                          *)
THEOREM QueueKeepsPromise == Spec => KeepsPromise
  BY OrderInvHolds, InitIsPromised, StepIsPromised, PTL DEF Spec, KeepsPromise, Promise!Spec
=============================================================================
