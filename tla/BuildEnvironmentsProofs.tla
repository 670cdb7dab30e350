----------------------- MODULE BuildEnvironmentsProofs -----------------------
(***************************************************************************)
(* For every set of runs and jobs, every number of slots, closes, sweeps   *)
(* and restarts: the types, one run per environment, the slots, one        *)
(* staging turn per run, one release per branch it lands on, the report of *)
(* holders and waiters, and what a janitor may take away from a run.       *)
(***************************************************************************)
EXTENDS BuildEnvironments, FiniteSetTheorems, SequenceTheorems, TLAPS

(* Where a thread is says how many turns it has; where a janitor is says   *)
(* that it looks at a home.                                                *)
PlaceOK ==
  /\ \A r \in Runs : pc[r] = "new" => depth[r] = 0
  /\ \A r \in Runs : pc[r] \in {"ask", "queued", "got"} => depth[r] < Len(Turns(r))
  /\ \A r \in Runs : pc[r] \in {"slot"} \cup InSlot => depth[r] = Len(Turns(r))
  /\ \A r \in Runs : pc[r] \in Leaving => depth[r] > 0
  /\ \A j \in Janitors : at[j] \in {"judge", "remove", "rmtree"} => home[j] \in Envs

(* Every turn a run is inside, or has just got, is locked by it; a janitor *)
(* deleting under an environment's lock holds that lock.                   *)
LocksAreHeld ==
  /\ \A r \in Runs : \A i \in 1 .. depth[r] : lock[Turns(r)[i]] = r
  /\ \A r \in Runs : pc[r] = "got" => lock[NextTurn(r)] = r
  /\ \A j \in Janitors : at[j] = "rmtree" /\ HasItsLock(j) => lock[home[j]] = j

EnvInv == TypeOK /\ PlaceOK /\ LocksAreHeld /\ SlotsConserved
-----------------------------------------------------------------------------
(* A run takes at most two turns, and where it takes two they differ: the  *)
(* first is staging of another repo than the second's.                     *)
LEMMA TurnsAre ==
  ASSUME NEW r \in Runs
  PROVE  /\ Turns(r) \in Seq(Envs)
         /\ Len(Turns(r)) \in 0 .. 2
         /\ Len(Turns(r)) = 2 => /\ Turns(r)[1] # Turns(r)[2]
                                 /\ ~ IsStaging(Turns(r)[2])
  <1> DEFINE b == EnvId(BuildEnvironment(r))
             t == EnvId(TrainTurn(r))
  <1>1. Turns(r) = IF BuildEnvironment(r) = None THEN <<>>
                   ELSE IF TrainTurn(r) = None THEN <<b>> ELSE <<t, b>>
    BY DEF Turns, TurnsOf
  <1>2. ASSUME TrainTurn(r) # None, BuildEnvironment(r) # None
        PROVE  t # b /\ ~ IsStaging(b)
    <2>1. BuildEnvironment(r) = WorkspaceFor(r) /\ WorkspaceFor(r).epic # None
            /\ WorkspaceFor(r) # None
            /\ TrainTurn(r) = STAGING(WorkspaceFor(r).epic.repo)
            /\ WorkspaceFor(r).epic.repo # WorkspaceFor(r).repo
      BY <1>2 DEF TrainTurn, BuildEnvironment, STAGING, Key
    <2>2. WorkspaceFor(r).number = Job[r].number
      BY <2>1 DEF WorkspaceFor, Key
    <2>3. Job[r].number # 0
      BY EnvironmentsAssumption DEF EnvironmentsAssumption, JobType
    <2> QED
      BY <2>1, <2>2, <2>3 DEF EnvId, STAGING, Key, IsStaging
  <1>3. \A i \in DOMAIN Turns(r) : Turns(r)[i] \in Envs
    BY DEF Envs
  <1> HIDE DEF b, t
  <1>4. CASE BuildEnvironment(r) = None
    BY <1>1, <1>4
  <1>5. CASE BuildEnvironment(r) # None /\ TrainTurn(r) = None
    <2>1. Turns(r) = <<b>>
      BY <1>1, <1>5
    <2> QED
      BY <2>1, <1>3
  <1>6. CASE BuildEnvironment(r) # None /\ TrainTurn(r) # None
    <2>1. Turns(r) = <<t, b>>
      BY <1>1, <1>6
    <2> QED
      BY <2>1, <1>2, <1>3, <1>6
  <1> QED
    BY <1>4, <1>5, <1>6

LEMMA TurnInEnvs ==
  ASSUME NEW r \in Runs, NEW i \in 1 .. Len(Turns(r))
  PROVE  Turns(r)[i] \in Envs
  BY TurnsAre

LEMMA NextTurnInEnvs ==
  ASSUME TypeOK, NEW r \in Runs, depth[r] < Len(Turns(r))
  PROVE  NextTurn(r) \in Envs
  <1>1. Len(Turns(r)) \in Nat
    BY TurnsAre
  <1>2. depth[r] \in 0 .. 2
    BY DEF TypeOK
  <1>3. depth[r] + 1 \in 1 .. Len(Turns(r))
    BY <1>1, <1>2
  <1> QED
    BY <1>3, TurnInEnvs DEF NextTurn

LEMMA HeldTurnInEnvs ==
  ASSUME TypeOK, NEW r \in Runs, NEW i \in 1 .. depth[r]
  PROVE  Turns(r)[i] \in Envs
  <1>1. Len(Turns(r)) \in Nat
    BY TurnsAre
  <1>2. depth[r] \in 0 .. 2 /\ depth[r] <= Len(Turns(r))
    BY DEF TypeOK
  <1>3. i \in 1 .. Len(Turns(r))
    BY <1>1, <1>2
  <1> QED
    BY <1>3, TurnInEnvs

(* No run is a janitor and neither is None. *)
LEMMA Distinct ==
  /\ \A r \in Runs : r # None /\ r \notin Janitors
  /\ \A j \in Janitors : j # None
  BY EnvironmentsAssumption DEF EnvironmentsAssumption

LEMMA WithoutIsASeq ==
  ASSUME NEW q \in Seq(Runs), NEW r
  PROVE  Without(q, r) \in Seq(Runs)
  <1>1. CASE ~ \E i \in 1 .. Len(q) : q[i] = r
    BY <1>1 DEF Without
  <1>2. CASE \E i \in 1 .. Len(q) : q[i] = r
    <2> DEFINE i == CHOOSE i \in 1 .. Len(q) : q[i] = r
    <2>1. i \in 1 .. Len(q)
      BY <1>2
    <2>2. Without(q, r) = SubSeq(q, 1, i - 1) \o SubSeq(q, i + 1, Len(q))
      BY <1>2 DEF Without
    <2> HIDE DEF i
    <2>3. SubSeq(q, 1, i - 1) \in Seq(Runs) /\ SubSeq(q, i + 1, Len(q)) \in Seq(Runs)
      BY <2>1
    <2> QED
      BY <2>2, <2>3
  <1> QED
    BY <1>1, <1>2
-----------------------------------------------------------------------------
LEMMA InitEnvInv == Init => EnvInv
  <1> SUFFICES ASSUME Init PROVE EnvInv
    OBVIOUS
  <1>1. TypeOK
    <2>1. \A r \in Runs : 0 <= Len(Turns(r))
      BY TurnsAre
    <2> QED
      BY <2>1, EnvironmentsAssumption DEF EnvironmentsAssumption, Init, TypeOK, PCs
  <1>2. PlaceOK /\ LocksAreHeld
    BY DEF Init, PlaceOK, LocksAreHeld, InSlot, Leaving
  <1>3. {r \in Runs : AtWork(r)} = {}
    BY DEF Init, AtWork, InSlot
  <1>4. Cardinality({r \in Runs : AtWork(r)}) = 0
    BY <1>3, FS_EmptySet
  <1>5. SlotsConserved
    BY <1>4, EnvironmentsAssumption DEF EnvironmentsAssumption, Init, SlotsConserved
  <1> QED
    BY <1>1, <1>2, <1>5 DEF EnvInv

(* The slots depend on who is at work and nothing else. *)
LEMMA SlotsUntouched ==
  ASSUME SlotsConserved, slots' = slots,
         \A r \in Runs : pc'[r] \in InSlot <=> pc[r] \in InSlot
  PROVE  SlotsConserved'
  <1>1. {r \in Runs : AtWork(r)}' = {r \in Runs : AtWork(r)}
    BY DEF AtWork
  <1> QED
    BY <1>1 DEF SlotsConserved

LEMMA SlotTaken ==
  ASSUME TypeOK, SlotsConserved, NEW r \in Runs, pc[r] \notin InSlot, slots > 0,
         NEW p \in InSlot, pc' = [pc EXCEPT ![r] = p], slots' = slots - 1
  PROVE  SlotsConserved' /\ slots' \in 0 .. MaxParallel
  <1> DEFINE W == {q \in Runs : AtWork(q)}
  <1>1. W' = W \cup {r} /\ r \notin W
    BY DEF AtWork, TypeOK
  <1>2. IsFiniteSet(W)
    BY FS_Subset, EnvironmentsAssumption DEF EnvironmentsAssumption
  <1>3. Cardinality(W') = Cardinality(W) + 1 /\ Cardinality(W) \in Nat
    <2> HIDE DEF W
    <2> QED
      BY <1>1, <1>2, FS_AddElement, FS_CardinalityType
  <1>4. slots + Cardinality(W) = MaxParallel /\ slots \in 0 .. MaxParallel /\ MaxParallel \in Nat
    BY EnvironmentsAssumption DEF EnvironmentsAssumption, SlotsConserved, TypeOK
  <1>5. slots' + Cardinality(W') = MaxParallel /\ slots' \in 0 .. MaxParallel
    <2> HIDE DEF W
    <2> QED
      BY <1>3, <1>4
  <1> QED
    BY <1>5 DEF SlotsConserved

LEMMA SlotGivenBack ==
  ASSUME TypeOK, SlotsConserved, NEW r \in Runs, pc[r] \in InSlot,
         NEW p \in PCs \ InSlot, pc' = [pc EXCEPT ![r] = p], slots' = slots + 1
  PROVE  SlotsConserved' /\ slots' \in 0 .. MaxParallel
  <1> DEFINE W == {q \in Runs : AtWork(q)}
  <1>1. W' = W \ {r} /\ r \in W
    BY DEF AtWork, TypeOK
  <1>2. IsFiniteSet(W)
    BY FS_Subset, EnvironmentsAssumption DEF EnvironmentsAssumption
  <1>3. Cardinality(W') = Cardinality(W) - 1 /\ Cardinality(W) \in Nat /\ Cardinality(W') \in Nat
    <2> HIDE DEF W
    <2>1. IsFiniteSet(W')
      BY <1>1, <1>2, FS_RemoveElement
    <2> QED
      BY <1>1, <1>2, <2>1, FS_RemoveElement, FS_CardinalityType
  <1>4. slots + Cardinality(W) = MaxParallel /\ slots \in 0 .. MaxParallel /\ MaxParallel \in Nat
    BY EnvironmentsAssumption DEF EnvironmentsAssumption, SlotsConserved, TypeOK
  <1>5. slots' + Cardinality(W') = MaxParallel /\ slots' \in 0 .. MaxParallel
    <2> HIDE DEF W
    <2> QED
      BY <1>3, <1>4
  <1> QED
    BY <1>5 DEF SlotsConserved
-----------------------------------------------------------------------------
(* A run that only moves: no turn, slot or janitor changes. *)
LEMMA MovesInv ==
  ASSUME EnvInv, NEW r \in Runs, NEW p \in PCs,
         pc' = [pc EXCEPT ![r] = p],
         UNCHANGED <<depth, turnVars, slots, janitorVars, closed, restarts>>,
         copy' \in [Envs -> BOOLEAN], meta' \in [Envs -> {"none", "torn", "whole"}],
         pc[r] \in InSlot <=> p \in InSlot,
         p \notin {"new", "got"} \cup Leaving,
         p \in {"ask", "queued"} => depth[r] < Len(Turns(r)),
         p \in {"slot"} \cup InSlot => depth[r] = Len(Turns(r))
  PROVE  EnvInv'
  <1> USE DEF EnvInv, turnVars, janitorVars
  <1>1. TypeOK'
    BY DEF TypeOK
  <1>2. PlaceOK'
    BY DEF TypeOK, PlaceOK
  <1>3. LocksAreHeld'
    BY DEF TypeOK, LocksAreHeld, NextTurn, HasItsLock
  <1>4. SlotsConserved'
    BY SlotsUntouched DEF TypeOK
  <1> QED
    BY <1>1, <1>2, <1>3, <1>4

LEMMA StartInv ==
  ASSUME EnvInv, NEW r \in Runs, Start(r)
  PROVE  EnvInv'
  <1>1. Turns(r) = <<>> => Len(Turns(r)) = 0
    OBVIOUS
  <1>2. Turns(r) # <<>> => 0 < Len(Turns(r))
    BY TurnsAre
  <1> DEFINE p == IF Turns(r) = <<>> THEN "slot" ELSE "ask"
  <1>3. p \in PCs /\ p \notin InSlot
    BY DEF PCs, Waiting, InSlot
  <1> QED
    BY <1>1, <1>2, <1>3, MovesInv DEF Start, Leaving, EnvInv, PlaceOK, TypeOK, diskVars, InSlot

LEMMA CopyStepInv ==
  ASSUME EnvInv, NEW r \in Runs, CopyStep(r)
  PROVE  EnvInv'
  <1> USE DEF EnvInv
  <1>1. pc[r] \in InSlot /\ depth[r] = Len(Turns(r))
    BY DEF CopyStep, PrepareCopy, PrepareFails, WriteMeta, FillMeta, EndSession, Touch,
           InSlot, PlaceOK
  <1>2. PICK p \in InSlot : pc' = [pc EXCEPT ![r] = p]
    BY DEF CopyStep, PrepareCopy, PrepareFails, WriteMeta, FillMeta, EndSession, Touch,
           InSlot, TypeOK
  <1>3. UNCHANGED <<depth, turnVars, slots, janitorVars, closed, restarts>>
    BY DEF CopyStep, PrepareCopy, PrepareFails, WriteMeta, FillMeta, EndSession, Touch
  <1>4. copy' \in [Envs -> BOOLEAN]
    BY DEF CopyStep, PrepareCopy, PrepareFails, WriteMeta, FillMeta, EndSession, Touch, TypeOK
  <1>5. meta' \in [Envs -> {"none", "torn", "whole"}]
    <2>1. CASE FillMeta(r)
      <3> DEFINE e == OwnEnv(r)
      <3>1. meta' = [meta EXCEPT ![e] = IF meta[e] = "torn" THEN "whole" ELSE meta[e]]
        BY <2>1 DEF FillMeta
      <3> HIDE DEF e
      <3> QED
        BY <3>1 DEF TypeOK
    <2>2. CASE ~ FillMeta(r)
      <3>1. CASE PrepareCopy(r) \/ PrepareFails(r) \/ EndSession(r)
        BY <3>1 DEF PrepareCopy, PrepareFails, EndSession, TypeOK
      <3>2. CASE WriteMeta(r)
        BY <3>2 DEF WriteMeta, TypeOK
      <3>3. CASE Touch(r)
        <4> DEFINE e == OwnEnv(r)
        <4>1. meta' = [meta EXCEPT ![e] = "torn"] \/ meta' = meta
          BY <3>3 DEF Touch
        <4> HIDE DEF e
        <4> QED
          BY <4>1 DEF TypeOK
      <3> QED
        BY <2>2, <3>1, <3>2, <3>3 DEF CopyStep
    <2> QED
      BY <2>1, <2>2
  <1>6. p \in PCs /\ p \notin {"new", "got", "ask", "queued"} \cup Leaving
    BY DEF PCs, InSlot, Leaving
  <1> QED
    BY <1>1, <1>2, <1>3, <1>4, <1>5, <1>6, MovesInv

LEMMA TakeSlotInv ==
  ASSUME EnvInv, NEW r \in Runs, TakeSlot(r)
  PROVE  EnvInv'
  <1> USE DEF EnvInv, turnVars, janitorVars, diskVars
  <1>1. PICK p \in InSlot : pc' = [pc EXCEPT ![r] = p]
    BY DEF TakeSlot, InSlot
  <1>2. pc[r] \notin InSlot /\ p \in PCs /\ p \notin {"new", "got", "ask", "queued"} \cup Leaving
    BY DEF TakeSlot, InSlot, PCs, Leaving
  <1>3. SlotsConserved' /\ slots' \in 0 .. MaxParallel
    BY <1>1, <1>2, SlotTaken DEF TakeSlot, SlotIsFree
  <1>4. TypeOK'
    BY <1>1, <1>2, <1>3 DEF TakeSlot, TypeOK
  <1>5. PlaceOK'
    BY <1>1, <1>2 DEF TakeSlot, TypeOK, PlaceOK
  <1>6. LocksAreHeld'
    BY <1>1, <1>2 DEF TakeSlot, TypeOK, LocksAreHeld, NextTurn, HasItsLock
  <1> QED
    BY <1>3, <1>4, <1>5, <1>6

(* Locking a free environment. *)
LEMMA LocksInv ==
  ASSUME EnvInv, NEW r \in Runs, pc[r] \in {"ask", "queued"},
         lock[NextTurn(r)] = None,
         lock' = [lock EXCEPT ![NextTurn(r)] = r],
         pc' = [pc EXCEPT ![r] = "got"],
         UNCHANGED <<depth, queues, holders, strays, slots, diskVars, janitorVars, closed,
                     restarts>>
  PROVE  EnvInv'
  <1> USE DEF EnvInv, turnVars, janitorVars, diskVars
  <1>1. NextTurn(r) \in Envs
    BY NextTurnInEnvs DEF PlaceOK
  <1>2. TypeOK'
    BY <1>1 DEF TypeOK, PCs
  <1>3. PlaceOK'
    BY DEF TypeOK, PlaceOK, InSlot, Leaving
  <1>4. \A e \in Envs : lock[e] # None => lock'[e] = lock[e]
    BY <1>1 DEF TypeOK
  <1>5. \A q \in Runs : \A i \in 1 .. depth[q] : Turns(q)[i] \in Envs
    BY HeldTurnInEnvs
  <1>6. \A q \in Runs : \A i \in 1 .. depth'[q] : lock'[Turns(q)[i]] = q
    BY <1>4, <1>5, Distinct DEF LocksAreHeld
  <1>7. \A q \in Runs : pc'[q] = "got" => lock'[NextTurn(q)'] = q
    <2> SUFFICES ASSUME NEW q \in Runs, pc'[q] = "got" PROVE lock'[NextTurn(q)] = q
      BY DEF NextTurn
    <2>1. CASE q = r
      BY <2>1, <1>1 DEF TypeOK
    <2>2. CASE q # r
      <3>1. pc[q] = "got" /\ lock[NextTurn(q)] = q
        BY <2>2 DEF TypeOK, LocksAreHeld
      <3>2. NextTurn(q) \in Envs
        BY <3>1, NextTurnInEnvs DEF PlaceOK
      <3> QED
        BY <3>1, <3>2, <1>4, Distinct
    <2> QED
      BY <2>1, <2>2
  <1>8. \A j \in Janitors : at'[j] = "rmtree" /\ HasItsLock(j)' => lock'[home'[j]] = j
    BY <1>4, Distinct DEF LocksAreHeld, HasItsLock, PlaceOK
  <1>9. SlotsConserved'
    BY SlotsUntouched DEF TypeOK, InSlot
  <1> QED
    BY <1>2, <1>3, <1>6, <1>7, <1>8, <1>9 DEF LocksAreHeld

LEMMA TryLockInv ==
  ASSUME EnvInv, NEW r \in Runs, TryLock(r)
  PROVE  EnvInv'
  <1> DEFINE e == NextTurn(r)
  <1>1. CASE lock[e] = None
    BY <1>1, LocksInv DEF TryLock
  <1>2. CASE lock[e] # None
    <2> USE DEF EnvInv, turnVars, janitorVars, diskVars
    <2>0. e \in Envs
      BY NextTurnInEnvs DEF TryLock, PlaceOK
    <2>1. /\ pc' = [pc EXCEPT ![r] = "queued"] /\ pc[r] = "ask"
          /\ queues' = [queues EXCEPT ![e] = Append(@, r)]
          /\ UNCHANGED <<depth, lock, holders, strays, slots, diskVars, janitorVars, closed,
                         restarts>>
      BY <1>2 DEF TryLock
    <2> HIDE DEF e
    <2>2. queues' \in [Envs -> Seq(Runs)]
      BY <2>0, <2>1 DEF TypeOK
    <2>3. TypeOK'
      BY <2>1, <2>2 DEF TypeOK, PCs, Waiting
    <2>4. PlaceOK'
      BY <2>1 DEF TypeOK, PlaceOK, InSlot, Leaving
    <2>5. LocksAreHeld'
      BY <2>1 DEF TypeOK, LocksAreHeld, NextTurn, HasItsLock
    <2>6. SlotsConserved'
      BY <2>1, SlotsUntouched DEF TypeOK, InSlot
    <2> QED
      BY <2>3, <2>4, <2>5, <2>6
  <1> QED
    BY <1>1, <1>2

LEMMA BecomeHolderInv ==
  ASSUME EnvInv, NEW r \in Runs, BecomeHolder(r)
  PROVE  EnvInv'
  <1> USE DEF EnvInv, turnVars, janitorVars, diskVars
  <1> DEFINE e == NextTurn(r)
             n == depth[r] + 1
             p == IF n < Len(Turns(r)) THEN "ask" ELSE "slot"
  <1>0. Len(Turns(r)) \in 0 .. 2 /\ depth[r] \in 0 .. 2
    <2> HIDE DEF EnvInv
    <2>2. depth[r] \in 0 .. 2
      BY DEF TypeOK, EnvInv
    <2>3. Len(Turns(r)) \in 0 .. 2
      BY TurnsAre
    <2> QED
      BY <2>2, <2>3
  <1>1. e \in Envs /\ lock[e] = r /\ e = Turns(r)[n] /\ n <= Len(Turns(r)) /\ n \in 1 .. 2
    <2>1. depth[r] < Len(Turns(r))
      BY DEF BecomeHolder, PlaceOK
    <2>2. e \in Envs
      BY <2>1, NextTurnInEnvs
    <2>3. n <= Len(Turns(r)) /\ n \in 1 .. 2
      <3> DEFINE len == Len(Turns(r))
      <3>1. len \in 0 .. 2 /\ depth[r] \in 0 .. 2 /\ depth[r] < len
        BY <1>0, <2>1
      <3> HIDE DEF EnvInv, len
      <3>2. n <= len /\ n \in 1 .. 2
        BY <3>1
      <3> HIDE DEF n
      <3> QED
        BY <3>2 DEF len
    <2> QED
      BY <2>2, <2>3 DEF BecomeHolder, LocksAreHeld, NextTurn
  <1>2. /\ pc' = [pc EXCEPT ![r] = p] /\ pc[r] = "got"
        /\ depth' = [depth EXCEPT ![r] = n]
        /\ queues' = [queues EXCEPT ![e] = Without(@, r)]
        /\ holders' = [holders EXCEPT ![e] = r]
        /\ UNCHANGED <<lock, strays, slots, diskVars, janitorVars, closed, restarts>>
    BY DEF BecomeHolder, TypeOK
  <1>3. Without(queues[e], r) \in Seq(Runs)
    BY <1>1, WithoutIsASeq DEF TypeOK
  <1>4. p \in {"ask", "slot"} /\ (p = "ask" => n < Len(Turns(r)))
          /\ (p = "slot" => n = Len(Turns(r)))
    BY <1>0, <1>1
  <1> HIDE DEF e, p
  <1>5. queues' \in [Envs -> Seq(Runs)]
    BY <1>1, <1>2, <1>3 DEF TypeOK
  <1>6. depth' \in [Runs -> 0 .. 2] /\ \A q \in Runs : depth'[q] <= Len(Turns(q))
    BY <1>1, <1>2 DEF TypeOK
  <1>7. TypeOK'
    BY <1>2, <1>4, <1>5, <1>6 DEF TypeOK, PCs, Waiting
  <1>8. PlaceOK'
    BY <1>2, <1>4 DEF TypeOK, PlaceOK, InSlot, Leaving
  <1>9. \A q \in Runs : \A i \in 1 .. depth'[q] : lock'[Turns(q)[i]] = q
    <2> TAKE q \in Runs
    <2> TAKE i \in 1 .. depth'[q]
    <2>1. CASE q = r /\ i = n
      BY <2>1, <1>1, <1>2
    <2>2. CASE q # r \/ i # n
      <3>1. i \in 1 .. depth[q]
        <4>1. depth'[q] = IF q = r THEN depth[r] + 1 ELSE depth[q]
          BY <1>2 DEF TypeOK
        <4>2. depth[q] \in 0 .. 2 /\ depth[r] \in 0 .. 2
          BY DEF TypeOK
        <4> QED
          BY <2>2, <4>1, <4>2
      <3> QED
        BY <3>1, <1>2 DEF LocksAreHeld
    <2> QED
      BY <2>1, <2>2
  <1>10. LocksAreHeld'
    BY <1>2, <1>4, <1>9 DEF TypeOK, LocksAreHeld, NextTurn, HasItsLock
  <1>11. SlotsConserved'
    BY <1>2, <1>4, SlotsUntouched DEF TypeOK, InSlot
  <1> QED
    BY <1>7, <1>8, <1>10, <1>11

LEMMA ReleaseSlotInv ==
  ASSUME EnvInv, NEW r \in Runs, ReleaseSlot(r)
  PROVE  EnvInv'
  <1> USE DEF EnvInv, turnVars, janitorVars, diskVars
  <1> DEFINE p == IF depth[r] = 0 THEN "ended" ELSE "leave"
  <1>1. pc[r] \in InSlot /\ p \in PCs \ InSlot /\ p \in {"ended", "leave"}
    BY DEF ReleaseSlot, InSlot, PCs, Leaving
  <1>2. SlotsConserved' /\ slots' \in 0 .. MaxParallel
    BY <1>1, SlotGivenBack DEF ReleaseSlot, GoesOut
  <1>3. TypeOK'
    BY <1>1, <1>2 DEF ReleaseSlot, GoesOut, TypeOK
  <1>4. PlaceOK'
    BY <1>1 DEF ReleaseSlot, GoesOut, TypeOK, PlaceOK, InSlot, Leaving
  <1>5. LocksAreHeld'
    BY <1>1 DEF ReleaseSlot, GoesOut, TypeOK, LocksAreHeld, NextTurn, HasItsLock
  <1> QED
    BY <1>2, <1>3, <1>4, <1>5

(* A wait that raises: the run leaves the line, or gives up the slot it    *)
(* wanted, and goes out of the turns it is inside.                         *)
LEMMA WaitRaisesInv ==
  ASSUME EnvInv, NEW r \in Runs, WaitRaises(r) \/ SlotWaitRaises(r)
  PROVE  EnvInv'
  <1> USE DEF EnvInv, turnVars, janitorVars, diskVars
  <1> DEFINE p == IF depth[r] = 0 THEN "ended" ELSE "leave"
  <1>1. /\ pc[r] \in {"queued", "slot"} /\ pc' = [pc EXCEPT ![r] = p]
        /\ strays' \subseteq strays \cup {r}
        /\ UNCHANGED <<depth, lock, queues, holders, slots, diskVars, janitorVars, closed,
                       restarts>>
    BY DEF WaitRaises, SlotWaitRaises, GoesOut
  <1>2. p \in PCs \ InSlot /\ p \in {"ended", "leave"} /\ (p = "leave" => depth[r] # 0)
    BY DEF InSlot, PCs, Leaving
  <1> HIDE DEF p
  <1>3. TypeOK'
    BY <1>1, <1>2 DEF TypeOK
  <1>4. PlaceOK'
    <2>1. p = "leave" => depth[r] > 0
      <3>1. depth[r] \in 0 .. 2
        BY DEF TypeOK
      <3> HIDE DEF EnvInv
      <3> QED
        BY <1>2, <3>1
    <2> QED
      BY <1>1, <1>2, <2>1 DEF TypeOK, PlaceOK, InSlot, Leaving
  <1>5. LocksAreHeld'
    BY <1>1, <1>2 DEF TypeOK, LocksAreHeld, NextTurn, HasItsLock
  <1>6. SlotsConserved'
    BY <1>1, <1>2, SlotsUntouched DEF TypeOK, InSlot
  <1> QED
    BY <1>3, <1>4, <1>5, <1>6

LEMMA LeaveInv ==
  ASSUME EnvInv, NEW r \in Runs, Leave(r)
  PROVE  EnvInv'
  <1> USE DEF EnvInv, turnVars, janitorVars, diskVars
  <1>1. holders' \in [Envs -> Runs \cup {None}]
    BY DEF Leave, TypeOK
  <1>2. TypeOK'
    BY <1>1 DEF Leave, TypeOK, PCs, Leaving
  <1>3. PlaceOK'
    BY DEF Leave, TypeOK, PlaceOK, InSlot, Leaving
  <1>4. LocksAreHeld'
    BY DEF Leave, TypeOK, LocksAreHeld, NextTurn, HasItsLock
  <1>5. SlotsConserved'
    BY SlotsUntouched DEF Leave, TypeOK, InSlot
  <1> QED
    BY <1>2, <1>3, <1>4, <1>5

(* A run gives back its innermost turn.  Nobody else holds it, and its     *)
(* other turn is another environment.                                      *)
LEMMA ReleaseLockInv ==
  ASSUME EnvInv, NEW r \in Runs, ReleaseLock(r)
  PROVE  EnvInv'
  <1> USE DEF EnvInv, turnVars, janitorVars, diskVars
  <1> DEFINE n == depth[r]
             e == Turns(r)[n]
             p == IF n = 1 THEN "ended" ELSE "leave"
  <1>1. n \in 1 .. 2 /\ n <= Len(Turns(r))
    BY DEF ReleaseLock, TypeOK, PlaceOK, Leaving
  <1>2. e \in Envs /\ lock[e] = r
    BY <1>1, HeldTurnInEnvs DEF LocksAreHeld
  <1>3. /\ pc' = [pc EXCEPT ![r] = p] /\ pc[r] = "release"
        /\ lock' = [lock EXCEPT ![e] = None]
        /\ depth' = [depth EXCEPT ![r] = n - 1]
        /\ UNCHANGED <<queues, holders, strays, slots, diskVars, janitorVars, closed, restarts>>
    BY DEF ReleaseLock, TypeOK
  <1>4. p \in {"ended", "leave"} /\ (p = "leave" => n - 1 > 0) /\ n - 1 \in 0 .. 2
    BY <1>1
  <1>5. \A i \in 1 .. n - 1 : Turns(r)[i] # e
    <2>1. Len(Turns(r)) \in 0 .. 2
      BY TurnsAre
    <2>2. ASSUME NEW i \in 1 .. n - 1 PROVE Turns(r)[i] # e
      <3>1. i = 1 /\ n = 2
        BY <1>1
      <3>2. Len(Turns(r)) = 2
        BY <1>1, <2>1, <3>1
      <3> QED
        BY <3>1, <3>2, TurnsAre
    <2> QED
      BY <2>2
  <1> HIDE DEF e, p
  <1>6. depth' \in [Runs -> 0 .. 2] /\ \A q \in Runs : depth'[q] <= Len(Turns(q))
    <2>1. \A q \in Runs : depth'[q] = IF q = r THEN n - 1 ELSE depth[q]
      BY <1>3 DEF TypeOK
    <2>2. n - 1 <= Len(Turns(r))
      <3>1. Len(Turns(r)) \in 0 .. 2
        BY TurnsAre
      <3> QED
        BY <3>1, <1>1
    <2> QED
      BY <1>3, <1>4, <2>1, <2>2 DEF TypeOK
  <1>7. TypeOK'
    BY <1>2, <1>3, <1>4, <1>6 DEF TypeOK, PCs, Leaving
  <1>8. PlaceOK'
    BY <1>3, <1>4 DEF TypeOK, PlaceOK, InSlot, Leaving
  <1>9. \A f \in Envs : f # e => lock'[f] = lock[f]
    BY <1>3 DEF TypeOK
  <1>10. \A q \in Runs : \A i \in 1 .. depth'[q] : lock'[Turns(q)[i]] = q
    <2> TAKE q \in Runs
    <2> TAKE i \in 1 .. depth'[q]
    <2>1. depth'[q] = IF q = r THEN n - 1 ELSE depth[q]
      BY <1>3 DEF TypeOK
    <2>2. i \in 1 .. depth[q]
      BY <2>1, <1>1 DEF TypeOK
    <2>3. lock[Turns(q)[i]] = q /\ Turns(q)[i] \in Envs
      BY <2>2, HeldTurnInEnvs DEF LocksAreHeld
    <2>4. Turns(q)[i] # e
      BY <2>1, <2>3, <1>2, <1>5
    <2> QED
      BY <2>3, <2>4, <1>9
  <1>11. \A q \in Runs : pc'[q] = "got" => lock'[NextTurn(q)'] = q
    <2> SUFFICES ASSUME NEW q \in Runs, pc'[q] = "got" PROVE lock'[NextTurn(q)'] = q
      OBVIOUS
    <2>1. q # r /\ pc[q] = "got" /\ NextTurn(q)' = NextTurn(q)
      BY <1>3, <1>4 DEF TypeOK, NextTurn
    <2>2. lock[NextTurn(q)] = q /\ NextTurn(q) \in Envs
      BY <2>1, NextTurnInEnvs DEF LocksAreHeld, PlaceOK
    <2> QED
      BY <2>1, <2>2, <1>2, <1>9
  <1>12. \A j \in Janitors : at'[j] = "rmtree" /\ HasItsLock(j)' => lock'[home'[j]] = j
    BY <1>2, <1>3, <1>9, Distinct DEF LocksAreHeld, HasItsLock, PlaceOK
  <1>13. SlotsConserved'
    BY <1>3, <1>4, SlotsUntouched DEF TypeOK, InSlot
  <1> QED
    BY <1>7, <1>8, <1>10, <1>11, <1>12, <1>13 DEF LocksAreHeld
-----------------------------------------------------------------------------
(* The janitors' steps that leave the locks alone. *)
LEMMA JanitorLooksInv ==
  ASSUME EnvInv,
         UNCHANGED <<pc, depth, turnVars, slots, diskVars, restarts>>,
         at' \in [Janitors -> {"idle", "scan", "judge", "remove", "rmtree"}],
         todo' \in [Janitors -> SUBSET Envs],
         home' \in [Janitors -> Envs \cup {None}],
         seen' \in [Janitors -> {"none", "unreadable", "whole"}],
         closed' \subseteq Envs, discarded' \subseteq closed',
         sweeps' \in 0 .. MaxSweeps,
         \A j \in Janitors : at'[j] \in {"judge", "remove", "rmtree"} => home'[j] \in Envs,
         \A j \in Janitors : at'[j] = "rmtree" /\ HasItsLock(j)' =>
                              lock[home'[j]] = j
  PROVE  EnvInv'
  <1> USE DEF EnvInv, turnVars, diskVars
  <1>1. TypeOK'
    BY DEF TypeOK
  <1>2. PlaceOK' /\ LocksAreHeld'
    BY DEF PlaceOK, LocksAreHeld, NextTurn
  <1>3. SlotsConserved'
    BY SlotsUntouched
  <1> QED
    BY <1>1, <1>2, <1>3

LEMMA CloseInv ==
  ASSUME EnvInv, NEW e \in Envs, CloseIssue(e) \/ BeginDiscard(e)
  PROVE  EnvInv'
  <1> USE DEF EnvInv
  <1>1. CASE CloseIssue(e)
    BY <1>1, JanitorLooksInv
       DEF CloseIssue, TypeOK, PlaceOK, LocksAreHeld, HasItsLock, janitorVars, turnVars
  <1>2. CASE BeginDiscard(e)
    <2>1. \A j \in Janitors : at'[j] \in {"judge", "remove", "rmtree"} => at'[j] = at[j]
      BY <1>2 DEF BeginDiscard, TypeOK
    <2>2. todo' \in [Janitors -> SUBSET Envs]
      BY <1>2 DEF BeginDiscard, TypeOK, WithMeta
    <2>3. at' \in [Janitors -> {"idle", "scan", "judge", "remove", "rmtree"}]
      BY <1>2 DEF BeginDiscard, TypeOK
    <2> QED
      BY <1>2, <2>1, <2>2, <2>3, JanitorLooksInv
         DEF BeginDiscard, TypeOK, PlaceOK, LocksAreHeld, HasItsLock
  <1> QED
    BY <1>1, <1>2

LEMMA BeginSweepInv ==
  ASSUME EnvInv, BeginSweep
  PROVE  EnvInv'
  <1> USE DEF EnvInv
  <1>1. \A j \in Janitors : at'[j] \in {"judge", "remove", "rmtree"} => at'[j] = at[j]
    BY DEF BeginSweep, TypeOK
  <1>2. todo' \in [Janitors -> SUBSET Envs]
    BY DEF BeginSweep, TypeOK, WithMeta
  <1>3. at' \in [Janitors -> {"idle", "scan", "judge", "remove", "rmtree"}]
    BY DEF BeginSweep, TypeOK
  <1>4. sweeps' \in 0 .. MaxSweeps
    BY EnvironmentsAssumption DEF EnvironmentsAssumption, BeginSweep, TypeOK
  <1> QED
    BY <1>1, <1>2, <1>3, <1>4, JanitorLooksInv
       DEF BeginSweep, TypeOK, PlaceOK, LocksAreHeld, HasItsLock

(* Reading, keeping, skipping, deciding, ending the pass. *)
LEMMA JanitorMovesInv ==
  ASSUME EnvInv, NEW j \in Janitors,
         \/ \E e \in Envs : ReadMeta(j, e)
         \/ Keep(j) \/ DecideGone(j) \/ SkipBusy(j) \/ EndPass(j)
  PROVE  EnvInv'
  <1> USE DEF EnvInv
  <1>1. /\ UNCHANGED <<pc, depth, turnVars, slots, diskVars, restarts, closed, discarded, sweeps>>
        /\ at' \in [Janitors -> {"idle", "scan", "judge", "remove", "rmtree"}]
    BY DEF ReadMeta, Keep, DecideGone, SkipBusy, EndPass, NextHome, TypeOK
  <1>2. todo' \in [Janitors -> SUBSET Envs]
    <2>1. ASSUME NEW e \in Envs, ReadMeta(j, e) PROVE todo' \in [Janitors -> SUBSET Envs]
      <3>1. todo' = [todo EXCEPT ![j] = todo[j] \ {e}]
        BY <2>1 DEF ReadMeta
      <3> QED
        BY <3>1 DEF TypeOK
    <2>2. CASE Keep(j) \/ DecideGone(j) \/ SkipBusy(j) \/ EndPass(j)
      BY <2>2 DEF Keep, DecideGone, SkipBusy, EndPass, TypeOK
    <2> QED
      BY <2>1, <2>2
  <1>3. home' \in [Janitors -> Envs \cup {None}]
    BY DEF ReadMeta, Keep, DecideGone, SkipBusy, EndPass, NextHome, TypeOK
  <1>4. seen' \in [Janitors -> {"none", "unreadable", "whole"}]
    BY DEF ReadMeta, Keep, DecideGone, SkipBusy, EndPass, NextHome, TypeOK
  <1>5. ASSUME NEW k \in Janitors, at'[k] \in {"judge", "remove", "rmtree"}
        PROVE  home'[k] \in Envs
    BY <1>5 DEF ReadMeta, Keep, DecideGone, SkipBusy, EndPass, NextHome, TypeOK, PlaceOK
  <1>6. ASSUME NEW k \in Janitors, at'[k] = "rmtree", HasItsLock(k)'
        PROVE  lock[home'[k]] = k
    <2>1. at[k] = "rmtree" /\ home'[k] = home[k] /\ seen'[k] = seen[k]
      BY <1>6 DEF ReadMeta, Keep, DecideGone, SkipBusy, EndPass, NextHome, TypeOK
    <2> QED
      BY <2>1, <1>6 DEF LocksAreHeld, HasItsLock
  <1> QED
    BY <1>1, <1>2, <1>3, <1>4, <1>5, <1>6, JanitorLooksInv DEF TypeOK

(* A removal under the environment's lock takes it free and gives it back; *)
(* one under a lock of its own touches no run's lock.                      *)
LEMMA StartRemovingInv ==
  ASSUME EnvInv, NEW j \in Janitors, StartRemoving(j)
  PROVE  EnvInv'
  <1> USE DEF EnvInv, turnVars, diskVars
  <1>1. home[j] \in Envs
    BY DEF StartRemoving, PlaceOK
  <1>2. /\ at[j] = "remove" /\ at' = [at EXCEPT ![j] = "rmtree"]
        /\ UNCHANGED <<pc, depth, queues, holders, strays, slots, diskVars, todo, home, seen,
                       closed, discarded, sweeps, restarts>>
        /\ HasItsLock(j) => lock[home[j]] = None /\ lock' = [lock EXCEPT ![home[j]] = j]
        /\ ~ HasItsLock(j) => lock' = lock
    BY DEF StartRemoving, MayRemove
  <1>3. lock' \in [Envs -> Runs \cup Janitors \cup {None}]
    BY <1>1, <1>2 DEF TypeOK
  <1>4. TypeOK'
    BY <1>2, <1>3 DEF TypeOK
  <1>5. PlaceOK'
    BY <1>1, <1>2 DEF TypeOK, PlaceOK
  <1>6. \A e \in Envs : lock[e] # None => lock'[e] = lock[e]
    BY <1>1, <1>2 DEF TypeOK
  <1>7. \A q \in Runs : \A i \in 1 .. depth'[q] : lock'[Turns(q)[i]] = q
    <2> TAKE q \in Runs
    <2> TAKE i \in 1 .. depth'[q]
    <2>1. lock[Turns(q)[i]] = q /\ Turns(q)[i] \in Envs
      BY <1>2, HeldTurnInEnvs DEF LocksAreHeld
    <2> QED
      BY <2>1, <1>6, Distinct
  <1>8. \A q \in Runs : pc'[q] = "got" => lock'[NextTurn(q)'] = q
    <2> SUFFICES ASSUME NEW q \in Runs, pc'[q] = "got" PROVE lock'[NextTurn(q)'] = q
      OBVIOUS
    <2>1. lock[NextTurn(q)] = q /\ NextTurn(q) \in Envs /\ NextTurn(q)' = NextTurn(q)
      BY <1>2, NextTurnInEnvs DEF LocksAreHeld, PlaceOK, NextTurn
    <2> QED
      BY <2>1, <1>6, Distinct
  <1>9. \A k \in Janitors : at'[k] = "rmtree" /\ HasItsLock(k)' => lock'[home'[k]] = k
    <2> SUFFICES ASSUME NEW k \in Janitors, at'[k] = "rmtree", HasItsLock(k)
                 PROVE  lock'[home[k]] = k
      BY <1>2 DEF HasItsLock
    <2>1. CASE k = j
      BY <2>1, <1>1, <1>2 DEF TypeOK
    <2>2. CASE k # j
      <3>1. at[k] = "rmtree" /\ lock[home[k]] = k /\ home[k] \in Envs
        BY <2>2, <1>2 DEF TypeOK, LocksAreHeld, PlaceOK
      <3> QED
        BY <3>1, <1>6, Distinct
    <2> QED
      BY <2>1, <2>2
  <1>10. SlotsConserved'
    BY <1>2, SlotsUntouched
  <1> QED
    BY <1>4, <1>5, <1>7, <1>8, <1>9, <1>10 DEF LocksAreHeld

LEMMA RemoveTreeInv ==
  ASSUME EnvInv, NEW j \in Janitors, RemoveTree(j)
  PROVE  EnvInv'
  <1> USE DEF EnvInv, turnVars, diskVars
  <1>1. home[j] \in Envs
    BY DEF RemoveTree, PlaceOK
  <1>2. /\ at[j] = "rmtree" /\ at' = [at EXCEPT ![j] = "scan"]
        /\ home' = [home EXCEPT ![j] = None] /\ seen' = [seen EXCEPT ![j] = "none"]
        /\ UNCHANGED <<pc, depth, queues, holders, strays, slots, todo, closed,
                       discarded, sweeps, restarts>>
        /\ HasItsLock(j) => lock[home[j]] = j /\ lock' = [lock EXCEPT ![home[j]] = None]
        /\ ~ HasItsLock(j) => lock' = lock
    BY DEF RemoveTree, NextHome, LocksAreHeld
  <1>3. lock' \in [Envs -> Runs \cup Janitors \cup {None}]
    BY <1>1, <1>2 DEF TypeOK
  <1>4. TypeOK'
    BY <1>2, <1>3 DEF RemoveTree, TypeOK
  <1>5. PlaceOK'
    BY <1>2 DEF TypeOK, PlaceOK
  <1>6. \A e \in Envs : lock[e] # j => lock'[e] = lock[e]
    BY <1>1, <1>2 DEF TypeOK
  <1>7. \A q \in Runs : \A i \in 1 .. depth'[q] : lock'[Turns(q)[i]] = q
    <2> TAKE q \in Runs
    <2> TAKE i \in 1 .. depth'[q]
    <2>1. lock[Turns(q)[i]] = q /\ Turns(q)[i] \in Envs
      BY <1>2, HeldTurnInEnvs DEF LocksAreHeld
    <2> QED
      BY <2>1, <1>6, Distinct
  <1>8. \A q \in Runs : pc'[q] = "got" => lock'[NextTurn(q)'] = q
    <2> SUFFICES ASSUME NEW q \in Runs, pc'[q] = "got" PROVE lock'[NextTurn(q)'] = q
      OBVIOUS
    <2>1. lock[NextTurn(q)] = q /\ NextTurn(q) \in Envs /\ NextTurn(q)' = NextTurn(q)
      BY <1>2, NextTurnInEnvs DEF LocksAreHeld, PlaceOK, NextTurn
    <2> QED
      BY <2>1, <1>6, Distinct
  <1>9. \A k \in Janitors : at'[k] = "rmtree" /\ HasItsLock(k)' => lock'[home'[k]] = k
    <2> SUFFICES ASSUME NEW k \in Janitors, at'[k] = "rmtree", HasItsLock(k)'
                 PROVE  lock'[home'[k]] = k
      OBVIOUS
    <2>1. k # j /\ at[k] = "rmtree" /\ home'[k] = home[k] /\ seen'[k] = seen[k]
      BY <1>2 DEF TypeOK
    <2>2. lock[home[k]] = k /\ home[k] \in Envs
      BY <2>1 DEF LocksAreHeld, PlaceOK, HasItsLock
    <2> QED
      BY <2>1, <2>2, <1>6
  <1>10. SlotsConserved'
    BY <1>2, SlotsUntouched
  <1> QED
    BY <1>4, <1>5, <1>7, <1>8, <1>9, <1>10 DEF LocksAreHeld

(* A process that has just started has empty locks, queues and slots. *)
LEMMA RestartInv ==
  ASSUME EnvInv, Restart
  PROVE  EnvInv'
  <1> USE DEF EnvInv, diskVars
  <1>1. \A r \in Runs : pc'[r] \in {"new", "ended", "killed"}
    BY DEF Restart
  <1>2. TypeOK'
    <2>1. \A r \in Runs : 0 <= Len(Turns(r))
      BY TurnsAre
    <2>2. restarts' \in 0 .. MaxRestarts
      BY EnvironmentsAssumption DEF EnvironmentsAssumption, Restart, TypeOK
    <2>3. slots' \in 0 .. MaxParallel
      BY EnvironmentsAssumption DEF EnvironmentsAssumption, Restart
    <2>4. depth' \in [Runs -> 0 .. 2] /\ \A r \in Runs : depth'[r] <= Len(Turns(r))
      BY <2>1 DEF Restart
    <2> QED
      BY <2>2, <2>3, <2>4 DEF Restart, TypeOK, PCs
  <1>3. PlaceOK' /\ LocksAreHeld'
    BY <1>1 DEF Restart, PlaceOK, LocksAreHeld, InSlot, Leaving
  <1>4. {r \in Runs : AtWork(r)}' = {}
    BY <1>1 DEF AtWork, InSlot
  <1>5. Cardinality({r \in Runs : AtWork(r)}') = 0
    BY <1>4, FS_EmptySet
  <1>6. SlotsConserved'
    BY <1>5, EnvironmentsAssumption DEF EnvironmentsAssumption, SlotsConserved, Restart
  <1> QED
    BY <1>2, <1>3, <1>6

LEMMA NextEnvInv == EnvInv /\ [Next]_vars => EnvInv'
  <1> SUFFICES ASSUME EnvInv, [Next]_vars PROVE EnvInv'
    OBVIOUS
  <1>1. ASSUME NEW r \in Runs, Start(r) PROVE EnvInv'
    BY <1>1, StartInv
  <1>2. ASSUME NEW r \in Runs, TurnStep(r) PROVE EnvInv'
    <2>1. ASSUME AcquireLock(r) PROVE EnvInv'
      BY <2>1, LocksInv DEF AcquireLock, LockIsFree
    <2> QED
      BY <1>2, <2>1, TryLockInv, BecomeHolderInv DEF TurnStep
  <1>3. ASSUME NEW r \in Runs, TakeSlot(r) \/ CopyStep(r) PROVE EnvInv'
    BY <1>3, TakeSlotInv, CopyStepInv
  <1>4. ASSUME NEW r \in Runs, ExitStep(r) PROVE EnvInv'
    BY <1>4, ReleaseSlotInv, LeaveInv, ReleaseLockInv DEF ExitStep
  <1>9. ASSUME NEW r \in Runs, WaitRaises(r) \/ SlotWaitRaises(r) PROVE EnvInv'
    BY <1>9, WaitRaisesInv
  <1>5. ASSUME NEW e \in Envs, CloseIssue(e) \/ BeginDiscard(e) PROVE EnvInv'
    BY <1>5, CloseInv
  <1>6. ASSUME NEW j \in Janitors, JanitorStep(j) PROVE EnvInv'
    BY <1>6, JanitorMovesInv, StartRemovingInv, RemoveTreeInv DEF JanitorStep
  <1>7. CASE BeginSweep \/ Restart
    BY <1>7, BeginSweepInv, RestartInv
  <1>8. CASE UNCHANGED vars
    BY <1>8 DEF vars, EnvInv, TypeOK, PlaceOK, LocksAreHeld, NextTurn, HasItsLock,
       SlotsConserved, AtWork
  <1> QED
    BY <1>1, <1>2, <1>3, <1>4, <1>5, <1>6, <1>7, <1>8, <1>9 DEF Next, RunStep

LEMMA EnvInvHolds == Spec => []EnvInv
  BY InitEnvInv, NextEnvInv, PTL DEF Spec
-----------------------------------------------------------------------------
(* Turns, slots, disk and janitors keep their types. *)
THEOREM EnvironmentsTypeOK == Spec => []TypeOK
  <1>1. EnvInv => TypeOK
    BY DEF EnvInv
  <1> QED
    BY EnvInvHolds, <1>1, PTL

(* No way out of a run leaks a session slot or gives one back twice. *)
THEOREM EnvironmentsConserveSlots == Spec => []SlotsConserved
  <1>1. EnvInv => SlotsConserved
    BY DEF EnvInv
  <1> QED
    BY EnvInvHolds, <1>1, PTL

LEMMA LocksExclude == EnvInv => OneRunPerEnvironment
  <1> SUFFICES ASSUME EnvInv, NEW r \in Runs, NEW q \in Runs, r # q
               PROVE  Inside(r) \cap Inside(q) = {}
    BY DEF OneRunPerEnvironment
  <1>1. \A e \in Inside(r) : lock[e] = r
    BY DEF Inside, EnvInv, LocksAreHeld
  <1>2. \A e \in Inside(q) : lock[e] = q
    BY DEF Inside, EnvInv, LocksAreHeld
  <1> QED
    BY <1>1, <1>2

(* Two runs are never inside one environment together, for every set of    *)
(* jobs and whatever the janitors do.                                      *)
THEOREM EnvironmentsExclude == Spec => []OneRunPerEnvironment
  BY EnvInvHolds, LocksExclude, PTL

(* No run holds two staging turns: of two turns the second is an issue's. *)
THEOREM OneStagingTurn == Spec => []OneStagingTurnEach
  <1>1. ASSUME TypeOK, NEW r \in Runs
        PROVE  Cardinality({e \in Inside(r) : IsStaging(e)}) <= 1
    <2> DEFINE S == {e \in Inside(r) : IsStaging(e)}
    <2>1. S \subseteq {Turns(r)[1]}
      <3> SUFFICES ASSUME NEW i \in 1 .. depth[r], IsStaging(Turns(r)[i])
                   PROVE  Turns(r)[i] = Turns(r)[1]
        BY DEF Inside
      <3>1. depth[r] \in 0 .. 2 /\ depth[r] <= Len(Turns(r))
        BY <1>1 DEF TypeOK
      <3>2. i = 1 \/ (i = 2 /\ depth[r] = 2)
        BY <3>1
      <3>3. depth[r] = 2 => Len(Turns(r)) = 2
        <4> DEFINE len == Len(Turns(r))
        <4>1. len \in 0 .. 2 /\ depth[r] <= len
          BY <3>1, TurnsAre
        <4> HIDE DEF len
        <4>2. depth[r] = 2 => len = 2
          BY <4>1
        <4> QED
          BY <4>2 DEF len
      <3> QED
        BY <3>2, <3>3, TurnsAre
    <2>2. IsFiniteSet({Turns(r)[1]}) /\ Cardinality({Turns(r)[1]}) = 1
      BY FS_Singleton
    <2> HIDE DEF S
    <2> QED
      BY <2>1, <2>2, FS_Subset DEF S
  <1>2. TypeOK => OneStagingTurnEach
    BY <1>1 DEF OneStagingTurnEach
  <1> QED
    BY EnvironmentsTypeOK, <1>2, PTL

(* The branch a release lands on is the name of a turn it holds while it   *)
(* is at work.                                                             *)
LEMMA TargetIsHeld ==
  ASSUME EnvInv, NEW r \in Runs, Job[r].role = "release", Job[r].shared, AtWork(r)
  PROVE  LandsOn(r) \in Inside(r)
  <1> DEFINE b == EnvId(BuildEnvironment(r))
             t == EnvId(TrainTurn(r))
  <1>1. depth[r] = Len(Turns(r))
    BY DEF AtWork, EnvInv, PlaceOK
  <1>2. /\ WorkspaceFor(r) = Key(Job[r].repo, Job[r].number, Job[r].epic)
        /\ WorkspaceFor(r) # None
    <2>1. Job[r] \in JobType /\ None \notin KeyType
      BY EnvironmentsAssumption DEF EnvironmentsAssumption
    <2>2. Key(Job[r].repo, Job[r].number, Job[r].epic) \in KeyType
      BY <2>1 DEF Key, KeyType, JobType
    <2> QED
      BY <2>1, <2>2 DEF WorkspaceFor
  <1>3. BuildEnvironment(r) # None
    <2>1. Job[r] \in JobType /\ None \notin KeyType
      BY EnvironmentsAssumption DEF EnvironmentsAssumption
    <2>2. STAGING(Job[r].repo) \in KeyType
      BY <2>1 DEF STAGING, Key, KeyType, JobType, EpicType
    <2>3. Job[r].epic # None => Key(Job[r].repo, Job[r].epic.number, None) \in KeyType
      BY <2>1 DEF Key, KeyType, JobType, EpicType
    <2> QED
      BY <1>2, <2>1, <2>2, <2>3 DEF BuildEnvironment, Key
  <1>4. Turns(r) = IF TrainTurn(r) = None THEN <<b>> ELSE <<t, b>>
    BY <1>3 DEF Turns, TurnsOf
  <1>5. CASE TrainTurn(r) = None
    <2>1. LandsOn(r) = b
      <3>1. CASE Job[r].epic = None
        BY <3>1, <1>2 DEF LandsOn, BuildEnvironment, EnvId, STAGING, Key
      <3>2. CASE Job[r].epic # None /\ Job[r].epic.repo # Job[r].repo
        <4>1. Job[r] \in JobType /\ None \notin KeyType
          BY EnvironmentsAssumption DEF EnvironmentsAssumption
        <4>2. STAGING(Job[r].epic.repo) \in KeyType
          BY <3>2, <4>1 DEF STAGING, Key, KeyType, JobType, EpicType
        <4>3. TrainTurn(r) = STAGING(Job[r].epic.repo)
          BY <3>2, <1>2, <1>3 DEF TrainTurn, BuildEnvironment, Key
        <4> QED
          BY <1>5, <4>1, <4>2, <4>3
      <3>3. CASE Job[r].epic # None /\ Job[r].epic.repo = Job[r].repo
        BY <3>3, <1>2 DEF LandsOn, BuildEnvironment, EnvId, STAGING, Key
      <3> QED
        BY <3>1, <3>2, <3>3
    <2>2. Turns(r) = <<b>>
      BY <1>4, <1>5
    <2> HIDE DEF b, t
    <2>3. depth[r] = 1 /\ Turns(r)[1] = b
      BY <1>1, <2>2
    <2> QED
      BY <2>1, <2>3 DEF Inside
  <1>6. CASE TrainTurn(r) # None
    <2>1. LandsOn(r) = t
      <3>1. CASE Job[r].epic = None
        <4>1. BuildEnvironment(r) = STAGING(Job[r].repo)
          BY <3>1, <1>2 DEF BuildEnvironment, Key
        <4> QED
          BY <1>6, <4>1 DEF TrainTurn, STAGING, Key
      <3>2. CASE Job[r].epic # None /\ Job[r].epic.repo = Job[r].repo
        <4>1. BuildEnvironment(r).epic = None
          BY <3>2, <1>2 DEF BuildEnvironment, STAGING, Key
        <4> QED
          BY <1>6, <4>1 DEF TrainTurn
      <3>3. CASE Job[r].epic # None /\ Job[r].epic.repo # Job[r].repo
        <4>1. TrainTurn(r) = STAGING(Job[r].epic.repo)
          BY <3>3, <1>2, <1>3 DEF TrainTurn, BuildEnvironment, Key
        <4> QED
          BY <3>3, <4>1 DEF LandsOn, EnvId, STAGING, Key
      <3> QED
        BY <3>1, <3>2, <3>3
    <2>2. Turns(r) = <<t, b>>
      BY <1>4, <1>6
    <2> HIDE DEF b, t
    <2>3. depth[r] = 2 /\ Turns(r)[1] = t
      BY <1>1, <2>2
    <2> QED
      BY <2>1, <2>3 DEF Inside
  <1> QED
    BY <1>5, <1>6

(* Releases that land on one branch are never at work together, whatever   *)
(* the jobs are and however many repos the train runs over.                *)
THEOREM OneReleaseEach == Spec => []OneReleasePerTarget
  <1>1. EnvInv => OneReleasePerTarget
    <2> SUFFICES ASSUME EnvInv, NEW r \in Runs, NEW q \in Runs, r # q,
                        Job[r].role = "release", Job[q].role = "release",
                        Job[r].shared, Job[q].shared, AtWork(r), AtWork(q)
                 PROVE  LandsOn(r) # LandsOn(q)
      BY DEF OneReleasePerTarget
    <2>1. LandsOn(r) \in Inside(r) /\ LandsOn(q) \in Inside(q)
      BY TargetIsHeld
    <2> QED
      BY <2>1, LocksExclude DEF OneRunPerEnvironment
  <1> QED
    BY EnvInvHolds, <1>1, PTL
-----------------------------------------------------------------------------
(***************************************************************************)
(* The report.  Who is shown as a holder is inside, and has not begun to   *)
(* give the turn back; who is inside and has not begun to is shown; who is *)
(* shown as waiting waits for that turn, or left its entry behind and is   *)
(* on its way out, and is shown once; and who waits is shown.              *)
(***************************************************************************)
GivesBack(r, i) == pc[r] = "release" /\ i = depth[r]

HoldersAreInside ==
  \A e \in Envs : holders[e] # None =>
    \E i \in 1 .. depth[holders[e]] :
      Turns(holders[e])[i] = e /\ ~ GivesBack(holders[e], i)

InsideIsShown ==
  \A r \in Runs : \A i \in 1 .. depth[r] :
    ~ GivesBack(r, i) => holders[Turns(r)[i]] = r

Waits(r, e) == pc[r] \in {"queued", "got"} /\ NextTurn(r) = e

Stands(r, e) == Waits(r, e) \/ r \in strays

LineIsTrue ==
  \A e \in Envs :
    /\ \A i \in 1 .. Len(queues[e]) : Stands(queues[e][i], e)
    /\ \A i, k \in 1 .. Len(queues[e]) : queues[e][i] = queues[e][k] => i = k

StraysAreGone == \A r \in strays : pc[r] \in Leaving \cup {"ended"}

LineIsWhole ==
  \A r \in Runs : \A e \in Envs :
    pc[r] = "queued" /\ NextTurn(r) = e => \E i \in 1 .. Len(queues[e]) : queues[e][i] = r

ReportInv == /\ EnvInv /\ HoldersAreInside /\ InsideIsShown
             /\ LineIsTrue /\ StraysAreGone /\ LineIsWhole

(* Who left its entry behind waits no more. *)
LEMMA StraysStayGone == ReportInv /\ [Next]_vars => StraysAreGone'
  <1> SUFFICES ASSUME ReportInv, [Next]_vars PROVE StraysAreGone'
    OBVIOUS
  <1>0. /\ strays \subseteq Runs /\ pc \in [Runs -> PCs]
        /\ \A r \in strays : pc[r] \in Leaving \cup {"ended"}
    BY DEF ReportInv, EnvInv, TypeOK, StraysAreGone
  <1>1. ASSUME NEW r \in Runs, NEW p, pc' = [pc EXCEPT ![r] = p], strays' = strays,
               pc[r] \notin Leaving \cup {"ended"} \/ p \in Leaving \cup {"ended"}
        PROVE  StraysAreGone'
    BY <1>0, <1>1 DEF StraysAreGone
  <1>2. ASSUME NEW r \in Runs, Start(r) \/ RunStep(r) \/ SlotWaitRaises(r) PROVE StraysAreGone'
    <2>1. CASE Start(r) \/ TurnStep(r) \/ TakeSlot(r)
      BY <1>1, <2>1 DEF Start, TurnStep, TryLock, AcquireLock, BecomeHolder, TakeSlot, Leaving,
         turnVars
    <2>2. CASE CopyStep(r)
      BY <1>1, <2>2 DEF CopyStep, PrepareCopy, PrepareFails, WriteMeta, FillMeta, EndSession,
         Touch, Leaving, turnVars
    <2>3. CASE ExitStep(r) \/ SlotWaitRaises(r)
      BY <1>1, <2>3 DEF ExitStep, ReleaseSlot, Leave, ReleaseLock, SlotWaitRaises, GoesOut,
         Leaving, turnVars
    <2> QED
      BY <1>2, <2>1, <2>2, <2>3 DEF RunStep
  <1>3. ASSUME NEW r \in Runs, WaitRaises(r) PROVE StraysAreGone'
    BY <1>0, <1>3 DEF WaitRaises, GoesOut, StraysAreGone, Leaving
  <1>4. CASE \/ \E e \in Envs : CloseIssue(e) \/ BeginDiscard(e)
             \/ BeginSweep \/ (\E j \in Janitors : JanitorStep(j)) \/ UNCHANGED vars
    <2>1. UNCHANGED <<pc, strays>>
      BY <1>4 DEF CloseIssue, BeginDiscard, BeginSweep, JanitorStep, ReadMeta, Keep, DecideGone,
         StartRemoving, SkipBusy, RemoveTree, EndPass, turnVars, vars
    <2> QED
      BY <1>0, <2>1 DEF StraysAreGone
  <1>5. CASE Restart
    BY <1>5 DEF Restart, StraysAreGone
  <1> QED
    BY <1>2, <1>3, <1>4, <1>5 DEF Next

(* What is left of a line when one of it goes. *)
LEMMA WithoutRemoves ==
  ASSUME NEW q \in Seq(Runs), NEW r,
         \A i, k \in 1 .. Len(q) : q[i] = q[k] => i = k
  PROVE  /\ \A i \in 1 .. Len(Without(q, r)) :
              /\ Without(q, r)[i] # r
              /\ \E k \in 1 .. Len(q) : Without(q, r)[i] = q[k]
         /\ \A i, k \in 1 .. Len(Without(q, r)) : Without(q, r)[i] = Without(q, r)[k] => i = k
         /\ \A k \in 1 .. Len(q) : q[k] # r =>
              \E i \in 1 .. Len(Without(q, r)) : Without(q, r)[i] = q[k]
  <1>1. CASE ~ \E i \in 1 .. Len(q) : q[i] = r
    BY <1>1 DEF Without
  <1>2. CASE \E i \in 1 .. Len(q) : q[i] = r
    <2> DEFINE m == CHOOSE i \in 1 .. Len(q) : q[i] = r
               w == Without(q, r)
    <2>1. m \in 1 .. Len(q) /\ q[m] = r
      BY <1>2
    <2>2. w = SubSeq(q, 1, m - 1) \o SubSeq(q, m + 1, Len(q))
      BY <1>2 DEF Without
    <2> HIDE DEF m, w
    <2>3. /\ Len(w) = Len(q) - 1
          /\ \A i \in 1 .. Len(w) : w[i] = IF i < m THEN q[i] ELSE q[i + 1]
      <3> DEFINE a == SubSeq(q, 1, m - 1)
                 b == SubSeq(q, m + 1, Len(q))
      <3>1. /\ a \in Seq(Runs) /\ Len(a) = m - 1 /\ \A i \in 1 .. m - 1 : a[i] = q[i]
        BY <2>1
      <3>2. /\ b \in Seq(Runs) /\ Len(b) = Len(q) - m
            /\ \A i \in 1 .. Len(q) - m : b[i] = q[m + i]
        BY <2>1
      <3> HIDE DEF a, b
      <3>3. w = a \o b
        BY <2>2 DEF a, b
      <3>a. Len(a \o b) = Len(a) + Len(b)
            /\ \A i \in 1 .. Len(a) + Len(b) :
                 (a \o b)[i] = IF i <= Len(a) THEN a[i] ELSE b[i - Len(a)]
        BY <3>1, <3>2, ConcatProperties
      <3>b. m \in Nat /\ Len(q) \in Nat
        BY <2>1
      <3>4. Len(w) = Len(q) - 1
        BY <3>1, <3>2, <3>3, <3>a, <3>b
      <3>5. ASSUME NEW i \in 1 .. Len(w), i < m PROVE w[i] = q[i]
        <4>1. i \in 1 .. Len(a) + Len(b) /\ i <= Len(a) /\ i \in 1 .. m - 1
          BY <2>1, <3>1, <3>2, <3>4, <3>5, <3>b
        <4> QED
          BY <3>1, <3>3, <3>a, <4>1
      <3>6. ASSUME NEW i \in 1 .. Len(w), ~ (i < m) PROVE w[i] = q[i + 1]
        <4>1. i - (m - 1) \in 1 .. Len(q) - m /\ i > Len(a) /\ m + (i - (m - 1)) = i + 1
          BY <2>1, <3>1, <3>4, <3>6
        <4>2. i \in 1 .. Len(a) + Len(b) /\ ~ (i <= Len(a))
          BY <2>1, <3>1, <3>2, <3>4, <3>6, <3>b
        <4>3. w[i] = b[i - Len(a)]
          BY <3>3, <3>a, <4>2
        <4> QED
          BY <3>1, <3>2, <4>1, <4>3
      <3> QED
        BY <3>4, <3>5, <3>6
    <2>4. ASSUME NEW i \in 1 .. Len(w)
          PROVE  \E k \in 1 .. Len(q) : w[i] = q[k] /\ k # m /\ k = IF i < m THEN i ELSE i + 1
      BY <2>1, <2>3
    <2>5. \A i \in 1 .. Len(w) : w[i] # r /\ \E k \in 1 .. Len(q) : w[i] = q[k]
      BY <2>1, <2>4
    <2>6. ASSUME NEW i \in 1 .. Len(w), NEW k \in 1 .. Len(w), w[i] = w[k] PROVE i = k
      <3>1. PICK a \in 1 .. Len(q) : w[i] = q[a] /\ a = IF i < m THEN i ELSE i + 1
        BY <2>4
      <3>2. PICK b \in 1 .. Len(q) : w[k] = q[b] /\ b = IF k < m THEN k ELSE k + 1
        BY <2>4
      <3>3. a = b
        BY <2>6, <3>1, <3>2
      <3> QED
        BY <2>1, <3>1, <3>2, <3>3
    <2>7. ASSUME NEW k \in 1 .. Len(q), q[k] # r PROVE \E i \in 1 .. Len(w) : w[i] = q[k]
      <3>1. CASE k < m
        <4>1. k \in 1 .. Len(w) /\ w[k] = q[k]
          BY <2>1, <2>3, <3>1
        <4> QED
          BY <4>1
      <3>2. CASE k > m
        <4>1. k - 1 \in 1 .. Len(w) /\ ~ (k - 1 < m) /\ (k - 1) + 1 = k
          BY <2>1, <2>3, <3>2
        <4>2. w[k - 1] = q[k]
          BY <2>3, <4>1
        <4> QED
          BY <4>1, <4>2
      <3> QED
        BY <2>1, <2>7, <3>1, <3>2
    <2> QED
      BY <2>5, <2>6, <2>7 DEF w
  <1> QED
    BY <1>1, <1>2

(* A run's turns are different environments.                               *)
LEMMA TurnsDiffer ==
  ASSUME TypeOK, NEW r \in Runs, NEW i \in 1 .. depth[r], i # depth[r]
  PROVE  Turns(r)[i] # Turns(r)[depth[r]]
  <1>1. Len(Turns(r)) \in 0 .. 2 /\ depth[r] \in 0 .. 2 /\ depth[r] <= Len(Turns(r))
    BY TurnsAre DEF TypeOK
  <1> DEFINE len == Len(Turns(r))
  <1>2. i = 1 /\ depth[r] = 2 /\ len = 2
    <2> HIDE DEF len
    <2>1. len \in 0 .. 2 /\ depth[r] \in 0 .. 2 /\ depth[r] <= len
      BY <1>1 DEF len
    <2> QED
      BY <2>1
  <1> QED
    BY <1>2, TurnsAre

(* The report depends on holders, lines, how deep a run is, and on who     *)
(* waits and who gives back.                                               *)
LEMMA ReportUntouched ==
  ASSUME ReportInv, UNCHANGED <<depth, holders, queues>>, strays \subseteq strays',
         \A r \in Runs : pc'[r] = "release" => pc[r] = "release",
         \A r \in Runs : pc[r] = "release" => pc'[r] = "release",
         \A r \in Runs : pc'[r] = "queued" => pc[r] = "queued",
         \A r \in Runs : pc[r] \in {"queued", "got"} =>
                           pc'[r] \in {"queued", "got"} \/ r \in strays'
  PROVE  HoldersAreInside' /\ InsideIsShown' /\ LineIsTrue' /\ LineIsWhole'
  <1>0. TypeOK
    BY DEF ReportInv, EnvInv
  <1>1. HoldersAreInside'
    BY <1>0 DEF ReportInv, HoldersAreInside, GivesBack, TypeOK
  <1>2. InsideIsShown'
    BY <1>0 DEF ReportInv, InsideIsShown, GivesBack, TypeOK
  <1>3. LineIsTrue'
    <2>1. \A e \in Envs : \A i \in 1 .. Len(queues[e]) : queues[e][i] \in Runs
      BY <1>0 DEF TypeOK
    <2> QED
      BY <2>1 DEF ReportInv, LineIsTrue, Stands, Waits, NextTurn
  <1>4. LineIsWhole'
    BY DEF ReportInv, LineIsWhole, NextTurn
  <1> QED
    BY <1>1, <1>2, <1>3, <1>4

(* The run joins the line. *)
LEMMA JoinsTheLine ==
  ASSUME ReportInv, NEW r \in Runs, TryLock(r), lock[NextTurn(r)] # None
  PROVE  HoldersAreInside' /\ InsideIsShown' /\ LineIsTrue' /\ LineIsWhole'
  <1> DEFINE e == NextTurn(r)
             WillStand(x, f) == \/ pc'[x] \in {"queued", "got"} /\ Turns(x)[depth'[x] + 1] = f
                               \/ x \in strays'
  <1>0. TypeOK /\ e \in Envs
    BY NextTurnInEnvs DEF ReportInv, EnvInv, TryLock, PlaceOK
  <1>1. /\ pc[r] = "ask" /\ pc' = [pc EXCEPT ![r] = "queued"]
        /\ queues' = [queues EXCEPT ![e] = Append(queues[e], r)]
        /\ UNCHANGED <<depth, holders, strays>>
    BY DEF TryLock
  <1> HIDE DEF e
  <1>2. \A q \in Runs : pc'[q] = IF q = r THEN "queued" ELSE pc[q]
    BY <1>0, <1>1 DEF TypeOK
  <1>3. HoldersAreInside' /\ InsideIsShown'
    BY <1>0, <1>1, <1>2 DEF ReportInv, HoldersAreInside, InsideIsShown, GivesBack, TypeOK
  <1>5. ASSUME NEW f \in Envs, NEW i \in 1 .. Len(queues[f])
        PROVE  queues[f][i] \in Runs /\ queues[f][i] # r /\ WillStand(queues[f][i], f)
    <2>1. queues[f][i] \in Runs
      BY <1>0 DEF TypeOK
    <2>2. \/ pc[queues[f][i]] \in {"queued", "got"} /\ NextTurn(queues[f][i]) = f
          \/ queues[f][i] \in strays
      BY DEF ReportInv, LineIsTrue, Stands, Waits
    <2>3. r \notin strays
      BY <1>1 DEF ReportInv, StraysAreGone, Leaving
    <2> QED
      BY <1>1, <1>2, <2>1, <2>2, <2>3 DEF NextTurn
  <1>6. WillStand(r, e)
    BY <1>1, <1>2 DEF NextTurn, e
  <1> HIDE DEF WillStand
  <1>7. ASSUME NEW f \in Envs
        PROVE  /\ \A i \in 1 .. Len(queues'[f]) : WillStand(queues'[f][i], f)
               /\ \A i, k \in 1 .. Len(queues'[f]) : queues'[f][i] = queues'[f][k] => i = k
    <2>0. \A i, k \in 1 .. Len(queues[f]) : queues[f][i] = queues[f][k] => i = k
      BY DEF ReportInv, LineIsTrue
    <2>1. CASE f # e
      <3>1. queues'[f] = queues[f]
        BY <1>0, <1>1, <2>1 DEF TypeOK
      <3> QED
        BY <1>5, <2>0, <3>1
    <2>2. CASE f = e
      <3> DEFINE q == queues[f]
                 p == Append(q, r)
      <3>1. queues'[f] = p /\ q \in Seq(Runs)
        BY <1>0, <1>1, <2>2 DEF TypeOK
      <3>2. /\ Len(p) = Len(q) + 1 /\ Len(q) \in Nat /\ p[Len(q) + 1] = r
            /\ \A i \in 1 .. Len(q) : p[i] = q[i]
        BY <3>1
      <3>3. \A i \in 1 .. Len(q) : q[i] # r /\ WillStand(q[i], f)
        BY <1>5
      <3>4. \A i, k \in 1 .. Len(q) : q[i] = q[k] => i = k
        BY <2>0
      <3> HIDE DEF q, p
      <3>5. \A i \in 1 .. Len(p) : i \in 1 .. Len(q) \/ i = Len(q) + 1
        BY <3>2
      <3>6. \A i \in 1 .. Len(p) : WillStand(p[i], f)
        BY <1>6, <2>2, <3>2, <3>3, <3>5
      <3>7. \A i, k \in 1 .. Len(p) : p[i] = p[k] => i = k
        BY <3>2, <3>3, <3>4, <3>5
      <3> QED
        BY <3>1, <3>6, <3>7
    <2> QED
      BY <2>1, <2>2
  <1>8. LineIsTrue'
    BY <1>7 DEF LineIsTrue, Stands, Waits, NextTurn, WillStand
  <1>9. ASSUME NEW q \in Runs, NEW f \in Envs, pc'[q] = "queued", Turns(q)[depth[q] + 1] = f
        PROVE  \E i \in 1 .. Len(queues'[f]) : queues'[f][i] = q
    <2>1. queues[e] \in Seq(Runs) /\ queues'[e] = Append(queues[e], r)
          /\ (f # e => queues'[f] = queues[f])
      BY <1>0, <1>1 DEF TypeOK
    <2>2. /\ Len(queues'[e]) = Len(queues[e]) + 1 /\ Len(queues[e]) \in Nat
          /\ queues'[e][Len(queues[e]) + 1] = r
          /\ \A i \in 1 .. Len(queues[e]) : queues'[e][i] = queues[e][i]
      BY <2>1
    <2>3. CASE q = r
      <3>1. f = e
        BY <1>9, <2>3 DEF NextTurn, e
      <3> QED
        BY <2>2, <2>3, <3>1
    <2>4. CASE q # r
      <3>1. PICK i \in 1 .. Len(queues[f]) : queues[f][i] = q
        BY <1>2, <1>9, <2>4 DEF ReportInv, LineIsWhole, NextTurn
      <3>2. CASE f = e
        <4>1. i \in 1 .. Len(queues'[e]) /\ queues'[e][i] = q
          BY <2>2, <3>1, <3>2
        <4> QED
          BY <3>2, <4>1
      <3> QED
        BY <2>1, <3>1, <3>2
    <2> QED
      BY <2>3, <2>4
  <1>10. LineIsWhole'
    BY <1>1, <1>9 DEF LineIsWhole, NextTurn
  <1> QED
    BY <1>3, <1>8, <1>10

(* The run leaves the line and is shown as the holder. *)
LEMMA IsShown ==
  ASSUME ReportInv, NEW r \in Runs, BecomeHolder(r)
  PROVE  HoldersAreInside' /\ InsideIsShown' /\ LineIsTrue' /\ LineIsWhole'
  <1> DEFINE e == NextTurn(r)
             n == depth[r] + 1
             p == IF n < Len(Turns(r)) THEN "ask" ELSE "slot"
             WillStand(x, f) == \/ pc'[x] \in {"queued", "got"} /\ Turns(x)[depth'[x] + 1] = f
                               \/ x \in strays'
  <1>a. TypeOK /\ EnvInv /\ pc[r] = "got"
    BY DEF ReportInv, EnvInv, BecomeHolder
  <1>b. \A q \in Runs : depth[q] \in 0 .. 2 /\ depth[q] \in Nat
    BY <1>a DEF TypeOK
  <1>0. TypeOK /\ EnvInv /\ e \in Envs /\ lock[e] = r /\ depth[r] \in 0 .. 2
        /\ e = Turns(r)[n] /\ \A q \in Runs : depth[q] \in Nat
    BY <1>a, <1>b, NextTurnInEnvs DEF EnvInv, PlaceOK, LocksAreHeld, NextTurn
  <1>1. /\ pc[r] = "got" /\ pc' = [pc EXCEPT ![r] = p]
        /\ queues' = [queues EXCEPT ![e] = Without(queues[e], r)]
        /\ holders' = [holders EXCEPT ![e] = r]
        /\ depth' = [depth EXCEPT ![r] = n] /\ strays' = strays
        /\ p \notin {"release", "queued"}
    BY DEF BecomeHolder
  <1> HIDE DEF e, p
  <1>2. \A q \in Runs : pc'[q] = (IF q = r THEN p ELSE pc[q])
                        /\ depth'[q] = (IF q = r THEN n ELSE depth[q])
    BY <1>0, <1>1 DEF TypeOK
  <1>3. \A f \in Envs : holders'[f] = IF f = e THEN r ELSE holders[f]
    BY <1>0, <1>1 DEF TypeOK
  <1>4. HoldersAreInside'
    <2> SUFFICES ASSUME NEW f \in Envs, holders'[f] # None
                 PROVE  \E i \in 1 .. depth'[holders'[f]] :
                          /\ Turns(holders'[f])[i] = f
                          /\ ~ (pc'[holders'[f]] = "release" /\ i = depth'[holders'[f]])
      BY DEF HoldersAreInside, GivesBack
    <2>1. CASE f = e
      <3>1. holders'[f] = r /\ depth'[r] = n /\ n \in 1 .. n /\ pc'[r] # "release"
        BY <1>0, <1>1, <1>2, <1>3, <2>1
      <3> QED
        BY <1>0, <2>1, <3>1
    <2>2. CASE f # e
      <3> DEFINE h == holders[f]
      <3>1. holders'[f] = h /\ h # None /\ h \in Runs
        BY <1>0, <1>3, <2>2 DEF TypeOK
      <3>2. PICK i \in 1 .. depth[h] : Turns(h)[i] = f /\ ~ (pc[h] = "release" /\ i = depth[h])
        BY <3>1 DEF ReportInv, HoldersAreInside, GivesBack
      <3> HIDE DEF h
      <3>3. i \in 1 .. depth'[h]
        BY <1>0, <1>2, <3>1, <3>2
      <3>4. ~ (pc'[h] = "release" /\ i = depth'[h])
        BY <1>1, <1>2, <3>1, <3>2
      <3> QED
        BY <3>1, <3>2, <3>3, <3>4
    <2> QED
      BY <2>1, <2>2
  <1>5. InsideIsShown'
    <2> SUFFICES ASSUME NEW q \in Runs, NEW i \in 1 .. depth'[q],
                        ~ (pc'[q] = "release" /\ i = depth'[q])
                 PROVE  holders'[Turns(q)[i]] = q
      BY DEF InsideIsShown, GivesBack
    <2>1. CASE q = r /\ i = n
      BY <1>0, <1>3, <2>1
    <2>2. CASE q # r \/ i # n
      <3>1. i \in 1 .. depth[q]
        BY <1>0, <1>2, <2>2
      <3>2. Turns(q)[i] \in Envs /\ lock[Turns(q)[i]] = q
        BY <1>0, <3>1, HeldTurnInEnvs DEF EnvInv, LocksAreHeld
      <3>3. holders[Turns(q)[i]] = q
        BY <1>1, <1>2, <3>1 DEF ReportInv, InsideIsShown, GivesBack
      <3> QED
        BY <1>0, <1>3, <3>2, <3>3
    <2> QED
      BY <2>1, <2>2
  <1>6. ASSUME NEW f \in Envs, NEW q \in Runs, q # r, Stands(q, f)
        PROVE  WillStand(q, f)
    BY <1>1, <1>2, <1>6 DEF Stands, Waits, NextTurn
  <1> HIDE DEF WillStand
  <1>7. ASSUME NEW f \in Envs
        PROVE  /\ \A i \in 1 .. Len(queues'[f]) : WillStand(queues'[f][i], f)
               /\ \A i, k \in 1 .. Len(queues'[f]) : queues'[f][i] = queues'[f][k] => i = k
    <2>0. /\ \A i, k \in 1 .. Len(queues[f]) : queues[f][i] = queues[f][k] => i = k
          /\ \A i \in 1 .. Len(queues[f]) : Stands(queues[f][i], f) /\ queues[f][i] \in Runs
          /\ queues[f] \in Seq(Runs)
      <3>1. /\ \A i, k \in 1 .. Len(queues[f]) : queues[f][i] = queues[f][k] => i = k
            /\ \A i \in 1 .. Len(queues[f]) : Stands(queues[f][i], f)
        BY DEF ReportInv, LineIsTrue
      <3>2. queues[f] \in Seq(Runs)
        BY <1>0 DEF TypeOK
      <3>3. \A i \in 1 .. Len(queues[f]) : queues[f][i] \in Runs
        BY <3>2
      <3> QED
        BY <3>1, <3>2, <3>3
    <2>1. CASE f # e
      <3>1. queues'[f] = queues[f]
        BY <1>0, <1>1, <2>1 DEF TypeOK
      <3>2. \A i \in 1 .. Len(queues[f]) : queues[f][i] # r
        <4>1. r \notin strays
          BY <1>1 DEF ReportInv, StraysAreGone, Leaving
        <4> QED
          BY <2>0, <2>1, <4>1 DEF Stands, Waits, e
      <3> QED
        BY <1>6, <2>0, <3>1, <3>2
    <2>2. CASE f = e
      <3> DEFINE w == Without(queues[f], r)
      <3>1. queues'[f] = w
        BY <1>0, <1>1, <2>2 DEF TypeOK
      <3>2. /\ \A i \in 1 .. Len(w) : w[i] # r /\ \E k \in 1 .. Len(queues[f]) : w[i] = queues[f][k]
            /\ \A i, k \in 1 .. Len(w) : w[i] = w[k] => i = k
        BY <2>0, WithoutRemoves
      <3> HIDE DEF w
      <3>3. \A i \in 1 .. Len(w) : WillStand(w[i], f)
        BY <1>6, <2>0, <3>2
      <3> QED
        BY <3>1, <3>2, <3>3
    <2> QED
      BY <2>1, <2>2
  <1>8. LineIsTrue'
    BY <1>7 DEF LineIsTrue, Stands, Waits, NextTurn, WillStand
  <1>9. ASSUME NEW q \in Runs, NEW f \in Envs, pc'[q] = "queued", Turns(q)[depth'[q] + 1] = f
        PROVE  \E i \in 1 .. Len(queues'[f]) : queues'[f][i] = q
    <2>1. q # r /\ pc[q] = "queued" /\ depth'[q] = depth[q]
      BY <1>1, <1>2, <1>9
    <2>2. PICK i \in 1 .. Len(queues[f]) : queues[f][i] = q
      BY <1>9, <2>1 DEF ReportInv, LineIsWhole, NextTurn
    <2>3. CASE f = e
      <3> DEFINE w == Without(queues[f], r)
      <3>1. queues'[f] = w /\ queues[f] \in Seq(Runs)
        BY <1>0, <1>1, <2>3 DEF TypeOK
      <3>2. \A m, l \in 1 .. Len(queues[f]) : queues[f][m] = queues[f][l] => m = l
        BY DEF ReportInv, LineIsTrue
      <3>3. \E m \in 1 .. Len(w) : w[m] = queues[f][i]
        BY <2>1, <2>2, <3>1, <3>2, WithoutRemoves
      <3> HIDE DEF w
      <3> QED
        BY <2>2, <3>1, <3>3
    <2>4. CASE f # e
      BY <1>0, <1>1, <2>2, <2>4 DEF TypeOK
    <2> QED
      BY <2>3, <2>4
  <1>10. LineIsWhole'
    BY <1>9 DEF LineIsWhole, NextTurn
  <1> QED
    BY <1>4, <1>5, <1>8, <1>10

(* The run is no longer shown, and then gives the lock back. *)
LEMMA IsNotShown ==
  ASSUME ReportInv, NEW r \in Runs, Leave(r)
  PROVE  HoldersAreInside' /\ InsideIsShown' /\ LineIsTrue' /\ LineIsWhole'
  <1> DEFINE n == depth[r]
             e == Turns(r)[n]
  <1>0. TypeOK /\ EnvInv /\ n \in 1 .. n /\ n \in 0 .. 2
    BY DEF ReportInv, EnvInv, Leave, PlaceOK, Leaving, TypeOK
  <1>1. e \in Envs /\ lock[e] = r
    BY <1>0, HeldTurnInEnvs DEF EnvInv, LocksAreHeld
  <1>2. /\ pc[r] = "leave" /\ pc' = [pc EXCEPT ![r] = "release"]
        /\ holders' = [holders EXCEPT ![e] = None]
        /\ depth' = depth /\ queues' = queues /\ strays' = strays
    BY DEF Leave
  <1>3. \A i \in 1 .. n : i # n => Turns(r)[i] # e
    BY <1>0, TurnsDiffer
  <1> HIDE DEF e
  <1>4. \A q \in Runs : pc'[q] = IF q = r THEN "release" ELSE pc[q]
    BY <1>0, <1>2 DEF TypeOK
  <1>5. \A f \in Envs : holders'[f] = IF f = e THEN None ELSE holders[f]
    BY <1>0, <1>2 DEF TypeOK
  <1>6. HoldersAreInside'
    <2> SUFFICES ASSUME NEW f \in Envs, holders'[f] # None
                 PROVE  \E i \in 1 .. depth[holders'[f]] :
                          /\ Turns(holders'[f])[i] = f
                          /\ ~ (pc'[holders'[f]] = "release" /\ i = depth[holders'[f]])
      BY <1>2 DEF HoldersAreInside, GivesBack
    <2> DEFINE h == holders[f]
    <2>1. f # e /\ holders'[f] = h /\ h # None /\ h \in Runs
      BY <1>0, <1>5 DEF TypeOK
    <2>2. PICK i \in 1 .. depth[h] : Turns(h)[i] = f /\ ~ (pc[h] = "release" /\ i = depth[h])
      BY <2>1 DEF ReportInv, HoldersAreInside, GivesBack
    <2> HIDE DEF h
    <2>3. ~ (pc'[h] = "release" /\ i = depth[h])
      <3>1. CASE h = r
        BY <2>1, <2>2, <3>1 DEF e
      <3>2. CASE h # r
        BY <1>4, <2>1, <2>2, <3>2
      <3> QED
        BY <3>1, <3>2
    <2> QED
      BY <2>1, <2>2, <2>3
  <1>7. InsideIsShown'
    <2> SUFFICES ASSUME NEW q \in Runs, NEW i \in 1 .. depth[q],
                        ~ (pc'[q] = "release" /\ i = depth[q])
                 PROVE  holders'[Turns(q)[i]] = q
      BY <1>2 DEF InsideIsShown, GivesBack
    <2>1. Turns(q)[i] \in Envs /\ lock[Turns(q)[i]] = q
      BY <1>0, HeldTurnInEnvs DEF EnvInv, LocksAreHeld
    <2>2. Turns(q)[i] # e
      BY <1>1, <1>3, <1>4, <2>1
    <2>3. holders[Turns(q)[i]] = q
      BY <1>2, <1>4 DEF ReportInv, InsideIsShown, GivesBack
    <2> QED
      BY <1>5, <2>1, <2>2, <2>3
  <1>8. LineIsTrue'
    <2>1. \A f \in Envs : \A i \in 1 .. Len(queues[f]) : queues[f][i] \in Runs
      BY <1>0 DEF TypeOK
    <2>2. ASSUME NEW f \in Envs, NEW q \in Runs, Stands(q, f) PROVE Stands(q, f)'
      BY <1>2, <1>4, <2>2 DEF Stands, Waits, NextTurn
    <2> QED
      BY <1>2, <2>1, <2>2 DEF ReportInv, LineIsTrue
  <1>9. LineIsWhole'
    BY <1>2, <1>4 DEF ReportInv, LineIsWhole, NextTurn
  <1> QED
    BY <1>6, <1>7, <1>8, <1>9

LEMMA GivesTheTurnBack ==
  ASSUME ReportInv, NEW r \in Runs, ReleaseLock(r)
  PROVE  HoldersAreInside' /\ InsideIsShown' /\ LineIsTrue' /\ LineIsWhole'
  <1> DEFINE n == depth[r]
             p == IF n = 1 THEN "ended" ELSE "leave"
  <1>a. TypeOK /\ EnvInv /\ n > 0
    BY DEF ReportInv, EnvInv, ReleaseLock, PlaceOK, Leaving
  <1>b. \A q \in Runs : depth[q] \in 0 .. 2 /\ depth[q] \in Nat
    BY <1>a DEF TypeOK
  <1>0. TypeOK /\ EnvInv /\ n \in 1 .. 2 /\ \A q \in Runs : depth[q] \in Nat
    BY <1>a, <1>b
  <1>1. /\ pc[r] = "release" /\ pc' = [pc EXCEPT ![r] = p] /\ p \in {"ended", "leave"}
        /\ depth' = [depth EXCEPT ![r] = n - 1]
        /\ holders' = holders /\ queues' = queues /\ strays' = strays
    BY DEF ReleaseLock
  <1> HIDE DEF p
  <1>2. \A q \in Runs : pc'[q] = (IF q = r THEN p ELSE pc[q])
                        /\ depth'[q] = (IF q = r THEN n - 1 ELSE depth[q])
    BY <1>0, <1>1 DEF TypeOK
  <1>3. HoldersAreInside'
    <2> SUFFICES ASSUME NEW f \in Envs, holders[f] # None
                 PROVE  \E i \in 1 .. depth'[holders[f]] :
                          /\ Turns(holders[f])[i] = f
                          /\ ~ (pc'[holders[f]] = "release" /\ i = depth'[holders[f]])
      BY <1>1 DEF HoldersAreInside, GivesBack
    <2> DEFINE h == holders[f]
    <2>1. h # None /\ h \in Runs
      BY <1>0 DEF TypeOK
    <2>2. PICK i \in 1 .. depth[h] : Turns(h)[i] = f /\ ~ (pc[h] = "release" /\ i = depth[h])
      BY DEF ReportInv, HoldersAreInside, GivesBack
    <2> HIDE DEF h
    <2>3. i \in 1 .. depth'[h]
      BY <1>0, <1>1, <1>2, <2>1, <2>2
    <2>4. ~ (pc'[h] = "release" /\ i = depth'[h])
      BY <1>1, <1>2, <2>1, <2>2
    <2> QED
      BY <2>2, <2>3, <2>4 DEF h
  <1>4. InsideIsShown'
    <2> SUFFICES ASSUME NEW q \in Runs, NEW i \in 1 .. depth'[q],
                        ~ (pc'[q] = "release" /\ i = depth'[q])
                 PROVE  holders[Turns(q)[i]] = q
      BY <1>1 DEF InsideIsShown, GivesBack
    <2>1. i \in 1 .. depth[q] /\ ~ (pc[q] = "release" /\ i = depth[q])
      BY <1>0, <1>2
    <2> QED
      BY <2>1 DEF ReportInv, InsideIsShown, GivesBack
  <1>5. LineIsTrue'
    <2>1. \A f \in Envs : \A i \in 1 .. Len(queues[f]) : queues[f][i] \in Runs
      BY <1>0 DEF TypeOK
    <2>2. ASSUME NEW f \in Envs, NEW q \in Runs, Stands(q, f) PROVE Stands(q, f)'
      BY <1>1, <1>2, <2>2 DEF Stands, Waits, NextTurn
    <2> QED
      BY <1>1, <2>1, <2>2 DEF ReportInv, LineIsTrue
  <1>6. LineIsWhole'
    <2>1. ASSUME NEW q \in Runs, pc'[q] = "queued" PROVE pc[q] = "queued" /\ depth'[q] = depth[q]
      BY <1>1, <1>2, <2>1
    <2> QED
      BY <1>1, <2>1 DEF ReportInv, LineIsWhole, NextTurn
  <1> QED
    BY <1>3, <1>4, <1>5, <1>6

LEMMA ReportNext == ReportInv /\ [Next]_vars => ReportInv'
  <1> SUFFICES ASSUME ReportInv, [Next]_vars PROVE ReportInv'
    OBVIOUS
  <1>0. EnvInv' /\ pc \in [Runs -> PCs]
    BY NextEnvInv DEF ReportInv, EnvInv, TypeOK
  <1> SUFFICES HoldersAreInside' /\ InsideIsShown' /\ LineIsTrue' /\ LineIsWhole'
    BY <1>0, StraysStayGone DEF ReportInv
  <1>1. ASSUME NEW r \in Runs, \/ Start(r) \/ TakeSlot(r) \/ CopyStep(r)
                              \/ ReleaseSlot(r) \/ SlotWaitRaises(r)
        PROVE  HoldersAreInside' /\ InsideIsShown' /\ LineIsTrue' /\ LineIsWhole'
    <2>1. /\ UNCHANGED <<depth, holders, queues, strays>>
          /\ \E p : p \notin {"release", "queued"} /\ pc' = [pc EXCEPT ![r] = p]
          /\ pc[r] \notin {"release", "queued", "got"}
      <3>1. CASE Start(r) \/ TakeSlot(r)
        BY <3>1 DEF Start, TakeSlot, turnVars
      <3>3. CASE ReleaseSlot(r) \/ SlotWaitRaises(r)
        BY <3>3 DEF ReleaseSlot, SlotWaitRaises, GoesOut, turnVars
      <3>2. CASE CopyStep(r)
        BY <3>2 DEF CopyStep, PrepareCopy, PrepareFails, WriteMeta, FillMeta, EndSession, Touch,
           turnVars
      <3> QED
        BY <1>1, <3>1, <3>2, <3>3
    <2> QED
      BY <1>0, <2>1, ReportUntouched
  <1>2. ASSUME NEW r \in Runs, TurnStep(r)
        PROVE  HoldersAreInside' /\ InsideIsShown' /\ LineIsTrue' /\ LineIsWhole'
    <2>1. CASE AcquireLock(r) \/ (TryLock(r) /\ lock[NextTurn(r)] = None)
      <3>1. /\ UNCHANGED <<depth, holders, queues, strays>>
            /\ pc' = [pc EXCEPT ![r] = "got"] /\ pc[r] \in {"ask", "queued"}
        BY <2>1 DEF AcquireLock, TryLock
      <3> QED
        BY <1>0, <3>1, ReportUntouched
    <2> QED
      BY <1>2, <2>1, JoinsTheLine, IsShown DEF TurnStep
  <1>3. ASSUME NEW r \in Runs, Leave(r) \/ ReleaseLock(r)
        PROVE  HoldersAreInside' /\ InsideIsShown' /\ LineIsTrue' /\ LineIsWhole'
    BY <1>3, IsNotShown, GivesTheTurnBack
  <1>4. CASE \/ \E e \in Envs : CloseIssue(e) \/ BeginDiscard(e)
             \/ BeginSweep \/ (\E j \in Janitors : JanitorStep(j)) \/ UNCHANGED vars
    <2>1. UNCHANGED <<pc, depth, holders, queues, strays>>
      BY <1>4 DEF CloseIssue, BeginDiscard, BeginSweep, JanitorStep, ReadMeta, Keep, DecideGone,
         StartRemoving, SkipBusy, RemoveTree, EndPass, turnVars, vars
    <2> QED
      BY <2>1, ReportUntouched
  <1>5. CASE Restart
    <2>1. /\ \A r \in Runs : depth'[r] = 0 /\ pc'[r] # "queued"
          /\ \A e \in Envs : holders'[e] = None /\ queues'[e] = <<>>
      BY <1>5 DEF Restart
    <2> QED
      BY <2>1 DEF HoldersAreInside, InsideIsShown, LineIsTrue, LineIsWhole
  <1>6. ASSUME NEW r \in Runs, WaitRaises(r)
        PROVE  HoldersAreInside' /\ InsideIsShown' /\ LineIsTrue' /\ LineIsWhole'
    <2>1. /\ UNCHANGED <<depth, holders, queues>> /\ strays' = strays \cup {r}
          /\ pc[r] = "queued" /\ \E p \in {"ended", "leave"} : pc' = [pc EXCEPT ![r] = p]
      BY <1>6 DEF WaitRaises, GoesOut
    <2> QED
      BY <1>0, <2>1, ReportUntouched
  <1> QED
    BY <1>1, <1>2, <1>3, <1>4, <1>5, <1>6 DEF Next, RunStep, ExitStep

LEMMA ReportInit == Init => ReportInv
  <1> SUFFICES ASSUME Init PROVE ReportInv
    OBVIOUS
  <1>1. /\ \A r \in Runs : depth[r] = 0 /\ pc[r] # "queued"
        /\ strays = {}
        /\ \A e \in Envs : holders[e] = None /\ queues[e] = <<>>
    BY DEF Init
  <1> QED
    BY <1>1, InitEnvInv DEF ReportInv, HoldersAreInside, InsideIsShown, LineIsTrue,
       StraysAreGone, LineIsWhole

LEMMA ReportImplies == ReportInv => ReportIsTrue
  <1> SUFFICES ASSUME ReportInv PROVE ReportIsTrue
    OBVIOUS
  <1>0. TypeOK /\ LocksAreHeld
    BY DEF ReportInv, EnvInv
  <1>1. ASSUME NEW e \in Envs, holders[e] # None PROVE lock[e] = holders[e]
    BY <1>0, <1>1 DEF ReportInv, HoldersAreInside, LocksAreHeld, TypeOK
  <1>2. ASSUME NEW r \in Runs, AtWork(r), NEW e \in Inside(r) PROVE holders[e] = r
    <2>1. pc[r] # "release"
      BY <1>2 DEF AtWork, InSlot
    <2> QED
      BY <2>1 DEF ReportInv, InsideIsShown, GivesBack, Inside
  <1>3. ASSUME NEW r \in Runs, pc[r] = "queued" PROVE r \in Shown(NextTurn(r))
    <2>1. NextTurn(r) \in Envs
      BY <1>0, <1>3, NextTurnInEnvs DEF ReportInv, EnvInv, PlaceOK
    <2> QED
      BY <1>3, <2>1 DEF ReportInv, LineIsWhole, Shown
  <1>4. ASSUME NEW e \in Envs, NEW r \in Shown(e) \ strays
        PROVE  pc[r] \in {"queued", "got"} /\ NextTurn(r) = e
    BY <1>4 DEF ReportInv, LineIsTrue, Stands, Waits, Shown
  <1> QED
    BY <1>1, <1>2, <1>3, <1>4 DEF ReportIsTrue

(* ReportIsTrue: whatever the runs take, wait for and give back, and       *)
(* however the process dies in between, GET /environments shows as holder  *)
(* who has the lock, every run at work in all of its turns, and as waiting *)
(* everybody who waits, and nobody else but the runs whose own on_wait     *)
(* raised.                                                                 *)
THEOREM TheReportIsTrue == Spec => []ReportIsTrue
  <1>1. Spec => []ReportInv
    BY ReportInit, ReportNext, PTL DEF Spec
  <1> QED
    BY <1>1, ReportImplies, PTL
-----------------------------------------------------------------------------
(***************************************************************************)
(* What a janitor takes away.  The two janitors pick and judge by          *)
(* different rules, and neither rule spares staging where the other does:  *)
(* the discard lists what names a closed issue, the sweep judges what it   *)
(* has read.                                                               *)
(***************************************************************************)
Judging(j) == at[j] \in {"judge", "remove", "rmtree"}

(* Nobody closes staging; what the discard lists or looks at is not        *)
(* staging; and staging that a janitor removes was not read whole.         *)
JanitorInv ==
  /\ EnvInv
  /\ \A e \in closed : ~ IsStaging(e)
  /\ \A e \in todo["discard"] : at["discard"] = "scan" => ~ IsStaging(e)
  /\ \A j \in Janitors : Judging(j) => seen[j] \in {"unreadable", "whole"}
  /\ Judging("discard") => at["discard"] # "idle" /\ ~ IsStaging(home["discard"])
                           /\ \A e \in todo["discard"] : ~ IsStaging(e)
  /\ \A j \in Janitors :
       at[j] \in {"remove", "rmtree"} /\ seen[j] = "whole" => ~ IsStaging(home[j])

(* Staging is nobody's issue, so it names no epic.                         *)
LEMMA StagingHasNoEpic ==
  ASSUME NEW e \in Envs, IsStaging(e)
  PROVE  EpicOf(e) = None
  <1>1. \A r \in Runs : Job[r].number # 0
    BY EnvironmentsAssumption DEF EnvironmentsAssumption, JobType
  <1>2. \A r \in Runs : <<Job[r].repo, Job[r].number>> # e
    BY <1>1 DEF IsStaging
  <1> QED
    BY <1>2 DEF EpicOf

LEMMA JanitorNext == JanitorInv /\ [Next]_vars => JanitorInv'
  <1> SUFFICES ASSUME JanitorInv, [Next]_vars PROVE JanitorInv'
    OBVIOUS
  <1>0. /\ EnvInv' /\ "discard" \in Janitors /\ "sweep" \in Janitors
        /\ at \in [Janitors -> {"idle", "scan", "judge", "remove", "rmtree"}]
        /\ todo \in [Janitors -> SUBSET Envs] /\ home \in [Janitors -> Envs \cup {None}]
        /\ seen \in [Janitors -> {"none", "unreadable", "whole"}] /\ closed \subseteq Envs
    BY NextEnvInv DEF JanitorInv, EnvInv, TypeOK, Janitors
  <1> USE DEF Judging
  <1>1. ASSUME UNCHANGED <<at, todo, home, seen, closed>> PROVE JanitorInv'
    BY <1>0, <1>1 DEF JanitorInv
  <1>2. CASE \/ \E r \in Runs : Start(r) \/ RunStep(r) \/ WaitRaises(r) \/ SlotWaitRaises(r)
             \/ UNCHANGED vars
    <2>1. UNCHANGED <<at, todo, home, seen, closed>>
      BY <1>2 DEF WaitRaises, SlotWaitRaises, Start, RunStep, TurnStep, TryLock,
         AcquireLock, BecomeHolder, TakeSlot, CopyStep,
         PrepareCopy, PrepareFails, WriteMeta, FillMeta, EndSession, Touch, ExitStep,
         ReleaseSlot, Leave, ReleaseLock, janitorVars, vars
    <2> QED
      BY <1>1, <2>1
  <1>3. ASSUME NEW e \in Envs, CloseIssue(e) PROVE JanitorInv'
    BY <1>0, <1>3 DEF CloseIssue, janitorVars, JanitorInv
  <1>4. ASSUME NEW ref \in Envs, BeginDiscard(ref) PROVE JanitorInv'
    <2>1. ref # None /\ ~ IsStaging(ref)
      BY <1>4, NoneIsNoEnvironment DEF BeginDiscard, JanitorInv
    <2>2. \A e \in todo'["discard"] : ~ IsStaging(e)
      <3>1. todo'["discard"] = {e \in WithMeta : e = ref \/ EpicOf(e) = ref}
        BY <1>0, <1>4 DEF BeginDiscard
      <3> QED
        BY <2>1, <3>1, StagingHasNoEpic DEF WithMeta
    <2>3. /\ at' = [at EXCEPT !["discard"] = "scan"]
          /\ UNCHANGED <<home, seen, closed>>
      BY <1>4 DEF BeginDiscard
    <2> QED
      BY <1>0, <2>2, <2>3 DEF JanitorInv
  <1>5. CASE BeginSweep
    <2>1. /\ at' = [at EXCEPT !["sweep"] = "scan"]
          /\ todo' = [todo EXCEPT !["sweep"] = WithMeta]
          /\ UNCHANGED <<home, seen, closed>>
      BY <1>5 DEF BeginSweep
    <2> QED
      BY <1>0, <2>1 DEF JanitorInv
  <1>6. ASSUME NEW j \in Janitors, NEW e \in Envs, ReadMeta(j, e) PROVE JanitorInv'
    <2>1. /\ at[j] = "scan" /\ e \in todo[j] /\ closed' = closed
          /\ at' = [at EXCEPT ![j] = "judge"]
          /\ todo' = [todo EXCEPT ![j] = todo[j] \ {e}]
          /\ home' = [home EXCEPT ![j] = e]
          /\ \E s \in {"unreadable", "whole"} : seen' = [seen EXCEPT ![j] = s]
      BY <1>6 DEF ReadMeta
    <2> QED
      BY <1>0, <2>1 DEF JanitorInv
  <1>7. ASSUME NEW j \in Janitors, DecideGone(j) PROVE JanitorInv'
    <2>1. /\ at[j] = "judge" /\ at' = [at EXCEPT ![j] = "remove"]
          /\ UNCHANGED <<todo, home, seen, closed>>
      BY <1>7 DEF DecideGone
    <2>2. seen[j] = "whole" => ~ IsStaging(home[j])
      BY <1>7, <2>1 DEF DecideGone, WantsGone, JanitorInv
    <2> QED
      BY <1>0, <2>1, <2>2 DEF JanitorInv
  <1>8. ASSUME NEW j \in Janitors, StartRemoving(j) PROVE JanitorInv'
    <2>1. /\ at[j] = "remove" /\ at' = [at EXCEPT ![j] = "rmtree"]
          /\ UNCHANGED <<todo, home, seen, closed>>
      BY <1>8 DEF StartRemoving
    <2> QED
      BY <1>0, <2>1 DEF JanitorInv
  <1>9. ASSUME NEW j \in Janitors, Keep(j) \/ SkipBusy(j) \/ RemoveTree(j) PROVE JanitorInv'
    <2>1. /\ Judging(j) /\ at' = [at EXCEPT ![j] = "scan"]
          /\ home' = [home EXCEPT ![j] = None] /\ seen' = [seen EXCEPT ![j] = "none"]
          /\ UNCHANGED <<todo, closed>>
      BY <1>9 DEF Keep, SkipBusy, RemoveTree, NextHome
    <2> QED
      BY <1>0, <2>1 DEF JanitorInv
  <1>10. ASSUME NEW j \in Janitors, EndPass(j) PROVE JanitorInv'
    <2>1. /\ at[j] = "scan" /\ at' = [at EXCEPT ![j] = "idle"]
          /\ UNCHANGED <<todo, home, seen, closed>>
      BY <1>10 DEF EndPass
    <2> QED
      BY <1>0, <2>1 DEF JanitorInv
  <1>11. CASE Restart
    BY <1>0, <1>11 DEF Restart, JanitorInv
  <1> QED
    BY <1>2, <1>3, <1>4, <1>5, <1>6, <1>7, <1>8, <1>9, <1>10, <1>11 DEF Next, JanitorStep

LEMMA JanitorInit == Init => JanitorInv
  <1> SUFFICES ASSUME Init PROVE JanitorInv
    OBVIOUS
  <1> QED
    BY InitEnvInv DEF Init, JanitorInv, Judging, Janitors

(* Nothing but a janitor's removal makes a meta.json go.                   *)
LEMMA OnlyAJanitorRemoves ==
  ASSUME EnvInv, [Next]_vars, NEW e \in Envs, TreeRemoved(e)
  PROVE  \E j \in Janitors : RemoveTree(j) /\ home[j] = e
  <1>0. meta \in [Envs -> {"none", "torn", "whole"}] /\ meta' # meta
    BY DEF EnvInv, TypeOK, TreeRemoved
  <1>1. ASSUME NEW r \in Runs, RunStep(r) PROVE meta'[e] # "none"
    <2>1. ASSUME NEW f, NEW x \in {"torn", "whole"}, meta' = [meta EXCEPT ![f] = x]
          PROVE  meta'[e] # "none"
      BY <1>0, <2>1 DEF TreeRemoved
    <2>2. CASE WriteMeta(r) \/ Touch(r)
      <3>1. meta' = [meta EXCEPT ![OwnEnv(r)] = "torn"]
        BY <1>0, <2>2 DEF WriteMeta, Touch
      <3> QED
        BY <2>1, <3>1
    <2>3. CASE FillMeta(r)
      <3> DEFINE f == OwnEnv(r)
      <3>1. meta' = [meta EXCEPT ![f] = IF meta[f] = "torn" THEN "whole" ELSE meta[f]]
        BY <2>3 DEF FillMeta
      <3> HIDE DEF f
      <3> QED
        BY <1>0, <3>1 DEF TreeRemoved
    <2>4. CASE ~ WriteMeta(r) /\ ~ Touch(r) /\ ~ FillMeta(r)
      <3>1. meta' = meta
        BY <1>1, <2>4 DEF RunStep, TurnStep, TryLock, AcquireLock, BecomeHolder, TakeSlot, CopyStep,
           PrepareCopy, PrepareFails, EndSession, ExitStep, ReleaseSlot, Leave, ReleaseLock,
           diskVars
      <3> QED
        BY <1>0, <3>1
    <2> QED
      BY <2>2, <2>3, <2>4
  <1>2. ASSUME NEW j \in Janitors, RemoveTree(j) PROVE home[j] = e
    <2>1. meta' = [meta EXCEPT ![home[j]] = "none"]
      BY <1>2 DEF RemoveTree
    <2> QED
      BY <1>0, <2>1 DEF TreeRemoved
  <1>3. CASE \/ \E r \in Runs : Start(r) \/ WaitRaises(r) \/ SlotWaitRaises(r)
             \/ \E f \in Envs : CloseIssue(f) \/ BeginDiscard(f)
             \/ BeginSweep \/ Restart \/ UNCHANGED vars
             \/ \E j \in Janitors : JanitorStep(j) /\ ~ RemoveTree(j)
    <2>1. meta' = meta
      BY <1>3 DEF Start, WaitRaises, SlotWaitRaises, CloseIssue, BeginDiscard, BeginSweep,
         Restart, JanitorStep, ReadMeta, Keep,
         DecideGone, StartRemoving, SkipBusy, EndPass, diskVars, vars
    <2> QED
      BY <1>0, <2>1
  <1> QED
    BY <1>1, <1>2, <1>3 DEF Next, TreeRemoved

(* OnlyTheUnreadableIsTakenAway: the home of a run that holds its turn,    *)
(* and staging's at any time, is deleted only by a janitor that read no    *)
(* whole meta.json there, for every set of jobs and however many issues    *)
(* close, passes overlap and processes die.                                *)
THEOREM OnlyTheUnreadableGoes == Spec => OnlyTheUnreadableIsTakenAway
  <1> DEFINE Taken ==
        \A e \in Envs :
          TreeRemoved(e) /\ (lock[e] \in Runs \/ IsStaging(e))
          => \E j \in Janitors : home[j] = e /\ seen[j] = "unreadable"
  <1>1. JanitorInv /\ [Next]_vars => [Taken]_vars
    <2> SUFFICES ASSUME JanitorInv, [Next]_vars, NEW e \in Envs, TreeRemoved(e),
                        lock[e] \in Runs \/ IsStaging(e)
                 PROVE  \E j \in Janitors : home[j] = e /\ seen[j] = "unreadable"
      OBVIOUS
    <2>1. PICK j \in Janitors : RemoveTree(j) /\ home[j] = e
      BY OnlyAJanitorRemoves DEF JanitorInv
    <2>2. at[j] = "rmtree" /\ seen[j] \in {"unreadable", "whole"}
      BY <2>1 DEF RemoveTree, JanitorInv, Judging
    <2>3. ASSUME seen[j] = "whole" PROVE FALSE
      <3>1. ~ IsStaging(e) /\ HasItsLock(j)
        BY <2>1, <2>2, <2>3 DEF JanitorInv, HasItsLock
      <3>2. lock[e] = j
        BY <2>1, <2>2, <3>1 DEF JanitorInv, EnvInv, LocksAreHeld
      <3> QED
        BY <3>1, <3>2, Distinct
    <2> QED
      BY <2>1, <2>2, <2>3
  <1>2. Spec => []JanitorInv
    BY JanitorInit, JanitorNext, PTL DEF Spec
  <1> QED
    BY <1>1, <1>2, PTL DEF Spec, OnlyTheUnreadableIsTakenAway
=============================================================================
