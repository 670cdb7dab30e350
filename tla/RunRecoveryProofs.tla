-------------------------- MODULE RunRecoveryProofs --------------------------
(***************************************************************************)
(* Theorems about RunRecovery, for every role map, every number of errors, *)
(* stops, comments and runs.                                               *)
(***************************************************************************)
EXTENDS RunRecovery, SequenceTheorems, FiniteSetTheorems, FunctionTheorems, TLAPS

(* What a pass of the sweep has read is the end of a past of the runs      *)
(* table: rows are never taken out.                                        *)
SweepReadsThePast == Len(sweep.runs) = sweep.newest + 1 - ReadFrom(sweep.newest)

(* A delivery stays in the table while it is worked on.                    *)
WorksOnADelivery == doing["own"].at # "idle" => inbox # <<>>

BusyHasARole == \A t \in Threads : doing[t].at # "idle" => doing[t].role \in Roles

TypeInv == TypeOK /\ SweepReadsThePast /\ WorksOnADelivery /\ BusyHasARole

LEMMA RolesFact ==
  /\ Roles = {"intake", "planner", "testplanner", "architect", "dispatch",
              "implementer", "reviewer", "qa", "release"}
  /\ "none" \notin Roles
BY DEF Roles, RoleStarts

(* The router and the map never name anything but a role or none.          *)
LEMMA ExpeditedNextIsARole ==
  ASSUME NEW s
  PROVE  /\ ExpeditedNext(s) \in Roles \cup {"none"}
         /\ ExpeditedNext(s) # "none" => s \in RoleStarts[ExpeditedNext(s)]
BY RolesFact DEF ExpeditedNext, RoleStarts

LEMMA ResumeIsARole ==
  ASSUME NEW s PROVE Resume(s) \in Roles \cup {"none"}
BY RolesFact DEF Resume

LEMMA RouteStartsARole ==
  ASSUME NEW d \in Deliveries
  PROVE  RouteStarts(d) \in Roles \cup {"none"}
<1>1. CASE d.kind = "comment"
  BY <1>1, ResumeIsARole, RolesFact DEF RouteStarts, CommentStarts
<1>2. CASE d.kind = "labeled"
  BY <1>2, ExpeditedNextIsARole, RolesFact DEF RouteStarts, LabeledStarts, ExpediteNow
<1>3. CASE d.kind = "restart"
  BY <1>3 DEF RouteStarts, RestartStarts, Deliveries
<1>4. QED
  BY <1>1, <1>2, <1>3 DEF Deliveries

LEMMA ChainsToARole ==
  ASSUME NEW t \in Threads
  PROVE  ChainsTo(t) \in Roles \cup {"none"}
BY ExpeditedNextIsARole, RolesFact DEF ChainsTo, ExpediteNow

LEMMA NowIsLabels ==
  ASSUME TypeOK PROVE Now \in Labels
BY DEF TypeOK, Now, Labels

(* The sweep restarts a role only where the labels it read let it start,   *)
(* and only for a run it has read.                                         *)
LEMMA StalledRoleStarts ==
  ASSUME NEW labels, NEW rs \in Seq(Rows), StalledRole(labels, rs) # "none"
  PROVE  /\ StalledRole(labels, rs) \in Roles
         /\ labels.state \in RoleStarts[StalledRole(labels, rs)]
         /\ Len(rs) >= 1
<1>1. Quiet(rs)
  BY DEF StalledRole, LeftIdle
<1>2. Len(rs) \in Nat /\ Len(rs) >= 1
  BY <1>1, EmptySeq DEF Quiet
<1>3. Newest(rs) \in Rows
  BY <1>2, ElementOfSeq DEF Newest
<1>4. CASE Unfinished(labels, rs)
  BY <1>1, <1>2, <1>3, <1>4 DEF StalledRole, Unfinished, AtItsStart, Rows
<1>5. CASE ~Unfinished(labels, rs)
  BY <1>2, <1>5, ExpeditedNextIsARole DEF StalledRole
<1>6. QED
  BY <1>4, <1>5
-----------------------------------------------------------------------------
(***************************************************************************)
(* Types.                                                                  *)
(***************************************************************************)
Doing == [at : Phases, role : Roles \cup {"none"}, run : 0 .. Len(runs),
          why : {"comment", "restart", "labeled", "chain", "epic"}]

Passes == [at : {"idle", "listed", "read", "noticed", "dead"}, labels : Labels,
           runs : Seq(Rows), newest : 0 .. Len(runs)]

(* Where a read of n runs begins.                                          *)
LEMMA ReadFromFact ==
  ASSUME NEW n \in Nat
  PROVE  /\ ReadFrom(n) \in Nat /\ ReadFrom(n) >= 1 /\ ReadFrom(n) <= n + 1
         /\ n >= 1 => ReadFrom(n) <= n
         /\ n < ReadFrom(n) + ReadLimit
         /\ n = 0 => ReadFrom(n) = 1
BY RecoveryAssumption DEF RecoveryAssumption, ReadFrom

LEMMA NotSweepingFact ==
  ASSUME runs \in Seq(Rows)
  PROVE  /\ NotSweeping \in Passes /\ [NotSweeping EXCEPT !.at = "dead"] \in Passes
         /\ NotSweeping.newest = 0 /\ NotSweeping.runs = <<>>
         /\ [NotSweeping EXCEPT !.at = "dead"].newest = 0
         /\ [NotSweeping EXCEPT !.at = "dead"].runs = <<>>
         /\ ReadFrom(0) = 1
<1>1. Len(runs) \in Nat /\ ReadFrom(0) = 1
  BY ReadFromFact
<1>2. [state |-> InitialState, blocked |-> FALSE, marker |-> FALSE] \in Labels
  BY RecoveryAssumption DEF Labels, RecoveryAssumption
<1> DEFINE none == [state |-> InitialState, blocked |-> FALSE, marker |-> FALSE]
<1>3. NotSweeping = [at |-> "idle", labels |-> none, runs |-> <<>>, newest |-> 0]
  BY DEF NotSweeping
<1>4. none \in Labels
  BY <1>2
<1> HIDE DEF none
<1>5. [NotSweeping EXCEPT !.at = "dead"] =
        [at |-> "dead", labels |-> none, runs |-> <<>>, newest |-> 0]
  BY <1>3
<1>6. 0 \in 0 .. Len(runs) /\ <<>> \in Seq(Rows)
  BY <1>1
<1>7. /\ [at |-> "idle", labels |-> none, runs |-> <<>>, newest |-> 0] \in Passes
      /\ [at |-> "dead", labels |-> none, runs |-> <<>>, newest |-> 0] \in Passes
  BY <1>4, <1>6 DEF Passes
<1>8. QED
  BY <1>1, <1>3, <1>5, <1>7

(* What list_runs returns: the newest rows, ReadLimit of them at most.     *)
LEMMA ReadOfTheTable ==
  ASSUME NEW rs \in Seq(Rows)
  PROVE  LET n == Len(rs) read == SubSeq(rs, ReadFrom(n), n) IN
         /\ read \in Seq(Rows) /\ Len(read) = n + 1 - ReadFrom(n)
         /\ \A i \in 1 .. Len(read) : read[i] = rs[ReadFrom(n) + i - 1]
<1> DEFINE n == Len(rs)
           m == ReadFrom(n)
<1>1. n \in Nat /\ m \in 1 .. n + 1
  BY ReadFromFact
<1> HIDE DEF m
<1>2. /\ SubSeq(rs, m, n) \in Seq(Rows) /\ Len(SubSeq(rs, m, n)) = n + 1 - m
      /\ \A i \in 1 .. n + 1 - m : SubSeq(rs, m, n)[i] = rs[m + i - 1]
  BY <1>1, SubSeqProperties
<1>3. QED
  BY <1>2 DEF m

(* What was read stays read when the table grows.                          *)
LEMMA PassesGrow ==
  ASSUME runs \in Seq(Rows), runs' \in Seq(Rows), Len(runs) <= Len(runs'), sweep \in Passes,
         dropped \in SUBSET (0 .. Len(runs))
  PROVE  sweep \in Passes' /\ dropped \in SUBSET (0 .. Len(runs'))
<1>1. Len(runs) \in Nat /\ Len(runs') \in Nat
  OBVIOUS
<1>2. 0 .. Len(runs) \subseteq 0 .. Len(runs')
  BY <1>1
<1>3. QED
  BY <1>2 DEF Passes

LEMMA IdleIsDoing ==
  ASSUME runs \in Seq(Rows) PROVE Idle \in Doing
<1>1. Len(runs) \in Nat
  OBVIOUS
<1>2. QED
  BY <1>1, RolesFact DEF Idle, Doing, Phases

(* What a thread is given to do when a delivery or a chain names its role. *)
LEMMA RoutedIsDoing ==
  ASSUME runs \in Seq(Rows), NEW r \in Roles,
         NEW w \in {"comment", "restart", "labeled", "chain", "epic"}
  PROVE  [at |-> "routed", role |-> r, run |-> 0, why |-> w] \in Doing
<1>1. Len(runs) \in Nat
  OBVIOUS
<1>2. QED
  BY <1>1 DEF Doing, Phases

LEMMA EndOfInvocationTypes ==
  ASSUME TypeInv, NEW t \in Threads, t = "own" => inbox # <<>>, EndOfInvocation(t)
  PROVE  /\ doing' \in [Threads -> Doing]
         /\ inbox' \in Seq(Deliveries)
         /\ WorksOnADelivery' /\ BusyHasARole'
<1>1. doing' \in [Threads -> Doing]
  BY IdleIsDoing DEF TypeInv, TypeOK, EndOfInvocation, Doing
<1>2. inbox' \in Seq(Deliveries)
  BY DEF TypeInv, TypeOK, EndOfInvocation
<1>3. WorksOnADelivery'
  BY DEF TypeInv, TypeOK, EndOfInvocation, WorksOnADelivery, Idle, Threads
<1>4. BusyHasARole'
  BY DEF TypeInv, TypeOK, EndOfInvocation, BusyHasARole, Idle
<1>5. QED
  BY <1>1, <1>2, <1>3, <1>4

LEMMA InitTypes ==
  ASSUME Init PROVE TypeInv
<1> USE RecoveryAssumption DEF RecoveryAssumption
<1>1. runs \in Seq(Rows) /\ Len(runs) = 0 /\ inbox \in Seq(Deliveries)
  BY DEF Init
<1>2. doing \in [Threads -> Doing]
  BY <1>1, IdleIsDoing DEF Init
<1>3. sweep \in Passes /\ SweepReadsThePast /\ dropped \in SUBSET (0 .. Len(runs))
      /\ overtaken \in BOOLEAN
  <2>1. sweep = NotSweeping /\ dropped = {} /\ overtaken = FALSE
    BY DEF Init
  <2>2. /\ NotSweeping \in Passes /\ Len(NotSweeping.runs) = 0 /\ NotSweeping.newest = 0
        /\ ReadFrom(0) = 1
    BY <1>1, NotSweepingFact
  <2>3. SweepReadsThePast
    BY <2>1, <2>2 DEF SweepReadsThePast
  <2>4. QED
    BY <2>1, <2>2, <2>3
<1>4. /\ errors \in 0 .. MaxErrors /\ restarts \in 0 .. MaxRestarts
      /\ comments \in 0 .. MaxComments /\ epicReads \in 0 .. MaxEpicReads
      /\ emptyRuns \in 0 .. MaxEmptyRuns
  BY DEF Init
<1>5. WorksOnADelivery /\ BusyHasARole
  BY DEF Init, WorksOnADelivery, BusyHasARole, Idle, Threads
<1>6. TypeOK
  BY <1>1, <1>2, <1>3, <1>4 DEF Init, TypeOK, Doing, Passes
<1>7. QED
  BY <1>1, <1>3, <1>5, <1>6 DEF TypeInv

LEMMA BoundsAreNumbers ==
  /\ MaxErrors \in Nat /\ MaxRestarts \in Nat
  /\ MaxComments \in Nat /\ MaxEpicReads \in Nat
BY RecoveryAssumption DEF RecoveryAssumption

LEMMA RaisesTypes ==
  ASSUME TypeOK, NEW call, Raises(call)
  PROVE  errors' \in 0 .. MaxErrors
<1>1. errors < MaxErrors /\ errors' = errors + 1
  BY DEF Raises
<1>2. errors \in 0 .. MaxErrors
  BY DEF TypeOK
<1>3. QED
  BY <1>1, <1>2, BoundsAreNumbers

(* A thread at work goes on to its next phase.                             *)
LEMMA PhaseAdvances ==
  ASSUME TypeInv, NEW t \in Threads, NEW a \in Phases, doing[t].at # "idle",
         doing' = [doing EXCEPT ![t].at = a], inbox' = inbox
  PROVE  doing' \in [Threads -> Doing] /\ WorksOnADelivery' /\ BusyHasARole'
<1>1. doing \in [Threads -> Doing]
  BY DEF TypeInv, TypeOK, Doing
<1>2. doing' \in [Threads -> Doing]
  BY <1>1 DEF Doing
<1>3. WorksOnADelivery' /\ BusyHasARole'
  BY <1>1 DEF TypeInv, WorksOnADelivery, BusyHasARole, Threads
<1>4. QED
  BY <1>2, <1>3

(* A thread is given a role to run.                                        *)
LEMMA ThreadIsRouted ==
  ASSUME TypeInv, NEW t \in Threads, NEW r \in Roles,
         NEW w \in {"comment", "restart", "labeled", "chain", "epic"},
         doing' = [doing EXCEPT ![t] = [at |-> "routed", role |-> r, run |-> 0, why |-> w]],
         inbox' = inbox, t = "own" => inbox # <<>>
  PROVE  doing' \in [Threads -> Doing] /\ WorksOnADelivery' /\ BusyHasARole'
<1>1. doing \in [Threads -> Doing] /\ runs \in Seq(Rows)
  BY DEF TypeInv, TypeOK, Doing
<1>2. doing' \in [Threads -> Doing]
  BY <1>1, RoutedIsDoing
<1>3. WorksOnADelivery' /\ BusyHasARole'
  BY <1>1 DEF TypeInv, WorksOnADelivery, BusyHasARole, Threads
<1>4. QED
  BY <1>2, <1>3

LEMMA StepTypes ==
  ASSUME TypeInv, NEW t \in Threads, Step(t)
  PROVE  TypeInv'
<1> USE DEF TypeInv
<1> DEFINE n == Len(runs)
<1>0. n \in Nat /\ doing[t] \in Doing /\ doing \in [Threads -> Doing]
  BY DEF TypeOK, Doing
<1>a. doing[t].at # "idle" => (t = "own" => inbox # <<>>) /\ doing[t].role \in Roles
  BY DEF WorksOnADelivery, BusyHasARole
<1>1. CASE StartRun(t)
  <2>1. [role |-> doing[t].role, kind |-> "open", age |-> 0, why |-> doing[t].why] \in Rows
    BY <1>0, <1>1, <1>a DEF StartRun, Rows, Kinds, Doing
  <2>2. runs' \in Seq(Rows) /\ Len(runs') = n + 1
    BY <1>1, <2>1 DEF StartRun, TypeOK
  <2>3. doing' \in [Threads -> Doing']
    BY <1>0, <1>1, <2>2 DEF StartRun, Doing, Phases
  <2>4. WorksOnADelivery' /\ BusyHasARole'
    BY <1>0, <1>1, <1>a DEF StartRun, WorksOnADelivery, BusyHasARole, Threads
  <2>5. sweep' \in Passes' /\ dropped' \in SUBSET (0 .. Len(runs'))
    <3>1. sweep' = sweep /\ dropped' = dropped
      BY <1>1 DEF StartRun, history
    <3>2. QED
      BY <1>0, <2>2, <3>1, PassesGrow DEF TypeOK, Passes
  <2>6. TypeOK'
    BY <1>0, <1>1, <2>2, <2>3, <2>5 DEF StartRun, TypeOK, Doing, Passes, issue, history
  <2>7. SweepReadsThePast'
    BY <1>1 DEF StartRun, SweepReadsThePast
  <2>8. QED
    BY <2>4, <2>6, <2>7
<1>2. CASE MarkInProgress(t)
  <2>1. doing' \in [Threads -> Doing] /\ WorksOnADelivery' /\ BusyHasARole'
    BY <1>2, PhaseAdvances DEF MarkInProgress, Phases, table
  <2>2. errors' \in 0 .. MaxErrors
    BY <1>2, RaisesTypes DEF MarkInProgress, TypeOK
  <2>3. TypeOK' /\ SweepReadsThePast'
    BY <1>2, <2>1, <2>2 DEF MarkInProgress, TypeOK, Doing, SweepReadsThePast, table, past
  <2>4. QED
    BY <2>1, <2>3
<1>3. CASE AgentMoves(t)
  <2>1. doing' \in [Threads -> Doing] /\ WorksOnADelivery' /\ BusyHasARole'
    BY <1>3, PhaseAdvances DEF AgentMoves, Phases, table
  <2>2. state' \in States /\ blocked' \in BOOLEAN
    BY <1>3, <1>a, RecoveryAssumption DEF AgentMoves, TypeOK, RecoveryAssumption
  <2>3. emptyRuns' \in 0 .. MaxEmptyRuns
    <3>1. emptyRuns \in 0 .. MaxEmptyRuns
      BY <1>a DEF TypeOK
    <3>2. MaxEmptyRuns \in Nat
      BY RecoveryAssumption DEF RecoveryAssumption
    <3>3. \/ emptyRuns' = emptyRuns
          \/ emptyRuns < MaxEmptyRuns /\ emptyRuns' = emptyRuns + 1
      BY <1>3 DEF AgentMoves
    <3>4. QED
      BY <3>1, <3>2, <3>3
  <2>4. overtaken' \in BOOLEAN
    BY <1>3 DEF AgentMoves, TypeOK
  <2>5. TypeOK' /\ SweepReadsThePast'
    BY <1>3, <2>1, <2>2, <2>3, <2>4 DEF AgentMoves, TypeOK, Doing, SweepReadsThePast, table
  <2>6. QED
    BY <2>1, <2>5
<1>4. CASE \E kind \in Kinds : FinishRun(t, kind)
  <2>1. PICK kind \in Kinds : FinishRun(t, kind)
    BY <1>4
  <2>2. doing' \in [Threads -> Doing] /\ WorksOnADelivery' /\ BusyHasARole'
    BY <2>1, PhaseAdvances DEF FinishRun, Phases
  <2>3. runs' \in Seq(Rows) /\ Len(runs') = n
    <3> DEFINE i == doing[t].run
    <3>1. runs \in [1 .. n -> Rows]
      BY DEF TypeOK
    <3>2. runs' \in [1 .. n -> Rows]
      <4>1. i \in 1 .. n => [runs[i] EXCEPT !.kind = kind] \in Rows
        BY <3>1 DEF Rows
      <4>2. runs' = [runs EXCEPT ![i] = [runs[i] EXCEPT !.kind = kind]]
        BY <2>1 DEF FinishRun
      <4>. HIDE DEF i, n
      <4>3. QED
        BY <3>1, <4>1, <4>2
    <3>3. QED
      BY <1>0, <3>2
  <2>4. emptyRuns' \in 0 .. MaxEmptyRuns
    <3>1. MaxEmptyRuns \in Nat /\ emptyRuns \in 0 .. MaxEmptyRuns
      BY RecoveryAssumption DEF TypeOK, RecoveryAssumption
    <3>2. \/ emptyRuns' = emptyRuns
          \/ emptyRuns < MaxEmptyRuns /\ emptyRuns' = emptyRuns + 1
      BY <2>1 DEF FinishRun, EndsAs
    <3>3. QED
      BY <3>1, <3>2
  <2>5. TypeOK' /\ SweepReadsThePast'
    BY <2>1, <2>2, <2>3, <2>4 DEF FinishRun, TypeOK, Doing, SweepReadsThePast, issue, past
  <2>6. QED
    BY <2>2, <2>5
<1>5. CASE ClearInProgress(t)
  <2>1. doing' \in [Threads -> Doing] /\ WorksOnADelivery' /\ BusyHasARole'
    BY <1>5, PhaseAdvances DEF ClearInProgress, Phases, table
  <2>2. errors' \in 0 .. MaxErrors
    BY <1>5, RaisesTypes DEF ClearInProgress, TypeOK
  <2>3. TypeOK' /\ SweepReadsThePast'
    BY <1>5, <2>1, <2>2 DEF ClearInProgress, TypeOK, Doing, SweepReadsThePast, table, past
  <2>4. QED
    BY <2>1, <2>3
<1>6. CASE Chain(t)
  <2>1. /\ doing' \in [Threads -> Doing] /\ inbox' \in Seq(Deliveries)
        /\ WorksOnADelivery' /\ BusyHasARole'
    <3>1. CASE ChainsTo(t) = "none"
      BY <1>6, <1>a, <3>1, EndOfInvocationTypes DEF Chain
    <3>2. CASE ChainsTo(t) # "none"
      <4>1. ChainsTo(t) \in Roles
        BY <3>2, ChainsToARole
      <4>2. QED
        BY <1>6, <1>a, <3>2, <4>1, ThreadIsRouted DEF Chain, TypeOK
    <3>3. QED
      BY <3>1, <3>2
  <2>2. TypeOK' /\ SweepReadsThePast'
    BY <1>6, <2>1 DEF Chain, TypeOK, Doing, SweepReadsThePast, issue, history
  <2>3. QED
    BY <2>1, <2>2
<1>7. CASE ChainRaises(t)
  <2>1. /\ doing' \in [Threads -> Doing] /\ inbox' \in Seq(Deliveries)
        /\ WorksOnADelivery' /\ BusyHasARole'
    BY <1>7, <1>a, EndOfInvocationTypes DEF ChainRaises
  <2>2. errors' \in 0 .. MaxErrors
    BY <1>7, RaisesTypes DEF ChainRaises
  <2>3. TypeOK' /\ SweepReadsThePast'
    BY <1>7, <2>1, <2>2 DEF ChainRaises, TypeOK, Doing, SweepReadsThePast, issue, past
  <2>4. QED
    BY <2>1, <2>3
<1>8. CASE StartRaises(t)
  <2>1. /\ doing' \in [Threads -> Doing] /\ inbox' \in Seq(Deliveries)
        /\ WorksOnADelivery' /\ BusyHasARole'
    BY <1>8, <1>a, EndOfInvocationTypes DEF StartRaises
  <2>2. errors' \in 0 .. MaxErrors
    BY <1>8, RaisesTypes DEF StartRaises
  <2>3. dropped' \subseteq 0 .. n
    <3>1. dropped \subseteq 0 .. n /\ dropped' \subseteq dropped \cup {n}
      BY <1>8 DEF StartRaises, Drops, TypeOK
    <3>2. n \in 0 .. n
      BY <1>0
    <3>3. QED
      BY <3>1, <3>2
  <2>4. TypeOK' /\ SweepReadsThePast'
    BY <1>8, <2>1, <2>2, <2>3 DEF StartRaises, TypeOK, Doing, SweepReadsThePast, issue
  <2>5. QED
    BY <2>1, <2>4
<1>9. CASE FinishRaises(t)
  <2>1. doing' \in [Threads -> Doing] /\ WorksOnADelivery' /\ BusyHasARole'
    BY <1>9, PhaseAdvances DEF FinishRaises, Phases, table
  <2>2. errors' \in 0 .. MaxErrors
    BY <1>9, RaisesTypes DEF FinishRaises
  <2>3. TypeOK' /\ SweepReadsThePast'
    BY <1>9, <2>1, <2>2 DEF FinishRaises, TypeOK, Doing, SweepReadsThePast, issue, table, past
  <2>4. QED
    BY <2>1, <2>3
<1>10. QED
  BY <1>1, <1>2, <1>3, <1>4, <1>5, <1>6, <1>7, <1>8, <1>9 DEF Step

(* Where a pass goes on, it keeps what it has read.                        *)
Kept(pass) == pass \in Passes /\ Len(pass.runs) = pass.newest + 1 - ReadFrom(pass.newest)

LEMMA SweepTypes ==
  ASSUME TypeInv, Sweeps
  PROVE  TypeInv'
<1> USE DEF TypeInv
<1>0. /\ runs \in Seq(Rows) /\ Len(runs) \in Nat /\ sweep \in Passes /\ Kept(sweep)
      /\ sweep.newest \in 0 .. Len(runs)
  BY DEF TypeOK, SweepReadsThePast, Passes, Kept
<1>a. Kept(NotSweeping)
  BY <1>0, NotSweepingFact DEF Kept
<1>b. ASSUME Kept(sweep'), runs' = runs PROVE sweep' \in Passes' /\ SweepReadsThePast'
  BY <1>b DEF Kept, Passes, SweepReadsThePast
<1>1. CASE SweepLists
  <2>1. Kept(sweep') /\ runs' = runs
    <3>1. sweep' = [at |-> "listed", labels |-> Now, runs |-> <<>>, newest |-> 0]
          /\ runs' = runs
      BY <1>1 DEF SweepLists, table
    <3>2. QED
      BY <1>0, <3>1, NowIsLabels, NotSweepingFact DEF Passes, Kept
  <2>2. QED
    BY <1>0, <1>1, <1>b, <2>1 DEF SweepLists, TypeOK, WorksOnADelivery, BusyHasARole, Passes,
         issue, table, history
<1>2. CASE SweepReads
  <2>1. Kept(sweep') /\ runs' = runs
    <3> DEFINE n == Len(runs)
               read == SubSeq(runs, ReadFrom(n), n)
    <3>1. sweep' = [sweep EXCEPT !.at = "read", !.newest = n, !.runs = read] /\ runs' = runs
      BY <1>2 DEF SweepReads, table
    <3>2. read \in Seq(Rows) /\ Len(read) = n + 1 - ReadFrom(n)
      BY <1>0, ReadOfTheTable
    <3>3. n \in 0 .. n
      BY <1>0
    <3> HIDE DEF read, n
    <3>4. /\ sweep'.at = "read" /\ sweep'.labels = sweep.labels
          /\ sweep'.runs = read /\ sweep'.newest = n
          /\ sweep' = [at |-> "read", labels |-> sweep.labels, runs |-> read, newest |-> n]
      BY <1>0, <3>1 DEF Passes
    <3>5. QED
      BY <1>0, <3>1, <3>2, <3>3, <3>4 DEF Passes, Kept, n
  <2>2. QED
    BY <1>0, <1>2, <1>b, <2>1 DEF SweepReads, TypeOK, WorksOnADelivery, BusyHasARole, Passes,
         issue, table, history
<1>3. CASE SweepClears
  <2>1. Kept(sweep') /\ runs' = runs
    <3>1. runs' = runs
      BY <1>3 DEF SweepClears, table
    <3>2. CASE sweep' = NotSweeping
      BY <1>a, <3>1, <3>2
    <3>3. CASE sweep' = [sweep EXCEPT !.labels.marker = FALSE]
      <4>1. [sweep.labels EXCEPT !.marker = FALSE] \in Labels
        BY <1>0 DEF Labels, Passes
      <4>2. sweep' = [sweep EXCEPT !.labels = [sweep.labels EXCEPT !.marker = FALSE]]
        BY <1>0, <3>3 DEF Labels, Passes
      <4>3. QED
        BY <1>0, <3>1, <4>1, <4>2 DEF Passes, Kept
    <3>4. QED
      BY <1>3, <3>2, <3>3 DEF SweepClears
  <2>2. errors' \in 0 .. MaxErrors
    BY <1>3, RaisesTypes DEF SweepClears, TypeOK
  <2>3. QED
    BY <1>0, <1>3, <1>b, <2>1, <2>2 DEF SweepClears, TypeOK, WorksOnADelivery,
         BusyHasARole, Passes, table, past
<1>4. CASE SweepRestarts
  <2> DEFINE role == StalledRole(sweep.labels, sweep.runs)
             d == [kind |-> "restart", role |-> role, expect |-> sweep.labels.state]
  <2>1. role \in Roles /\ sweep.newest \in 1 .. Len(runs)
    <3>1. role \in Roles /\ Len(sweep.runs) >= 1
      BY <1>0, <1>4, StalledRoleStarts DEF SweepRestarts, Passes
    <3>2. ReadFrom(0) = 1
      BY ReadFromFact
    <3>3. QED
      BY <1>0, <3>1, <3>2 DEF Kept
  <2>2. d \in Deliveries
    BY <1>0, <2>1 DEF Deliveries, Labels, Passes
  <2>3. \/ inbox' = inbox
        \/ inbox' = Append(inbox, d)
    BY <1>4 DEF SweepRestarts, Queue
  <2>4. inbox' \in Seq(Deliveries) /\ (inbox # <<>> => inbox' # <<>>)
    <3> HIDE DEF d
    <3>1. inbox \in Seq(Deliveries)
      BY DEF TypeOK
    <3>2. CASE inbox' = inbox
      BY <3>1, <3>2
    <3>3. CASE inbox' = Append(inbox, d)
      BY <2>2, <3>1, <3>3
    <3>4. QED
      BY <2>3, <3>2, <3>3
  <2>5. spent' \subseteq 1 .. Len(runs)
    BY <1>4, <2>1 DEF SweepRestarts, TypeOK
  <2>6. Kept(sweep') /\ runs' = runs
    BY <1>4, <1>a DEF SweepRestarts
  <2>7. QED
    BY <1>0, <1>4, <1>b, <2>4, <2>5, <2>6 DEF SweepRestarts, TypeOK,
         WorksOnADelivery, BusyHasARole, Passes, issue, history
<1>5. CASE SweepRequeues
  <2> DEFINE d == [kind |-> "labeled", labels |-> sweep.labels]
  <2>1. d \in Deliveries
    BY <1>0 DEF Deliveries, Passes
  <2>2. inbox' = Append(inbox, d)
    BY <1>5 DEF SweepRequeues, Queue
  <2>3. inbox' \in Seq(Deliveries) /\ inbox' # <<>>
    <3> HIDE DEF d
    <3>1. inbox \in Seq(Deliveries)
      BY DEF TypeOK
    <3>2. QED
      BY <2>1, <2>2, <3>1
  <2>4. Kept(sweep') /\ runs' = runs
    BY <1>5, <1>a DEF SweepRequeues
  <2>5. QED
    BY <1>0, <1>5, <1>b, <2>3, <2>4 DEF SweepRequeues, TypeOK,
         WorksOnADelivery, BusyHasARole, Passes, issue, history
<1>6. CASE SweepPostsNotice
  <2>1. sweep.newest \in 1 .. Len(runs)
    <3>1. sweep.runs # <<>> /\ sweep.runs \in Seq(Rows)
      BY <1>0, <1>6 DEF SweepPostsNotice, GivesUp, GaveUpOn, LeftIdle, Quiet, Passes
    <3>2. ReadFrom(0) = 1 /\ Len(sweep.runs) >= 1
      BY <3>1, ReadFromFact, EmptySeq
    <3>3. QED
      BY <1>0, <3>2 DEF Kept
  <2>2. notices' \subseteq 1 .. Len(runs)
    <3>1. notices \subseteq 1 .. Len(runs)
      BY DEF TypeOK
    <3>2. QED
      BY <1>6, <2>1, <3>1 DEF SweepPostsNotice
  <2>3. Kept(sweep') /\ runs' = runs
    <3>1. CASE sweep' = NotSweeping
      BY <1>6, <1>a, <3>1 DEF SweepPostsNotice, table
    <3>2. CASE sweep' = [sweep EXCEPT !.at = "noticed"]
      BY <1>0, <1>6, <3>2 DEF SweepPostsNotice, table, Passes, Kept
    <3>3. QED
      BY <1>6, <3>1, <3>2 DEF SweepPostsNotice
  <2>4. errors' \in 0 .. MaxErrors
    BY <1>6, RaisesTypes DEF SweepPostsNotice, TypeOK
  <2>5. QED
    BY <1>0, <1>6, <1>b, <2>2, <2>3, <2>4 DEF SweepPostsNotice, TypeOK,
         WorksOnADelivery, BusyHasARole, Passes, table, past
<1>7. CASE SweepBlocks
  <2>1. errors' \in 0 .. MaxErrors
    BY <1>7, RaisesTypes DEF SweepBlocks, TypeOK
  <2>2. blocked' \in BOOLEAN
    BY <1>7 DEF SweepBlocks, TypeOK
  <2>3. Kept(sweep') /\ runs' = runs
    BY <1>7, <1>a DEF SweepBlocks, table
  <2>4. QED
    BY <1>0, <1>7, <1>b, <2>1, <2>2, <2>3 DEF SweepBlocks, TypeOK,
         WorksOnADelivery, BusyHasARole, Passes, table, past
<1>8. CASE SweepPasses
  <2>1. Kept(sweep') /\ runs' = runs
    BY <1>8, <1>a DEF SweepPasses, table
  <2>2. QED
    BY <1>0, <1>8, <1>b, <2>1 DEF SweepPasses, TypeOK,
         WorksOnADelivery, BusyHasARole, Passes, issue, table, history
<1>9. QED
  BY <1>1, <1>2, <1>3, <1>4, <1>5, <1>6, <1>7, <1>8 DEF Sweeps

LEMMA NextTypes ==
  ASSUME TypeInv, [Next]_vars
  PROVE  TypeInv'
<1> USE DEF TypeInv
<1>0. Len(runs) \in Nat /\ doing \in [Threads -> Doing] /\ Len(sweep.runs) \in Nat
  BY DEF TypeOK, Doing
<1>1. ASSUME NEW approved \in BOOLEAN, HumanComments(approved) PROVE TypeInv'
  <2> DEFINE d == [kind |-> "comment", approved |-> approved, labels |-> Now]
  <2>1. d \in Deliveries
    BY NowIsLabels DEF Deliveries
  <2>2. inbox' = Append(inbox, d)
    BY <1>1 DEF HumanComments
  <2>3. inbox' \in Seq(Deliveries) /\ inbox' # <<>>
    <3> HIDE DEF d
    <3>1. inbox \in Seq(Deliveries)
      BY DEF TypeOK
    <3>2. QED
      BY <2>1, <2>2, <3>1
  <2>4. comments' \in 0 .. MaxComments
    <3>1. comments < MaxComments /\ comments' = comments + 1 /\ comments \in 0 .. MaxComments
      BY <1>1 DEF HumanComments, TypeOK
    <3>2. QED
      BY <3>1, BoundsAreNumbers
  <2>5. QED
    BY <1>0, <1>1, <2>3, <2>4 DEF HumanComments, TypeOK, SweepReadsThePast, WorksOnADelivery,
         BusyHasARole, issue, past
<1>2. CASE Route
  <2>1. Head(inbox) \in Deliveries
    BY <1>2 DEF Route, TypeOK
  <2>2. /\ doing' \in [Threads -> Doing] /\ inbox' \in Seq(Deliveries)
        /\ WorksOnADelivery' /\ BusyHasARole'
    <3>1. CASE RouteStarts(Head(inbox)) = "none"
      BY <1>2, <3>1, EndOfInvocationTypes DEF Route, Threads
    <3>2. CASE RouteStarts(Head(inbox)) # "none"
      <4>1. RouteStarts(Head(inbox)) \in Roles
        BY <2>1, <3>2, RouteStartsARole
      <4>2. Head(inbox).kind \in {"comment", "restart", "labeled"}
        BY <2>1 DEF Deliveries
      <4>3. QED
        BY <1>2, <3>2, <4>1, <4>2, ThreadIsRouted DEF Route, Threads, TypeOK
    <3>3. QED
      BY <3>1, <3>2
  <2>3. blocked' \in BOOLEAN
    BY <1>2 DEF Route, TypeOK
  <2>4. QED
    BY <1>0, <1>2, <2>2, <2>3 DEF Route, TypeOK, Doing, SweepReadsThePast, history
<1>3. CASE RouteRaises
  <2>1. /\ doing' \in [Threads -> Doing] /\ inbox' \in Seq(Deliveries)
        /\ WorksOnADelivery' /\ BusyHasARole'
    BY <1>3, EndOfInvocationTypes DEF RouteRaises, Threads
  <2>2. errors' \in 0 .. MaxErrors
    BY <1>3, RaisesTypes DEF RouteRaises
  <2>3. dropped' \subseteq 0 .. Len(runs)
    <3>1. dropped \subseteq 0 .. Len(runs) /\ dropped' \subseteq dropped \cup {Len(runs)}
      BY <1>3 DEF RouteRaises, Drops, TypeOK
    <3>2. Len(runs) \in 0 .. Len(runs)
      BY <1>0
    <3>3. QED
      BY <3>1, <3>2
  <2>4. QED
    BY <1>0, <1>3, <2>1, <2>2, <2>3 DEF RouteRaises, TypeOK, Doing, SweepReadsThePast, issue
<1>4. CASE EpicReadsTask
  <2>1. doing' \in [Threads -> Doing] /\ WorksOnADelivery' /\ BusyHasARole'
    BY <1>4, RolesFact, ThreadIsRouted DEF EpicReadsTask, Threads, table
  <2>2. epicReads' \in 0 .. MaxEpicReads
    <3>1. epicReads < MaxEpicReads /\ epicReads' = epicReads + 1
      BY <1>4 DEF EpicReadsTask
    <3>2. epicReads \in 0 .. MaxEpicReads
      BY <1>0 DEF TypeOK
    <3>3. QED
      BY <3>1, <3>2, BoundsAreNumbers
  <2>3. QED
    BY <1>0, <1>4, <2>1, <2>2 DEF EpicReadsTask, TypeOK, Doing, SweepReadsThePast, issue,
       table, past
<1>5. CASE \E t \in Threads : Step(t)
  BY <1>5, StepTypes
<1>6. CASE Sweeps
  BY <1>6, SweepTypes
<1>7. CASE TimePasses
  <2> DEFINE Older(i) == IF runs[i].kind # "open" /\ runs[i].age < 2
                         THEN [runs[i] EXCEPT !.age = @ + 1] ELSE runs[i]
  <2>1. ASSUME NEW i \in 1 .. Len(runs) PROVE Older(i) \in Rows
    <3>1. runs[i] \in Rows
      BY DEF TypeOK
    <3>2. QED
      BY <3>1 DEF Rows
  <2>2. runs' = [i \in 1 .. Len(runs) |-> Older(i)]
    BY <1>7 DEF TimePasses, TypeOK
  <2>3. runs' \in Seq(Rows) /\ Len(runs') = Len(runs)
    <3> HIDE DEF Older
    <3>1. QED
      BY <1>0, <2>1, <2>2
  <2>4. QED
    BY <1>0, <1>7, <2>3 DEF TimePasses, TypeOK, SweepReadsThePast, WorksOnADelivery,
         BusyHasARole, issue, history
<1>8. CASE Restart
  <2> DEFINE Closed(i) == IF runs[i].kind = "open" THEN [runs[i] EXCEPT !.kind = "interrupted"]
                          ELSE runs[i]
  <2>1. ASSUME NEW i \in 1 .. Len(runs) PROVE Closed(i) \in Rows
    <3>1. runs[i] \in Rows
      BY DEF TypeOK
    <3>2. QED
      BY <3>1 DEF Rows, Kinds
  <2>2. runs' = [i \in 1 .. Len(runs) |-> Closed(i)]
    BY <1>8 DEF Restart, Interrupted, TypeOK
  <2>3. runs' \in Seq(Rows) /\ Len(runs') = Len(runs)
    <3> HIDE DEF Closed
    <3>1. QED
      BY <1>0, <2>1, <2>2
  <2>4. doing' \in [Threads -> Doing] /\ WorksOnADelivery' /\ BusyHasARole'
    BY <1>8, IdleIsDoing DEF Restart, TypeOK, WorksOnADelivery, BusyHasARole, Idle, Threads
  <2>5. sweep' \in Passes' /\ SweepReadsThePast' /\ dropped' \subseteq 0 .. Len(runs')
    <3>1. sweep' = NotSweeping /\ dropped' = dropped /\ runs \in Seq(Rows)
      BY <1>8 DEF Restart, past, TypeOK
    <3>2. Len(runs') = Len(runs)
      BY <2>3
    <3>3. NotSweeping \in Passes /\ Len(NotSweeping.runs) = 0 /\ NotSweeping.newest = 0
          /\ ReadFrom(0) = 1
      BY <3>1, NotSweepingFact
    <3>4. QED
      BY <3>1, <3>2, <3>3 DEF Passes, SweepReadsThePast, TypeOK
  <2>6. marker' \in BOOLEAN /\ errors' \in 0 .. MaxErrors
    BY <1>8, RaisesTypes DEF Restart, TypeOK
  <2>7. restarts' \in 0 .. MaxRestarts
    <3>1. restarts < MaxRestarts /\ restarts' = restarts + 1
      BY <1>8 DEF Restart
    <3>2. restarts \in 0 .. MaxRestarts
      BY DEF TypeOK
    <3>3. QED
      BY <3>1, <3>2, BoundsAreNumbers
  <2>8. QED
    <3>1. UNCHANGED <<state, blocked, notices, inbox, spent, overtaken, comments, epicReads,
                      emptyRuns>>
      BY <1>8 DEF Restart, past
    <3>2. TypeOK'
      BY <2>3, <2>4, <2>5, <2>6, <2>7, <3>1 DEF TypeOK, Doing, Passes
    <3>3. QED
      BY <2>4, <2>5, <3>2
<1>9. CASE ReconcilerDies
  <2>1. sweep' \in Passes /\ SweepReadsThePast'
    <3>1. sweep' = [NotSweeping EXCEPT !.at = "dead"] /\ runs \in Seq(Rows)
      BY <1>9 DEF ReconcilerDies, TypeOK
    <3>2. QED
      BY <3>1, NotSweepingFact DEF SweepReadsThePast
  <2>2. errors' \in 0 .. MaxErrors
    BY <1>9, RaisesTypes DEF ReconcilerDies, TypeOK
  <2>3. QED
    BY <1>0, <1>9, <2>1, <2>2 DEF ReconcilerDies, TypeOK, Doing, Passes,
       WorksOnADelivery, BusyHasARole, issue, table, past
<1>10. CASE UNCHANGED vars
  BY <1>10 DEF vars, TypeOK, SweepReadsThePast, WorksOnADelivery, BusyHasARole
<1>11. QED
  BY <1>1, <1>2, <1>3, <1>4, <1>5, <1>6, <1>7, <1>8, <1>9, <1>10 DEF Next

LEMMA DoingFact ==
  ASSUME TypeInv
  PROVE  doing \in [Threads -> Doing] /\ doing["own"] \in Doing /\ doing["epic"] \in Doing
BY DEF TypeInv, TypeOK, Doing, Threads

(* A step of one thread leaves the other alone.                            *)
LEMMA StepIsItsOwn ==
  ASSUME TypeInv, NEW t \in Threads, NEW u \in Threads, u # t, Step(t)
  PROVE  doing'[u] = doing[u]
<1>0. doing \in [Threads -> Doing]
  BY DoingFact
<1>1. \E x : doing' = [doing EXCEPT ![t] = x]
  <2>1. ASSUME NEW a, doing' = [doing EXCEPT ![t].at = a]
        PROVE  \E x : doing' = [doing EXCEPT ![t] = x]
    BY <2>1
  <2>2. CASE StartRun(t)
    BY <2>2 DEF StartRun
  <2>3. CASE MarkInProgress(t) \/ AgentMoves(t) \/ (\E kind \in Kinds : FinishRun(t, kind))
             \/ FinishRaises(t) \/ ClearInProgress(t)
    <3>1. \/ doing' = [doing EXCEPT ![t].at = "working"]
          \/ doing' = [doing EXCEPT ![t].at = "worked"]
          \/ doing' = [doing EXCEPT ![t].at = "ended"]
          \/ doing' = [doing EXCEPT ![t].at = "cleared"]
      BY <2>3 DEF MarkInProgress, AgentMoves, FinishRun, FinishRaises, ClearInProgress
    <3>2. QED
      BY <2>1, <3>1
  <2>4. CASE Chain(t) \/ ChainRaises(t) \/ StartRaises(t)
    BY <2>4 DEF Chain, ChainRaises, StartRaises, EndOfInvocation
  <2>5. QED
    BY <2>2, <2>3, <2>4 DEF Step
<1>2. QED
  BY <1>0, <1>1

(* TypeOK: every row, delivery, snapshot and phase is of its kind, however *)
(* the parties interleave; a notice and a spent guid name a run there is.  *)
THEOREM RecoveryTypeOK == Spec => []TypeOK
<1>1. Init => TypeInv
  BY InitTypes
<1>2. TypeInv /\ [Next]_vars => TypeInv'
  BY NextTypes
<1>3. TypeInv => TypeOK
  BY DEF TypeInv
<1>4. QED
  BY <1>1, <1>2, <1>3, PTL DEF Spec
-----------------------------------------------------------------------------
(***************************************************************************)
(* A restart repeats nothing.  What the sweep queues expects a state its   *)
(* role starts from; the router compares it with the issue; and from there *)
(* to the run's row nobody but the epic's thread moves the issue.          *)
(***************************************************************************)
RestartsExpectAStart ==
  \A i \in 1 .. Len(inbox) :
    inbox[i].kind = "restart" => inbox[i].expect \in RoleStarts[inbox[i].role]

RoutedRestartIsAtAStart ==
  doing["own"].at = "routed" /\ doing["own"].why = "restart" =>
    state \in RoleStarts[doing["own"].role] \/ overtaken

EpicRunsNoRestart == doing["epic"].at = "routed" => doing["epic"].why # "restart"

FindInv ==
  /\ TypeInv
  /\ RestartsExpectAStart
  /\ RoutedRestartIsAtAStart
  /\ EpicRunsNoRestart

LEMMA AppendKeepsExpectations ==
  ASSUME inbox \in Seq(Deliveries), RestartsExpectAStart, NEW d \in Deliveries,
         d.kind = "restart" => d.expect \in RoleStarts[d.role],
         inbox' = Append(inbox, d)
  PROVE  RestartsExpectAStart'
BY DEF RestartsExpectAStart

LEMMA EndKeepsExpectations ==
  ASSUME inbox \in Seq(Deliveries), RestartsExpectAStart, NEW t \in Threads,
         t = "own" => inbox # <<>>, EndOfInvocation(t)
  PROVE  RestartsExpectAStart'
<1>1. CASE t # "own"
  BY <1>1 DEF RestartsExpectAStart, EndOfInvocation
<1>2. CASE t = "own"
  <2>1. inbox' = Tail(inbox) /\ Len(inbox) \in Nat \ {0}
    BY <1>2, EmptySeq DEF EndOfInvocation
  <2>2. Len(inbox') = Len(inbox) - 1 /\ \A i \in 1 .. Len(inbox') : inbox'[i] = inbox[i + 1]
    BY <2>1
  <2>3. QED
    BY <2>1, <2>2 DEF RestartsExpectAStart
<1>3. QED
  BY <1>1, <1>2

(* What a thread's step leaves it at, and what it does to the issue.       *)
LEMMA StepOutcome ==
  ASSUME TypeInv, NEW t \in Threads, Step(t)
  PROVE  /\ doing[t].at # "idle"
         /\ doing'[t].at # "routed" \/ doing'[t].why = "chain"
         /\ \/ EndOfInvocation(t)
            \/ inbox' = inbox
         /\ \/ state' = state /\ overtaken' = overtaken
            \/ overtaken' = (overtaken \/ (t = "epic" /\ doing["own"].at = "routed"))
<1>0. doing \in [Threads -> Doing]
  BY DoingFact
<1>1. CASE StartRun(t)
  BY <1>0, <1>1 DEF StartRun, Doing, issue, history
<1>2. CASE Chain(t) \/ ChainRaises(t) \/ StartRaises(t)
  <2>1. \/ EndOfInvocation(t)
        \/ /\ doing' = [doing EXCEPT ![t] = [at |-> "routed", role |-> ChainsTo(t),
                                             run |-> 0, why |-> "chain"]]
           /\ inbox' = inbox
    BY <1>2 DEF Chain, ChainRaises, StartRaises
  <2>2. doing'[t].at # "routed" \/ doing'[t].why = "chain"
    BY <1>0, <2>1 DEF EndOfInvocation, Idle
  <2>3. doing[t].at # "idle" /\ state' = state /\ overtaken' = overtaken
    BY <1>2 DEF Chain, ChainRaises, StartRaises, issue, history, past
  <2>4. QED
    BY <2>1, <2>2, <2>3
<1>3. CASE AgentMoves(t)
  <2>1. doing' = [doing EXCEPT ![t].at = "worked"] /\ doing[t].at = "working"
    BY <1>3 DEF AgentMoves
  <2>2. doing'[t].at = "worked"
    BY <1>0, <2>1 DEF Doing
  <2>3. QED
    BY <1>3, <2>1, <2>2 DEF AgentMoves, table
<1>4. CASE MarkInProgress(t) \/ (\E kind \in Kinds : FinishRun(t, kind)) \/ FinishRaises(t)
           \/ ClearInProgress(t)
  <2>1. \/ doing' = [doing EXCEPT ![t].at = "working"]
        \/ doing' = [doing EXCEPT ![t].at = "ended"]
        \/ doing' = [doing EXCEPT ![t].at = "cleared"]
    BY <1>4 DEF MarkInProgress, FinishRun, FinishRaises, ClearInProgress
  <2>2. doing'[t].at # "routed"
    BY <1>0, <2>1 DEF Doing
  <2>3. /\ doing[t].at # "idle" /\ inbox' = inbox
        /\ state' = state /\ overtaken' = overtaken
    BY <1>4 DEF MarkInProgress, FinishRun, FinishRaises, ClearInProgress, issue, table, past
  <2>4. QED
    BY <2>2, <2>3
<1>5. QED
  BY <1>1, <1>2, <1>3, <1>4 DEF Step

LEMMA FindStep ==
  ASSUME FindInv, NEW t \in Threads, Step(t)
  PROVE  FindInv'
<1>0. TypeInv' /\ TypeInv /\ inbox \in Seq(Deliveries)
  BY StepTypes DEF FindInv, TypeInv, TypeOK
<1>1. \A u \in Threads : u # t => doing'[u] = doing[u]
  BY <1>0, StepIsItsOwn
<1>2. RestartsExpectAStart'
  <2>1. t = "own" => inbox # <<>>
    BY <1>0, StepOutcome DEF TypeInv, WorksOnADelivery
  <2>2. CASE EndOfInvocation(t)
    BY <1>0, <2>1, <2>2, EndKeepsExpectations DEF FindInv
  <2>3. CASE inbox' = inbox
    BY <2>3 DEF FindInv, RestartsExpectAStart
  <2>4. QED
    BY <1>0, <2>2, <2>3, StepOutcome
<1>3. CASE t = "own"
  <2>1. doing'["own"].at # "routed" \/ doing'["own"].why = "chain"
    BY <1>0, <1>3, StepOutcome
  <2>2. doing'["epic"] = doing["epic"]
    BY <1>1, <1>3 DEF Threads
  <2>3. QED
    BY <1>0, <1>2, <2>1, <2>2 DEF FindInv, RoutedRestartIsAtAStart, EpicRunsNoRestart
<1>4. CASE t = "epic"
  <2>1. doing'["epic"].at # "routed" \/ doing'["epic"].why = "chain"
    BY <1>0, <1>4, StepOutcome
  <2>2. doing'["own"] = doing["own"]
    BY <1>1, <1>4 DEF Threads
  <2>3. \/ state' = state /\ overtaken' = overtaken
        \/ overtaken' = (overtaken \/ doing["own"].at = "routed")
    BY <1>0, <1>4, StepOutcome
  <2>4. RoutedRestartIsAtAStart'
    BY <2>2, <2>3 DEF FindInv, RoutedRestartIsAtAStart
  <2>5. QED
    BY <1>0, <1>2, <2>1, <2>4 DEF FindInv, EpicRunsNoRestart
<1>5. QED
  BY <1>3, <1>4 DEF Threads

LEMMA FindRoute ==
  ASSUME FindInv, Route \/ RouteRaises
  PROVE  FindInv'
<1> DEFINE d == Head(inbox)
<1>0. TypeInv' /\ TypeOK /\ doing \in [Threads -> Doing] /\ inbox # <<>>
  BY NextTypes DEF FindInv, TypeInv, TypeOK, Doing, Next, Route, RouteRaises
<1>1. d.kind = "restart" => d.expect \in RoleStarts[d.role]
  <2>1. d = inbox[1] /\ 1 \in 1 .. Len(inbox)
    BY <1>0, EmptySeq DEF TypeOK
  <2>2. QED
    BY <2>1 DEF FindInv, RestartsExpectAStart
<1>2. \/ EndOfInvocation("own")
      \/ /\ RouteStarts(d) # "none"
         /\ doing' = [doing EXCEPT !["own"] = [at |-> "routed", role |-> RouteStarts(d),
                                               run |-> 0, why |-> d.kind]]
         /\ inbox' = inbox
  BY DEF Route, RouteRaises
<1>3. state' = state
  BY DEF Route, RouteRaises, issue
<1>4. RestartsExpectAStart'
  BY <1>0, <1>2, EndKeepsExpectations DEF FindInv, TypeOK, RestartsExpectAStart, Threads
<1>5. doing'["epic"] = doing["epic"]
  BY <1>0, <1>2 DEF EndOfInvocation, Threads
<1>6. RoutedRestartIsAtAStart'
  <2>1. CASE EndOfInvocation("own")
    BY <1>0, <2>1 DEF EndOfInvocation, Idle, Threads, RoutedRestartIsAtAStart
  <2>2. CASE ~EndOfInvocation("own")
    <3>1. doing'["own"] = [at |-> "routed", role |-> RouteStarts(d), run |-> 0, why |-> d.kind]
      BY <1>0, <1>2, <2>2 DEF Threads
    <3>2. d.kind = "restart" => RouteStarts(d) = d.role /\ state = d.expect
      BY <1>2, <2>2 DEF RouteStarts, RestartStarts
    <3>3. QED
      BY <1>1, <1>3, <3>1, <3>2 DEF RoutedRestartIsAtAStart
  <2>3. QED
    BY <2>1, <2>2
<1>7. QED
  BY <1>0, <1>4, <1>5, <1>6 DEF FindInv, EpicRunsNoRestart

LEMMA FindNext ==
  ASSUME FindInv, [Next]_vars
  PROVE  FindInv'
<1> USE DEF EpicRunsNoRestart
<1>0. TypeInv' /\ TypeOK /\ doing \in [Threads -> Doing] /\ inbox \in Seq(Deliveries)
  BY NextTypes DEF FindInv, TypeInv, TypeOK, Doing
<1>1. ASSUME NEW approved \in BOOLEAN, HumanComments(approved) PROVE FindInv'
  <2> DEFINE d == [kind |-> "comment", approved |-> approved, labels |-> Now]
  <2>1. d \in Deliveries /\ d.kind # "restart"
    BY <1>0, NowIsLabels DEF Deliveries
  <2>2. inbox' = Append(inbox, d) /\ UNCHANGED <<state, doing, overtaken>>
    BY <1>1 DEF HumanComments, issue, past
  <2>3. RestartsExpectAStart'
    <3> HIDE DEF d
    <3>1. QED
      BY <1>0, <2>1, <2>2, AppendKeepsExpectations DEF FindInv
  <2>4. QED
    BY <1>0, <2>2, <2>3 DEF FindInv, RoutedRestartIsAtAStart
<1>2. CASE Route \/ RouteRaises
  BY <1>2, FindRoute
<1>3. CASE EpicReadsTask
  <2>1. /\ doing'["own"] = doing["own"] /\ doing'["epic"].why = "epic"
        /\ UNCHANGED <<inbox, state, overtaken>>
    BY <1>0, <1>3 DEF EpicReadsTask, Threads, issue, table, past
  <2>2. QED
    BY <1>0, <2>1 DEF FindInv, RestartsExpectAStart, RoutedRestartIsAtAStart
<1>4. CASE \E t \in Threads : Step(t)
  BY <1>4, FindStep
<1>5. CASE SweepRestarts
  <2> DEFINE role == StalledRole(sweep.labels, sweep.runs)
             d == [kind |-> "restart", role |-> role, expect |-> sweep.labels.state]
  <2>1. sweep.runs \in Seq(Rows) /\ sweep.labels \in Labels
    BY <1>0 DEF TypeOK
  <2>2. role \in Roles /\ sweep.labels.state \in RoleStarts[role]
    BY <1>5, <2>1, StalledRoleStarts DEF SweepRestarts
  <2>3. d \in Deliveries /\ d.expect \in RoleStarts[d.role]
    BY <2>1, <2>2 DEF Deliveries, Labels
  <2>4. \/ inbox' = inbox
        \/ inbox' = Append(inbox, d)
    BY <1>5 DEF SweepRestarts, Queue
  <2>5. RestartsExpectAStart'
    <3> HIDE DEF d
    <3>1. CASE inbox' = inbox
      BY <3>1 DEF FindInv, RestartsExpectAStart
    <3>2. CASE inbox' = Append(inbox, d)
      BY <1>0, <2>3, <3>2, AppendKeepsExpectations DEF FindInv
    <3>3. QED
      BY <2>4, <3>1, <3>2
  <2>6. UNCHANGED <<state, doing, overtaken>>
    BY <1>5 DEF SweepRestarts, issue, history
  <2>7. QED
    BY <1>0, <2>5, <2>6 DEF FindInv, RoutedRestartIsAtAStart
<1>6. CASE SweepRequeues
  <2> DEFINE d == [kind |-> "labeled", labels |-> sweep.labels]
  <2>1. d \in Deliveries /\ d.kind # "restart"
    BY <1>0 DEF Deliveries, TypeOK
  <2>2. inbox' = Append(inbox, d) /\ UNCHANGED <<state, doing, overtaken>>
    BY <1>6 DEF SweepRequeues, Queue, issue, history
  <2>3. RestartsExpectAStart'
    <3> HIDE DEF d
    <3>1. QED
      BY <1>0, <2>1, <2>2, AppendKeepsExpectations DEF FindInv
  <2>4. QED
    BY <1>0, <2>2, <2>3 DEF FindInv, RoutedRestartIsAtAStart
<1>7. CASE SweepLists \/ SweepReads \/ SweepClears \/ SweepPostsNotice \/ SweepBlocks
           \/ SweepPasses \/ ReconcilerDies \/ TimePasses \/ UNCHANGED vars
  <2>1. UNCHANGED <<state, inbox, doing, overtaken>>
    BY <1>7 DEF SweepLists, SweepReads, SweepClears, SweepPostsNotice, SweepBlocks,
       SweepPasses, ReconcilerDies, TimePasses, vars, issue, table, history, past
  <2>2. QED
    BY <1>0, <2>1 DEF FindInv, RestartsExpectAStart, RoutedRestartIsAtAStart
<1>8. CASE Restart
  <2>1. /\ doing'["own"].at = "idle" /\ doing'["epic"].at = "idle"
        /\ inbox' = inbox
    BY <1>8 DEF Restart, Idle, Threads
  <2>2. QED
    BY <1>0, <2>1 DEF FindInv, RestartsExpectAStart, RoutedRestartIsAtAStart
<1>9. QED
  BY <1>1, <1>2, <1>3, <1>4, <1>5, <1>6, <1>7, <1>8 DEF Next, Sweeps

(* Only start_run adds a row.                                              *)
LEMMA OnlyStartRunOpens ==
  ASSUME TypeInv, [Next]_vars, Len(runs') > Len(runs)
  PROVE  \E t \in Threads : StartRun(t)
<1> USE DEF TypeInv
<1>0. Len(runs) \in Nat /\ runs \in Seq(Rows)
  BY DEF TypeOK
<1>1. runs' # runs
  BY <1>0
<1>2. CASE TimePasses \/ Restart
  <2>1. runs' \in Seq(Rows) /\ DOMAIN runs' = DOMAIN runs
    BY <1>2, NextTypes DEF TypeOK, TimePasses, Restart, Interrupted
  <2>2. Len(runs') = Len(runs)
    BY <1>0, <2>1
  <2>3. QED
    BY <1>0, <2>2
<1>3. ASSUME NEW t \in Threads, NEW kind \in Kinds, FinishRun(t, kind) PROVE FALSE
  <2>1. Step(t)
    BY <1>3 DEF Step
  <2>2. runs' \in Seq(Rows) /\ DOMAIN runs' = DOMAIN runs
    BY <1>3, <2>1, StepTypes DEF TypeOK, FinishRun
  <2>3. QED
    BY <1>0, <2>2
<1>4. QED
  BY <1>1, <1>2, <1>3 DEF Next, vars, Sweeps, Step, HumanComments, Route, RouteRaises,
     EpicReadsTask, StartRaises, MarkInProgress, AgentMoves, FinishRaises, ClearInProgress,
     Chain, ChainRaises, SweepLists, SweepReads, SweepClears, SweepRestarts, SweepRequeues,
     SweepPostsNotice, SweepBlocks, SweepPasses, ReconcilerDies, table, issue

(* RestartsFindWork: the role a restart starts finds the issue in a state  *)
(* it starts from, whatever was replayed, moved or failed since the sweep  *)
(* looked, unless the thread of the issue's epic moved it between the      *)
(* router's look and the start of the run.                                 *)
THEOREM RestartsRepeatNothing == Spec => RestartsFindWork
<1>1. Init => FindInv
  <2> SUFFICES ASSUME Init PROVE FindInv
    OBVIOUS
  <2>1. TypeInv
    BY InitTypes
  <2>2. Len(inbox) = 0 /\ doing["own"].at = "idle" /\ doing["epic"].at = "idle"
    BY DEF Init, Idle, Threads
  <2>3. QED
    BY <2>1, <2>2 DEF FindInv, RestartsExpectAStart, RoutedRestartIsAtAStart, EpicRunsNoRestart
<1>2. FindInv /\ [Next]_vars => FindInv'
  BY FindNext
<1>3. FindInv /\ [Next]_vars =>
        [Opens("restart") => AtAStartOf(runs'[Len(runs')]) \/ overtaken]_vars
  <2> SUFFICES ASSUME FindInv, [Next]_vars, Opens("restart")
               PROVE  AtAStartOf(runs'[Len(runs')]) \/ overtaken
    OBVIOUS
  <2>1. PICK t \in Threads : StartRun(t)
    BY OnlyStartRunOpens DEF Opens, FindInv
  <2>2. runs'[Len(runs')].role = doing[t].role /\ runs'[Len(runs')].why = doing[t].why
    BY <2>1 DEF StartRun, FindInv, TypeInv, TypeOK
  <2>3. t = "own" /\ doing["own"].at = "routed" /\ doing["own"].why = "restart"
    BY <2>1, <2>2 DEF FindInv, EpicRunsNoRestart, StartRun, Threads, Opens
  <2>4. QED
    BY <2>2, <2>3 DEF FindInv, RoutedRestartIsAtAStart, AtAStartOf
<1>4. QED
  BY <1>1, <1>2, <1>3, PTL DEF Spec, RestartsFindWork
-----------------------------------------------------------------------------
(***************************************************************************)
(* The retries are capped.  Every restart that was started was queued for  *)
(* a run of its own, and a failed run is given one only while its series   *)
(* holds no more than MAX_RETRIES failures.  So the restarts of a series   *)
(* are counted by the runs they were queued for: two failed ones at most,  *)
(* those that did not fail, and those of earlier series.                   *)
(***************************************************************************)

(* The runs a sweep reads that finds run k the newest, and the failures it *)
(* counts.                                                                 *)
Reach(k) == ReadFrom(k) .. k

FailuresUpTo(rs, k) ==
  {i \in Reach(k) : /\ rs[i].kind = "failed"
                  /\ \A j \in i .. k : rs[j].role = rs[k].role /\ rs[j].kind # "success"}

(* Run k may have been followed by a restart of role r.                    *)
Credit(rs, k, r) ==
  IF r = rs[k].role
  THEN rs[k].kind = "failed" => Cardinality(FailuresUpTo(rs, k)) <= MaxRetries
  ELSE Expedited

(* The runs of sp, those whose restart is recorded, that may have been.    *)
Credits(rs, sp, r) == {k \in sp : Credit(rs, k, r)}

(* The runs of role r that were started as restarts.                       *)
Restarted(rs, r) == {i \in 1 .. Len(rs) : rs[i].why = "restart" /\ rs[i].role = r}

(* The restarts of role r that are still to be routed.                     *)
Pending(q, first, r) ==
  {i \in first .. Len(q) : q[i].kind = "restart" /\ q[i].role = r}

(* The delivery at the head of the inbox has not opened a run yet: the     *)
(* deliveries still to be routed begin with it, or behind it.              *)
Untouched(own) == own.at = "idle" \/ (own.at = "routed" /\ own.why # "chain")
First(own) == IF Untouched(own) THEN 1 ELSE 2

(* Restarts of a role, started and waiting, never outnumber the runs they  *)
(* were queued for.  A stop of the process adds one: the delivery at the   *)
(* head of the inbox is routed once more.                                  *)
Balanced(r) ==
  Cardinality(Restarted(runs, r)) + Cardinality(Pending(inbox, First(doing["own"]), r))
    <= Cardinality(Credits(runs, spent, r)) + restarts

(* A thread that has opened a row holds it open.                           *)
Holds(t) == doing[t].at \in {"opened", "working", "worked"}
RowsAreHeld ==
  /\ \A t \in Threads :
       Holds(t) => doing[t].run \in 1 .. Len(runs) /\ runs[doing[t].run].kind = "open"
  /\ Holds("own") /\ Holds("epic") => doing["own"].run # doing["epic"].run

(* Row b is what row a has become.                                         *)
Became(a, b) == b.role = a.role /\ b.why = a.why /\ (a.kind # "open" => b.kind = a.kind)

(* What the sweep has read has not been rewritten since: a row keeps its   *)
(* role and why, and its kind once it has one.                             *)
WhatWasReadIsTrue ==
  \A i \in 1 .. Len(sweep.runs) :
    Became(sweep.runs[i], runs[ReadFrom(sweep.newest) + i - 1])

(* No run is open that was read with one whose restart is recorded, so     *)
(* what was counted for it stays what it was.                              *)
SpentIsOver == \A k \in spent : \A i \in Reach(k) : runs[i].kind # "open"

(* What is about to be run as a restart is the restart at the head.        *)
RoutedIsTheHead ==
  /\ doing["own"].at = "routed" /\ doing["own"].why = "restart" =>
       inbox[1].kind = "restart" /\ inbox[1].role = doing["own"].role
  /\ doing["epic"].at = "routed" => doing["epic"].why # "restart"

(* The inductive invariant.                                                *)
CapInv ==
  /\ TypeInv
  /\ RowsAreHeld
  /\ WhatWasReadIsTrue
  /\ SpentIsOver
  /\ RoutedIsTheHead
  /\ \A r \in Roles : Balanced(r)

-----------------------------------------------------------------------------
(* Counting. *)
LEMMA PartsAreFinite ==
  ASSUME NEW rs \in Seq(Rows), NEW sp \in SUBSET (1 .. Len(rs)), NEW q \in Seq(Deliveries),
         NEW first \in {1, 2}, NEW r
  PROVE  /\ IsFiniteSet(Restarted(rs, r)) /\ Cardinality(Restarted(rs, r)) \in Nat
         /\ IsFiniteSet(Pending(q, first, r)) /\ Cardinality(Pending(q, first, r)) \in Nat
         /\ IsFiniteSet(Credits(rs, sp, r)) /\ Cardinality(Credits(rs, sp, r)) \in Nat
<1>1. Len(rs) \in Int /\ Len(q) \in Int /\ first \in Int
  OBVIOUS
<1>2. IsFiniteSet(1 .. Len(rs)) /\ IsFiniteSet(first .. Len(q))
  BY <1>1, FS_Interval
<1>3. /\ Restarted(rs, r) \subseteq 1 .. Len(rs)
      /\ Pending(q, first, r) \subseteq first .. Len(q)
      /\ Credits(rs, sp, r) \subseteq 1 .. Len(rs)
  BY DEF Restarted, Pending, Credits
<1>4. QED
  BY <1>2, <1>3, FS_Subset, FS_CardinalityType

LEMMA SameFailures ==
  ASSUME NEW rs, NEW qs, NEW k \in Nat,
         \A i \in Reach(k) : rs[i].role = qs[i].role /\ rs[i].kind = qs[i].kind
  PROVE  FailuresUpTo(rs, k) = FailuresUpTo(qs, k)
<1>1. ReadFrom(k) \in Nat
  BY ReadFromFact
<1>2. ASSUME NEW i \in Reach(k), NEW j \in i .. k PROVE j \in Reach(k) /\ k \in Reach(k)
  BY <1>1, <1>2 DEF Reach
<1>3. QED
  BY <1>2 DEF FailuresUpTo

LEMMA ReachIsFinite ==
  ASSUME NEW rs, NEW k \in Nat
  PROVE  /\ IsFiniteSet(FailuresUpTo(rs, k)) /\ Cardinality(FailuresUpTo(rs, k)) \in Nat
<1>1. ReadFrom(k) \in Int /\ k \in Int
  BY ReadFromFact
<1>2. IsFiniteSet(Reach(k))
  BY <1>1, FS_Interval DEF Reach
<1>3. QED
  BY <1>2, FS_Subset, FS_CardinalityType DEF FailuresUpTo

(* Failures in the table that the sweep read are counted by it.            *)
LEMMA ReadCounts ==
  ASSUME NEW rs \in Seq(Rows), NEW qs \in Seq(Rows), NEW n \in Nat, n >= 1,
         Len(qs) = n + 1 - ReadFrom(n),
         \A i \in Reach(n) :
           /\ rs[i].role = qs[i + 1 - ReadFrom(n)].role
           /\ rs[i].kind = qs[i + 1 - ReadFrom(n)].kind
  PROVE  Cardinality(FailuresUpTo(rs, n)) <= ConsecutiveFailures(qs)
<1> DEFINE m == ReadFrom(n)
           A == FailuresUpTo(rs, n)
           B == {i \in SinceSuccess(qs) : qs[i].kind = "failed"}
           f == [i \in A |-> i + 1 - m]
<1>1. m \in Nat /\ m >= 1 /\ m <= n /\ DOMAIN qs = 1 .. Len(qs) /\ Len(qs) \in Nat
      /\ Reach(n) = m .. n
  BY ReadFromFact DEF Reach
<1>2. IsFiniteSet(B)
  <2>1. B \subseteq 1 .. Len(qs)
    BY <1>1 DEF SinceSuccess
  <2>2. IsFiniteSet(1 .. Len(qs))
    BY <1>1, FS_Interval
  <2>3. QED
    BY <2>1, <2>2, FS_Subset
<1>3. ASSUME NEW i \in A PROVE i + 1 - m \in B
  <2>1. i \in m .. n /\ rs[i].kind = "failed"
        /\ \A j \in i .. n : rs[j].role = rs[n].role /\ rs[j].kind # "success"
    BY <1>1 DEF FailuresUpTo
  <2>2. i + 1 - m \in DOMAIN qs /\ qs[i + 1 - m].kind = "failed"
    <3>1. i \in Int /\ i >= m /\ i <= n
      BY <1>1, <2>1
    <3>2. i + 1 - m \in 1 .. Len(qs)
      <4> HIDE DEF m
      <4> QED
        BY <1>1, <3>1 DEF m
    <3>3. qs[i + 1 - m].kind = rs[i].kind
      BY <1>1, <2>1
    <3>4. QED
      BY <1>1, <2>1, <3>2, <3>3
  <2>3. Newest(qs).role = rs[n].role
    <3>1. n \in m .. n /\ n + 1 - m = Len(qs)
      BY <1>1
    <3>2. QED
      BY <1>1, <3>1 DEF Newest
  <2>4. ASSUME NEW j \in i + 1 - m .. Len(qs)
        PROVE  qs[j].role = Newest(qs).role /\ qs[j].kind # "success"
    <3> DEFINE x == j + m - 1
    <3>1. x \in i .. n /\ x \in m .. n /\ j = x + 1 - m
      BY <1>1, <2>1
    <3> HIDE DEF x
    <3>2. rs[x].role = qs[j].role /\ rs[x].kind = qs[j].kind
      BY <1>1, <3>1
    <3>3. QED
      BY <2>1, <2>3, <3>1, <3>2
  <2>5. QED
    BY <2>2, <2>4 DEF SinceSuccess
<1>4. f \in Injection(A, B)
  <2>1. A \subseteq Nat
    BY <1>1 DEF FailuresUpTo
  <2>2. \A i, j \in A : i + 1 - m = j + 1 - m => i = j
    BY <1>1, <2>1
  <2>3. f \in [A -> B] /\ \A i, j \in A : f[i] = f[j] => i = j
    BY <1>3, <2>2
  <2> HIDE DEF A, B, f
  <2>4. QED
    BY <2>3, Fun_IsInj
<1>5. QED
  BY <1>2, <1>4, FS_Injection DEF ConsecutiveFailures

(* Every run of a series is in one of the reads that cover it.             *)
LEMMA ReadCovers ==
  ASSUME NEW L \in Nat \ {0}, NEW d \in Nat
  PROVE  d % L \in 0 .. L - 1 /\ d % L <= d /\ (d - (d % L)) % L = 0
<1>1. d % L \in 0 .. L - 1
  OBVIOUS
<1>2. d = (L * (d \div L)) + (d % L)
  OBVIOUS
<1>3. d \div L \in Nat
  OBVIOUS
<1>4. (L * (d \div L)) % L = 0 /\ L * (d \div L) \in Nat
  <2> DEFINE q == d \div L
  <2>1. q \in Nat
    BY <1>3
  <2> HIDE DEF q
  <2>2. (L * q) % L = 0 /\ L * q \in Nat
    BY <2>1
  <2>3. QED
    BY <2>2 DEF q
<1>5. QED
  <2> DEFINE x == L * (d \div L)
             y == d % L
  <2>1. x \in Nat /\ y \in 0 .. L - 1 /\ d = x + y /\ x % L = 0
    BY <1>1, <1>2, <1>4
  <2> HIDE DEF x, y
  <2>2. d - y = x /\ y <= d
    BY <2>1
  <2>3. QED
    BY <2>1, <2>2 DEF y

LEMMA Two == IsFiniteSet({1, 2}) /\ Cardinality({1, 2}) = 2
<1>1. IsFiniteSet({1}) /\ Cardinality({1}) = 1
  BY FS_Singleton
<1>2. IsFiniteSet({1} \cup {2}) /\ Cardinality({1} \cup {2}) = 2
  BY <1>1, FS_AddElement
<1>3. {1, 2} = {1} \cup {2}
  OBVIOUS
<1>4. QED
  BY <1>2, <1>3

LEMMA ThreeAreThree ==
  ASSUME NEW a, NEW b, NEW c, a # b, b # c, a # c
  PROVE  IsFiniteSet({a, b, c}) /\ Cardinality({a, b, c}) = 3
<1>1. IsFiniteSet({a}) /\ Cardinality({a}) = 1
  BY FS_Singleton
<1>2. IsFiniteSet({a} \cup {b}) /\ Cardinality({a} \cup {b}) = 2
  BY <1>1, FS_AddElement
<1>3. IsFiniteSet(({a} \cup {b}) \cup {c}) /\ Cardinality(({a} \cup {b}) \cup {c}) = 3
  BY <1>2, FS_AddElement
<1>4. {a, b, c} = ({a} \cup {b}) \cup {c}
  OBVIOUS
<1>5. QED
  BY <1>3, <1>4

(* No more than MAX_RETRIES of the failed runs that one read sees can have *)
(* been given a restart of their role: the newest of them counts all the   *)
(* others.  So each read that it takes to see the series has a first and a *)
(* second of them, and the runs are numbered by their read and that.       *)
LEMMA FewFailuresAreCredited ==
  ASSUME NEW rs \in Seq(Rows), rs # <<>>, NEW T,
         T \subseteq {k \in SinceSuccess(rs) :
                        rs[k].kind = "failed" /\ Cardinality(FailuresUpTo(rs, k)) <= MaxRetries}
  PROVE  /\ IsFiniteSet(T) /\ Cardinality(T) \in Nat /\ Cardinality(ReadsOf(rs)) \in Nat
         /\ Cardinality(T) <= 2 * Cardinality(ReadsOf(rs))
<1> DEFINE n == Len(rs)
           H == ReadsOf(rs)
           head(k) == k + ((n - k) % ReadLimit)
           Later(k) == \E j \in T : j > k /\ head(j) = head(k)
           f == [k \in T |-> <<head(k), IF Later(k) THEN 1 ELSE 2>>]
<1>0. /\ n \in Nat /\ T \subseteq 1 .. n /\ IsFiniteSet(1 .. n) /\ MaxRetries = 2
      /\ SinceSuccess(rs) \subseteq 1 .. n /\ T \subseteq SinceSuccess(rs)
      /\ ReadLimit \in Nat \ {0}
  <2>1. n \in Nat /\ DOMAIN rs = 1 .. n /\ MaxRetries = 2 /\ ReadLimit \in Nat \ {0}
    BY RecoveryAssumption DEF MaxRetries, RecoveryAssumption
  <2>2. SinceSuccess(rs) \subseteq 1 .. n
    BY <2>1 DEF SinceSuccess
  <2>3. IsFiniteSet(1 .. n)
    BY <2>1, FS_Interval
  <2>4. QED
    BY <2>1, <2>2, <2>3
<1>1. IsFiniteSet(T) /\ Cardinality(T) \in Nat /\ IsFiniteSet(H) /\ Cardinality(H) \in Nat
  BY <1>0, FS_Subset, FS_CardinalityType DEF ReadsOf
<1>2. ASSUME NEW k \in T
      PROVE  head(k) \in H /\ head(k) \in Nat /\ k <= head(k) /\ head(k) < k + ReadLimit
  <2> DEFINE d == n - k
             y == d % ReadLimit
  <2>1. k \in 1 .. n /\ d \in Nat /\ k \in SinceSuccess(rs)
    BY <1>0
  <2>2. y \in 0 .. ReadLimit - 1 /\ y <= d /\ (d - y) % ReadLimit = 0
    BY <1>0, <2>1, ReadCovers
  <2> HIDE DEF y
  <2>3. k + y \in k .. n /\ n - (k + y) = d - y /\ k + y < k + ReadLimit /\ k + y \in Nat
    BY <1>0, <2>1, <2>2
  <2>4. k + y \in SinceSuccess(rs)
    <3>1. \A j \in k .. n : rs[j].role = Newest(rs).role /\ rs[j].kind # "success"
      BY <2>1 DEF SinceSuccess
    <3>2. k + y \in 1 .. n /\ \A j \in k + y .. n : j \in k .. n
      BY <1>0, <2>1, <2>3
    <3>3. QED
      BY <1>0, <3>1, <3>2 DEF SinceSuccess
  <2>5. k + y \in H
    BY <2>2, <2>3, <2>4 DEF ReadsOf
  <2>6. k <= k + y
    BY <2>1, <2>3
  <2>7. QED
    BY <2>3, <2>5, <2>6 DEF y
<1>3. ASSUME NEW a \in T, NEW b \in T, NEW c \in T, a < b, b < c,
             head(a) = head(c), head(b) = head(c)
      PROVE  FALSE
  <2>1. a \in 1 .. n /\ b \in 1 .. n /\ c \in 1 .. n
    BY <1>0
  <2>2. c < a + ReadLimit
    <3>1. c <= head(c) /\ head(a) < a + ReadLimit /\ head(c) \in Nat
      BY <1>2
    <3> HIDE DEF head
    <3>2. QED
      BY <1>0, <1>3, <2>1, <3>1
  <2>3. a \in Reach(c) /\ b \in Reach(c) /\ c \in Reach(c)
    BY <1>0, <1>3, <2>1, <2>2 DEF Reach, ReadFrom
  <2>4. \A k \in {a, b, c} :
          /\ rs[k].kind = "failed"
          /\ \A j \in k .. n : rs[j].role = Newest(rs).role /\ rs[j].kind # "success"
    BY <1>0 DEF SinceSuccess
  <2>5. ASSUME NEW k \in {a, b, c} PROVE k \in FailuresUpTo(rs, c)
    <3>1. k \in Reach(c) /\ k \in 1 .. n /\ k <= c
      BY <1>3, <2>1, <2>3
    <3>2. \A j \in k .. c : j \in k .. n
      BY <1>0, <2>1, <3>1
    <3>3. c \in k .. n
      BY <1>0, <2>1, <3>1
    <3>4. QED
      BY <2>4, <3>1, <3>2, <3>3 DEF FailuresUpTo
  <2>6. Cardinality({a, b, c}) = 3
    <3>1. a # b /\ b # c /\ a # c
      BY <1>3, <2>1
    <3>2. QED
      BY <3>1, ThreeAreThree
  <2>7. c \in Nat
    BY <2>1
  <2>8. /\ Cardinality({a, b, c}) <= Cardinality(FailuresUpTo(rs, c))
        /\ Cardinality(FailuresUpTo(rs, c)) \in Nat
    BY <2>5, <2>7, ReachIsFinite, FS_Subset
  <2>9. Cardinality(FailuresUpTo(rs, c)) <= 2
    BY <1>0
  <2>10. QED
    BY <2>6, <2>8, <2>9
<1>4. ASSUME NEW a \in T, NEW b \in T, f[a] = f[b] PROVE a = b
  <2>1. head(a) = head(b) /\ (Later(a) <=> Later(b))
    BY <1>4
  <2>2. a \in Nat /\ b \in Nat
    BY <1>0
  <2>3. ASSUME NEW x \in T, NEW y \in T, x < y, head(x) = head(y), Later(x) <=> Later(y)
        PROVE  FALSE
    <3>1. Later(x)
      BY <2>3
    <3>2. PICK z \in T : z > y /\ head(z) = head(y)
      BY <2>3, <3>1
    <3>3. y < z
      BY <1>0, <3>2
    <3> HIDE DEF head
    <3>4. QED
      BY <1>3, <2>3, <3>2, <3>3
  <2> HIDE DEF head, Later
  <2>4. QED
    BY <2>1, <2>2, <2>3
<1>5. f \in Injection(T, H \X {1, 2})
  <2>1. f \in [T -> H \X {1, 2}]
    BY <1>2
  <2> HIDE DEF f, H
  <2>2. QED
    BY <1>4, <2>1, Fun_IsInj
<1>6. /\ IsFiniteSet(H \X {1, 2})
      /\ Cardinality(H \X {1, 2}) = Cardinality(H) * 2
  <2>1. IsFiniteSet({1, 2}) /\ Cardinality({1, 2}) = 2
    BY Two
  <2> HIDE DEF H
  <2>2. QED
    BY <1>1, <2>1, FS_Product
<1>7. Cardinality(T) <= Cardinality(H \X {1, 2})
  BY <1>5, <1>6, FS_Injection
<1>8. QED
  BY <1>1, <1>6, <1>7

(* The sum of the parts of a split set.                                    *)
LEMMA Split ==
  ASSUME NEW S, IsFiniteSet(S), NEW T, T \subseteq S
  PROVE  /\ IsFiniteSet(T) /\ IsFiniteSet(S \ T)
         /\ Cardinality(T) \in Nat /\ Cardinality(S \ T) \in Nat /\ Cardinality(S) \in Nat
         /\ Cardinality(S) = Cardinality(T) + Cardinality(S \ T)
<1>1. IsFiniteSet(T) /\ S \cap T = T
  BY FS_Subset
<1>2. IsFiniteSet(S \ T) /\ Cardinality(S \ T) = Cardinality(S) - Cardinality(S \cap T)
  BY FS_Difference
<1>3. Cardinality(T) \in Nat /\ Cardinality(S) \in Nat /\ Cardinality(S \ T) \in Nat
  BY <1>1, <1>2, FS_CardinalityType
<1>4. QED
  BY <1>1, <1>2, <1>3

LEMMA AtMostBoth ==
  ASSUME NEW S, NEW A, NEW B, IsFiniteSet(A), IsFiniteSet(B), S \subseteq A \cup B
  PROVE  /\ IsFiniteSet(S) /\ Cardinality(S) \in Nat
         /\ Cardinality(A) \in Nat /\ Cardinality(B) \in Nat
         /\ Cardinality(S) <= Cardinality(A) + Cardinality(B)
<1>1. /\ IsFiniteSet(A \cup B)
      /\ Cardinality(A \cup B) = Cardinality(A) + Cardinality(B) - Cardinality(A \cap B)
  BY FS_Union
<1>2. IsFiniteSet(A \cap B)
  BY FS_Intersection
<1>3. IsFiniteSet(S) /\ Cardinality(S) <= Cardinality(A \cup B)
  BY <1>1, FS_Subset
<1>4. Cardinality(A) \in Nat /\ Cardinality(B) \in Nat /\ Cardinality(A \cap B) \in Nat
      /\ Cardinality(S) \in Nat
  BY <1>2, <1>3, FS_CardinalityType
<1>5. QED
  BY <1>1, <1>3, <1>4

(* The series, counted: its failures and its other runs are its restarts   *)
(* and those started afresh, and the restarts are paid by credits of the   *)
(* series' few failures, of its other runs and of the runs before it.      *)
LEMMA CountingTheSeries ==
  ASSUME NEW rs \in Seq(Rows), rs # <<>>, NEW sp \in SUBSET (1 .. Len(rs)), NEW n \in Nat,
         Cardinality(Restarted(rs, Newest(rs).role))
           <= Cardinality(Credits(rs, sp, Newest(rs).role)) + n
  PROVE  Cardinality({i \in SinceSuccess(rs) : rs[i].kind = "failed"})
             + Cardinality(EarlierStarted(rs))
           <= MaxRetries * Cardinality(ReadsOf(rs)) + Cardinality(StartedAfresh(rs)) + n
                + Cardinality({i \in sp \cap Earlier(rs) :
                                 Expedited \/ rs[i].role = Newest(rs).role})
<1> DEFINE r == Newest(rs).role
           all == 1 .. Len(rs)
           S == SinceSuccess(rs)
           F == {i \in S : rs[i].kind = "failed"}
           Again == {i \in S : rs[i].why = "restart"}
           Queued == {i \in sp \cap Earlier(rs) : Expedited \/ rs[i].role = r}
           few == {k \in S : /\ rs[k].kind = "failed"
                             /\ Cardinality(FailuresUpTo(rs, k)) <= MaxRetries}
<1>0. IsFiniteSet(all) /\ S \subseteq all /\ DOMAIN rs = all /\ MaxRetries = 2
  BY FS_Interval DEF SinceSuccess, MaxRetries
<1>1. IsFiniteSet(S)
  BY <1>0, FS_Subset
<1>2. \A i \in S : rs[i].role = r /\ rs[i].kind # "success"
  BY <1>0 DEF SinceSuccess
<1>3. /\ Cardinality(S) = Cardinality(F) + Cardinality(S \ F)
      /\ Cardinality(F) \in Nat /\ Cardinality(S \ F) \in Nat /\ IsFiniteSet(S \ F)
      /\ Cardinality(S) \in Nat
  BY <1>1, Split
<1>4. /\ Cardinality(S) = Cardinality(Again) + Cardinality(S \ Again)
      /\ Cardinality(Again) \in Nat /\ Cardinality(S \ Again) \in Nat
  BY <1>1, Split
<1>5. S \ Again = StartedAfresh(rs)
  BY DEF StartedAfresh
<1>6. /\ Cardinality(Restarted(rs, r)) = Cardinality(Again) + Cardinality(EarlierStarted(rs))
      /\ Cardinality(EarlierStarted(rs)) \in Nat
  <2>1. Restarted(rs, r) \subseteq all
    BY DEF Restarted
  <2>2. IsFiniteSet(Restarted(rs, r))
    BY <1>0, <2>1, FS_Subset
  <2>3. Again \subseteq Restarted(rs, r)
    BY <1>0, <1>2 DEF Restarted
  <2>4. Restarted(rs, r) \ Again = EarlierStarted(rs)
    BY <1>0 DEF Restarted, EarlierStarted, Earlier
  <2> HIDE DEF r, Again
  <2>5. QED
    BY <2>2, <2>3, <2>4, Split
<1>7. /\ IsFiniteSet(few) /\ Cardinality(few) \in Nat /\ Cardinality(ReadsOf(rs)) \in Nat
      /\ Cardinality(few) <= 2 * Cardinality(ReadsOf(rs))
  BY FewFailuresAreCredited
<1>8. IsFiniteSet(Queued) /\ Cardinality(Queued) \in Nat
  <2>1. Queued \subseteq all
    BY <1>0 DEF Earlier
  <2>2. QED
    BY <1>0, <2>1, FS_Subset, FS_CardinalityType
<1>9. Credits(rs, sp, r) \subseteq (few \cup (S \ F)) \cup Queued
  <2>1. ASSUME NEW k \in Credits(rs, sp, r), k \notin S PROVE k \in Queued
    BY <1>0, <2>1 DEF Credits, Credit, Earlier
  <2>2. ASSUME NEW k \in Credits(rs, sp, r), k \in S PROVE k \in few \cup (S \ F)
    BY <1>2, <2>2 DEF Credits, Credit
  <2>3. QED
    BY <2>1, <2>2
<1>10. /\ Cardinality(Credits(rs, sp, r)) \in Nat
       /\ Cardinality(Credits(rs, sp, r))
            <= Cardinality(few) + Cardinality(S \ F) + Cardinality(Queued)
  <2>1. /\ IsFiniteSet(few \cup (S \ F)) /\ Cardinality(few \cup (S \ F)) \in Nat
        /\ Cardinality(few \cup (S \ F)) <= Cardinality(few) + Cardinality(S \ F)
    BY <1>3, <1>7, AtMostBoth
  <2>2. /\ Cardinality(Credits(rs, sp, r)) \in Nat
        /\ Cardinality(Credits(rs, sp, r))
             <= Cardinality(few \cup (S \ F)) + Cardinality(Queued)
    BY <1>8, <1>9, <2>1, AtMostBoth
  <2>3. QED
    BY <1>3, <1>7, <1>8, <2>1, <2>2
<1>11. QED
  <2> DEFINE a == Cardinality(F)
             b == Cardinality(S \ F)
             c == Cardinality(Again)
             e == Cardinality(S \ Again)
             f == Cardinality(few)
             g == Cardinality(Queued)
             x == Cardinality(EarlierStarted(rs))
             y == Cardinality(Credits(rs, sp, r))
             h == Cardinality(ReadsOf(rs))
  <2>1. a + b = c + e /\ c + x <= y + n /\ y <= f + b + g /\ f <= 2 * h
    BY <1>0, <1>3, <1>4, <1>6, <1>7, <1>10
  <2>2. a \in Nat /\ b \in Nat /\ c \in Nat /\ e \in Nat /\ f \in Nat /\ g \in Nat
        /\ x \in Nat /\ y \in Nat /\ h \in Nat
    BY <1>3, <1>4, <1>6, <1>7, <1>8, <1>10
  <2>3. a + x <= 2 * h + e + n + g
    <3> HIDE DEF a, b, c, e, f, g, x, y, h
    <3>1. QED
      BY <2>1, <2>2
  <2>4. QED
    BY <1>0, <1>5, <2>3
-----------------------------------------------------------------------------
(* How the rows change. *)
Grows == \A i \in 1 .. Len(runs) : Became(runs[i], runs'[i])

LEMMA BecameItself == \A a : Became(a, a)
BY DEF Became

LEMMA RowIsWritten ==
  ASSUME TypeInv, NEW t \in Threads, NEW kind \in Kinds, FinishRun(t, kind), RowsAreHeld
  PROVE  /\ doing[t].run \in 1 .. Len(runs) /\ runs[doing[t].run].kind = "open"
         /\ Len(runs') = Len(runs)
         /\ \A i \in 1 .. Len(runs) :
              runs'[i] = IF i = doing[t].run THEN [runs[i] EXCEPT !.kind = kind] ELSE runs[i]
<1> DEFINE n == Len(runs)
           k == doing[t].run
<1>1. runs \in [1 .. n -> Rows] /\ n \in Nat
  BY DEF TypeInv, TypeOK
<1>2. k \in 1 .. n /\ runs[k].kind = "open"
  BY DEF RowsAreHeld, Holds, FinishRun
<1>3. runs' = [runs EXCEPT ![k] = [runs[k] EXCEPT !.kind = kind]]
  BY DEF FinishRun
<1> HIDE DEF k
<1>4. runs' \in [1 .. n -> {runs[i] : i \in 1 .. n} \cup {[runs[k] EXCEPT !.kind = kind]}]
  BY <1>1, <1>2, <1>3
<1>5. Len(runs') = n
  BY <1>1, <1>4
<1>6. \A i \in 1 .. n :
        runs'[i] = IF i = k THEN [runs[i] EXCEPT !.kind = kind] ELSE runs[i]
  BY <1>1, <1>2, <1>3
<1>7. QED
  BY <1>2, <1>5, <1>6 DEF k

LEMMA RowIsAdded ==
  ASSUME TypeInv, NEW t \in Threads, StartRun(t)
  PROVE  /\ Len(runs') = Len(runs) + 1 /\ Len(runs) \in Nat
         /\ \A i \in 1 .. Len(runs) : runs'[i] = runs[i]
         /\ runs'[Len(runs) + 1] =
              [role |-> doing[t].role, kind |-> "open", age |-> 0, why |-> doing[t].why]
<1> DEFINE row == [role |-> doing[t].role, kind |-> "open", age |-> 0, why |-> doing[t].why]
<1>1. runs' = Append(runs, row) /\ runs \in Seq(Rows)
  BY DEF StartRun, TypeInv, TypeOK
<1> HIDE DEF row
<1>2. /\ Len(runs') = Len(runs) + 1 /\ Len(runs) \in Nat
      /\ \A i \in 1 .. Len(runs) : runs'[i] = runs[i]
      /\ runs'[Len(runs) + 1] = row
  BY <1>1
<1>3. QED
  BY <1>2 DEF row

LEMMA RowsGetOlder ==
  ASSUME TypeInv, TimePasses
  PROVE  /\ Len(runs') = Len(runs)
         /\ \A i \in 1 .. Len(runs) :
              /\ runs'[i].role = runs[i].role /\ runs'[i].why = runs[i].why
              /\ runs'[i].kind = runs[i].kind
<1> DEFINE Older(i) == IF runs[i].kind # "open" /\ runs[i].age < 2
                       THEN [runs[i] EXCEPT !.age = @ + 1] ELSE runs[i]
<1>1. runs' = [i \in 1 .. Len(runs) |-> Older(i)] /\ Len(runs) \in Nat
  BY DEF TimePasses, TypeInv, TypeOK
<1>2. \A i \in 1 .. Len(runs) : runs[i] \in Rows
  BY DEF TypeInv, TypeOK
<1>3. \A i \in 1 .. Len(runs) :
        /\ Older(i).role = runs[i].role /\ Older(i).why = runs[i].why
        /\ Older(i).kind = runs[i].kind
  BY <1>2 DEF Rows
<1> HIDE DEF Older
<1>4. QED
  BY <1>1, <1>3

LEMMA RowsAreClosed ==
  ASSUME TypeInv, Restart
  PROVE  Len(runs') = Len(runs) /\ Grows
<1> DEFINE Closed(i) == IF runs[i].kind = "open" THEN [runs[i] EXCEPT !.kind = "interrupted"]
                        ELSE runs[i]
<1>1. runs' = [i \in 1 .. Len(runs) |-> Closed(i)] /\ Len(runs) \in Nat
  BY DEF Restart, Interrupted, TypeInv, TypeOK
<1>2. \A i \in 1 .. Len(runs) : runs[i] \in Rows
  BY DEF TypeInv, TypeOK
<1>3. \A i \in 1 .. Len(runs) : Became(runs[i], Closed(i))
  BY <1>2 DEF Rows, Became
<1> HIDE DEF Closed
<1>4. QED
  BY <1>1, <1>3 DEF Grows

(* The steps that write no row.                                            *)
Writes ==
  \/ TimePasses \/ Restart
  \/ \E t \in Threads : StartRun(t) \/ \E kind \in Kinds : FinishRun(t, kind)

LEMMA OthersWriteNothing ==
  ASSUME [Next]_vars, ~Writes
  PROVE  runs' = runs
BY DEF Writes, Next, vars, Sweeps, Step, HumanComments, Route, RouteRaises, EpicReadsTask,
   StartRaises, MarkInProgress, AgentMoves, FinishRaises, ClearInProgress, Chain, ChainRaises,
   SweepLists, SweepReads, SweepClears, SweepRestarts, SweepRequeues, SweepPostsNotice,
   SweepBlocks, SweepPasses, ReconcilerDies, table, issue

LEMMA RowsOnlyGrow ==
  ASSUME TypeInv, RowsAreHeld, [Next]_vars
  PROVE  Len(runs) \in Nat /\ Len(runs') \in Nat /\ Len(runs) <= Len(runs') /\ Grows
<1>0. Len(runs) \in Nat /\ \A i \in 1 .. Len(runs) : runs[i] \in Rows
  BY DEF TypeInv, TypeOK
<1>1. ASSUME NEW t \in Threads, StartRun(t) PROVE Len(runs') = Len(runs) + 1 /\ Grows
  BY <1>1, RowIsAdded, BecameItself DEF Grows
<1>2. ASSUME NEW t \in Threads, NEW kind \in Kinds, FinishRun(t, kind)
      PROVE  Len(runs') = Len(runs) /\ Grows
  <2>1. Len(runs') = Len(runs)
    BY <1>2, RowIsWritten
  <2>2. ASSUME NEW i \in 1 .. Len(runs) PROVE Became(runs[i], runs'[i])
    <3>1. CASE i # doing[t].run
      BY <1>2, <3>1, RowIsWritten, BecameItself
    <3>2. CASE i = doing[t].run
      <4>1. runs[i].kind = "open" /\ runs'[i] = [runs[i] EXCEPT !.kind = kind]
        BY <1>2, <3>2, RowIsWritten
      <4>2. QED
        BY <1>0, <4>1 DEF Became, Rows
    <3>3. QED
      BY <3>1, <3>2
  <2>3. QED
    BY <2>1, <2>2 DEF Grows
<1>3. CASE TimePasses
  BY <1>3, RowsGetOlder DEF Grows, Became
<1>4. CASE Restart
  BY <1>4, RowsAreClosed
<1>5. CASE ~Writes
  BY <1>5, OthersWriteNothing, BecameItself DEF Grows
<1>6. Len(runs') = Len(runs) + 1 \/ Len(runs') = Len(runs)
  BY <1>1, <1>2, <1>3, <1>4, <1>5, OthersWriteNothing, RowsGetOlder, RowsAreClosed DEF Writes
<1>7. QED
  BY <1>0, <1>1, <1>2, <1>3, <1>4, <1>5, <1>6 DEF Writes

-----------------------------------------------------------------------------
(* The threads and the rows they hold. *)

(* Thread u and its row are left as they were, or u holds none.            *)
Undisturbed(u) ==
  \/ ~Holds(u)'
  \/ /\ Holds(u) /\ doing'[u].run = doing[u].run
     /\ runs'[doing[u].run].kind = runs[doing[u].run].kind

LEMMA HeldWhenUndisturbed ==
  ASSUME TypeInv, RowsAreHeld, [Next]_vars, \A u \in Threads : Undisturbed(u)
  PROVE  RowsAreHeld'
<1>1. Len(runs) \in Nat /\ Len(runs') \in Nat /\ Len(runs) <= Len(runs')
  BY RowsOnlyGrow
<1>2. ASSUME NEW u \in Threads, Holds(u)'
      PROVE  doing'[u].run \in 1 .. Len(runs') /\ runs'[doing'[u].run].kind = "open"
  <2>1. Holds(u) /\ doing'[u].run = doing[u].run
        /\ runs'[doing[u].run].kind = runs[doing[u].run].kind
    BY <1>2 DEF Undisturbed
  <2>2. doing[u].run \in 1 .. Len(runs) /\ runs[doing[u].run].kind = "open"
    BY <2>1 DEF RowsAreHeld
  <2>3. QED
    BY <1>1, <2>1, <2>2
<1>3. Holds("own")' /\ Holds("epic")' => doing'["own"].run # doing'["epic"].run
  BY DEF Undisturbed, RowsAreHeld, Threads
<1>4. QED
  BY <1>2, <1>3 DEF RowsAreHeld

LEMMA HeldNext ==
  ASSUME TypeInv, RowsAreHeld, [Next]_vars
  PROVE  RowsAreHeld'
<1>0. doing \in [Threads -> Doing] /\ Len(runs) \in Nat
  BY DoingFact DEF TypeInv, TypeOK
<1>1. ASSUME NEW t \in Threads, StartRun(t) PROVE RowsAreHeld'
  <2>1. /\ Len(runs') = Len(runs) + 1
        /\ \A i \in 1 .. Len(runs) : runs'[i] = runs[i]
        /\ runs'[Len(runs) + 1].kind = "open"
    <3>1. runs'[Len(runs) + 1] =
            [role |-> doing[t].role, kind |-> "open", age |-> 0, why |-> doing[t].why]
      BY <1>1, RowIsAdded
    <3>2. /\ Len(runs') = Len(runs) + 1
          /\ \A i \in 1 .. Len(runs) : runs'[i] = runs[i]
      BY <1>1, RowIsAdded
    <3>3. QED
      BY <3>1, <3>2
  <2>2. doing'[t].run = Len(runs) + 1
    BY <1>0, <1>1 DEF StartRun, Doing
  <2>3. \A u \in Threads : u # t => doing'[u] = doing[u]
    BY <1>1, StepIsItsOwn DEF Step
  <2>4. \A u \in Threads : u # t /\ Holds(u)' =>
          /\ doing'[u].run \in 1 .. Len(runs) /\ doing'[u].run = doing[u].run
          /\ runs[doing[u].run].kind = "open"
    BY <2>3 DEF Holds, RowsAreHeld
  <2>5. \A u \in Threads : Holds(u)' =>
          doing'[u].run \in 1 .. Len(runs') /\ runs'[doing'[u].run].kind = "open"
    BY <1>0, <2>1, <2>2, <2>4
  <2>6. Holds("own")' /\ Holds("epic")' => doing'["own"].run # doing'["epic"].run
    BY <1>0, <2>2, <2>4 DEF Threads
  <2>7. QED
    BY <2>5, <2>6 DEF RowsAreHeld
<1>2. ASSUME NEW t \in Threads, NEW kind \in Kinds, FinishRun(t, kind) PROVE RowsAreHeld'
  <2>1. doing'[t].at = "ended"
    <3>1. doing' = [doing EXCEPT ![t].at = "ended"]
      BY <1>2 DEF FinishRun
    <3>2. QED
      BY <1>0, <3>1 DEF Doing
  <2>2. \A u \in Threads : u # t => doing'[u] = doing[u]
    BY <1>2, StepIsItsOwn DEF Step
  <2>3. ASSUME NEW u \in Threads PROVE Undisturbed(u)
    <3>1. CASE u = t
      BY <2>1, <3>1 DEF Undisturbed, Holds
    <3>2. CASE u # t
      <4>1. Holds(t)
        BY <1>2 DEF FinishRun, Holds
      <4>2. Holds(u)' => Holds(u) /\ doing'[u].run = doing[u].run
        BY <2>2, <3>2 DEF Holds
      <4>3. Holds(u) => doing[u].run \in 1 .. Len(runs) /\ doing[u].run # doing[t].run
        BY <3>2, <4>1 DEF RowsAreHeld, Threads
      <4>4. QED
        BY <1>2, <4>2, <4>3, RowIsWritten DEF Undisturbed
    <3>3. QED
      BY <3>1, <3>2
  <2>4. QED
    BY <2>3, HeldWhenUndisturbed
<1>3. CASE Restart
  <2>1. \A u \in Threads : ~Holds(u)'
    BY <1>3 DEF Restart, Holds, Idle
  <2>2. QED
    BY <2>1, HeldWhenUndisturbed DEF Undisturbed
<1>4. CASE TimePasses
  <2>1. doing' = doing
    BY <1>4 DEF TimePasses
  <2>2. \A u \in Threads : Holds(u) => doing[u].run \in 1 .. Len(runs)
    BY DEF RowsAreHeld
  <2>3. QED
    BY <1>4, <2>1, <2>2, RowsGetOlder, HeldWhenUndisturbed DEF Undisturbed, Holds
<1>5. ASSUME NEW t \in Threads, MarkInProgress(t) \/ AgentMoves(t) PROVE RowsAreHeld'
  <2>1. Holds(t) /\ doing'[t].run = doing[t].run /\ runs' = runs
    <3>1. doing' = [doing EXCEPT ![t].at = "working"] \/ doing' = [doing EXCEPT ![t].at = "worked"]
      BY <1>5 DEF MarkInProgress, AgentMoves
    <3>2. doing'[t].run = doing[t].run
      BY <1>0, <3>1 DEF Doing
    <3>3. Holds(t) /\ runs' = runs
      BY <1>5 DEF MarkInProgress, AgentMoves, Holds, table
    <3>4. QED
      BY <3>2, <3>3
  <2>2. \A u \in Threads : u # t => doing'[u] = doing[u]
    BY <1>5, StepIsItsOwn DEF Step
  <2>3. QED
    BY <2>1, <2>2, HeldWhenUndisturbed DEF Undisturbed, Holds
<1>6. ASSUME NEW t \in Threads,
             ClearInProgress(t) \/ Chain(t) \/ ChainRaises(t) \/ StartRaises(t) \/ FinishRaises(t)
      PROVE  RowsAreHeld'
  <2>1. doing'[t].at \in {"ended", "cleared", "idle", "routed"} /\ runs' = runs
    <3>1. CASE ClearInProgress(t)
      <4>1. doing' = [doing EXCEPT ![t].at = "cleared"]
        BY <3>1 DEF ClearInProgress
      <4>2. QED
        BY <1>0, <3>1, <4>1 DEF ClearInProgress, Doing, table
    <3>2. CASE Chain(t) \/ ChainRaises(t) \/ StartRaises(t)
      BY <1>0, <3>2 DEF Chain, ChainRaises, StartRaises, EndOfInvocation, Idle
    <3>3. CASE FinishRaises(t)
      <4>1. doing' = [doing EXCEPT ![t].at = "ended"]
        BY <3>3 DEF FinishRaises
      <4>2. QED
        BY <1>0, <3>3, <4>1 DEF FinishRaises, Doing, table
    <3>4. QED
      BY <1>6, <3>1, <3>2, <3>3
  <2>2. \A u \in Threads : u # t => doing'[u] = doing[u]
    BY <1>6, StepIsItsOwn DEF Step
  <2>3. QED
    BY <2>1, <2>2, HeldWhenUndisturbed DEF Undisturbed, Holds
<1>7. CASE Route \/ RouteRaises \/ EpicReadsTask
  <2>1. /\ runs' = runs
        /\ \A u \in Threads : doing'[u] = doing[u] \/ doing'[u].at \in {"idle", "routed"}
    BY <1>0, <1>7 DEF Route, RouteRaises, EpicReadsTask, EndOfInvocation, Idle, table
  <2>2. QED
    BY <2>1, HeldWhenUndisturbed DEF Undisturbed, Holds
<1>8. CASE (\E approved \in BOOLEAN : HumanComments(approved)) \/ Sweeps \/ ReconcilerDies
           \/ UNCHANGED vars
  <2>1. runs' = runs /\ doing' = doing
    BY <1>8 DEF HumanComments, Sweeps, SweepLists, SweepReads, SweepClears, SweepRestarts,
       SweepRequeues, SweepPostsNotice, SweepBlocks, SweepPasses, ReconcilerDies, vars, table,
       issue
  <2>2. QED
    BY <2>1, HeldWhenUndisturbed DEF Undisturbed, Holds
<1>9. QED
  BY <1>1, <1>2, <1>3, <1>4, <1>5, <1>6, <1>7, <1>8 DEF Next, Step
-----------------------------------------------------------------------------
(* What the sweep has read, and what it has spent. *)
LEMMA SweepKeepsWhatItRead ==
  ASSUME TypeInv, [Next]_vars
  PROVE  \/ sweep'.runs = sweep.runs /\ sweep'.newest = sweep.newest
         \/ sweep'.runs = <<>>
         \/ /\ sweep'.newest = Len(runs) /\ runs' = runs
            /\ sweep'.runs = SubSeq(runs, ReadFrom(Len(runs)), Len(runs))
<1>0. NotSweeping.runs = <<>> /\ [NotSweeping EXCEPT !.at = "dead"].runs = <<>>
  BY DEF NotSweeping
<1>a. sweep \in Passes
  BY DEF TypeInv, TypeOK, Passes
<1>1. CASE Sweeps
  <2>1. CASE SweepLists \/ SweepRestarts \/ SweepRequeues \/ SweepBlocks \/ SweepPasses
    BY <1>0, <2>1 DEF SweepLists, SweepRestarts, SweepRequeues, SweepBlocks, SweepPasses
  <2>2. CASE SweepReads
    BY <1>a, <2>2 DEF SweepReads, table, Passes
  <2>3. CASE SweepClears \/ SweepPostsNotice
    <3>2. \/ sweep' = [sweep EXCEPT !.labels.marker = FALSE]
          \/ sweep' = [sweep EXCEPT !.at = "noticed"]
          \/ sweep' = NotSweeping
      BY <2>3 DEF SweepClears, SweepPostsNotice
    <3>3. /\ [sweep EXCEPT !.labels.marker = FALSE].runs = sweep.runs
          /\ [sweep EXCEPT !.labels.marker = FALSE].newest = sweep.newest
          /\ [sweep EXCEPT !.at = "noticed"].runs = sweep.runs
          /\ [sweep EXCEPT !.at = "noticed"].newest = sweep.newest
      BY <1>a DEF Passes
    <3>4. QED
      BY <1>0, <3>2, <3>3
  <2>4. QED
    BY <1>1, <2>1, <2>2, <2>3 DEF Sweeps
<1>2. CASE Restart \/ ReconcilerDies
  BY <1>0, <1>2 DEF Restart, ReconcilerDies
<1>3. CASE ~Sweeps /\ ~Restart /\ ~ReconcilerDies
  BY <1>3 DEF Next, Step, StartRun, StartRaises, MarkInProgress, AgentMoves, FinishRun,
     FinishRaises, ClearInProgress,
     Chain, ChainRaises, HumanComments, Route, RouteRaises, EpicReadsTask, TimePasses, vars
<1>4. QED
  BY <1>1, <1>2, <1>3

(* What a pass holds of its read of the table.                             *)
LEMMA WhatTheSweepHolds ==
  ASSUME TypeInv
  PROVE  /\ runs \in Seq(Rows) /\ Len(runs) \in Nat
         /\ sweep.runs \in Seq(Rows) /\ Len(sweep.runs) \in Nat
         /\ sweep.newest \in 0 .. Len(runs) /\ sweep.newest \in Nat
         /\ Len(sweep.runs) = sweep.newest + 1 - ReadFrom(sweep.newest)
         /\ ReadFrom(sweep.newest) \in Nat /\ ReadFrom(sweep.newest) >= 1
<1>1. runs \in Seq(Rows) /\ sweep \in Passes
  BY DEF TypeInv, TypeOK, Passes
<1>2. /\ sweep.runs \in Seq(Rows) /\ sweep.newest \in 0 .. Len(runs)
  BY <1>1 DEF Passes
<1>3. sweep.newest \in Nat /\ Len(runs) \in Nat /\ Len(sweep.runs) \in Nat
  BY <1>1, <1>2
<1>4. ReadFrom(sweep.newest) \in Nat /\ ReadFrom(sweep.newest) >= 1
  BY <1>3, ReadFromFact
<1>5. QED
  BY <1>1, <1>2, <1>3, <1>4 DEF TypeInv, SweepReadsThePast

LEMMA ReadNext ==
  ASSUME TypeInv, RowsAreHeld, WhatWasReadIsTrue, [Next]_vars
  PROVE  WhatWasReadIsTrue'
<1> DEFINE m == ReadFrom(sweep.newest)
<1>0. /\ Len(sweep.runs) \in Nat /\ Len(runs) \in Nat /\ sweep.newest \in 0 .. Len(runs)
      /\ Len(sweep.runs) = sweep.newest + 1 - m /\ m \in Nat /\ m >= 1 /\ runs \in Seq(Rows)
  BY WhatTheSweepHolds
<1>1. CASE sweep'.runs = sweep.runs /\ sweep'.newest = sweep.newest
  <2>1. ASSUME NEW i \in 1 .. Len(sweep.runs) PROVE Became(sweep.runs[i], runs'[m + i - 1])
    <3>1. m + i - 1 \in 1 .. Len(runs)
      BY <1>0
    <3>2. Became(sweep.runs[i], runs[m + i - 1])
      BY DEF WhatWasReadIsTrue
    <3>3. Became(runs[m + i - 1], runs'[m + i - 1])
      BY <3>1, RowsOnlyGrow DEF Grows
    <3>4. QED
      BY <3>2, <3>3 DEF Became
  <2>2. QED
    BY <1>1, <2>1 DEF WhatWasReadIsTrue
<1>2. CASE sweep'.runs = <<>>
  BY <1>2 DEF WhatWasReadIsTrue
<1>3. CASE /\ sweep'.newest = Len(runs) /\ runs' = runs
           /\ sweep'.runs = SubSeq(runs, ReadFrom(Len(runs)), Len(runs))
  <2> DEFINE read == SubSeq(runs, ReadFrom(Len(runs)), Len(runs))
             first == ReadFrom(Len(runs))
  <2>1. /\ Len(read) = Len(runs) + 1 - first /\ first \in Nat /\ first >= 1
        /\ \A i \in 1 .. Len(read) : read[i] = runs[first + i - 1]
    BY <1>0, ReadOfTheTable, ReadFromFact
  <2>2. \A i \in 1 .. Len(read) : Became(read[i], runs[first + i - 1])
    BY <2>1, BecameItself
  <2>3. QED
    BY <1>3, <2>2 DEF WhatWasReadIsTrue
<1>4. QED
  BY <1>1, <1>2, <1>3, SweepKeepsWhatItRead

(* A pass that finds the issue idle has read the newest rows as they are.  *)
LEMMA QuietReadIsTrue ==
  ASSUME TypeInv, WhatWasReadIsTrue, Quiet(sweep.runs)
  PROVE  \A i \in Reach(sweep.newest) :
           /\ runs[i].role = sweep.runs[i + 1 - ReadFrom(sweep.newest)].role
           /\ runs[i].kind = sweep.runs[i + 1 - ReadFrom(sweep.newest)].kind
           /\ runs[i].kind # "open"
<1> DEFINE m == ReadFrom(sweep.newest)
<1>1. /\ DOMAIN sweep.runs = 1 .. Len(sweep.runs) /\ Len(sweep.runs) \in Nat
      /\ Len(sweep.runs) = sweep.newest + 1 - m /\ m \in Nat /\ m >= 1
      /\ sweep.newest \in Nat
  BY WhatTheSweepHolds
<1>2. ASSUME NEW i \in Reach(sweep.newest)
      PROVE  i + 1 - m \in 1 .. Len(sweep.runs) /\ m + (i + 1 - m) - 1 = i
  BY <1>1 DEF Reach
<1> HIDE DEF m
<1>3. ASSUME NEW j \in 1 .. Len(sweep.runs)
      PROVE  /\ runs[m + j - 1].role = sweep.runs[j].role
             /\ runs[m + j - 1].kind = sweep.runs[j].kind
             /\ runs[m + j - 1].kind # "open"
  BY <1>1 DEF WhatWasReadIsTrue, Became, Quiet, m
<1>4. QED
  BY <1>2, <1>3 DEF m

(* It has read a run, and the newest there was is the last it read.        *)
LEMMA QuietHasRead ==
  ASSUME TypeInv, Quiet(sweep.runs)
  PROVE  /\ sweep.newest \in 1 .. Len(runs) /\ sweep.newest \in Reach(sweep.newest)
         /\ Len(sweep.runs) = sweep.newest + 1 - ReadFrom(sweep.newest)
         /\ sweep.runs \in Seq(Rows) /\ Len(runs) \in Nat
<1>1. /\ sweep.runs \in Seq(Rows) /\ sweep.runs # <<>> /\ sweep.newest \in 0 .. Len(runs)
      /\ Len(sweep.runs) = sweep.newest + 1 - ReadFrom(sweep.newest) /\ Len(runs) \in Nat
  BY DEF TypeInv, TypeOK, SweepReadsThePast, Quiet
<1>2. Len(sweep.runs) >= 1
  BY <1>1, EmptySeq
<1>3. sweep.newest >= 1
  <2>1. ReadFrom(0) = 1
    BY ReadFromFact
  <2>2. QED
    BY <1>1, <1>2, <2>1
<1>4. ReadFrom(sweep.newest) <= sweep.newest /\ ReadFrom(sweep.newest) \in Nat
  <2>1. sweep.newest \in Nat
    BY <1>1
  <2>2. QED
    BY <1>3, <2>1, ReadFromFact
<1>5. QED
  BY <1>1, <1>3, <1>4 DEF Reach

LEMMA SpentOnlyBySweep ==
  ASSUME [Next]_vars, ~SweepRestarts PROVE spent' = spent
BY DEF Next, Sweeps, Step, StartRun, StartRaises, MarkInProgress, AgentMoves, FinishRun,
     FinishRaises, ClearInProgress,
   Chain, ChainRaises, HumanComments, Route, RouteRaises, EpicReadsTask, TimePasses, vars,
   SweepLists, SweepReads, SweepClears, SweepRequeues, SweepPostsNotice, SweepBlocks,
   SweepPasses, ReconcilerDies, Restart, table

LEMMA ReachIsOfTheTable ==
  ASSUME NEW n \in Nat, NEW k \in 1 .. n
  PROVE  k \in Reach(k) /\ Reach(k) \subseteq 1 .. n /\ k \in Nat
<1>1. k \in Nat /\ k >= 1 /\ k <= n
  OBVIOUS
<1>2. ReadFrom(k) \in Nat /\ ReadFrom(k) >= 1 /\ ReadFrom(k) <= k
  BY <1>1, ReadFromFact
<1>3. QED
  BY <1>1, <1>2 DEF Reach

LEMMA SpentNext ==
  ASSUME TypeInv, RowsAreHeld, WhatWasReadIsTrue, SpentIsOver, [Next]_vars
  PROVE  SpentIsOver'
<1>0. spent \subseteq 1 .. Len(runs) /\ Len(runs) \in Nat
  BY DEF TypeInv, TypeOK
<1>1. ASSUME NEW k \in 1 .. Len(runs), \A i \in Reach(k) : runs[i].kind # "open"
      PROVE  \A i \in Reach(k) : runs'[i].kind # "open"
  <2>1. Reach(k) \subseteq 1 .. Len(runs)
    BY <1>0, ReachIsOfTheTable
  <2>2. QED
    BY <1>1, <2>1, RowsOnlyGrow DEF Grows, Became
<1>2. \A k \in spent : \A i \in Reach(k) : runs'[i].kind # "open"
  BY <1>0, <1>1 DEF SpentIsOver
<1>3. CASE SweepRestarts
  <2>1. spent' = spent \cup {sweep.newest} /\ Quiet(sweep.runs)
    BY <1>3 DEF SweepRestarts, StalledRole, LeftIdle
  <2>2. \A i \in Reach(sweep.newest) : runs'[i].kind # "open"
    BY <1>1, <2>1, QuietReadIsTrue, QuietHasRead
  <2>3. QED
    BY <1>2, <2>1, <2>2 DEF SpentIsOver
<1>4. CASE ~SweepRestarts
  BY <1>2, <1>4, SpentOnlyBySweep DEF SpentIsOver
<1>5. QED
  BY <1>3, <1>4

LEMMA CreditsGrow ==
  ASSUME TypeInv, RowsAreHeld, SpentIsOver, [Next]_vars, NEW r
  PROVE  Credits(runs, spent, r) \subseteq Credits(runs', spent', r)
<1>0. spent \subseteq 1 .. Len(runs) /\ Len(runs) \in Nat
  BY DEF TypeInv, TypeOK
<1>1. spent \subseteq spent'
  <2>1. SweepRestarts => spent \subseteq spent'
    BY DEF SweepRestarts
  <2>2. QED
    BY <2>1, SpentOnlyBySweep
<1>2. ASSUME NEW k \in spent, Credit(runs, k, r) PROVE Credit(runs', k, r)
  <2>1. /\ k \in 1 .. Len(runs) /\ k \in Nat /\ k \in Reach(k)
        /\ Reach(k) \subseteq 1 .. Len(runs)
    BY <1>0, ReachIsOfTheTable
  <2>2. \A i \in Reach(k) : runs'[i].role = runs[i].role /\ runs'[i].kind = runs[i].kind
    BY <1>0, <2>1, RowsOnlyGrow DEF Grows, Became, SpentIsOver
  <2>3. FailuresUpTo(runs', k) = FailuresUpTo(runs, k)
    BY <2>1, <2>2, SameFailures
  <2>4. runs'[k].role = runs[k].role /\ runs'[k].kind = runs[k].kind
    BY <2>1, <2>2
  <2>5. QED
    BY <1>2, <2>3, <2>4 DEF Credit
<1>3. QED
  BY <1>1, <1>2 DEF Credits

(* What the sweep queues, the run it is for has credit for.                *)
LEMMA QueuedHasCredit ==
  ASSUME TypeInv, WhatWasReadIsTrue, StalledRole(sweep.labels, sweep.runs) # "none"
  PROVE  /\ sweep.newest \in 1 .. Len(runs)
         /\ Credit(runs, sweep.newest, StalledRole(sweep.labels, sweep.runs))
<1> DEFINE rs == sweep.runs
           k == sweep.newest
           r == StalledRole(sweep.labels, rs)
<1>0. /\ rs \in Seq(Rows) /\ k \in Nat /\ k >= 1 /\ k \in 1 .. Len(runs) /\ Quiet(rs)
      /\ runs \in Seq(Rows) /\ k \in Reach(k) /\ Len(rs) = k + 1 - ReadFrom(k)
  <2>1. Quiet(rs)
    BY DEF StalledRole, LeftIdle
  <2>2. QED
    BY <2>1, QuietHasRead DEF TypeInv, TypeOK
<1>1. \A i \in Reach(k) : /\ runs[i].role = rs[i + 1 - ReadFrom(k)].role
                          /\ runs[i].kind = rs[i + 1 - ReadFrom(k)].kind
  BY <1>0, QuietReadIsTrue
<1>2. /\ Cardinality(FailuresUpTo(runs, k)) <= ConsecutiveFailures(rs)
      /\ Cardinality(FailuresUpTo(runs, k)) \in Nat /\ ConsecutiveFailures(rs) \in Nat
  <2>1. Cardinality(FailuresUpTo(runs, k)) <= ConsecutiveFailures(rs)
    BY <1>0, <1>1, ReadCounts
  <2>2. ConsecutiveFailures(rs) \in Nat
    <3>1. SinceSuccess(rs) \subseteq 1 .. Len(rs) /\ Len(rs) \in Nat
      BY <1>0 DEF SinceSuccess
    <3>2. IsFiniteSet(1 .. Len(rs))
      BY <3>1, FS_Interval
    <3>3. QED
      BY <3>1, <3>2, FS_Subset, FS_CardinalityType DEF ConsecutiveFailures
  <2>3. QED
    BY <1>0, <2>1, <2>2, ReachIsFinite
<1>3. runs[k].role = Newest(rs).role /\ runs[k].kind = Newest(rs).kind
  BY <1>0, <1>1 DEF Newest
<1>4. CASE Unfinished(sweep.labels, rs)
  <2>1. r = Newest(rs).role /\ MayRetry(rs)
    BY <1>0, <1>4 DEF StalledRole
  <2>2. Newest(rs).kind = "failed" => ConsecutiveFailures(rs) <= MaxRetries
    BY <2>1 DEF MayRetry
  <2>3. QED
    BY <1>0, <1>2, <1>3, <2>1, <2>2 DEF Credit, MaxRetries
<1>5. CASE ~Unfinished(sweep.labels, rs)
  <2>1. Expedited /\ r = ExpeditedNext(sweep.labels.state)
    BY <1>5 DEF StalledRole
  <2>2. sweep.labels.state \in RoleStarts[r]
    BY <2>1, ExpeditedNextIsARole
  <2>3. r = Newest(rs).role => Newest(rs).kind # "failed"
    BY <1>5, <2>2 DEF Unfinished, AtItsStart
  <2>4. QED
    BY <1>0, <1>3, <2>1, <2>3 DEF Credit
<1>6. QED
  BY <1>4, <1>5
-----------------------------------------------------------------------------
(* The deliveries that wait. *)
LEMMA AppendedBehind ==
  ASSUME NEW q \in Seq(Deliveries), NEW d \in Deliveries, NEW first \in {1, 2}, NEW r
  PROVE  /\ Pending(Append(q, d), first, r) \subseteq Pending(q, first, r) \cup {Len(q) + 1}
         /\ ~(d.kind = "restart" /\ d.role = r) =>
              Pending(Append(q, d), first, r) = Pending(q, first, r)
         /\ q # <<>> => Append(q, d)[1] = q[1]
<1> DEFINE n == Len(q)
           p == Append(q, d)
<1>1. n \in Nat /\ Len(p) = n + 1 /\ p[n + 1] = d /\ \A i \in 1 .. n : p[i] = q[i]
  OBVIOUS
<1>2. q # <<>> => 1 \in 1 .. n
  BY <1>1, EmptySeq
<1> HIDE DEF p
<1>3. ASSUME NEW i \in first .. Len(p) PROVE i \in first .. n \/ i = n + 1
  BY <1>1
<1>4. ASSUME NEW i \in first .. n PROVE i \in first .. Len(p) /\ p[i] = q[i]
  BY <1>1
<1>5. Pending(p, first, r) \subseteq Pending(q, first, r) \cup {n + 1}
  BY <1>3, <1>4 DEF Pending
<1>6. ~(d.kind = "restart" /\ d.role = r) => Pending(p, first, r) = Pending(q, first, r)
  BY <1>1, <1>3, <1>4 DEF Pending
<1>7. QED
  BY <1>1, <1>2, <1>5, <1>6 DEF p

LEMMA TakenOffTheFront ==
  ASSUME NEW q \in Seq(Deliveries), q # <<>>, NEW first \in {1, 2}, NEW r
  PROVE  Cardinality(Pending(Tail(q), 1, r)) <= Cardinality(Pending(q, first, r))
<1> DEFINE n == Len(q)
           A == Pending(Tail(q), 1, r)
           B == Pending(q, first, r)
           f == [i \in A |-> i + 1]
<1>1. n \in Nat /\ Len(Tail(q)) = n - 1 /\ \A i \in 1 .. n - 1 : Tail(q)[i] = q[i + 1]
  BY EmptySeq
<1>2. ASSUME NEW i \in A PROVE i \in Nat /\ i + 1 \in B
  BY <1>1 DEF Pending
<1>3. IsFiniteSet(B)
  <2>1. first \in Int /\ n \in Int /\ B \subseteq first .. n
    BY <1>1 DEF Pending
  <2>2. QED
    BY <2>1, FS_Interval, FS_Subset
<1>4. f \in Injection(A, B)
  <2>1. f \in [A -> B] /\ \A i, j \in A : f[i] = f[j] => i = j
    BY <1>2
  <2> HIDE DEF A, B, f
  <2>2. QED
    BY <2>1, Fun_IsInj
<1>5. QED
  BY <1>3, <1>4, FS_Injection

-----------------------------------------------------------------------------
(* How far the issue's own delivery is. *)
LEMMA FirstFact == \A own : First(own) \in {1, 2} /\ (First(own) = 1 <=> Untouched(own))
BY DEF First

(* What the sweep and people put into the inbox.                           *)
LEMMA QueuesNoRestart ==
  ASSUME TypeInv, (\E approved \in BOOLEAN : HumanComments(approved)) \/ SweepRequeues
  PROVE  \E d \in Deliveries : d.kind # "restart" /\ inbox' = Append(inbox, d)
<1>1. ASSUME NEW approved \in BOOLEAN, HumanComments(approved)
      PROVE  \E d \in Deliveries : d.kind # "restart" /\ inbox' = Append(inbox, d)
  <2> DEFINE d == [kind |-> "comment", approved |-> approved, labels |-> Now]
  <2>1. d \in Deliveries /\ d.kind # "restart"
    BY NowIsLabels DEF Deliveries, TypeInv
  <2>2. inbox' = Append(inbox, d)
    BY <1>1 DEF HumanComments
  <2> HIDE DEF d
  <2>3. QED
    BY <2>1, <2>2
<1>2. CASE SweepRequeues
  <2> DEFINE d == [kind |-> "labeled", labels |-> sweep.labels]
  <2>1. d \in Deliveries /\ d.kind # "restart"
    BY DEF Deliveries, TypeInv, TypeOK
  <2>2. inbox' = Append(inbox, d)
    BY <1>2 DEF SweepRequeues, Queue
  <2> HIDE DEF d
  <2>3. QED
    BY <2>1, <2>2
<1>3. QED
  BY <1>1, <1>2

LEMMA QueuesARestart ==
  ASSUME TypeInv, SweepRestarts
  PROVE  \/ inbox' = inbox
         \/ /\ sweep.newest \notin spent
            /\ \E d \in Deliveries :
                 d.role = StalledRole(sweep.labels, sweep.runs) /\ inbox' = Append(inbox, d)
<1> DEFINE role == StalledRole(sweep.labels, sweep.runs)
           d == [kind |-> "restart", role |-> role, expect |-> sweep.labels.state]
<1>0. sweep.labels \in Labels /\ sweep.runs \in Seq(Rows)
  BY DEF TypeInv, TypeOK
<1>1. role \in Roles
  BY <1>0, StalledRoleStarts DEF SweepRestarts
<1>2. d \in Deliveries /\ d.role = role
  BY <1>0, <1>1 DEF Deliveries, Labels
<1>3. inbox' = inbox \/ (inbox' = Append(inbox, d) /\ sweep.newest \notin spent)
  BY DEF SweepRestarts, Queue
<1> HIDE DEF d
<1>4. QED
  BY <1>2, <1>3

LEMMA HeadNext ==
  ASSUME TypeInv, RoutedIsTheHead, [Next]_vars
  PROVE  RoutedIsTheHead'
<1>0. doing \in [Threads -> Doing] /\ inbox \in Seq(Deliveries)
  BY DoingFact DEF TypeInv, TypeOK
<1>1. ASSUME NEW t \in Threads, Step(t) PROVE RoutedIsTheHead'
  <2>1. doing'[t].at # "routed" \/ doing'[t].why = "chain"
    <3>1. CASE StartRun(t)
      <4>1. doing'[t].at = "opened"
        BY <1>0, <3>1 DEF StartRun, Doing
      <4>2. QED
        BY <4>1
    <3>2. ASSUME NEW a \in {"working", "worked", "ended", "cleared"},
                 doing' = [doing EXCEPT ![t].at = a]
          PROVE  doing'[t].at # "routed"
      BY <1>0, <3>2 DEF Doing
    <3>3. CASE MarkInProgress(t) \/ AgentMoves(t) \/ (\E kind \in Kinds : FinishRun(t, kind))
               \/ FinishRaises(t) \/ ClearInProgress(t)
      BY <3>2, <3>3 DEF MarkInProgress, AgentMoves, FinishRun, FinishRaises, ClearInProgress
    <3>4. CASE Chain(t) \/ ChainRaises(t) \/ StartRaises(t)
      BY <1>0, <3>4 DEF Chain, ChainRaises, StartRaises, EndOfInvocation, Idle
    <3>5. QED
      BY <1>1, <3>1, <3>3, <3>4 DEF Step
  <2>2. \A u \in Threads : u # t => doing'[u] = doing[u]
    BY <1>1, StepIsItsOwn
  <2>3. t # "own" => inbox' = inbox
    BY <1>1 DEF Step, StartRun, StartRaises, MarkInProgress, AgentMoves, FinishRun,
       FinishRaises, ClearInProgress, Chain,
       ChainRaises, EndOfInvocation, table
  <2>4. QED
    BY <2>1, <2>2, <2>3 DEF RoutedIsTheHead, Threads
<1>2. CASE Route
  <2> DEFINE d == Head(inbox)
  <2>1. d = inbox[1]
    BY <1>0, <1>2 DEF Route
  <2>2. doing'["epic"] = doing["epic"]
    BY <1>0, <1>2 DEF Route, EndOfInvocation, Threads
  <2>3. CASE RouteStarts(d) = "none"
    <3>1. doing'["own"].at = "idle"
      BY <1>0, <1>2, <2>3 DEF Route, EndOfInvocation, Idle, Threads
    <3>2. QED
      BY <2>2, <3>1 DEF RoutedIsTheHead
  <2>4. CASE RouteStarts(d) # "none"
    <3>1. /\ inbox' = inbox
          /\ doing'["own"] = [at |-> "routed", role |-> RouteStarts(d), run |-> 0, why |-> d.kind]
      BY <1>0, <1>2, <2>4 DEF Route, Threads
    <3>2. d.kind = "restart" => RouteStarts(d) = d.role
      BY <2>4 DEF RouteStarts, RestartStarts
    <3>3. QED
      BY <2>1, <2>2, <3>1, <3>2 DEF RoutedIsTheHead
  <2>5. QED
    BY <2>3, <2>4
<1>3. CASE RouteRaises
  <2>1. doing'["own"].at = "idle" /\ doing'["epic"] = doing["epic"]
    BY <1>0, <1>3 DEF RouteRaises, EndOfInvocation, Idle, Threads
  <2>2. QED
    BY <2>1 DEF RoutedIsTheHead
<1>4. CASE EpicReadsTask
  <2>1. doing'["own"] = doing["own"] /\ inbox' = inbox /\ doing'["epic"].why = "epic"
    BY <1>0, <1>4 DEF EpicReadsTask, Threads, table
  <2>2. QED
    BY <2>1 DEF RoutedIsTheHead
<1>5. CASE Restart
  <2>1. doing'["own"].at = "idle" /\ doing'["epic"].at = "idle"
    BY <1>5 DEF Restart, Idle, Threads
  <2>2. QED
    BY <2>1 DEF RoutedIsTheHead
<1>6. CASE (\E approved \in BOOLEAN : HumanComments(approved)) \/ SweepRestarts \/ SweepRequeues
  <2>1. doing' = doing
    BY <1>6 DEF HumanComments, SweepRestarts, SweepRequeues
  <2>2. inbox' = inbox \/ \E d \in Deliveries : inbox' = Append(inbox, d)
    BY <1>6, QueuesNoRestart, QueuesARestart
  <2>3. doing["own"].at # "idle" => inbox # <<>>
    BY DEF TypeInv, WorksOnADelivery
  <2>4. doing["own"].at # "idle" => inbox'[1] = inbox[1]
    BY <1>0, <2>2, <2>3, AppendedBehind
  <2>5. QED
    BY <2>1, <2>4 DEF RoutedIsTheHead
<1>7. CASE SweepLists \/ SweepReads \/ SweepClears \/ SweepPostsNotice \/ SweepBlocks
           \/ SweepPasses \/ ReconcilerDies \/ TimePasses \/ UNCHANGED vars
  <2>1. UNCHANGED <<inbox, doing>>
    BY <1>7 DEF SweepLists, SweepReads, SweepClears, SweepPostsNotice, SweepBlocks,
       SweepPasses, ReconcilerDies, TimePasses, vars, issue, table
  <2>2. QED
    BY <2>1 DEF RoutedIsTheHead
<1>8. QED
  BY <1>1, <1>2, <1>3, <1>4, <1>5, <1>6, <1>7 DEF Next, Sweeps
-----------------------------------------------------------------------------
(* The balance of restarts. *)
Waits(r) == Pending(inbox, First(doing["own"]), r)

LEMMA NumbersOf ==
  ASSUME TypeInv, NEW r
  PROVE  /\ Cardinality(Restarted(runs, r)) \in Nat /\ Cardinality(Waits(r)) \in Nat
         /\ Cardinality(Credits(runs, spent, r)) \in Nat /\ restarts \in Nat
         /\ IsFiniteSet(Restarted(runs, r)) /\ IsFiniteSet(Waits(r))
         /\ IsFiniteSet(Credits(runs, spent, r))
<1>1. runs \in Seq(Rows) /\ inbox \in Seq(Deliveries) /\ spent \in SUBSET (1 .. Len(runs))
      /\ restarts \in Nat
  BY BoundsAreNumbers DEF TypeInv, TypeOK
<1>2. First(doing["own"]) \in {1, 2}
  BY FirstFact
<1>3. QED
  BY <1>1, <1>2, PartsAreFinite DEF Waits

LEMMA NumbersNext ==
  ASSUME TypeInv', NEW r
  PROVE  /\ Cardinality(Restarted(runs', r)) \in Nat
         /\ Cardinality(Pending(inbox', First(doing'["own"]), r)) \in Nat
         /\ Cardinality(Credits(runs', spent', r)) \in Nat
         /\ IsFiniteSet(Credits(runs', spent', r))
<1>1. runs' \in Seq(Rows) /\ inbox' \in Seq(Deliveries) /\ spent' \in SUBSET (1 .. Len(runs'))
  BY DEF TypeInv, TypeOK
<1>2. First(doing'["own"]) \in {1, 2}
  BY FirstFact
<1>3. QED
  BY <1>1, <1>2, PartsAreFinite

LEMMA BalanceIsKept ==
  ASSUME TypeInv, TypeInv', NEW r, Balanced(r),
         Restarted(runs', r) \subseteq Restarted(runs, r),
         Cardinality(Waits(r)') <= Cardinality(Waits(r)),
         Credits(runs, spent, r) \subseteq Credits(runs', spent', r),
         restarts' = restarts
  PROVE  Balanced(r)'
<1> DEFINE a == Cardinality(Restarted(runs, r))
           a2 == Cardinality(Restarted(runs', r))
           b == Cardinality(Waits(r))
           b2 == Cardinality(Pending(inbox', First(doing'["own"]), r))
           c == Cardinality(Credits(runs, spent, r))
           c2 == Cardinality(Credits(runs', spent', r))
<1>1. a \in Nat /\ b \in Nat /\ c \in Nat /\ restarts \in Nat
      /\ IsFiniteSet(Restarted(runs, r))
  BY NumbersOf
<1>2. a2 \in Nat /\ b2 \in Nat /\ c2 \in Nat
      /\ IsFiniteSet(Credits(runs', spent', r))
  BY NumbersNext
<1>3. a2 <= a /\ b2 <= b /\ c <= c2
  BY <1>1, <1>2, FS_Subset DEF Waits
<1>4. a + b <= c + restarts
  BY DEF Balanced, Waits
<1>5. a2 + b2 <= c2 + restarts
  <2> HIDE DEF a, b, c, a2, b2, c2
  <2>1. QED
    BY <1>1, <1>2, <1>3, <1>4
<1>6. QED
  BY <1>5 DEF Balanced, Waits

(* Rows that only change their age and kind.                               *)
LEMMA RestartedSame ==
  ASSUME Len(runs') = Len(runs), Grows, NEW r
  PROVE  Restarted(runs', r) = Restarted(runs, r)
BY DEF Restarted, Grows, Became

LEMMA WaitsShrinks ==
  ASSUME TypeInv, NEW r, inbox' = inbox, First(doing["own"]) <= First(doing'["own"])
  PROVE  Cardinality(Waits(r)') <= Cardinality(Waits(r))
<1>1. First(doing["own"]) \in {1, 2} /\ First(doing'["own"]) \in {1, 2}
  BY FirstFact
<1>2. Waits(r)' \subseteq Waits(r)
  BY <1>1 DEF Waits, Pending
<1>3. QED
  BY <1>2, NumbersOf, FS_Subset

LEMMA WaitsAfterTheEnd ==
  ASSUME TypeInv, NEW r, inbox # <<>>, EndOfInvocation("own")
  PROVE  Cardinality(Waits(r)') <= Cardinality(Waits(r))
<1>1. inbox \in Seq(Deliveries) /\ First(doing["own"]) \in {1, 2}
  BY FirstFact DEF TypeInv, TypeOK
<1>2. inbox' = Tail(inbox) /\ doing'["own"] = Idle
  BY DoingFact DEF EndOfInvocation, Threads
<1>3. First(doing'["own"]) = 1
  BY <1>2 DEF First, Untouched, Idle
<1>4. QED
  BY <1>1, <1>2, <1>3, TakenOffTheFront DEF Waits

LEMMA BalanceStep ==
  ASSUME CapInv, NEW t \in Threads, Step(t), NEW r \in Roles
  PROVE  Balanced(r)'
<1>0. TypeInv /\ TypeInv' /\ Balanced(r) /\ [Next]_vars /\ restarts' = restarts
  <2>1. TypeInv'
    BY StepTypes DEF CapInv
  <2>2. restarts' = restarts
    BY DEF Step, StartRun, StartRaises, MarkInProgress, AgentMoves, FinishRun,
       FinishRaises, ClearInProgress, Chain,
       ChainRaises, history
  <2>3. QED
    BY <2>1, <2>2 DEF CapInv, Next
<1>a. Credits(runs, spent, r) \subseteq Credits(runs', spent', r)
  BY <1>0, CreditsGrow DEF CapInv
<1>b. doing \in [Threads -> Doing] /\ "own" \in Threads
  BY <1>0, DoingFact DEF Threads
<1>d. StartRun(t) => Len(runs') = Len(runs) + 1 /\ Len(runs) \in Nat
  BY <1>0, RowIsAdded
<1>c. t # "own" => First(doing'["own"]) = First(doing["own"])
  BY <1>0, <1>b, StepIsItsOwn
<1>1. CASE StartRun(t)
  <2>1. inbox' = inbox
    BY <1>1 DEF StartRun
  <2>2. doing'[t].at = "opened" /\ doing[t].at = "routed"
    BY <1>b, <1>1 DEF StartRun, Doing
  <2>3. t = "own" => First(doing'["own"]) = 2
    BY <2>2 DEF First, Untouched
  <2>4. First(doing["own"]) <= First(doing'["own"])
    BY <1>c, <2>3, FirstFact
  <2>5. CASE doing[t].why # "restart" \/ doing[t].role # r
    <3>1. Restarted(runs', r) \subseteq Restarted(runs, r)
      <4>1. \A i \in 1 .. Len(runs') : i \in 1 .. Len(runs) \/ i = Len(runs) + 1
        BY <1>d, <1>1
      <4>2. ~(runs'[Len(runs) + 1].why = "restart" /\ runs'[Len(runs) + 1].role = r)
        <5>1. runs'[Len(runs) + 1] =
                [role |-> doing[t].role, kind |-> "open", age |-> 0, why |-> doing[t].why]
          BY <1>0, <1>1, RowIsAdded
        <5>2. QED
          BY <2>5, <5>1
      <4>3. \A i \in 1 .. Len(runs) : runs'[i] = runs[i]
        BY <1>0, <1>1, RowIsAdded
      <4>4. QED
        BY <4>1, <4>2, <4>3 DEF Restarted
    <3>2. Cardinality(Waits(r)') <= Cardinality(Waits(r))
      BY <1>0, <2>1, <2>4, WaitsShrinks
    <3>3. QED
      BY <1>0, <1>a, <3>1, <3>2, BalanceIsKept
  <2>6. CASE doing[t].why = "restart" /\ doing[t].role = r
    <3>1. t = "own" /\ First(doing["own"]) = 1
      BY <2>2, <2>6 DEF CapInv, RoutedIsTheHead, Threads, First, Untouched
    <3>2. inbox[1].kind = "restart" /\ inbox[1].role = r /\ 1 \in 1 .. Len(inbox)
      <4>1. inbox # <<>> /\ inbox \in Seq(Deliveries)
        BY <1>0, <2>2, <3>1 DEF TypeInv, TypeOK, WorksOnADelivery
      <4>2. QED
        BY <2>2, <2>6, <3>1, <4>1, EmptySeq DEF CapInv, RoutedIsTheHead
    <3>3. 1 \in Waits(r) /\ Waits(r)' \subseteq Waits(r) \ {1}
      <4>1. 1 \in Waits(r)
        BY <3>1, <3>2 DEF Waits, Pending
      <4>2. First(doing'["own"]) = 2
        BY <2>3, <3>1
      <4>3. QED
        BY <2>1, <3>1, <4>1, <4>2 DEF Waits, Pending
    <3>4. Restarted(runs', r) \subseteq Restarted(runs, r) \cup {Len(runs) + 1}
      <4>1. \A i \in 1 .. Len(runs') : i \in 1 .. Len(runs) \/ i = Len(runs) + 1
        BY <1>d, <1>1
      <4>2. \A i \in 1 .. Len(runs) : runs'[i] = runs[i]
        BY <1>0, <1>1, RowIsAdded
      <4>3. QED
        BY <4>1, <4>2 DEF Restarted
    <3> DEFINE a == Cardinality(Restarted(runs, r))
               a2 == Cardinality(Restarted(runs', r))
               b == Cardinality(Waits(r))
               b2 == Cardinality(Pending(inbox', First(doing'["own"]), r))
               c == Cardinality(Credits(runs, spent, r))
               c2 == Cardinality(Credits(runs', spent', r))
    <3>5. a \in Nat /\ b \in Nat /\ c \in Nat /\ restarts \in Nat
          /\ IsFiniteSet(Restarted(runs, r)) /\ IsFiniteSet(Waits(r))
      BY <1>0, NumbersOf
    <3>6. a2 \in Nat /\ b2 \in Nat /\ c2 \in Nat /\ IsFiniteSet(Credits(runs', spent', r))
      BY <1>0, NumbersNext
    <3>7. a2 <= a + 1
      <4>1. IsFiniteSet({Len(runs) + 1}) /\ Cardinality({Len(runs) + 1}) = 1
        BY FS_Singleton
      <4>2. QED
        BY <3>4, <3>5, <4>1, AtMostBoth
    <3>8. b2 <= b - 1
      <4>1. IsFiniteSet(Waits(r) \ {1}) /\ Cardinality(Waits(r) \ {1}) = b - 1
        BY <3>3, <3>5, FS_RemoveElement
      <4>2. QED
        BY <3>3, <4>1, FS_Subset DEF Waits
    <3>9. c <= c2
      BY <1>a, <3>6, FS_Subset
    <3>10. a + b <= c + restarts
      BY <1>0 DEF Balanced, Waits
    <3>11. a2 + b2 <= c2 + restarts
      <4> HIDE DEF a, b, c, a2, b2, c2
      <4>1. QED
        BY <3>5, <3>6, <3>7, <3>8, <3>9, <3>10
    <3>12. QED
      BY <1>0, <3>11 DEF Balanced, Waits
  <2>7. QED
    BY <2>5, <2>6
<1>2. CASE MarkInProgress(t) \/ AgentMoves(t) \/ (\E kind \in Kinds : FinishRun(t, kind))
           \/ FinishRaises(t) \/ ClearInProgress(t)
  <2>1. /\ inbox' = inbox /\ doing[t].at \in {"opened", "working", "worked", "ended"}
        /\ doing'[t].at \in {"working", "worked", "ended", "cleared"}
    <3>1. ASSUME NEW x \in {"working", "worked", "ended", "cleared"},
                 doing' = [doing EXCEPT ![t].at = x]
          PROVE  doing'[t].at = x
      BY <1>b, <3>1 DEF Doing
    <3>2. QED
      BY <1>2, <3>1 DEF MarkInProgress, AgentMoves, FinishRun, FinishRaises, ClearInProgress, table
  <2>2. First(doing["own"]) <= First(doing'["own"])
    <3>1. t = "own" => First(doing["own"]) = 2 /\ First(doing'["own"]) = 2
      BY <2>1 DEF First, Untouched
    <3>2. QED
      BY <1>c, <3>1, FirstFact
  <2>3. Len(runs') = Len(runs) /\ Grows
    <3>1. Grows
      BY <1>0, RowsOnlyGrow DEF CapInv
    <3>2. CASE \E kind \in Kinds : FinishRun(t, kind)
      BY <1>0, <3>1, <3>2, RowIsWritten DEF CapInv
    <3>3. CASE MarkInProgress(t) \/ AgentMoves(t) \/ FinishRaises(t) \/ ClearInProgress(t)
      BY <3>1, <3>3 DEF MarkInProgress, AgentMoves, FinishRaises, ClearInProgress, table
    <3>4. QED
      BY <1>2, <3>2, <3>3
  <2>4. Restarted(runs', r) \subseteq Restarted(runs, r)
    BY <2>3, RestartedSame
  <2>5. Cardinality(Waits(r)') <= Cardinality(Waits(r))
    BY <1>0, <2>1, <2>2, WaitsShrinks
  <2>6. QED
    BY <1>0, <1>a, <2>4, <2>5, BalanceIsKept
<1>3. CASE Chain(t) \/ ChainRaises(t) \/ StartRaises(t)
  <2>1. runs' = runs /\ doing[t].at # "idle"
    BY <1>3 DEF Chain, ChainRaises, StartRaises
  <2>2. Cardinality(Waits(r)') <= Cardinality(Waits(r))
    <3>1. CASE EndOfInvocation(t) /\ t = "own"
      <4>1. inbox # <<>>
        BY <1>0, <2>1, <3>1 DEF TypeInv, WorksOnADelivery
      <4>2. QED
        BY <1>0, <3>1, <4>1, WaitsAfterTheEnd
    <3>2. CASE EndOfInvocation(t) /\ t # "own"
      <4>1. inbox' = inbox
        BY <3>2 DEF EndOfInvocation
      <4>2. First(doing["own"]) <= First(doing'["own"])
        BY <1>c, <3>2, FirstFact
      <4>3. QED
        BY <1>0, <4>1, <4>2, WaitsShrinks
    <3>3. CASE ~EndOfInvocation(t)
      <4>1. /\ inbox' = inbox /\ doing[t].at = "cleared"
            /\ doing' = [doing EXCEPT ![t] = [at |-> "routed", role |-> ChainsTo(t),
                                              run |-> 0, why |-> "chain"]]
        BY <1>3, <3>3 DEF Chain, ChainRaises, StartRaises
      <4>2. t = "own" => First(doing["own"]) = 2 /\ First(doing'["own"]) = 2
        BY <1>b, <4>1 DEF First, Untouched
      <4>3. First(doing["own"]) <= First(doing'["own"])
        BY <1>c, <4>2, FirstFact
      <4>4. QED
        BY <1>0, <4>1, <4>3, WaitsShrinks
    <3>4. QED
      BY <3>1, <3>2, <3>3
  <2>3. QED
    BY <1>0, <1>a, <2>1, <2>2, BalanceIsKept
<1>4. QED
  BY <1>1, <1>2, <1>3 DEF Step

(* The sweep queues a restart, and counts the run it queued it for.        *)
LEMMA BalanceOfQueued ==
  ASSUME CapInv, SweepRestarts, NEW r \in Roles
  PROVE  Balanced(r)'
<1> DEFINE k == sweep.newest
           role == StalledRole(sweep.labels, sweep.runs)
           first == First(doing["own"])
<1>0. /\ TypeInv /\ TypeInv' /\ Balanced(r) /\ [Next]_vars
      /\ runs' = runs /\ doing' = doing /\ restarts' = restarts /\ spent' = spent \cup {k}
      /\ role # "none" /\ inbox \in Seq(Deliveries) /\ first \in {1, 2}
  <2>1. TypeInv /\ Balanced(r) /\ [Next]_vars
    BY DEF CapInv, Next, Sweeps
  <2>2. TypeInv'
    BY <2>1, NextTypes
  <2>3. QED
    BY <2>1, <2>2, FirstFact DEF SweepRestarts, history, TypeInv, TypeOK
<1>1. Credits(runs, spent, r) \subseteq Credits(runs', spent', r)
  BY <1>0, CreditsGrow DEF CapInv
<1>2. CASE inbox' = inbox \/ role # r
  <2>1. Waits(r)' \subseteq Waits(r)
    <3>1. CASE inbox' = inbox
      BY <1>0, <3>1 DEF Waits
    <3>2. CASE inbox' # inbox /\ role # r
      <4>1. PICK d \in Deliveries : inbox' = Append(inbox, d) /\ d.role = role
        BY <1>0, <3>2, QueuesARestart
      <4>2. Pending(Append(inbox, d), first, r) = Pending(inbox, first, r)
        BY <1>0, <3>2, <4>1, AppendedBehind
      <4>3. QED
        BY <1>0, <4>1, <4>2 DEF Waits
    <3>3. QED
      BY <1>2, <3>1, <3>2
  <2>2. Cardinality(Waits(r)') <= Cardinality(Waits(r))
    BY <1>0, <2>1, NumbersOf, FS_Subset
  <2>3. QED
    BY <1>0, <1>1, <2>2, BalanceIsKept
<1>3. CASE inbox' # inbox /\ role = r
  <2> DEFINE a == Cardinality(Restarted(runs, r))
             b == Cardinality(Waits(r))
             b2 == Cardinality(Pending(inbox', First(doing'["own"]), r))
             c == Cardinality(Credits(runs, spent, r))
             c2 == Cardinality(Credits(runs', spent', r))
  <2>1. a \in Nat /\ b \in Nat /\ c \in Nat /\ restarts \in Nat
        /\ IsFiniteSet(Waits(r)) /\ IsFiniteSet(Credits(runs, spent, r))
    BY <1>0, NumbersOf
  <2>2. b2 \in Nat /\ c2 \in Nat /\ IsFiniteSet(Credits(runs', spent', r))
    BY <1>0, NumbersNext
  <2>3. PICK d \in Deliveries : inbox' = Append(inbox, d)
    BY <1>0, <1>3, QueuesARestart
  <2>4. b2 <= b + 1
    <3>1. Pending(inbox', First(doing'["own"]), r) \subseteq Waits(r) \cup {Len(inbox) + 1}
      BY <1>0, <2>3, AppendedBehind DEF Waits
    <3>2. IsFiniteSet({Len(inbox) + 1}) /\ Cardinality({Len(inbox) + 1}) = 1
      BY FS_Singleton
    <3>3. QED
      BY <2>1, <3>1, <3>2, AtMostBoth
  <2>5. c + 1 <= c2
    <3>1. k \notin spent
      BY <1>3 DEF SweepRestarts
    <3>2. k \in Credits(runs', spent', r) /\ k \notin Credits(runs, spent, r)
      BY <1>0, <1>3, <3>1, QueuedHasCredit DEF CapInv, Credits
    <3>3. /\ IsFiniteSet(Credits(runs, spent, r) \cup {k})
          /\ Cardinality(Credits(runs, spent, r) \cup {k}) = c + 1
      BY <2>1, <3>2, FS_AddElement
    <3>4. Credits(runs, spent, r) \cup {k} \subseteq Credits(runs', spent', r)
      BY <1>1, <3>2
    <3>5. QED
      BY <2>2, <3>3, <3>4, FS_Subset
  <2>6. a + b <= c + restarts
    BY <1>0 DEF Balanced, Waits
  <2>7. a + b2 <= c2 + restarts
    <3> HIDE DEF a, b, b2, c, c2
    <3>1. QED
      BY <2>1, <2>2, <2>4, <2>5, <2>6
  <2>8. QED
    BY <1>0, <2>7 DEF Balanced, Waits
<1>4. QED
  BY <1>2, <1>3

(* The process stops: the delivery at the head of the inbox is routed      *)
(* again, whatever it has started.                                         *)
LEMMA BalanceOfStopped ==
  ASSUME CapInv, Restart, NEW r \in Roles
  PROVE  Balanced(r)'
<1> DEFINE a == Cardinality(Restarted(runs, r))
           b == Cardinality(Waits(r))
           b2 == Cardinality(Pending(inbox', First(doing'["own"]), r))
           c == Cardinality(Credits(runs, spent, r))
           c2 == Cardinality(Credits(runs', spent', r))
<1>0. /\ TypeInv /\ TypeInv' /\ Balanced(r) /\ [Next]_vars
      /\ inbox' = inbox /\ restarts' = restarts + 1
  <2>1. TypeInv /\ Balanced(r) /\ [Next]_vars
    BY DEF CapInv, Next
  <2>2. TypeInv'
    BY <2>1, NextTypes
  <2>3. QED
    BY <2>1, <2>2 DEF Restart
<1>1. Credits(runs, spent, r) \subseteq Credits(runs', spent', r)
  BY <1>0, CreditsGrow DEF CapInv
<1>2. Restarted(runs', r) = Restarted(runs, r)
  BY <1>0, RowsAreClosed, RestartedSame
<1>3. a \in Nat /\ b \in Nat /\ c \in Nat /\ restarts \in Nat /\ IsFiniteSet(Waits(r))
  BY <1>0, NumbersOf
<1>4. b2 \in Nat /\ c2 \in Nat /\ IsFiniteSet(Credits(runs', spent', r))
  BY <1>0, NumbersNext
<1>5. b2 <= b + 1
  <2>1. Pending(inbox', First(doing'["own"]), r) \subseteq Waits(r) \cup {1}
    <3>1. First(doing["own"]) \in {1, 2} /\ First(doing'["own"]) \in {1, 2}
      BY FirstFact
    <3>2. QED
      BY <1>0, <3>1 DEF Waits, Pending
  <2>2. IsFiniteSet({1}) /\ Cardinality({1}) = 1
    BY FS_Singleton
  <2>3. QED
    BY <1>3, <2>1, <2>2, AtMostBoth
<1>6. c <= c2
  BY <1>1, <1>4, FS_Subset
<1>7. a + b <= c + restarts
  BY <1>0 DEF Balanced, Waits
<1>8. a + b2 <= c2 + restarts'
  <2> HIDE DEF a, b, b2, c, c2
  <2>1. QED
    BY <1>0, <1>3, <1>4, <1>5, <1>6, <1>7
<1>9. QED
  BY <1>2, <1>8 DEF Balanced, Waits

LEMMA BalanceNext ==
  ASSUME CapInv, [Next]_vars, NEW r \in Roles
  PROVE  Balanced(r)'
<1>0. /\ TypeInv /\ TypeInv' /\ Balanced(r) /\ inbox \in Seq(Deliveries)
      /\ doing \in [Threads -> Doing]
  <2>1. TypeInv /\ Balanced(r)
    BY DEF CapInv
  <2>2. QED
    BY <2>1, NextTypes, DoingFact DEF TypeInv, TypeOK
<1>a. Credits(runs, spent, r) \subseteq Credits(runs', spent', r)
  BY <1>0, CreditsGrow DEF CapInv
<1>1. ASSUME NEW t \in Threads, Step(t) PROVE Balanced(r)'
  BY <1>1, BalanceStep
<1>2. CASE Route \/ RouteRaises
  <2>1. runs' = runs /\ restarts' = restarts /\ inbox # <<>> /\ doing["own"].at = "idle"
    BY <1>2 DEF Route, RouteRaises, history
  <2>2. Cardinality(Waits(r)') <= Cardinality(Waits(r))
    <3>1. CASE EndOfInvocation("own")
      BY <1>0, <2>1, <3>1, WaitsAfterTheEnd
    <3>2. CASE ~EndOfInvocation("own")
      <4> DEFINE d == Head(inbox)
                 to == [at |-> "routed", role |-> RouteStarts(d), run |-> 0, why |-> d.kind]
      <4>1. inbox' = inbox /\ doing' = [doing EXCEPT !["own"] = to]
        BY <1>2, <3>2 DEF Route, RouteRaises
      <4>2. First(doing["own"]) <= First(doing'["own"])
        <5>1. First(doing["own"]) = 1
          BY <2>1 DEF First, Untouched
        <5>2. QED
          BY <5>1, FirstFact
      <4> HIDE DEF to
      <4>3. QED
        BY <1>0, <4>1, <4>2, WaitsShrinks
    <3>3. QED
      BY <3>1, <3>2
  <2>3. QED
    BY <1>0, <1>a, <2>1, <2>2, BalanceIsKept
<1>3. CASE (\E approved \in BOOLEAN : HumanComments(approved)) \/ SweepRequeues
  <2>1. runs' = runs /\ restarts' = restarts /\ doing' = doing
    BY <1>3 DEF HumanComments, SweepRequeues, history
  <2>2. PICK d \in Deliveries : d.kind # "restart" /\ inbox' = Append(inbox, d)
    BY <1>0, <1>3, QueuesNoRestart
  <2>3. Waits(r)' \subseteq Waits(r)
    <3>1. Pending(Append(inbox, d), First(doing["own"]), r) = Pending(inbox, First(doing["own"]), r)
      BY <1>0, <2>2, FirstFact, AppendedBehind
    <3>2. QED
      BY <2>1, <2>2, <3>1 DEF Waits
  <2>4. Cardinality(Waits(r)') <= Cardinality(Waits(r))
    BY <1>0, <2>3, NumbersOf, FS_Subset
  <2>5. QED
    BY <1>0, <1>a, <2>1, <2>4, BalanceIsKept
<1>4. CASE EpicReadsTask \/ TimePasses \/ SweepLists \/ SweepReads \/ SweepClears
           \/ SweepPostsNotice \/ SweepBlocks \/ SweepPasses \/ ReconcilerDies \/ UNCHANGED vars
  <2>1. inbox' = inbox /\ restarts' = restarts /\ doing'["own"] = doing["own"]
    <3>1. CASE EpicReadsTask
      BY <1>0, <3>1 DEF EpicReadsTask, Threads, table
    <3>2. CASE ~EpicReadsTask
      BY <1>4, <3>2 DEF TimePasses, SweepLists, SweepReads, SweepClears, SweepPostsNotice,
         SweepBlocks, SweepPasses, ReconcilerDies, vars, issue, table, history
    <3>3. QED
      BY <3>1, <3>2
  <2>2. Restarted(runs', r) \subseteq Restarted(runs, r)
    <3>1. CASE TimePasses
      BY <1>0, <3>1, RowsGetOlder, RowsOnlyGrow, RestartedSame DEF CapInv
    <3>2. CASE ~TimePasses
      <4>1. runs' = runs
        BY <1>4, <3>2 DEF EpicReadsTask, SweepLists, SweepReads, SweepClears,
           SweepPostsNotice, SweepBlocks, SweepPasses, ReconcilerDies, vars, table
      <4>2. QED
        BY <4>1
    <3>3. QED
      BY <3>1, <3>2
  <2>3. First(doing["own"]) <= First(doing'["own"])
    BY <2>1, FirstFact
  <2>4. Cardinality(Waits(r)') <= Cardinality(Waits(r))
    BY <1>0, <2>1, <2>3, WaitsShrinks
  <2>5. QED
    BY <1>0, <1>a, <2>1, <2>2, <2>4, BalanceIsKept
<1>5. CASE SweepRestarts
  BY <1>5, BalanceOfQueued
<1>6. CASE Restart
  BY <1>6, BalanceOfStopped
<1>7. QED
  BY <1>1, <1>2, <1>3, <1>4, <1>5, <1>6 DEF Next, Sweeps

-----------------------------------------------------------------------------
LEMMA CapInit == Init => CapInv
<1> SUFFICES ASSUME Init PROVE CapInv
  OBVIOUS
<1>1. TypeInv
  BY InitTypes
<1>2. RowsAreHeld /\ RoutedIsTheHead
  BY DEF Init, Idle, Threads, RowsAreHeld, RoutedIsTheHead, Holds
<1>3. WhatWasReadIsTrue /\ SpentIsOver
  BY DEF Init, NotSweeping, WhatWasReadIsTrue, SpentIsOver
<1>4. ASSUME NEW r \in Roles PROVE Balanced(r)
  <2>1. Restarted(runs, r) = {} /\ Pending(inbox, First(doing["own"]), r) = {}
        /\ Credits(runs, spent, r) = {}
    <3>1. \A i \in First(doing["own"]) .. Len(inbox) : FALSE
      BY FirstFact DEF Init
    <3>2. QED
      BY <3>1 DEF Init, Restarted, Pending, Credits
  <2>2. restarts = 0
    BY DEF Init
  <2>3. QED
    BY <2>1, <2>2, FS_EmptySet DEF Balanced
<1>5. QED
  BY <1>1, <1>2, <1>3, <1>4 DEF CapInv

LEMMA CapNext == CapInv /\ [Next]_vars => CapInv'
<1> SUFFICES ASSUME CapInv, [Next]_vars PROVE CapInv'
  OBVIOUS
<1>1. TypeInv /\ RowsAreHeld /\ WhatWasReadIsTrue /\ SpentIsOver /\ RoutedIsTheHead
  BY DEF CapInv
<1>2. TypeInv'
  BY <1>1, NextTypes
<1>3. RowsAreHeld' /\ WhatWasReadIsTrue' /\ SpentIsOver' /\ RoutedIsTheHead'
  BY <1>1, HeldNext, ReadNext, SpentNext, HeadNext
<1>4. \A r \in Roles : Balanced(r)'
  BY BalanceNext
<1>5. QED
  BY <1>2, <1>3, <1>4 DEF CapInv

LEMMA CapImplies == CapInv => RetriesAreCapped
<1> SUFFICES ASSUME CapInv, runs # <<>> PROVE RetriesAreCapped
  BY DEF RetriesAreCapped
<1> DEFINE r == Newest(runs).role
<1>1. TypeInv /\ runs \in Seq(Rows) /\ spent \in SUBSET (1 .. Len(runs)) /\ restarts \in Nat
  BY BoundsAreNumbers DEF CapInv, TypeInv, TypeOK
<1>2. r \in Roles
  <2>1. Len(runs) \in 1 .. Len(runs)
    BY <1>1, EmptySeq
  <2>2. runs[Len(runs)] \in Rows
    BY <1>1, <2>1
  <2>3. QED
    BY <2>2 DEF Newest, Rows
<1>3. /\ Cardinality(Restarted(runs, r)) \in Nat
      /\ Cardinality(Pending(inbox, First(doing["own"]), r)) \in Nat
      /\ Cardinality(Credits(runs, spent, r)) \in Nat
  BY <1>1, NumbersOf DEF Waits
<1>4. Balanced(r)
  BY <1>2 DEF CapInv
<1>5. Cardinality(Restarted(runs, r)) <= Cardinality(Credits(runs, spent, r)) + restarts
  BY <1>1, <1>3, <1>4 DEF Balanced
<1>6. QED
  BY <1>1, <1>5, CountingTheSeries DEF RetriesAreCapped, EarlierQueued

(* RetriesAreCapped: between two successes a role fails at most            *)
(* MAX_RETRIES times more than somebody started it, one more for each stop *)
(* of the process and for each restart queued before, whatever is          *)
(* interrupted, hits a limit or waits in the queue in between.             *)
THEOREM RetriesAreBounded == Spec => []RetriesAreCapped
<1>1. Spec => []CapInv
  BY CapInit, CapNext, PTL DEF Spec
<1>2. QED
  BY <1>1, CapImplies, PTL
=============================================================================
