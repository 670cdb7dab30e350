-------------------------- MODULE BuildEnvironments --------------------------
(***************************************************************************)
(* Build environments: the copies of a consuming repo that role runs share *)
(* (issue_workspaces.py), the turn a run takes on one, the session slot it *)
(* takes after the turn (role_runner.py), the choice of environment and of *)
(* the train's turn (graph.py), and the two janitors that delete copies:   *)
(* the reconciler's sweep and the delivery worker's discard.               *)
(*                                                                         *)
(* Every run is a thread.  Turns are threading.Locks and the slots are a   *)
(* threading.Semaphore: neither is first come, first served.  What is on   *)
(* disk outlives the process; locks, queues and slots do not.              *)
(***************************************************************************)
EXTENDS Naturals, Sequences, FiniteSets

CONSTANTS
  Runs,          \* the runs that may be started
  Job,           \* Job[r]: the repo, role and issue r was handed, see JobType
  None,          \* no value: no key, no holder, no epic
  MaxParallel,   \* the session slots
  MaxCloses,     \* bound: the issues that may close (or copies that go idle)
  MaxSweeps,     \* bound: passes of the reconciler over the copies
  MaxRestarts    \* bound: how often the process may die and start again

(* Job[r].shared: the repo asks for runners.workspace "issue".  open: what *)
(* staging_policy found, that a person let this run write to staging.      *)
EpicType == [repo : STRING, number : Nat \ {0}] \cup {None}

JobType ==
  [repo : STRING, role : STRING, number : Nat \ {0}, epic : EpicType,
   shared : BOOLEAN, open : BOOLEAN]

(* An IssueKey with the repo it is for; number 0 stands for staging. *)
KeyType == [repo : STRING, number : Nat, epic : EpicType]

Janitors == {"sweep", "discard"}

ASSUME EnvironmentsAssumption ==
  /\ IsFiniteSet(Runs)
  /\ Job \in [Runs -> JobType]
  /\ None \notin Runs \cup Janitors \cup KeyType
  /\ Runs \cap Janitors = {}
  /\ MaxParallel \in Nat \ {0}
  /\ MaxCloses \in Nat
  /\ MaxSweeps \in Nat
  /\ MaxRestarts \in Nat
-----------------------------------------------------------------------------
(***************************************************************************)
(* Which environment a run works in.                                       *)
(***************************************************************************)
Key(repo, number, epic) == [repo |-> repo, number |-> number, epic |-> epic]

STAGING(repo) == Key(repo, 0, None)

WorkspaceFor(r) ==
  IF Job[r].shared THEN Key(Job[r].repo, Job[r].number, Job[r].epic) ELSE None

(* A plausible slip: staging is the run's own key with a flag set, and so  *)
(* still names the epic.                                                   *)
BuildEnvironmentKeepingEpic(r) ==
  LET key == WorkspaceFor(r) IN
  IF key = None \/ Job[r].role # "release" THEN key
  ELSE IF key.epic = None \/ Job[r].open THEN Key(key.repo, 0, key.epic)
  ELSE IF key.epic.repo # key.repo THEN key
  ELSE Key(key.repo, key.epic.number, None)

(* A plausible slip: every release of a task keeps the task's own copy. *)
BuildEnvironmentOfTask(r) ==
  LET key == WorkspaceFor(r) IN
  IF key # None /\ Job[r].role = "release" /\ key.epic = None
    THEN STAGING(key.repo) ELSE key

BuildEnvironment(r) ==
  LET key == WorkspaceFor(r) IN
  IF key = None \/ Job[r].role # "release" THEN key
  ELSE IF key.epic = None THEN STAGING(key.repo)
  ELSE IF key.epic.repo # key.repo THEN key
  ELSE IF Job[r].open THEN STAGING(key.repo)
  ELSE Key(key.repo, key.epic.number, None)

(* The repo whose staging turn a cross-repo task's release takes as well. *)
TrainTurn(r) ==
  LET key == BuildEnvironment(r) IN
  IF key = None \/ Job[r].role # "release" THEN None
  ELSE IF key.epic = None THEN None
  ELSE IF key.epic.repo = key.repo THEN None
  ELSE STAGING(key.epic.repo)

EnvId(key) == <<key.repo, key.number>>

(* The turns of one run, in the order it takes them. *)
TurnsOf ==
  [r \in Runs |->
     IF BuildEnvironment(r) = None THEN <<>>
     ELSE IF TrainTurn(r) = None THEN <<EnvId(BuildEnvironment(r))>>
     ELSE <<EnvId(TrainTurn(r)), EnvId(BuildEnvironment(r))>>]

Turns(r) == TurnsOf[r]

Envs == UNION {{Turns(r)[i] : i \in DOMAIN Turns(r)} : r \in Runs}

(* "No issue" (None) is not the name of an environment. *)
ASSUME NoneIsNoEnvironment == None \notin Envs

IsStaging(e) == e[2] = 0

(* What meta.json of a whole copy says of its epic. *)
EpicOf(e) ==
  LET here == {r \in Runs : <<Job[r].repo, Job[r].number>> = e} IN
  IF \E r \in here : Job[r].epic # None
    THEN EnvId(Job[CHOOSE r \in here : Job[r].epic # None].epic)
    ELSE None
-----------------------------------------------------------------------------
VARIABLES
  (* the runs *)
  pc,         \* pc[r]: where r's thread is
  depth,      \* depth[r]: how many of its turns it is inside
  (* IssueWorkspaces and the runner *)
  lock,       \* lock[e]: the thread that holds e's lock
  queues,     \* queues[e]: the runs shown as waiting for e, in order
  holders,    \* holders[e]: the run shown as holding e
  strays,     \* the runs that left without taking their entry off a queue
  slots,      \* the semaphore's value
  (* the disk *)
  copy,       \* copy[e]: the working copy is there
  meta,       \* meta[e]: its meta.json is "none", "torn" (truncated) or "whole"
  (* the janitors *)
  at,         \* at[j]: what janitor j is doing
  todo,       \* todo[j]: the homes its glob listed, still to be looked at
  home,       \* home[j]: the one it is looking at
  seen,       \* seen[j]: the meta.json it read there
  (* GitHub, and the bounds *)
  closed,     \* the environments whose issue is closed (or idle too long)
  discarded,  \* the closed issues whose discard has begun
  sweeps, restarts

turnVars    == <<lock, queues, holders, strays>>
diskVars    == <<copy, meta>>
janitorVars == <<at, todo, home, seen, discarded, sweeps>>
vars == <<pc, depth, lock, queues, holders, strays, slots, copy, meta, at, todo, home,
          seen, closed, discarded, sweeps, restarts>>

(* "ask": about to try the next turn.  "queued": blocked on its lock.      *)
(* "got": has the lock, is not yet shown as holder.  "slot": wants a       *)
(* session.  "copy", "meta", "metaHalf": preparing the copy.  "session":   *)
(* the Claude session.  "touch", "touchHalf", "unslot", "leave",           *)
(* "release": the way out.  "killed": the process died under it.           *)
Waiting  == {"ask", "queued", "slot"}
InSlot   == {"copy", "meta", "metaHalf", "session", "touch", "touchHalf", "unslot"}
Leaving  == {"leave", "release"}
PCs      == {"new", "got", "ended", "killed"} \cup Waiting \cup InSlot \cup Leaving

NextTurn(r) == Turns(r)[depth[r] + 1]

TypeOK ==
  /\ pc \in [Runs -> PCs]
  /\ depth \in [Runs -> 0 .. 2]
  /\ \A r \in Runs : depth[r] <= Len(Turns(r))
  /\ lock \in [Envs -> Runs \cup Janitors \cup {None}]
  /\ queues \in [Envs -> Seq(Runs)]
  /\ holders \in [Envs -> Runs \cup {None}]
  /\ strays \subseteq Runs
  /\ slots \in 0 .. MaxParallel
  /\ copy \in [Envs -> BOOLEAN]
  /\ meta \in [Envs -> {"none", "torn", "whole"}]
  /\ at \in [Janitors -> {"idle", "scan", "judge", "remove", "rmtree"}]
  /\ todo \in [Janitors -> SUBSET Envs]
  /\ home \in [Janitors -> Envs \cup {None}]
  /\ seen \in [Janitors -> {"none", "unreadable", "whole"}]
  /\ closed \subseteq Envs
  /\ discarded \subseteq closed
  /\ sweeps \in 0 .. MaxSweeps
  /\ restarts \in 0 .. MaxRestarts

Init ==
  /\ pc = [r \in Runs |-> "new"]
  /\ depth = [r \in Runs |-> 0]
  /\ lock = [e \in Envs |-> None]
  /\ queues = [e \in Envs |-> <<>>]
  /\ holders = [e \in Envs |-> None]
  /\ strays = {}
  /\ slots = MaxParallel
  /\ copy = [e \in Envs |-> FALSE]
  /\ meta = [e \in Envs |-> "none"]
  /\ at = [j \in Janitors |-> "idle"]
  /\ todo = [j \in Janitors |-> {}]
  /\ home = [j \in Janitors |-> None]
  /\ seen = [j \in Janitors |-> "none"]
  /\ closed = {}
  /\ discarded = {}
  /\ sweeps = 0
  /\ restarts = 0
-----------------------------------------------------------------------------
(***************************************************************************)
(* A run takes its turns: IssueWorkspaces.hold, entered first for the      *)
(* train's staging turn (execute_role) and then for the run's own          *)
(* environment (RoleRunner._turn).                                         *)
(***************************************************************************)
Start(r) ==
  /\ pc[r] = "new"
  /\ pc' = [pc EXCEPT ![r] = IF Turns(r) = <<>> THEN "slot" ELSE "ask"]
  /\ UNCHANGED <<depth, turnVars, slots, diskVars, janitorVars, closed, restarts>>

(* lock.acquire(blocking=False), and the queue entry when it is taken. *)
TryLock(r) ==
  LET e == NextTurn(r) IN
  /\ pc[r] = "ask"
  /\ IF lock[e] = None
     THEN /\ lock' = [lock EXCEPT ![e] = r]
          /\ pc' = [pc EXCEPT ![r] = "got"]
          /\ UNCHANGED queues
     ELSE /\ queues' = [queues EXCEPT ![e] = Append(@, r)]
          /\ pc' = [pc EXCEPT ![r] = "queued"]
          /\ UNCHANGED lock
  /\ UNCHANGED <<depth, holders, strays, slots, diskVars, janitorVars, closed, restarts>>

(* A plausible slip: a wait that gives up and goes on without the lock. *)
LockIsFreeAfterTimeout(e) == lock[e] \notin Janitors

LockIsFree(e) == lock[e] = None

AcquireLock(r) ==
  LET e == NextTurn(r) IN
  /\ pc[r] = "queued"
  /\ LockIsFree(e)
  /\ lock' = [lock EXCEPT ![e] = r]
  /\ pc' = [pc EXCEPT ![r] = "got"]
  /\ UNCHANGED <<depth, queues, holders, strays, slots, diskVars, janitorVars, closed,
                 restarts>>

(* Out of the turns the run is inside, if any. *)
GoesOut(r) == pc' = [pc EXCEPT ![r] = IF depth[r] = 0 THEN "ended" ELSE "leave"]

(* on_wait, called between the entry and the blocking acquire, writes the  *)
(* phase into the ledger; when that raises, hold is left before its try,   *)
(* and nothing takes the entry off the queue.                              *)
WaitRaises(r) ==
  /\ pc[r] = "queued"
  /\ GoesOut(r)
  /\ strays' = strays \cup {r}
  /\ UNCHANGED <<depth, lock, queues, holders, slots, diskVars, janitorVars, closed, restarts>>

(* A run is queued for one turn at a time: it is in q once or not at all. *)
Without(q, r) ==
  IF \E i \in 1 .. Len(q) : q[i] = r
  THEN LET i == CHOOSE i \in 1 .. Len(q) : q[i] = r
       IN  SubSeq(q, 1, i - 1) \o SubSeq(q, i + 1, Len(q))
  ELSE q

(* Off the queue, and shown as holder; the next turn, or the slot. *)
BecomeHolder(r) ==
  LET e == NextTurn(r) IN
  /\ pc[r] = "got"
  /\ queues' = [queues EXCEPT ![e] = Without(@, r)]
  /\ holders' = [holders EXCEPT ![e] = r]
  /\ depth' = [depth EXCEPT ![r] = @ + 1]
  /\ pc' = [pc EXCEPT ![r] = IF depth[r] + 1 < Len(Turns(r)) THEN "ask" ELSE "slot"]
  /\ UNCHANGED <<lock, strays, slots, diskVars, janitorVars, closed, restarts>>

SlotIsFree == slots > 0

(* RoleRunner._session_slot: taken after the turn.  Who is shown as        *)
(* waiting for or using a slot is left out.                                *)
TakeSlot(r) ==
  /\ pc[r] = "slot"
  /\ SlotIsFree
  /\ slots' = slots - 1
  /\ pc' = [pc EXCEPT ![r] = IF Turns(r) = <<>> THEN "session" ELSE "copy"]
  /\ UNCHANGED <<depth, turnVars, diskVars, janitorVars, closed, restarts>>

(* No slot is free, and on_phase raises before the wait for one begins. *)
SlotWaitRaises(r) ==
  /\ pc[r] = "slot"
  /\ ~ SlotIsFree
  /\ GoesOut(r)
  /\ UNCHANGED <<depth, turnVars, slots, diskVars, janitorVars, closed, restarts>>
-----------------------------------------------------------------------------
(***************************************************************************)
(* The copy: IssueWorkspaces.prepare, around the session.                  *)
(***************************************************************************)
OwnEnv(r) == Turns(r)[Len(Turns(r))]

(* Reset to GitHub, or deleted and copied afresh when that fails. *)
PrepareCopy(r) ==
  /\ pc[r] = "copy"
  /\ copy' = [copy EXCEPT ![OwnEnv(r)] = TRUE]
  /\ pc' = [pc EXCEPT ![r] = "meta"]
  /\ UNCHANGED <<depth, turnVars, slots, meta, janitorVars, closed, restarts>>

(* The reset failed, or there was no copy, and the checkout raised; or     *)
(* on_phase raised before the copy was touched.                            *)
PrepareFails(r) ==
  /\ pc[r] = "copy"
  /\ \/ copy' = [copy EXCEPT ![OwnEnv(r)] = FALSE]
     \/ UNCHANGED copy
  /\ pc' = [pc EXCEPT ![r] = "unslot"]
  /\ UNCHANGED <<depth, turnVars, slots, meta, janitorVars, closed, restarts>>

(* write_text truncates the file and then fills it.  With its directory    *)
(* deleted under it it raises, and the run ends.                           *)
WriteMeta(r) ==
  LET e == OwnEnv(r) IN
  /\ pc[r] = "meta"
  /\ IF copy[e]
     THEN /\ meta' = [meta EXCEPT ![e] = "torn"]
          /\ pc' = [pc EXCEPT ![r] = "metaHalf"]
     ELSE /\ pc' = [pc EXCEPT ![r] = "unslot"]
          /\ UNCHANGED meta
  /\ UNCHANGED <<depth, turnVars, slots, copy, janitorVars, closed, restarts>>

(* What was deleted between the two halves stays deleted. *)
FillMeta(r) ==
  LET e == OwnEnv(r) IN
  /\ pc[r] \in {"metaHalf", "touchHalf"}
  /\ meta' = [meta EXCEPT ![e] = IF @ = "torn" THEN "whole" ELSE @]
  /\ pc' = [pc EXCEPT ![r] = IF @ = "metaHalf" THEN "session" ELSE "unslot"]
  /\ UNCHANGED <<depth, turnVars, slots, copy, janitorVars, closed, restarts>>

(* The session ends, however it ends; a copy that will not take the        *)
(* token-free URL (one that is gone will not) is deleted.                  *)
EndSession(r) ==
  /\ pc[r] = "session"
  /\ \/ /\ Turns(r) = <<>>
        /\ pc' = [pc EXCEPT ![r] = "unslot"]
        /\ UNCHANGED copy
     \/ /\ Turns(r) # <<>>
        /\ pc' = [pc EXCEPT ![r] = "touch"]
        /\ \/ UNCHANGED copy
           \/ copy' = [copy EXCEPT ![OwnEnv(r)] = FALSE]
  /\ UNCHANGED <<depth, turnVars, slots, meta, janitorVars, closed, restarts>>

(* _touch rewrites a meta.json it can read and lets any other be. *)
Touch(r) ==
  LET e == OwnEnv(r) IN
  /\ pc[r] = "touch"
  /\ IF meta[e] = "whole"
     THEN /\ meta' = [meta EXCEPT ![e] = "torn"]
          /\ pc' = [pc EXCEPT ![r] = "touchHalf"]
     ELSE /\ pc' = [pc EXCEPT ![r] = "unslot"]
          /\ UNCHANGED meta
  /\ UNCHANGED <<depth, turnVars, slots, copy, janitorVars, closed, restarts>>
-----------------------------------------------------------------------------
(***************************************************************************)
(* The way out: the slot, then each turn, last taken first given back.     *)
(***************************************************************************)
ReleaseSlot(r) ==
  /\ pc[r] = "unslot"
  /\ slots' = slots + 1
  /\ GoesOut(r)
  /\ UNCHANGED <<depth, turnVars, diskVars, janitorVars, closed, restarts>>

(* A plausible slip: the lock is given back before the holder is forgotten. *)
LeaveUnlockingFirst(r) ==
  LET e == Turns(r)[depth[r]] IN
  /\ pc[r] = "leave"
  /\ lock' = [lock EXCEPT ![e] = None]
  /\ pc' = [pc EXCEPT ![r] = "release"]
  /\ UNCHANGED <<depth, queues, holders, strays, slots, diskVars, janitorVars, closed,
                 restarts>>

Leave(r) ==
  LET e == Turns(r)[depth[r]] IN
  /\ pc[r] = "leave"
  /\ holders' = [holders EXCEPT ![e] = None]
  /\ pc' = [pc EXCEPT ![r] = "release"]
  /\ UNCHANGED <<depth, lock, queues, strays, slots, diskVars, janitorVars, closed,
                 restarts>>

(* A plausible slip: the run ends with its own turn, the train's is kept. *)
ReleaseOwnTurnOnly(r) ==
  LET e == Turns(r)[depth[r]] IN
  /\ pc[r] = "release"
  /\ lock' = [lock EXCEPT ![e] = None]
  /\ depth' = [depth EXCEPT ![r] = 0]
  /\ pc' = [pc EXCEPT ![r] = "ended"]
  /\ UNCHANGED <<queues, holders, strays, slots, diskVars, janitorVars, closed, restarts>>

ReleaseLock(r) ==
  LET e == Turns(r)[depth[r]] IN
  /\ pc[r] = "release"
  /\ lock' = [lock EXCEPT ![e] = None]
  /\ depth' = [depth EXCEPT ![r] = @ - 1]
  /\ pc' = [pc EXCEPT ![r] = IF depth[r] = 1 THEN "ended" ELSE "leave"]
  /\ UNCHANGED <<queues, holders, strays, slots, diskVars, janitorVars, closed, restarts>>
-----------------------------------------------------------------------------
(***************************************************************************)
(* The janitors.  Each lists the homes that have a meta.json and then, one *)
(* home at a time, reads the file, decides, and removes.                   *)
(***************************************************************************)
(* The issue closes, or its copy has sat idle past idle_days: the sweep    *)
(* deletes a copy for either.                                              *)
CloseIssue(e) ==
  /\ ~ IsStaging(e) /\ e \notin closed
  /\ Cardinality(closed) < MaxCloses
  /\ closed' = closed \cup {e}
  /\ UNCHANGED <<pc, depth, turnVars, slots, diskVars, janitorVars, restarts>>

WithMeta == {e \in Envs : meta[e] # "none"}

BeginSweep ==
  /\ at["sweep"] = "idle"
  /\ sweeps < MaxSweeps
  /\ at' = [at EXCEPT !["sweep"] = "scan"]
  /\ todo' = [todo EXCEPT !["sweep"] = WithMeta]
  /\ sweeps' = sweeps + 1
  /\ UNCHANGED <<pc, depth, turnVars, slots, diskVars, home, seen, closed, discarded,
                 restarts>>

(* The `closed` event of ref reaches the delivery worker; it may be lost. *)
BeginDiscard(ref) ==
  /\ at["discard"] = "idle"
  /\ ref \in closed \ discarded
  /\ at' = [at EXCEPT !["discard"] = "scan"]
  /\ todo' = [todo EXCEPT !["discard"] =
                {e \in WithMeta : e = ref \/ EpicOf(e) = ref}]
  /\ discarded' = discarded \cup {ref}
  /\ UNCHANGED <<pc, depth, turnVars, slots, diskVars, home, seen, closed, sweeps, restarts>>

(* A file that is not there any more and one that is truncated both read   *)
(* as {}.                                                                  *)
ReadMeta(j, e) ==
  /\ at[j] = "scan"
  /\ e \in todo[j]
  /\ at' = [at EXCEPT ![j] = "judge"]
  /\ todo' = [todo EXCEPT ![j] = @ \ {e}]
  /\ home' = [home EXCEPT ![j] = e]
  /\ seen' = [seen EXCEPT ![j] = IF meta[e] = "whole" THEN "whole" ELSE "unreadable"]
  /\ UNCHANGED <<pc, depth, turnVars, slots, diskVars, closed, discarded, sweeps, restarts>>

EndPass(j) ==
  /\ at[j] = "scan"
  /\ todo[j] = {}
  /\ at' = [at EXCEPT ![j] = "idle"]
  /\ UNCHANGED <<pc, depth, turnVars, slots, diskVars, todo, home, seen, closed,
                 discarded, sweeps, restarts>>

(* The sweep deletes what it cannot read; the discard only what it can,    *)
(* and BeginDiscard has picked those that name the closed issue.           *)
WantsGone(j) ==
  IF j = "discard" THEN seen[j] = "whole"
  ELSE seen[j] = "unreadable" \/ (~ IsStaging(home[j]) /\ home[j] \in closed)

(* Nothing more to do with this home.  The home and what was read of it    *)
(* are forgotten.                                                          *)
NextHome(j) ==
  /\ at' = [at EXCEPT ![j] = "scan"]
  /\ home' = [home EXCEPT ![j] = None]
  /\ seen' = [seen EXCEPT ![j] = "none"]

(* Not to be deleted, or (the sweep) the lookup of the issue failed. *)
Keep(j) ==
  /\ at[j] = "judge"
  /\ ~ WantsGone(j) \/ (j = "sweep" /\ seen[j] = "whole")
  /\ NextHome(j)
  /\ UNCHANGED <<pc, depth, turnVars, slots, diskVars, todo, closed, discarded,
                 sweeps, restarts>>

DecideGone(j) ==
  /\ at[j] = "judge"
  /\ WantsGone(j)
  /\ at' = [at EXCEPT ![j] = "remove"]
  /\ UNCHANGED <<pc, depth, turnVars, slots, diskVars, todo, home, seen, closed,
                 discarded, sweeps, restarts>>

(* meta.json named an owner, a repo and a number: the environment's lock.  *)
(* Otherwise _remove makes a Lock of its own, which is free.               *)
HasItsLock(j) == seen[j] = "whole" /\ ~ IsStaging(home[j])

(* A plausible slip: a removal that does not look whether it got the lock. *)
MayRemoveAlways(j) == TRUE

MayRemove(j) == HasItsLock(j) => lock[home[j]] = None

StartRemoving(j) ==
  /\ at[j] = "remove"
  /\ MayRemove(j)
  /\ at' = [at EXCEPT ![j] = "rmtree"]
  /\ lock' = IF HasItsLock(j) THEN [lock EXCEPT ![home[j]] = j] ELSE lock
  /\ UNCHANGED <<pc, depth, queues, holders, strays, slots, diskVars, todo, home, seen,
                 closed, discarded, sweeps, restarts>>

(* A copy in use is skipped, never waited on. *)
SkipBusy(j) ==
  /\ at[j] = "remove"
  /\ ~ MayRemove(j)
  /\ NextHome(j)
  /\ UNCHANGED <<pc, depth, turnVars, slots, diskVars, todo, closed, discarded,
                 sweeps, restarts>>

RemoveTree(j) ==
  LET e == home[j] IN
  /\ at[j] = "rmtree"
  /\ copy' = [copy EXCEPT ![e] = FALSE]
  /\ meta' = [meta EXCEPT ![e] = "none"]
  /\ lock' = IF HasItsLock(j) THEN [lock EXCEPT ![e] = None] ELSE lock
  /\ NextHome(j)
  /\ UNCHANGED <<pc, depth, queues, holders, strays, slots, todo, closed, discarded,
                 sweeps, restarts>>
-----------------------------------------------------------------------------
(* The process dies and starts again: its threads, locks and slots are     *)
(* new, the disk is as it was left.                                        *)
Restart ==
  /\ restarts < MaxRestarts
  /\ restarts' = restarts + 1
  /\ pc' = [r \in Runs |-> IF pc[r] \in {"new", "ended"} THEN pc[r] ELSE "killed"]
  /\ depth' = [r \in Runs |-> 0]
  /\ lock' = [e \in Envs |-> None]
  /\ queues' = [e \in Envs |-> <<>>]
  /\ holders' = [e \in Envs |-> None]
  /\ strays' = {}
  /\ slots' = MaxParallel
  /\ at' = [j \in Janitors |-> "idle"]
  /\ todo' = [j \in Janitors |-> {}]
  /\ home' = [j \in Janitors |-> None]
  /\ seen' = [j \in Janitors |-> "none"]
  /\ UNCHANGED <<diskVars, closed, discarded, sweeps>>

TurnStep(r) == TryLock(r) \/ AcquireLock(r) \/ BecomeHolder(r)
CopyStep(r) == \/ PrepareCopy(r) \/ PrepareFails(r) \/ WriteMeta(r) \/ FillMeta(r)
               \/ EndSession(r) \/ Touch(r)
ExitStep(r) == ReleaseSlot(r) \/ Leave(r) \/ ReleaseLock(r)

(* What a run does once it has been started. *)
RunStep(r) == TurnStep(r) \/ TakeSlot(r) \/ CopyStep(r) \/ ExitStep(r)

JanitorStep(j) == \/ \E e \in Envs : ReadMeta(j, e)
                  \/ Keep(j) \/ DecideGone(j) \/ StartRemoving(j)
                  \/ SkipBusy(j) \/ RemoveTree(j) \/ EndPass(j)

Next ==
  \/ \E r \in Runs : Start(r) \/ RunStep(r) \/ WaitRaises(r) \/ SlotWaitRaises(r)
  \/ \E e \in Envs : CloseIssue(e) \/ BeginDiscard(e)
  \/ BeginSweep
  \/ \E j \in Janitors : JanitorStep(j)
  \/ Restart

Spec == Init /\ [][Next]_vars

(* The operating system runs every thread that can run, and a session ends *)
(* by itself or at role_timeout_seconds.  Nothing says a janitor starts,   *)
(* or that a call raises.                                                  *)
Fairness == /\ \A r \in Runs : WF_vars(RunStep(r))
            /\ \A j \in Janitors : WF_vars(JanitorStep(j))

FairSpec == Spec /\ Fairness
-----------------------------------------------------------------------------
(***************************************************************************)
(* Properties.                                                             *)
(***************************************************************************)
Inside(r) == {Turns(r)[i] : i \in 1 .. depth[r]}

AtWork(r) == pc[r] \in InSlot

(* "One run at a time per environment": two runs are never inside one      *)
(* environment together, be it their own or the train's, whatever the      *)
(* janitors lock and a restart forgets.                                    *)
OneRunPerEnvironment ==
  \A r, q \in Runs : r # q => Inside(r) \cap Inside(q) = {}

(* The free slots and the runs in a session add up to max_parallel on      *)
(* every way out of a run, so a failed checkout costs no session.          *)
SlotsConserved ==
  slots + Cardinality({r \in Runs : AtWork(r)}) = MaxParallel

(* "One staging turn per run keeps the lock order simple: nothing holds    *)
(* two" (train_turn), which is what keeps two releases of tasks in each    *)
(* other's repo from waiting for each other.                               *)
OneStagingTurnEach ==
  \A r \in Runs : Cardinality({e \in Inside(r) : IsStaging(e)}) <= 1

(* Where a release lands, read off the handbook and not off the code: a    *)
(* task's in its epic's branch, everything else, a task of another repo's  *)
(* epic among it, on the staging of the repo the release train runs in.    *)
LandsOn(r) ==
  LET j == Job[r] IN
  IF j.epic = None THEN <<j.repo, 0>>
  ELSE IF j.epic.repo # j.repo \/ j.open THEN <<j.epic.repo, 0>>
  ELSE EnvId(j.epic)

(* Releases that land on one branch are never at work together: merges     *)
(* into one epic take turns and the train moves one release at a time,     *)
(* across repos too, where the repos keep issue workspaces.                *)
OneReleasePerTarget ==
  \A r, q \in Runs :
    /\ r # q
    /\ Job[r].role = "release" /\ Job[q].role = "release"
    /\ Job[r].shared /\ Job[q].shared
    /\ AtWork(r) /\ AtWork(q)
    => LandsOn(r) # LandsOn(q)

(* The runs GET /environments shows as waiting for e. *)
Shown(e) == {queues[e][i] : i \in 1 .. Len(queues[e])}

(* GET /environments tells the truth: who is shown as holding a turn has   *)
(* it, a run at work is shown as holding all of its turns, a run that      *)
(* waits is shown to wait, and whoever is shown as waiting waits, but for  *)
(* a run whose own entry was left behind when its on_wait raised.          *)
ReportIsTrue ==
  /\ \A e \in Envs : holders[e] # None => lock[e] = holders[e]
  /\ \A r \in Runs : AtWork(r) => \A e \in Inside(r) : holders[e] = r
  /\ \A r \in Runs : pc[r] = "queued" => r \in Shown(NextTurn(r))
  /\ \A e \in Envs : \A r \in Shown(e) \ strays :
       pc[r] \in {"queued", "got"} /\ NextTurn(r) = e

TreeRemoved(e) == meta[e] # "none" /\ meta'[e] = "none"

(* A janitor deletes the home of a run that holds its turn, or staging's,  *)
(* only where it could not read the meta.json: see ACopyInUseIsSkipped and *)
(* StagingIsNeverSwept for what is promised.                               *)
OnlyTheUnreadableIsTakenAway ==
  [][\A e \in Envs :
       TreeRemoved(e) /\ (lock[e] \in Runs \/ IsStaging(e))
       => \E j \in Janitors : home[j] = e /\ seen[j] = "unreadable"]_vars

(* Every run that is started ends, or the process dies under it: turns,    *)
(* the train's turn and slots cannot wait for each other in a circle.      *)
EveryRunEnds ==
  \A r \in Runs : pc[r] # "new" ~> pc[r] \in {"ended", "killed"}

(* issue_workspaces.py:256, "A copy in use is skipped, never waited on".   *)
(* The code breaks this: a meta.json caught between truncation and writing *)
(* reads as {}, and _remove then takes a lock nobody else knows.           *)
ACopyInUseIsSkipped ==
  [][\A e \in Envs : TreeRemoved(e) => lock[e] \notin Runs]_vars

(* issue_workspaces.py:35, of the staging environment: "Never swept".      *)
(* The code breaks this in the same way, and after a death in mid-write    *)
(* with no run about.                                                      *)
StagingIsNeverSwept ==
  [][\A e \in Envs : IsStaging(e) => ~ TreeRemoved(e)]_vars

(* issue_workspaces.py:171, "one run at a time, first come first served".  *)
(* The code breaks this: a run that finds the lock free passes those that  *)
(* are queued for it.                                                      *)
FirstComeFirstServed ==
  [][\A e \in Envs, r \in Runs :
       lock[e] # r /\ lock'[e] = r
       => \A i \in DOMAIN queues[e] : queues[e][i] # r =>
            \E k \in 1 .. i : queues[e][k] = r]_vars
=============================================================================
