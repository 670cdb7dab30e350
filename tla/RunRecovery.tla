----------------------------- MODULE RunRecovery -----------------------------
(***************************************************************************)
(* One issue, its role runs, and the reconciler that sweeps it.            *)
(*                                                                         *)
(* Three parties act on the issue at once.  Its own deliveries are routed  *)
(* and their roles run one at a time (the promise of module Inbox).  The   *)
(* delivery of its epic, which is another thread, may fan out to it.  The  *)
(* sweep of reconcile.py reads labels, then runs, and acts on what it      *)
(* read; what it queues is a delivery like any other.                      *)
(*                                                                         *)
(* GitHub holds the labels and the comments, the database the runs and the *)
(* deliveries; both survive the process.                                   *)
(***************************************************************************)
EXTENDS Naturals, Sequences, FiniteSets

CONSTANTS
  InitialState,   \* the state label the issue starts with
  Expedited,      \* whether its epic carries factory:expedite
  Moves,          \* Moves[r]: the states role r may move its issue on to
  LimitResets,    \* the age at which a usage limit has reset
  ReadLimit,      \* how many of the issue's runs a sweep reads, newest first
  Failing,        \* which calls to GitHub or the database may raise
  MaxErrors,      \* bound: how many calls raise
  MaxRestarts,    \* bound: how often the process stops and starts again
  MaxComments,    \* bound: how many comments people write
  MaxEpicReads,   \* bound: how often the epic's thread looks for ready tasks
  MaxEmptyRuns,   \* bound: runs that end at a limit or leave the state as it was
  MaxRuns,        \* bound: runs in all
  MaxInbox        \* bound: deliveries waiting

States == {"intake", "spec-approved", "planned", "design-approved", "ready",
           "in-review", "in-test", "ready-to-ship", "other", "closed"}

(* ROLE_STARTS.  "closed" and "other" stand for the states no role starts  *)
(* from; a closed issue keeps its label but every reader below tells a     *)
(* closed issue apart before it looks.                                     *)
RoleStarts ==
  [intake |-> {"intake"}, planner |-> {"spec-approved"},
   testplanner |-> {"planned"}, architect |-> {"planned"},
   dispatch |-> {"design-approved"}, implementer |-> {"ready"},
   reviewer |-> {"in-review"}, qa |-> {"in-test"},
   release |-> {"ready-to-ship"}]

Roles == DOMAIN RoleStarts

MaxRetries == 2

Calls == {"route", "start", "mark", "finish", "clear", "chain",
          "repos", "sweep", "notice", "block"}

ASSUME RecoveryAssumption ==
  /\ InitialState \in States
  /\ Expedited \in BOOLEAN
  /\ Moves \in [Roles -> SUBSET States]
  /\ LimitResets \in 0 .. 2
  /\ ReadLimit \in Nat \ {0}
  /\ Failing \subseteq Calls
  /\ {MaxErrors, MaxRestarts, MaxComments, MaxEpicReads, MaxEmptyRuns,
      MaxRuns, MaxInbox} \subseteq Nat

VARIABLES
  (* GitHub *)
  state,      \* the issue's state label
  blocked,    \* factory:blocked is on it
  marker,     \* factory:in-progress is on it
  notices,    \* the runs a factory-gave-up mark on the issue names
  (* the database *)
  runs,       \* the runs table's rows for the issue, oldest first
  inbox,      \* the issue's deliveries that are pending or processing
  spent,      \* the runs whose restart-<run id> guid is recorded
  (* the process *)
  doing,      \* doing[t]: where thread t's graph invocation is
  sweep,      \* where the reconciler's pass is, and what it has read
  (* history and bounds *)
  dropped,    \* the runs that were the newest when a restart was dropped
  overtaken,  \* the epic's thread moved the issue since its delivery was routed
  errors, restarts, comments, epicReads, emptyRuns

issue   == <<state, blocked, marker, notices>>
table   == <<runs, inbox, spent>>
past    == <<dropped, overtaken>>
history == <<dropped, overtaken, errors, restarts, comments, epicReads, emptyRuns>>
vars == <<state, blocked, marker, notices, runs, inbox, spent, doing, sweep,
          dropped, overtaken, errors, restarts, comments, epicReads, emptyRuns>>

Threads == {"own", "epic"}

Labels == [state : States, blocked : BOOLEAN, marker : BOOLEAN]

(* run_kind of a row, "open" while finished_at is empty.  A no_op run is   *)
(* "other".  age counts the reconciler's delays since the run ended: 0 is  *)
(* just now, 1 is past RETRY_AFTER and STALE_MARKER_AFTER (both 10 min), 2 *)
(* past STALL_AFTER (20 min).                                              *)
Kinds == {"open", "success", "other", "interrupted", "limit", "failed"}
Rows  == [role : Roles, kind : Kinds, age : 0 .. 2, why :
            {"comment", "restart", "labeled", "chain", "epic"}]

Deliveries ==
  [kind : {"comment"}, approved : BOOLEAN, labels : Labels]
    \cup [kind : {"labeled"}, labels : Labels]
    \cup [kind : {"restart"}, role : Roles, expect : States]

Idle == [at |-> "idle", role |-> "none", run |-> 0, why |-> "comment"]

Phases == {"idle", "routed", "opened", "working", "worked", "ended", "cleared"}

NotSweeping == [at |-> "idle", labels |-> [state |-> InitialState,
                blocked |-> FALSE, marker |-> FALSE], runs |-> <<>>, newest |-> 0]

TypeOK ==
  /\ state \in States /\ blocked \in BOOLEAN /\ marker \in BOOLEAN
  /\ notices \subseteq 1 .. Len(runs)
  /\ runs \in Seq(Rows)
  /\ inbox \in Seq(Deliveries)
  /\ spent \subseteq 1 .. Len(runs)
  /\ doing \in [Threads -> [at : Phases, role : Roles \cup {"none"},
                            run : 0 .. Len(runs),
                            why : {"comment", "restart", "labeled", "chain", "epic"}]]
  /\ sweep \in [at : {"idle", "listed", "read", "noticed", "dead"}, labels : Labels,
                runs : Seq(Rows), newest : 0 .. Len(runs)]
  /\ dropped \subseteq 0 .. Len(runs) /\ overtaken \in BOOLEAN
  /\ errors \in 0 .. MaxErrors /\ restarts \in 0 .. MaxRestarts
  /\ comments \in 0 .. MaxComments /\ epicReads \in 0 .. MaxEpicReads
  /\ emptyRuns \in 0 .. MaxEmptyRuns

Init ==
  /\ state = InitialState /\ blocked = FALSE /\ marker = FALSE
  /\ notices = {} /\ spent = {}
  /\ runs = <<>> /\ inbox = <<>>
  /\ doing = [t \in Threads |-> Idle]
  /\ sweep = NotSweeping
  /\ dropped = {} /\ overtaken = FALSE
  /\ errors = 0 /\ restarts = 0 /\ comments = 0 /\ epicReads = 0
  /\ emptyRuns = 0

Now == [state |-> state, blocked |-> blocked, marker |-> marker]

(* A call that raises instead of doing what it was made for.               *)
Raises(call) ==
  /\ call \in Failing
  /\ errors < MaxErrors
  /\ errors' = errors + 1

-----------------------------------------------------------------------------
(***************************************************************************)
(* Deciding what runs.                                                     *)
(***************************************************************************)

(* EXPEDITE_MAP without its gates, and without an epic branch, so that the *)
(* release is not in it.                                                   *)
ExpeditedNext(s) ==
  CASE s = "ready" -> "implementer"
    [] s = "in-review" -> "reviewer"
    [] s = "in-test" -> "qa"
    [] OTHER -> "none"

ExpediteNow(labels) ==
  IF labels.blocked \/ labels.marker THEN "none"
  ELSE ExpeditedNext(labels.state)

(* The stage a person's reply to a blocked issue resumes.                  *)
Resume(s) ==
  CASE s = "intake" -> "intake"
    [] s = "spec-approved" -> "planner"
    [] s = "planned" -> "architect"
    [] s = "design-approved" -> "dispatch"
    [] s = "ready" -> "implementer"
    [] s = "in-review" -> "reviewer"
    [] s = "in-test" -> "qa"
    [] OTHER -> "none"

(* A comment is judged by the labels its payload carries, which are those  *)
(* of the moment it was written.                                           *)
CommentStarts(d) ==
  IF d.approved /\ d.labels.state = "ready"
  THEN IF d.labels.marker THEN "none" ELSE "implementer"
  ELSE IF d.labels.blocked THEN Resume(d.labels.state) ELSE "none"

(* A reply that resumes a stage takes factory:blocked off.                 *)
Unblocks(d) ==
  /\ d.kind = "comment" /\ d.labels.blocked
  /\ ~(d.approved /\ d.labels.state = "ready")
  /\ Resume(d.labels.state) # "none"

(* So is a label event, the sweep's own included: its payload is the issue *)
(* as the sweep listed it.                                                 *)
LabeledStarts(d) ==
  CASE d.labels.state = "spec-approved" -> "planner"
    [] d.labels.state = "design-approved" -> "dispatch"
    [] d.labels.state = "ready" /\ Expedited -> ExpediteNow(d.labels)
    [] OTHER -> "none"

(* A plausible slip: a restart that forgets expect_state.                  *)
RestartUnchecked(d) == IF state = "closed" THEN "none" ELSE d.role

(* Only a restart looks at the issue again.                                *)
RestartStarts(d) ==
  IF state = d.expect /\ ~blocked /\ ~marker THEN d.role ELSE "none"

RouteStarts(d) ==
  CASE d.kind = "comment" -> CommentStarts(d)
    [] d.kind = "labeled" -> LabeledStarts(d)
    [] d.kind = "restart" -> RestartStarts(d)
-----------------------------------------------------------------------------
(***************************************************************************)
(* What the sweep concludes from what it read: of n runs, those from       *)
(* ReadFrom(n) on.  rs is oldest first.                                    *)
(***************************************************************************)
ReadFrom(n) == IF n <= ReadLimit THEN 1 ELSE n - ReadLimit + 1

Newest(rs) == rs[Len(rs)]

Quiet(rs) == rs # <<>> /\ \A i \in DOMAIN rs : rs[i].kind # "open"

(* A plausible slip: a marker is stale only where a run did its work.      *)
StaleAfterSuccess(rs) == Quiet(rs) /\ Newest(rs).kind = "success"

StaleMarker(rs) == Quiet(rs) /\ \A i \in DOMAIN rs : rs[i].age >= 1

(* Failures of the newest run's role since it last succeeded.              *)
SinceSuccess(rs) ==
  {i \in DOMAIN rs : \A j \in i .. Len(rs) :
      rs[j].role = Newest(rs).role /\ rs[j].kind # "success"}

(* A plausible slip: the newest run is not counted.                        *)
FailuresBefore(rs) ==
  Cardinality({i \in SinceSuccess(rs) \ {Len(rs)} : rs[i].kind = "failed"})

ConsecutiveFailures(rs) ==
  Cardinality({i \in SinceSuccess(rs) : rs[i].kind = "failed"})

(* Left alone: no live run, no marker, not blocked.                        *)
LeftIdle(labels, rs) == Quiet(rs) /\ ~labels.marker /\ ~labels.blocked

AtItsStart(labels, rs) == labels.state \in RoleStarts[Newest(rs).role]

MayRetry(rs) ==
  LET last == Newest(rs) IN
    \/ last.kind = "limit" /\ last.age >= LimitResets
    \/ last.kind = "interrupted" /\ last.age >= 1
    \/ /\ last.kind = "failed" /\ last.age >= 1
       /\ ConsecutiveFailures(rs) <= MaxRetries

(* A run that did not do its job and left the issue where its role starts. *)
Unfinished(labels, rs) ==
  /\ Newest(rs).kind \in {"interrupted", "limit", "failed"}
  /\ AtItsStart(labels, rs)

(* A plausible slip: only failures are looked at, not broken chains.       *)
StalledAfterFailure(labels, rs) ==
  IF LeftIdle(labels, rs) /\ Unfinished(labels, rs) /\ MayRetry(rs)
  THEN Newest(rs).role ELSE "none"

StalledRole(labels, rs) ==
  IF ~LeftIdle(labels, rs) THEN "none"
  ELSE IF Unfinished(labels, rs)
       THEN IF MayRetry(rs) THEN Newest(rs).role ELSE "none"
  ELSE IF Expedited /\ Newest(rs).age >= 2 THEN ExpeditedNext(labels.state)
  ELSE "none"

(* A plausible slip: one failure too late.                                 *)
GaveUpOffByOne(labels, rs) ==
  /\ LeftIdle(labels, rs)
  /\ AtItsStart(labels, rs)
  /\ Newest(rs).kind = "failed"
  /\ ConsecutiveFailures(rs) > MaxRetries + 1

GaveUpOn(labels, rs) ==
  /\ LeftIdle(labels, rs)
  /\ AtItsStart(labels, rs)
  /\ Newest(rs).kind = "failed"
  /\ ConsecutiveFailures(rs) > MaxRetries

(* PENDING_STEP, and the expedited task at factory:ready.                  *)
MissedStep(labels, rs) ==
  /\ rs = <<>>
  /\ \/ labels.state \in {"spec-approved", "design-approved"}
     \/ Expedited /\ labels.state = "ready" /\ ~labels.marker /\ ~labels.blocked
-----------------------------------------------------------------------------
(***************************************************************************)
(* People.                                                                 *)
(***************************************************************************)
HumanComments(approved) ==
  /\ comments < MaxComments
  /\ Len(inbox) < MaxInbox
  /\ state # "closed"
  /\ inbox' = Append(inbox, [kind |-> "comment", approved |-> approved, labels |-> Now])
  /\ comments' = comments + 1
  /\ UNCHANGED <<issue, runs, spent, doing, sweep, past, errors, restarts, epicReads,
                 emptyRuns>>
-----------------------------------------------------------------------------
(***************************************************************************)
(* The issue's deliveries, and the runs they start.  A delivery stays at   *)
(* the head of inbox until its invocation has ended.                       *)
(***************************************************************************)
EndOfInvocation(t) ==
  /\ doing' = [doing EXCEPT ![t] = Idle]
  /\ inbox' = IF t = "own" THEN Tail(inbox) ELSE inbox

Route ==
  LET d == Head(inbox) IN
  /\ doing["own"].at = "idle"
  /\ inbox # <<>>
  /\ IF RouteStarts(d) = "none"
     THEN EndOfInvocation("own")
     ELSE /\ doing' = [doing EXCEPT !["own"] = [at |-> "routed", role |-> RouteStarts(d),
                                                run |-> 0, why |-> d.kind]]
          /\ UNCHANGED inbox
  /\ blocked' = (blocked /\ ~Unblocks(d))
  /\ overtaken' = FALSE
  /\ UNCHANGED <<state, marker, notices, runs, spent, sweep, dropped, errors, restarts,
                 comments, epicReads, emptyRuns>>

(* The delivery is stamped failed and nothing looks at it again.  If it    *)
(* was a restart, its guid is spent all the same.                          *)
Drops(isRestart) == dropped' = IF isRestart THEN dropped \cup {Len(runs)} ELSE dropped

RouteRaises ==
  /\ doing["own"].at = "idle"
  /\ inbox # <<>>
  /\ Raises("route")
  /\ EndOfInvocation("own")
  /\ Drops(Head(inbox).kind = "restart")
  /\ UNCHANGED <<issue, runs, spent, sweep, overtaken, restarts, comments, epicReads,
                 emptyRuns>>

(* expedited_ready_tasks, run for the epic after its Dispatcher.           *)
EpicReadsTask ==
  /\ Expedited
  /\ epicReads < MaxEpicReads
  /\ doing["epic"].at = "idle"
  /\ state = "ready" /\ ~marker /\ ~blocked
  /\ doing' = [doing EXCEPT !["epic"] = [at |-> "routed", role |-> "implementer",
                                         run |-> 0, why |-> "epic"]]
  /\ epicReads' = epicReads + 1
  /\ UNCHANGED <<issue, table, sweep, past, errors, restarts, comments, emptyRuns>>

StartRun(t) ==
  /\ doing[t].at = "routed"
  /\ Len(runs) < MaxRuns
  /\ runs' = Append(runs, [role |-> doing[t].role, kind |-> "open", age |-> 0,
                           why |-> doing[t].why])
  /\ doing' = [doing EXCEPT ![t].at = "opened", ![t].run = Len(runs) + 1]
  /\ UNCHANGED <<issue, inbox, spent, sweep, history>>

(* start_run, outside any try: the delivery fails before its run began.    *)
StartRaises(t) ==
  /\ doing[t].at = "routed"
  /\ Raises("start")
  /\ EndOfInvocation(t)
  /\ Drops(doing[t].why = "restart")
  /\ UNCHANGED <<issue, runs, spent, sweep, overtaken, restarts, comments, epicReads,
                 emptyRuns>>

(* Best effort: failing to label must never fail a run.                    *)
MarkInProgress(t) ==
  /\ doing[t].at = "opened"
  /\ \/ marker' = TRUE /\ UNCHANGED errors
     \/ Raises("mark") /\ UNCHANGED marker
  /\ doing' = [doing EXCEPT ![t].at = "working"]
  /\ UNCHANGED <<state, blocked, notices, table, sweep, past, restarts, comments, epicReads,
                 emptyRuns>>

(* The agent flips the issue's label, or stops with questions.             *)
AgentMoves(t) ==
  /\ doing[t].at = "working"
  /\ state \in RoleStarts[doing[t].role]
  /\ \/ /\ state' \in Moves[doing[t].role] \ {state}
        /\ UNCHANGED <<blocked, emptyRuns>>
     \/ /\ emptyRuns < MaxEmptyRuns
        /\ emptyRuns' = emptyRuns + 1
        /\ blocked' = TRUE
        /\ UNCHANGED state
  /\ doing' = [doing EXCEPT ![t].at = "worked"]
  /\ overtaken' = (overtaken \/ (t = "epic" /\ doing["own"].at = "routed"))
  /\ UNCHANGED <<marker, notices, table, sweep, dropped, errors, restarts, comments, epicReads>>

(* finish_run.  A run that changed a label has left a trace and is no      *)
(* no_op; one that changed none may have, in a comment.                    *)
EndsAs(t, kind) ==
  \/ kind = "failed" /\ UNCHANGED emptyRuns
  \/ kind = "success" /\ doing[t].at = "worked" /\ UNCHANGED emptyRuns
  \/ /\ \/ kind = "limit"
        \/ kind \in {"success", "other"} /\ doing[t].at = "working"
     /\ emptyRuns < MaxEmptyRuns
     /\ emptyRuns' = emptyRuns + 1

FinishRun(t, kind) ==
  /\ doing[t].at \in {"working", "worked"}
  /\ EndsAs(t, kind)
  /\ runs' = [runs EXCEPT ![doing[t].run].kind = kind]
  /\ doing' = [doing EXCEPT ![t].at = "ended"]
  /\ UNCHANGED <<issue, inbox, spent, sweep, past, errors, restarts, comments, epicReads>>

(* finish_run raises, there and again where the crash is recorded: the row *)
(* stays open, with nothing behind it.  The marker is taken off all the    *)
(* same, and the exception ends the invocation without a chain.            *)
FinishRaises(t) ==
  /\ doing[t].at \in {"working", "worked"}
  /\ Raises("finish")
  /\ doing' = [doing EXCEPT ![t].at = "ended"]
  /\ UNCHANGED <<issue, table, sweep, past, restarts, comments, epicReads, emptyRuns>>

ClearInProgress(t) ==
  /\ doing[t].at = "ended"
  /\ \/ marker' = FALSE /\ UNCHANGED errors
     \/ Raises("clear") /\ UNCHANGED marker
  /\ doing' = [doing EXCEPT ![t].at = "cleared"]
  /\ UNCHANGED <<state, blocked, notices, table, sweep, past, restarts, comments, epicReads,
                 emptyRuns>>

(* chain_node: the document chain, and the stages of an expedited issue.   *)
(* It reads the issue again.                                               *)
ChainsTo(t) ==
  CASE runs[doing[t].run].kind # "success" -> "none"
    [] doing[t].role \in {"planner", "testplanner"} ->
         IF state = "planned" THEN "architect" ELSE "none"
    [] Expedited /\ state # "closed" -> ExpediteNow(Now)
    [] OTHER -> "none"

Chain(t) ==
  /\ doing[t].at = "cleared"
  /\ IF ChainsTo(t) = "none"
     THEN EndOfInvocation(t)
     ELSE /\ doing' = [doing EXCEPT ![t] = [at |-> "routed", role |-> ChainsTo(t),
                                            run |-> 0, why |-> "chain"]]
          /\ UNCHANGED inbox
  /\ UNCHANGED <<issue, runs, spent, sweep, history>>

(* Reading the issue raised: the delivery fails with its runs done.        *)
ChainRaises(t) ==
  /\ doing[t].at = "cleared"
  /\ Raises("chain")
  /\ EndOfInvocation(t)
  /\ UNCHANGED <<issue, runs, spent, sweep, past, restarts, comments, epicReads, emptyRuns>>
-----------------------------------------------------------------------------
(***************************************************************************)
(* The reconciler's pass.                                                  *)
(***************************************************************************)

(* A pass asks the database which repos there are.  Nothing catches an     *)
(* error of that: the reconciler's thread ends, and the process goes on    *)
(* without it.                                                             *)
ReconcilerDies ==
  /\ sweep.at = "idle"
  /\ Raises("repos")
  /\ sweep' = [NotSweeping EXCEPT !.at = "dead"]
  /\ UNCHANGED <<issue, table, doing, past, restarts, comments, epicReads, emptyRuns>>

(* list_issues: only open ones.                                            *)
SweepLists ==
  /\ sweep.at = "idle"
  /\ state # "closed"
  /\ sweep' = [at |-> "listed", labels |-> Now, runs |-> <<>>, newest |-> 0]
  /\ UNCHANGED <<issue, table, doing, history>>

(* list_runs, no more than ReadLimit of them, then the marker it finds     *)
(* stale is taken off the issue and off the labels it goes on with.  A     *)
(* call that raises ends the pass.                                         *)
ClearsMarker == sweep.labels.marker /\ StaleMarker(sweep.runs)

SweepReads ==
  /\ sweep.at = "listed"
  /\ sweep' = [sweep EXCEPT !.at = "read", !.newest = Len(runs),
                            !.runs = SubSeq(runs, ReadFrom(Len(runs)), Len(runs))]
  /\ UNCHANGED <<issue, table, doing, history>>

SweepClears ==
  /\ sweep.at = "read" /\ ClearsMarker
  /\ \/ /\ marker' = FALSE
        /\ sweep' = [sweep EXCEPT !.labels.marker = FALSE]
        /\ UNCHANGED errors
     \/ Raises("sweep") /\ sweep' = NotSweeping /\ UNCHANGED marker
  /\ UNCHANGED <<state, blocked, notices, table, doing, past, restarts, comments, epicReads,
                 emptyRuns>>

Queue(d) ==
  /\ Len(inbox) < MaxInbox
  /\ inbox' = Append(inbox, d)

(* _queue_restart: the guid names the run that left the issue idle.        *)
SweepRestarts ==
  LET role == StalledRole(sweep.labels, sweep.runs)
      run  == sweep.newest
  IN
  /\ sweep.at = "read" /\ ~ClearsMarker
  /\ role # "none"
  /\ IF run \in spent THEN UNCHANGED inbox
     ELSE Queue([kind |-> "restart", role |-> role, expect |-> sweep.labels.state])
  /\ spent' = spent \cup {run}
  /\ sweep' = NotSweeping
  /\ UNCHANGED <<issue, runs, doing, history>>

(* _queue_labeled: a guid of its own each time.                            *)
SweepRequeues ==
  /\ sweep.at = "read" /\ ~ClearsMarker
  /\ MissedStep(sweep.labels, sweep.runs)
  /\ Queue([kind |-> "labeled", labels |-> sweep.labels])
  /\ sweep' = NotSweeping
  /\ UNCHANGED <<issue, runs, spent, doing, history>>

GivesUp ==
  /\ sweep.at = "read" /\ ~ClearsMarker
  /\ StalledRole(sweep.labels, sweep.runs) = "none"
  /\ GaveUpOn(sweep.labels, sweep.runs)
  /\ sweep.newest \notin notices

(* report_gave_up: the comment, whose mark says it was made, then the      *)
(* label.  Either call may raise; what is done stays done.                 *)
SweepPostsNotice ==
  /\ GivesUp
  /\ \/ /\ notices' = notices \cup {sweep.newest}
        /\ sweep' = [sweep EXCEPT !.at = "noticed"]
        /\ UNCHANGED errors
     \/ Raises("notice") /\ sweep' = NotSweeping /\ UNCHANGED notices
  /\ UNCHANGED <<state, blocked, marker, table, doing, past, restarts, comments, epicReads,
                 emptyRuns>>

SweepBlocks ==
  /\ sweep.at = "noticed"
  /\ \/ blocked' = TRUE /\ UNCHANGED errors
     \/ Raises("block") /\ UNCHANGED blocked
  /\ sweep' = NotSweeping
  /\ UNCHANGED <<state, marker, notices, table, doing, past, restarts, comments, epicReads,
                 emptyRuns>>

SweepPasses ==
  /\ sweep.at = "read" /\ ~ClearsMarker
  /\ StalledRole(sweep.labels, sweep.runs) = "none"
  /\ ~GivesUp
  /\ ~MissedStep(sweep.labels, sweep.runs)
  /\ sweep' = NotSweeping
  /\ UNCHANGED <<issue, table, doing, history>>
-----------------------------------------------------------------------------
(* Ten minutes.  A pass takes its time before it lists the issues, so the  *)
(* ages it reads are those of the moment it began.                         *)
TimePasses ==
  /\ sweep.at # "listed"
  /\ \E i \in DOMAIN runs : runs[i].kind # "open" /\ runs[i].age < 2
  /\ runs' = [i \in DOMAIN runs |->
                IF runs[i].kind # "open" /\ runs[i].age < 2
                THEN [runs[i] EXCEPT !.age = @ + 1] ELSE runs[i]]
  /\ UNCHANGED <<issue, inbox, spent, doing, sweep, history>>

(* The process stops and starts again.  Before its worker and reconciler   *)
(* do, the runs it left open are closed and, as far as GitHub lets it, the *)
(* marker is taken off.  What was being processed is pending again.        *)
Interrupted(rs) ==
  [i \in DOMAIN rs |-> IF rs[i].kind = "open" THEN [rs[i] EXCEPT !.kind = "interrupted"]
                       ELSE rs[i]]

Restart ==
  /\ restarts < MaxRestarts
  /\ restarts' = restarts + 1
  /\ runs' = Interrupted(runs)
  /\ \/ /\ marker' = (marker /\ \A i \in DOMAIN runs : runs[i].kind # "open")
        /\ UNCHANGED errors
     \/ /\ \E i \in DOMAIN runs : runs[i].kind = "open"
        /\ Raises("clear")
        /\ UNCHANGED marker
  /\ doing' = [t \in Threads |-> Idle]
  /\ sweep' = NotSweeping
  /\ UNCHANGED <<state, blocked, notices, inbox, spent, past, comments, epicReads, emptyRuns>>

Step(t) ==
  \/ StartRun(t) \/ StartRaises(t)
  \/ MarkInProgress(t)
  \/ AgentMoves(t)
  \/ \E kind \in Kinds : FinishRun(t, kind)
  \/ FinishRaises(t)
  \/ ClearInProgress(t)
  \/ Chain(t) \/ ChainRaises(t)

Sweeps ==
  \/ SweepLists \/ SweepReads \/ SweepClears \/ SweepRestarts \/ SweepRequeues
  \/ SweepPostsNotice \/ SweepBlocks \/ SweepPasses

Next ==
  \/ \E approved \in BOOLEAN : HumanComments(approved)
  \/ Route \/ RouteRaises \/ EpicReadsTask
  \/ \E t \in Threads : Step(t)
  \/ Sweeps
  \/ ReconcilerDies
  \/ TimePasses
  \/ Restart

Spec == Init /\ [][Next]_vars

(***************************************************************************)
(* Fairness.  The worker's threads and the reconciler's keep running, a    *)
(* run ends (the role's wall clock sees to it), the clock moves.  Nothing  *)
(* is asked of people, of failures, or of the process stopping.            *)
(***************************************************************************)
Fairness ==
  /\ WF_vars(Route)
  /\ \A t \in Threads : WF_vars(Step(t))
  /\ WF_vars(Sweeps)
  /\ SF_vars(TimePasses)

FairSpec == Spec /\ Fairness
-----------------------------------------------------------------------------
(***************************************************************************)
(* What must hold.                                                         *)
(***************************************************************************)

(* A run is about to be opened for a delivery of this kind.                *)
Opens(why) == Len(runs') > Len(runs) /\ runs'[Len(runs')].why = why

AtAStartOf(run) == state \in RoleStarts[run.role]

(* The runs of the series that are not restarts.                           *)
StartedAfresh(rs) == {i \in SinceSuccess(rs) : rs[i].why # "restart"}

(* The runs before the series for which the sweep queued a restart that    *)
(* may come in it, and those of its role that were started as restarts.    *)
Earlier(rs) == DOMAIN rs \ SinceSuccess(rs)

EarlierQueued(rs) ==
  {i \in spent \cap Earlier(rs) : Expedited \/ rs[i].role = Newest(rs).role}

EarlierStarted(rs) ==
  {i \in Earlier(rs) : rs[i].why = "restart" /\ rs[i].role = Newest(rs).role}

(* The runs of the series from which a sweep reads back to the one before: *)
(* the reads of ReadLimit runs that it takes to see all of it.             *)
ReadsOf(rs) == {i \in SinceSuccess(rs) : (Len(rs) - i) % ReadLimit = 0}

(* A role that keeps failing is started again at most MAX_RETRIES times    *)
(* for the times somebody started it, whatever limits, stale passes and    *)
(* deliveries came in between, as long as the sweep's one read reaches     *)
(* back over the whole series, and as often again for each further read    *)
(* it would take.  A restart that was queued before the role last          *)
(* succeeded and is routed only now comes on top, and each stop of the     *)
(* process may add one: a run that has ended but whose delivery is not yet *)
(* stamped is run again.                                                   *)
RetriesAreCapped ==
  runs # <<>> =>
    Cardinality({i \in SinceSuccess(runs) : runs[i].kind = "failed"})
        + Cardinality(EarlierStarted(runs))
      <= MaxRetries * Cardinality(ReadsOf(runs)) + Cardinality(StartedAfresh(runs))
           + restarts + Cardinality(EarlierQueued(runs))

(* A restart never repeats work: the role it starts finds the issue in a   *)
(* state that role starts from, although the sweep saw it there some time  *)
(* ago and other deliveries were routed in between.  Only the thread of    *)
(* the issue's epic can get between the look and the run.                  *)
RestartsFindWork ==
  [][Opens("restart") => AtAStartOf(runs'[Len(runs')]) \/ overtaken]_vars

(* The one restart a run may be followed by is spent and gone without a    *)
(* run: it raised where it was routed, or where its run was to begin.      *)
RestartLost == Len(runs) \in spent \cap dropped

(* An issue its role left unfinished is not forgotten: the role runs       *)
(* again, or a person is told that it will not, while there is a           *)
(* reconciler and unless the restart itself was lost.                      *)
UnfinishedIsAnswered ==
  (Quiet(runs) /\ Unfinished(Now, runs))
    ~> (\/ ~Quiet(runs) \/ blocked \/ Len(runs) \in notices
        \/ ~Unfinished(Now, runs) \/ RestartLost \/ sweep.at = "dead")

(* An expedited issue that sits idle at a state the map advances, its      *)
(* chain having broken, is started again (up to the bound on runs), unless *)
(* the restart itself was lost.                                            *)
BrokenChainResumes ==
  (Quiet(runs) /\ Expedited /\ ExpeditedNext(state) # "none")
    ~> (\/ ~Quiet(runs) \/ blocked \/ Len(runs) = MaxRuns \/ RestartLost
        \/ ExpeditedNext(state) = "none" \/ sweep.at = "dead")

(* A marker that outlived its run is taken off, or another run is on,      *)
(* while there is a reconciler.                                            *)
StaleMarkerGoes ==
  (marker /\ Quiet(runs))
    ~> (~marker \/ ~Quiet(runs) \/ state = "closed" \/ sweep.at = "dead")
-----------------------------------------------------------------------------
(***************************************************************************)
(* What the documents say and the code does not do.                        *)
(***************************************************************************)

(* "Everything it queues flows through the same idempotent router, so a    *)
(* double-detection is harmless": a step queued twice starts its role only *)
(* where that role starts.                                                 *)
DoubleDetectionIsHarmless ==
  [][Opens("labeled") => AtAStartOf(runs'[Len(runs')])]_vars

(* "every node re-reads GitHub before acting": a comment starts a role     *)
(* only where the role starts.                                             *)
CommentsActOnTheIssueAsItIs ==
  [][Opens("comment") => AtAStartOf(runs'[Len(runs')])]_vars

(* "a chained run can never double up on a live one".                      *)
OneLiveRun ==
  \A i, j \in DOMAIN runs : runs[i].kind = "open" /\ runs[j].kind = "open" => i = j

(* "a factory agent run is live on this issue right now": an agent at work *)
(* whose marker was put on is marked.                                      *)
LiveRunIsMarked ==
  \A t \in Threads : doing[t].at \in {"working", "worked"} => marker

(* "exit 0 but nothing visible happened: fail it", and failures are        *)
(* answered MAX_RETRIES times "before a human must look".                  *)
NoOpsAreFailures ==
  runs # <<>> =>
    Cardinality({i \in SinceSuccess(runs) : runs[i].kind \in {"failed", "other"}})
      <= MaxRetries + Cardinality(StartedAfresh(runs))

(* "hold the issue at factory:blocked until someone answers" and, of a     *)
(* call that raised, "the next sweep tries again".                         *)
GivingUpHolds ==
  (Quiet(runs) /\ Len(runs) \in notices) ~> (~Quiet(runs) \/ blocked)

(* "If this issue is still where the run started, the factory starts the   *)
(* role again on its own".                                                 *)
InterruptedStartsAgain ==
  (Quiet(runs) /\ Newest(runs).kind = "interrupted" /\ Unfinished(Now, runs))
    ~> (~Quiet(runs) \/ blocked \/ ~Unfinished(Now, runs))
=============================================================================
