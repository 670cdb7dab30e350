----------------------------- MODULE SystemTests -----------------------------
(***************************************************************************)
(* One epic between its build and production: its system test cases, the   *)
(* bugs testers raise on it, the tasks that fix them, and gate GS.         *)
(*                                                                         *)
(* Testers answer a case or a re-test by a comment; the router, one thread *)
(* per issue (the promise of module Inbox), judges it by the labels and    *)
(* the body its payload carried and changes the issue call by call.  What  *)
(* may then be tested again, and whether the epic is complete, only a run  *)
(* of the Dispatcher decides, and only who asks for one gets it.           *)
(*                                                                         *)
(* A run of a role is one step here; what may happen while it runs is      *)
(* module RunRecovery.  Approver lists, refusals that change nothing and   *)
(* the wording of notices are left out.                                    *)
(***************************************************************************)
EXTENDS Naturals, Sequences, FiniteSets

CONSTANTS
  Policies,     \* the testing policies the repo may have
  NumCases,     \* the cases of the plan are numbered 1 .. NumCases
  Deps,         \* Deps[c]: the tasks a case's body says it is blocked by
  Built,        \* the epic's own tasks are numbered 1 .. Built
  MaxReports,   \* bound: bugs people report
  MaxEvents,    \* bound: reports, comments, closes, calls that raise and stops
                \* of the process, together
  MaxInbox      \* bound: comments waiting on one issue

(* "gate": an open case or bug holds the epic.  "advisory": it does not.   *)
(* "staging": the cases run on staging, after gate GS, and hold nothing.   *)
ASSUME TestsAssumption ==
  /\ Policies \subseteq {"gate", "advisory", "staging"}
  /\ {NumCases, Built, MaxReports, MaxEvents, MaxInbox} \subseteq Nat
  /\ Built > 0
  /\ Deps \in [1 .. NumCases -> SUBSET (1 .. Built)]

(* A report, a failed verdict and a replay may each file a task; a report  *)
(* and a replay may each open a bug.                                       *)
Tasks   == 1 .. Built + MaxEvents
Reports == 1 .. MaxReports
Cases   == 1 .. NumCases
Bugs    == NumCases + 1 .. NumCases + MaxEvents
Kids    == Cases \cup Bugs

VARIABLES
  (* GitHub *)
  policy,       \* .github/factory-testing.json
  epic,         \* the epic's state
  task,         \* task[t]: where a task stands
  kid,          \* kid[k]: a case or a bug report
  matrix,       \* the test matrix is on the epic of a repo that tests on staging
  (* the deliveries table *)
  inbox,        \* inbox[k]: the deliveries of a case or a bug
  epicInbox,    \* those of the epic
  (* the process *)
  doing,        \* doing[k]: where the thread of a case or bug is
  epicDoing,    \* where the epic's thread is
  report,       \* report[r]: a report and the thread that raises it
  asked,        \* a run of the Dispatcher is due
  (* history and bounds *)
  reported,     \* the bugs open when the approval that released was written
  events,       \* what happened of the bound's events
  errors,       \* calls that raised
  missed,       \* why the Dispatcher may have missed something since its last run
  withdrawn     \* the cases that were closed by hand

github  == <<policy, epic, task, kid, matrix>>
table   == <<inbox, epicInbox>>
bounds  == <<events, errors, missed, withdrawn>>
vars == <<policy, epic, task, kid, matrix, inbox, epicInbox, doing, epicDoing, report, asked,
          reported, events, errors, missed, withdrawn>>

Labels == {"manual", "passed", "failed", "skipped", "bug", "open", "retest", "verified"}

(* named: its title says whose bug it is.  blockedBy: the tasks its body   *)
(* names.                                                                  *)
Kid == [there : BOOLEAN, closed : BOOLEAN, named : BOOLEAN, labels : SUBSET Labels,
        blockedBy : SUBSET Tasks]

NoKid == [there |-> FALSE, closed |-> FALSE, named |-> FALSE, labels |-> {}, blockedBy |-> {}]

Delivery     == [says : {"passed", "failed", "skip", "closed"}, kid : Kid]
EpicDelivery == [says : {"approved", "skip"}, at : {"design-approved", "epic-ready", "in-staging"},
                 open : SUBSET Bugs]

(* What a thread has still to do to its issue: fix is the task it filed.   *)
Move == [at : {"idle", "filing", "linking", "dropping", "adding", "closing", "ending"},
         fix : SUBSET Tasks, drop : SUBSET Labels, add : SUBSET Labels, closes : BOOLEAN]

Idle == [at |-> "idle", fix |-> {}, drop |-> {}, add |-> {}, closes |-> FALSE]

TypeOK ==
  /\ policy \in Policies
  /\ epic \in {"design-approved", "epic-ready", "in-staging"}
  /\ task \in [Tasks -> {"none", "building", "landed", "staged"}]
  /\ kid \in [Kids -> Kid]
  /\ matrix \in BOOLEAN /\ asked \in BOOLEAN
  /\ inbox \in [Kids -> Seq(Delivery)]
  /\ epicInbox \in Seq(EpicDelivery)
  /\ doing \in [Kids -> Move]
  /\ epicDoing \in [at : {"idle", "releasing", "dropping", "adding", "closing", "skipped"},
                    todo : [Cases -> SUBSET Labels], left : SUBSET Cases]
  /\ epicDoing.left = {} <=> epicDoing.at \in {"idle", "releasing", "skipped"}
  /\ report \in [Reports -> [at : {"none", "asked", "opening", "labelling", "filing", "linking",
                                   "done"},
                             bug : SUBSET Bugs, fix : SUBSET Tasks, filed : BOOLEAN]]
  /\ reported \subseteq Bugs
  /\ events \in 0 .. MaxEvents /\ errors \in 0 .. events
  /\ missed \subseteq {"raise", "stop", "hand"} /\ withdrawn \subseteq Cases

NotSkipping == [at |-> "idle", todo |-> [c \in Cases |-> {}], left |-> {}]

NoReport == [at |-> "none", bug |-> {}, fix |-> {}, filed |-> FALSE]

Init ==
  /\ policy \in Policies
  /\ epic = "design-approved"
  /\ task = [t \in Tasks |-> IF t <= Built THEN "building" ELSE "none"]
  /\ kid = [k \in Kids |-> IF k \in Cases
                           THEN [NoKid EXCEPT !.there = TRUE, !.named = TRUE, !.blockedBy = Deps[k]]
                           ELSE NoKid]
  /\ matrix = FALSE /\ asked = FALSE
  /\ inbox = [k \in Kids |-> <<>>] /\ epicInbox = <<>>
  /\ doing = [k \in Kids |-> Idle] /\ epicDoing = NotSkipping
  /\ report = [r \in Reports |-> NoReport]
  /\ reported = {} /\ events = 0 /\ errors = 0 /\ missed = {} /\ withdrawn = {}
-----------------------------------------------------------------------------
(***************************************************************************)
(* What the router and the Dispatcher read.                                *)
(***************************************************************************)

(* A plausible slip: a bug that waits for its re-test holds nothing.       *)
BugsWithoutFix == {b \in Bugs : /\ kid[b].there /\ ~kid[b].closed
                                /\ kid[b].named /\ "open" \in kid[b].labels}

(* open_bugs finds them by their title, not by their label.                *)
OpenBugs == {b \in Bugs : /\ kid[b].there /\ ~kid[b].closed
                          /\ kid[b].named /\ "bug" \in kid[b].labels
                          /\ "verified" \notin kid[b].labels}

Unsettled(c) == kid[c].labels \cap {"passed", "skipped"} = {}

OpenCases == {c \in Cases : ~kid[c].closed /\ Unsettled(c)}

(* The phases in which the Dispatcher is run again.                        *)
ReDispatchable ==
  epic = "design-approved" \/ (epic = "in-staging" /\ policy = "staging")

Holds == policy = "gate"

Assembled(ts) ==
  \A t \in ts : task[t] = "staged" \/ (policy # "staging" /\ task[t] = "landed")
-----------------------------------------------------------------------------
(***************************************************************************)
(* People.                                                                 *)
(***************************************************************************)
Happens == events < MaxEvents /\ events' = events + 1

Errs == Happens /\ errors' = errors + 1

Says(k, what) ==
  /\ Happens
  /\ kid[k].there /\ Len(inbox[k]) < MaxInbox
  /\ inbox' = [inbox EXCEPT ![k] = Append(@, [says |-> what, kid |-> kid[k]])]

(* Test Passed or Test Failed, where there is something to answer.         *)
Verdict(k, what) ==
  /\ kid[k].labels \cap {"manual", "retest"} # {}
  /\ Says(k, what)
  /\ UNCHANGED <<github, epicInbox, doing, epicDoing, report, asked, reported, errors, missed,
                 withdrawn>>

SkipCase(c) ==
  /\ Says(c, "skip")
  /\ UNCHANGED <<github, epicInbox, doing, epicDoing, report, asked, reported, errors, missed,
                 withdrawn>>

(* A report that is no defect, or a duplicate, is closed by hand; so is a  *)
(* case, by the Test Planner that withdraws it too.                        *)
CloseByHand(k) ==
  /\ ~kid[k].closed
  /\ Says(k, "closed")
  /\ kid' = [kid EXCEPT ![k].closed = TRUE]
  /\ withdrawn' = withdrawn \cup ({k} \cap Cases)
  /\ missed' = missed \cup (IF k \in Cases THEN {"hand"} ELSE {})
  /\ UNCHANGED <<policy, epic, task, matrix, epicInbox, doing, epicDoing, report, asked, reported,
                 errors>>

(* Approved or Skip tests on the epic.                                     *)
OnEpic(what) ==
  /\ Happens
  /\ Len(epicInbox) < MaxInbox
  /\ what = "approved" => epic = "epic-ready"
  /\ epicInbox' = Append(epicInbox, [says |-> what, at |-> epic, open |-> {b \in Bugs :
       kid[b].there /\ ~kid[b].closed /\ kid[b].labels \cap {"open", "retest"} # {}}])
  /\ UNCHANGED <<github, inbox, doing, epicDoing, report, asked, reported, errors, missed,
                 withdrawn>>

NewBug(b) == b \in Bugs /\ ~kid[b].there /\ \A o \in Bugs : ~kid[o].there => b <= o

(* A comment Bug on the epic or on one of its children.                    *)
CommentBug(r) ==
  /\ report[r].at = "none" /\ Happens
  /\ report' = [report EXCEPT ![r].at = "asked"]
  /\ UNCHANGED <<github, table, doing, epicDoing, asked, reported, errors, missed, withdrawn>>

(* An issue somebody wrote and labelled factory:bug, naming the epic.      *)
FileBug(r, b) ==
  /\ report[r].at = "none" /\ NewBug(b) /\ Happens
  /\ kid' = [kid EXCEPT ![b] = [NoKid EXCEPT !.there = TRUE, !.labels = {"bug"}]]
  /\ report' = [report EXCEPT ![r] = [NoReport EXCEPT !.at = "asked", !.bug = {b}, !.filed = TRUE]]
  /\ UNCHANGED <<policy, epic, task, matrix, table, doing, epicDoing, asked, reported, errors,
                 missed, withdrawn>>
-----------------------------------------------------------------------------
(***************************************************************************)
(* Roles.  A landed task's release run asks for the Dispatcher, where the  *)
(* epic is in a phase that has one and can be read.  A fix is started, by  *)
(* the route that filed it or by a person, once that route is done.        *)
(***************************************************************************)
BeingFiled(t) ==
  \/ \E k \in Kids : t \in doing[k].fix
  \/ \E r \in Reports : report[r].at = "linking" /\ t \in report[r].fix

Land(t) ==
  /\ task[t] = "building" /\ ~BeingFiled(t)
  /\ task' = [task EXCEPT ![t] = IF epic = "in-staging" THEN "staged" ELSE "landed"]
  /\ \/ asked' = (asked \/ ReDispatchable) /\ UNCHANGED bounds
     \/ Errs /\ missed' = missed \cup {"raise"} /\ UNCHANGED <<asked, withdrawn>>
  /\ UNCHANGED <<policy, epic, kid, matrix, table, doing, epicDoing, report, reported>>

(* A plausible slip: one landed fix is enough for a re-test.               *)
AnyFixLanded(b) == \E t \in kid[b].blockedBy : Assembled({t})

FixesLanded(b) == kid[b].blockedBy # {} /\ Assembled(kid[b].blockedBy)

Runnable(c) ==
  /\ ~kid[c].closed
  /\ Assembled(kid[c].blockedBy)
  /\ \/ kid[c].labels = {} /\ \E t \in Tasks : Assembled({t})
     \/ "failed" \in kid[c].labels /\ Unsettled(c) /\ kid[c].blockedBy # {}

Retestable(b) == b \in OpenBugs /\ "open" \in kid[b].labels /\ FixesLanded(b)

Relabelled(k, drop, add) == [kid[k] EXCEPT !.labels = (@ \ drop) \cup add]

Settled == OpenCases = {} /\ OpenBugs = {}

Complete ==
  /\ \A t \in Tasks : task[t] # "building"
  /\ Holds => Settled

(* The Dispatcher releases what can be tested, and moves a complete epic   *)
(* to gate GS or, once the epic is on staging, posts the matrix.           *)
Dispatch ==
  /\ asked
  /\ kid' = [k \in Kids |->
       CASE k \in Cases /\ Runnable(k)  -> Relabelled(k, {"failed"}, {"manual"})
         [] k \in Bugs /\ Retestable(k) -> Relabelled(k, {"open"}, {"retest"})
         [] OTHER                       -> kid[k]]
  /\ epic' = IF epic = "design-approved" /\ Complete THEN "epic-ready" ELSE epic
  /\ matrix' = (matrix \/ (policy = "staging" /\ epic = "in-staging" /\ Settled))
  /\ asked' = FALSE /\ missed' = {}
  /\ UNCHANGED <<policy, task, table, doing, epicDoing, report, reported, events, errors,
                 withdrawn>>
-----------------------------------------------------------------------------
(***************************************************************************)
(* The thread of a case or a bug.  It keeps its delivery at the head of    *)
(* the inbox until it is done with it.                                     *)
(***************************************************************************)
NewTask(t) == task[t] = "none" /\ \A o \in Tasks : task[o] = "none" => t <= o

(* Adopting a filed report is a delivery of that issue too.                *)
BeingRaised(b) == \E r \in Reports : report[r].filed /\ b \in report[r].bug
                                      /\ report[r].at # "done"

Payload(k) == Head(inbox[k])

Bears(k, label) == label \in Payload(k).kid.labels

(* The labels are put on before the issue is closed or left.               *)
Changes(drop, add, closes) ==
  [Idle EXCEPT !.at = "dropping", !.drop = drop, !.add = add, !.closes = closes]

Fails(drop, add) == [Changes(drop, add, FALSE) EXCEPT !.at = "filing"]

(* The controls of a case and of a bug, judged by what the payload showed. *)
CasePasses(k) == k \in Cases /\ Payload(k).says = "passed" /\ Bears(k, "manual")

(* A Blocked by line in the body is taken for a fix that was filed.        *)
CaseFails(k) ==
  k \in Cases /\ Payload(k).says = "failed" /\ Bears(k, "manual") /\ Payload(k).kid.blockedBy = {}

CaseSkips(k) ==
  /\ k \in Cases /\ Payload(k).says = "skip"
  /\ ~Payload(k).kid.closed /\ ~Bears(k, "passed") /\ ~Bears(k, "skipped")

NamedBug(k) == k \in Bugs /\ Payload(k).kid.named

BugPasses(k) == NamedBug(k) /\ Payload(k).says = "passed" /\ Bears(k, "retest")

BugFails(k) == NamedBug(k) /\ Payload(k).says = "failed" /\ Bears(k, "retest")

BugCloses(k) == NamedBug(k) /\ Payload(k).says = "closed"

(* A verdict on what waits for none is answered, and changes nothing.      *)
NoEffect == Idle

Answer(k) ==
  CASE CasePasses(k) -> Changes({"manual"}, {"passed"}, TRUE)
    [] CaseFails(k)  -> Fails({"manual"}, {"failed"})
    [] CaseSkips(k)  -> Changes(Payload(k).kid.labels \cap {"manual", "failed"}, {"skipped"}, TRUE)
    [] BugPasses(k)  -> Changes({"retest"}, {"verified"}, TRUE)
    [] BugFails(k)   -> Fails({"retest"}, {"open"})
    [] BugCloses(k)  -> [Idle EXCEPT !.at = "ending"]
    [] OTHER         -> NoEffect

EndOfDelivery(k) ==
  /\ doing' = [doing EXCEPT ![k] = Idle]
  /\ inbox' = [inbox EXCEPT ![k] = Tail(@)]

Route(k) ==
  /\ doing[k].at = "idle" /\ inbox[k] # <<>> /\ ~BeingRaised(k)
  /\ IF Answer(k) = NoEffect
     THEN EndOfDelivery(k)
     ELSE doing' = [doing EXCEPT ![k] = Answer(k)] /\ UNCHANGED inbox
  /\ UNCHANGED <<github, epicInbox, epicDoing, report, asked, reported, bounds>>

Goes(k, at) == doing' = [doing EXCEPT ![k].at = at]

FileFix(k) ==
  /\ doing[k].at = "filing"
  /\ \E t \in Tasks :
       /\ NewTask(t)
       /\ task' = [task EXCEPT ![t] = "building"]
       /\ doing' = [doing EXCEPT ![k].at = "linking", ![k].fix = {t}]
  /\ UNCHANGED <<policy, epic, kid, matrix, table, epicDoing, report, asked, reported, bounds>>

(* The body is written anew from the payload's.                            *)
LinkFix(k) ==
  /\ doing[k].at = "linking"
  /\ kid' = [kid EXCEPT ![k].blockedBy = Payload(k).kid.blockedBy \cup doing[k].fix]
  /\ Goes(k, "dropping")
  /\ UNCHANGED <<policy, epic, task, matrix, table, epicDoing, report, asked, reported, bounds>>

Drop(k) ==
  /\ doing[k].at = "dropping"
  /\ kid' = [kid EXCEPT ![k].labels = @ \ doing[k].drop]
  /\ Goes(k, "adding")
  /\ UNCHANGED <<policy, epic, task, matrix, table, epicDoing, report, asked, reported, bounds>>

Add(k) ==
  /\ doing[k].at = "adding"
  /\ kid' = [kid EXCEPT ![k].labels = @ \cup doing[k].add]
  /\ Goes(k, IF doing[k].closes THEN "closing" ELSE "ending")
  /\ UNCHANGED <<policy, epic, task, matrix, table, epicDoing, report, asked, reported, bounds>>

(* The App's own close of a bug comes back as an event like anybody's.     *)
Close(k) ==
  /\ doing[k].at = "closing"
  /\ kid' = [kid EXCEPT ![k].closed = TRUE]
  /\ inbox' = IF k \in Cases \/ kid[k].closed THEN inbox
              ELSE [inbox EXCEPT ![k] = Append(@, [says |-> "closed", kid |-> kid'[k]])]
  /\ Goes(k, "ending")
  /\ UNCHANGED <<policy, epic, task, matrix, epicInbox, epicDoing, report, asked, reported, bounds>>

(* A plausible slip: a close is nobody's verdict and asks for nothing.     *)
AsksOnVerdicts(k) == Payload(k).says \in {"passed", "skip"} /\ epic = "design-approved"

(* Who asks for the Dispatcher, and in which phase of the epic.            *)
Asks(k) ==
  \/ Payload(k).says \in {"passed", "skip"} /\ epic = "design-approved"
  \/ Payload(k).says = "passed" /\ k \in Cases /\ ReDispatchable
  \/ Payload(k).says = "closed" /\ ReDispatchable

End(k) ==
  /\ doing[k].at = "ending"
  /\ asked' = (asked \/ Asks(k))
  /\ EndOfDelivery(k)
  /\ UNCHANGED <<github, epicInbox, epicDoing, report, reported, bounds>>

(* A plausible slip: a label that cannot be put on is passed over too.     *)
CallFails(k) ==
  /\ Errs /\ inbox[k] # <<>> /\ (doing[k].at = "idle" => ~BeingRaised(k))
  /\ \/ EndOfDelivery(k) /\ missed' = missed \cup {"raise"}
     \/ /\ doing[k].at \in {"linking", "adding", "closing"}
        /\ Goes(k, CASE doing[k].at = "linking" -> "dropping"
                     [] doing[k].at = "adding" /\ doing[k].closes -> "closing"
                     [] OTHER -> "ending")
        /\ UNCHANGED <<inbox, missed>>
  /\ UNCHANGED <<github, epicInbox, epicDoing, report, asked, reported, withdrawn>>

(* A call raises: before anything was done, for a comment or a read of the *)
(* epic as well as for a change.  It ends the delivery where it is; only a *)
(* link or a close that fails is logged and passed over.                   *)
CallRaises(k) ==
  /\ Errs /\ inbox[k] # <<>> /\ (doing[k].at = "idle" => ~BeingRaised(k))
  /\ \/ EndOfDelivery(k) /\ missed' = missed \cup {"raise"}
     \/ /\ doing[k].at \in {"linking", "closing"}
        /\ Goes(k, IF doing[k].at = "linking" THEN "dropping" ELSE "ending")
        /\ UNCHANGED <<inbox, missed>>
  /\ UNCHANGED <<github, epicInbox, epicDoing, report, asked, reported, withdrawn>>
-----------------------------------------------------------------------------
(***************************************************************************)
(* The thread of the epic: gate GS and Skip tests.                         *)
(***************************************************************************)
EpicPayload == Head(epicInbox)

HeldByBugs == Holds /\ OpenBugs # {}

RouteEpic ==
  /\ epicDoing.at = "idle" /\ epicInbox # <<>>
  /\ CASE EpicPayload.says = "approved" /\ ~HeldByBugs ->
            epicDoing' = [epicDoing EXCEPT !.at = "releasing"] /\ UNCHANGED epicInbox
       [] EpicPayload.says = "skip" /\ OpenCases # {} ->
            /\ epicDoing' = [at |-> "dropping", left |-> OpenCases,
                             todo |-> [c \in Cases |-> kid[c].labels \cap {"manual", "failed"}]]
            /\ UNCHANGED epicInbox
       [] OTHER -> epicInbox' = Tail(epicInbox) /\ UNCHANGED epicDoing
  /\ UNCHANGED <<github, inbox, doing, report, asked, reported, bounds>>

EndOfEpicDelivery == epicDoing' = NotSkipping /\ epicInbox' = Tail(epicInbox)

(* The Release Manager puts the epic on staging; where cases run there,    *)
(* the Dispatcher is run after it.                                         *)
ReleaseToStaging ==
  /\ epicDoing.at = "releasing"
  /\ epic' = "in-staging"
  /\ task' = [t \in Tasks |-> IF task[t] = "landed" THEN "staged" ELSE task[t]]
  /\ reported' = IF epic = "epic-ready" THEN EpicPayload.open ELSE reported
  /\ asked' = (asked \/ policy = "staging")
  /\ EndOfEpicDelivery
  /\ UNCHANGED <<policy, kid, matrix, inbox, doing, report, bounds>>

Oldest(cs) == CHOOSE c \in cs : \A o \in cs : c <= o

SkipDrop ==
  /\ epicDoing.at = "dropping"
  /\ LET c == Oldest(epicDoing.left) IN
       kid' = [kid EXCEPT ![c].labels = @ \ epicDoing.todo[c]]
  /\ epicDoing' = [epicDoing EXCEPT !.at = "adding"]
  /\ UNCHANGED <<policy, epic, task, matrix, table, doing, report, asked, reported, bounds>>

SkipAdd ==
  /\ epicDoing.at = "adding"
  /\ LET c == Oldest(epicDoing.left) IN kid' = [kid EXCEPT ![c].labels = @ \cup {"skipped"}]
  /\ epicDoing' = [epicDoing EXCEPT !.at = "closing"]
  /\ UNCHANGED <<policy, epic, task, matrix, table, doing, report, asked, reported, bounds>>

(* A plausible slip: the end of the loop goes unnoticed.                   *)
NextCaseAlways ==
  epicDoing' = [epicDoing EXCEPT !.left = @ \ {Oldest(epicDoing.left)}, !.at = "dropping"]

NextCase ==
  LET rest == epicDoing.left \ {Oldest(epicDoing.left)} IN
  epicDoing' = [epicDoing EXCEPT !.left = rest,
                                 !.at = IF rest = {} THEN "skipped" ELSE "dropping"]

SkipClose ==
  /\ epicDoing.at = "closing"
  /\ kid' = [kid EXCEPT ![Oldest(epicDoing.left)].closed = TRUE]
  /\ NextCase
  /\ UNCHANGED <<policy, epic, task, matrix, table, doing, report, asked, reported, bounds>>

EndOfSkip ==
  /\ epicDoing.at = "skipped"
  /\ asked' = (asked \/ EpicPayload.at = "design-approved")
  /\ EndOfEpicDelivery
  /\ UNCHANGED <<github, inbox, doing, report, reported, bounds>>

(* A close that fails is passed over, and a listing of bugs that fails     *)
(* reads as no bug: the release starts.                                    *)
EpicCallRaises ==
  /\ Errs /\ epicInbox # <<>>
  /\ \/ EndOfEpicDelivery /\ missed' = missed \cup {"raise"}
     \/ epicDoing.at = "closing" /\ NextCase /\ UNCHANGED <<epicInbox, missed>>
     \/ /\ epicDoing.at = "idle" /\ EpicPayload.says = "approved"
        /\ epicDoing' = [epicDoing EXCEPT !.at = "releasing"]
        /\ UNCHANGED <<epicInbox, missed>>
  /\ UNCHANGED <<github, inbox, doing, report, asked, reported, withdrawn>>
-----------------------------------------------------------------------------
(***************************************************************************)
(* Raising a bug.  A filed report is adopted where it stands: retitled,    *)
(* then labelled; a comment opens a new issue that is born with both.      *)
(***************************************************************************)
BugOf(r) == CHOOSE b \in report[r].bug : TRUE

OpenBug(r) ==
  /\ report[r].at = "asked" /\ ~report[r].filed
  /\ \E b \in Bugs :
       /\ NewBug(b)
       /\ kid' = [kid EXCEPT ![b] = [NoKid EXCEPT !.there = TRUE, !.named = TRUE,
                                                   !.labels = {"bug", "open"}]]
       /\ report' = [report EXCEPT ![r].at = "filing", ![r].bug = {b}]
  /\ UNCHANGED <<policy, epic, task, matrix, table, doing, epicDoing, asked, reported, bounds>>

Retitle(r) ==
  /\ report[r].at = "asked" /\ report[r].filed
  /\ kid' = [kid EXCEPT ![BugOf(r)].named = TRUE]
  /\ report' = [report EXCEPT ![r].at = "labelling"]
  /\ UNCHANGED <<policy, epic, task, matrix, table, doing, epicDoing, asked, reported, bounds>>

LabelBug(r) ==
  /\ report[r].at = "labelling"
  /\ kid' = [kid EXCEPT ![BugOf(r)].labels = @ \cup {"bug", "open"}]
  /\ report' = [report EXCEPT ![r].at = "filing"]
  /\ UNCHANGED <<policy, epic, task, matrix, table, doing, epicDoing, asked, reported, bounds>>

FileBugFix(r) ==
  /\ report[r].at = "filing"
  /\ \E t \in Tasks :
       /\ NewTask(t)
       /\ task' = [task EXCEPT ![t] = "building"]
       /\ report' = [report EXCEPT ![r].at = "linking", ![r].fix = {t}]
  /\ UNCHANGED <<policy, epic, kid, matrix, table, doing, epicDoing, asked, reported, bounds>>

LinkBugFix(r) ==
  /\ report[r].at = "linking"
  /\ kid' = [kid EXCEPT ![BugOf(r)].blockedBy = report[r].fix]
  /\ report' = [report EXCEPT ![r].at = "done"]
  /\ UNCHANGED <<policy, epic, task, matrix, table, doing, epicDoing, asked, reported, bounds>>

(* Only a title that cannot be changed is passed over before the fix is    *)
(* filed.                                                                  *)
ReportRaises(r) ==
  /\ Errs
  /\ report[r].at \notin {"none", "done"}
  /\ \E at \in {"labelling", "done"} :
       /\ at = "labelling" => report[r].at = "asked" /\ report[r].filed
       /\ report' = [report EXCEPT ![r].at = at]
  /\ UNCHANGED <<github, table, doing, epicDoing, asked, reported, missed, withdrawn>>
-----------------------------------------------------------------------------
(* Every delivery that was being processed is taken again from its start:  *)
(* a comment Bug opens another report.  A stop that interrupts nothing     *)
(* changes nothing.                                                        *)
Restart ==
  /\ Happens
  /\ \/ \E k \in Kids : doing[k].at # "idle"
     \/ epicDoing.at # "idle"
     \/ \E r \in Reports : report[r].at \notin {"none", "asked", "done"}
  /\ missed' = missed \cup
       (IF epicDoing.left # {} \/ epicDoing.at = "skipped" THEN {"stop"} ELSE {})
  /\ doing' = [k \in Kids |-> Idle]
  /\ epicDoing' = NotSkipping
  /\ report' = [r \in Reports |->
       IF report[r].at \in {"none", "done"} THEN report[r]
       ELSE [report[r] EXCEPT !.at = "asked", !.fix = {},
                              !.bug = IF report[r].filed THEN @ ELSE {}]]
  /\ UNCHANGED <<github, table, asked, reported, errors, withdrawn>>
-----------------------------------------------------------------------------
People ==
  \/ \E k \in Kids : Verdict(k, "passed") \/ Verdict(k, "failed")
  \/ \E c \in Cases : SkipCase(c)
  \/ \E k \in Kids : CloseByHand(k)
  \/ OnEpic("approved") \/ OnEpic("skip")
  \/ \E r \in Reports : CommentBug(r) \/ \E b \in Bugs : FileBug(r, b)

KidStep(k) == Route(k) \/ FileFix(k) \/ LinkFix(k) \/ Drop(k) \/ Add(k) \/ Close(k) \/ End(k)

EpicStep ==
  RouteEpic \/ ReleaseToStaging \/ SkipDrop \/ SkipAdd \/ SkipClose \/ EndOfSkip

ReportStep(r) == OpenBug(r) \/ Retitle(r) \/ LabelBug(r) \/ FileBugFix(r) \/ LinkBugFix(r)

Next ==
  \/ People
  \/ \E t \in Tasks : Land(t)
  \/ Dispatch
  \/ \E k \in Kids : KidStep(k) \/ CallRaises(k)
  \/ EpicStep \/ EpicCallRaises
  \/ \E r \in Reports : ReportStep(r) \/ ReportRaises(r)
  \/ Restart

(* The threads go on, and a Dispatcher that was asked for is run (module   *)
(* RunRecovery says what keeps it alive).  Of people, of the builders of a *)
(* task and of failures nothing is assumed.                                *)
Fairness ==
  /\ \A k \in Kids : WF_vars(KidStep(k))
  /\ WF_vars(EpicStep)
  /\ \A r \in Reports : WF_vars(ReportStep(r))
  /\ WF_vars(Dispatch)

Spec == Init /\ [][Next]_vars
FairSpec == Spec /\ Fairness
-----------------------------------------------------------------------------
(***************************************************************************)
(* Properties.                                                             *)
(***************************************************************************)

(* A case that the factory closed carries the verdict or the decision that *)
(* closed it, whatever call raised or stopped in between: the gate's       *)
(* evidence never shows a closed case nobody answered, unless a hand       *)
(* closed it (Test Passed, skip_case).                                     *)
ClosedCaseIsSettled ==
  \A c \in Cases : kid[c].closed => ~Unsettled(c) \/ c \in withdrawn

(* A bug that was open when a person wrote the approval of gate GS is      *)
(* verified or closed by the time that approval has put the epic on        *)
(* staging: open_bugs is read when the comment is handled, and finds bugs  *)
(* in any of their states, half-raised ones too.  A call that raised is    *)
(* excepted: one that lists the bugs opens the gate (bugs_hold_gs).        *)
ReportedBugHoldsGS ==
  (policy = "gate" /\ epic = "in-staging" /\ errors = 0) =>
    \A b \in reported : kid[b].closed \/ "verified" \in kid[b].labels

(* Testers are asked to confirm a repair only when every fix its report    *)
(* names has landed, the ones filed after a failed re-test included: the   *)
(* fix is linked before the label lets the Dispatcher look at it           *)
(* (file_bug_fix, and step 2b of the Dispatcher).                          *)
AtRest(b) ==
  doing[b] = Idle /\ inbox[b] = <<>> /\ ~BeingRaised(b)

RetestMeansFixed ==
  errors = 0 => \A b \in Bugs :
    (AtRest(b) /\ "retest" \in kid[b].labels) => Assembled(kid[b].blockedBy)

(* An epic whose tasks have landed and whose cases and bugs hold it no     *)
(* longer does not sit at factory:design-approved: whatever settled the    *)
(* last of them (a verdict, a skip, the close of a bug, a landed fix) runs *)
(* the Dispatcher once more.  Excepted is what the code overlooks until    *)
(* something else runs it: a delivery that a raised call ended, a Skip     *)
(* tests that was stopped half-way, and a case that was closed by hand     *)
(* (_route_comment, _route_issues, chain_node).                            *)
CompletesUnless(reasons) ==
  (epic = "design-approved" /\ Complete) ~>
    (epic # "design-approved" \/ ~Complete \/ missed \cap reasons # {})

EpicCompletes == CompletesUnless({"raise", "stop", "hand"})
-----------------------------------------------------------------------------
(***************************************************************************)
(* What the documents say and the code does not do.                        *)
(***************************************************************************)

(* "The factory opens task(<epic>): fix": a failed case at manual-test     *)
(* whose comment was handled leaves manual-test (FACTORY.md, section 4b).  *)
(* The router takes any Blocked by line of the case for a filed fix, and   *)
(* the plan writes one per code task.                                      *)
FailureIsFiled ==
  [][\A c \in Cases :
       (inbox[c] # <<>> /\ inbox'[c] = Tail(inbox[c]) /\ errors' = errors
          /\ Payload(c).says = "failed" /\ Bears(c, "manual"))
         => doing[c].at = "ending"]_vars

(* "On an epic at factory:design-approved it re-runs the Dispatcher"       *)
(* (FACTORY.md, section 4b, Skipping the cases), also where the process    *)
(* stopped while it skipped: the replayed comment finds no open case, has  *)
(* nothing to skip, and runs nothing.                                      *)
SkipIsFinished == CompletesUnless({"raise", "hand"})

(* "the other way an epic's last hold comes off, so it re-dispatches"      *)
(* (_route_issues, of a close by hand): not when the last hold is a case.  *)
CloseCompletes == CompletesUnless({"raise", "stop"})

(* "When that task reaches its assembled state, the Dispatcher moves the   *)
(* bug to factory:bug-retest" (FACTORY.md, section 4c), also where the bug *)
(* was raised while the epic waited at gate GS, or was on staging.         *)
FixedIsRetested ==
  \A b \in Bugs :
    (b \in OpenBugs /\ "open" \in kid[b].labels /\ FixesLanded(b)) ~>
      ("open" \notin kid[b].labels \/ kid[b].closed \/ ~FixesLanded(b) \/ errors > 0)

(* "When the last case is passed or skipped and no bug is open, the        *)
(* Dispatcher posts the matrix once more" (FACTORY.md, section 4b, Running *)
(* the cases on staging).                                                  *)
MatrixIsPosted ==
  (policy = "staging" /\ epic = "in-staging" /\ Settled /\ ~matrix) ~>
    (matrix \/ ~Settled \/ errors > 0 \/ withdrawn # {})
=============================================================================
