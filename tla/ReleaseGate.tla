----------------------------- MODULE ReleaseGate -----------------------------
(***************************************************************************)
(* Release-gated intake: one milestone, its tracker, gate G0.              *)
(*                                                                         *)
(* An issue filed in a gated repo waits in factory:backlog until the       *)
(* tracker of its milestone carries factory:release-approved.  Then        *)
(* release_chain lists the milestone's issues, moves each to               *)
(* factory:intake, posts its receipt, and the graph starts an intake run   *)
(* for each.                                                               *)
(*                                                                         *)
(* Every issue's deliveries are handled by a thread of its own, in order   *)
(* (the promise of module Inbox), and so are a tracker's and the           *)
(* milestone's.  The threads meet only on GitHub, one call at a time.      *)
(* Comments the handlers leave are not modelled, the receipt apart.        *)
(***************************************************************************)
EXTENDS Naturals, Sequences, FiniteSets

CONSTANTS
  Size,         \* the requirement issues are numbered 1 .. Size
  Parked,       \* those filed beforehand, in no milestone
  Approvers,    \* whether factory-approvers.json lists anyone for release_scope
  Verdicts,     \* what the Scrum Master may leave a tracker at
  MaxTrackers,  \* bound: trackers opened
  MaxActs,      \* bound: what people do on trackers
  MaxChanges,   \* bound: how often people change an issue's milestone
  MaxFaults,    \* bound: calls to GitHub that raise, and stops of the process
  MaxInbox      \* bound: a tracker's deliveries before a comment or a sweep adds one

ASSUME ReleaseGateAssumption ==
  /\ Approvers \in BOOLEAN
  /\ Verdicts \subseteq {"ready", "approved"}
  /\ {Size, MaxTrackers, MaxActs, MaxChanges, MaxFaults, MaxInbox} \subseteq Nat
  /\ Parked \subseteq 1 .. Size

Issues   == 1 .. Size
Trackers == 1 .. MaxTrackers

VARIABLES
  (* GitHub *)
  tracker,      \* tracker[k]: the k-th tracker opened for the milestone
  filed,        \* the issues filed so far
  inMilestone,  \* those in the milestone
  labels,       \* labels[i]: the factory labels of an issue
  (* the database *)
  trackerInbox, \* a tracker's deliveries, pending or processing
  issueInbox,   \* an issue's
  ran,          \* the issues with an intake run in the runs table
  (* the process *)
  opening,      \* where the delivery of the milestone itself stands
  handling,     \* handling[i]: where the thread of an issue's delivery is
  releasing,    \* releasing[k]: where the thread of a tracker's delivery is
  (* history and bounds *)
  approved,     \* gate G0 was approved, on some tracker
  entered,      \* the issues that have had factory:intake
  owed,         \* owed[k]: the issues the last listing of tracker k began with
  acts, changes, errors, restarts

github  == <<tracker, filed, inMilestone, labels>>
table   == <<trackerInbox, issueInbox, ran>>
threads == <<opening, handling, releasing>>
ghosts  == <<approved, entered, owed>>
bounds  == <<acts, changes, errors, restarts>>
vars == <<tracker, filed, inMilestone, labels, trackerInbox, issueInbox, ran, opening,
          handling, releasing, approved, entered, owed, acts, changes, errors, restarts>>

(* "other" stands for every state past intake.                             *)
States == {"backlog", "intake", "other"}

Stages == {"planning", "ready", "approved"}

(* receipts counts the comments with factory-release-dispatched.  open is  *)
(* FALSE until the tracker exists.                                         *)
NoTracker == [open |-> FALSE, labels |-> {}, receipts |-> 0]

IssueEvents   == [kind : {"opened", "milestoned", "demilestoned"},
                  labels : SUBSET States, scoped : BOOLEAN]
(* An Approved is judged by whether its payload has release-ready on it.   *)
TrackerEvents == [kind : {"plan"}] \cup [kind : {"approved"}, ready : BOOLEAN]
                   \cup [kind : {"labeled"}, by : {"person", "app", "sweep"}]

Members == [issue : Issues, labels : SUBSET States]

Idle == [at |-> "idle", to |-> "intake", seen |-> {}]

Quiet == [at |-> "idle", todo |-> {}, freed |-> {}]

TypeOK ==
  /\ tracker \in [Trackers -> [open : BOOLEAN, labels : SUBSET Stages, receipts : Nat]]
  /\ filed \subseteq Issues /\ inMilestone \subseteq filed
  /\ labels \in [Issues -> SUBSET States]
  /\ trackerInbox \in [Trackers -> Seq(TrackerEvents)]
  /\ issueInbox \in [Issues -> Seq(IssueEvents)]
  /\ ran \subseteq Issues
  /\ opening \in {"waiting", "creating", "done"}
  /\ handling \in [Issues -> [at : {"idle", "creating", "dropping", "adding", "starting"},
                              to : {"backlog", "intake"}, seen : SUBSET States]]
  /\ releasing \in [Trackers -> [at : {"idle", "planning", "approving", "checking", "moving",
                                       "running"},
                                 todo : SUBSET Members, freed : SUBSET Issues]]
  /\ approved \in BOOLEAN
  /\ entered \subseteq Issues
  /\ owed \in [Trackers -> SUBSET Issues]
  /\ acts \in 0 .. MaxActs /\ changes \in 0 .. MaxChanges
  /\ errors \in Nat /\ restarts \in Nat /\ errors + restarts <= MaxFaults

Init ==
  /\ tracker = [k \in Trackers |-> NoTracker]
  /\ filed = Parked /\ inMilestone = {}
  /\ labels = [i \in Issues |-> IF i \in Parked THEN {"backlog"} ELSE {}]
  /\ trackerInbox = [k \in Trackers |-> <<>>]
  /\ issueInbox = [i \in Issues |-> <<>>]
  /\ ran = {}
  /\ opening = "waiting"
  /\ handling = [i \in Issues |-> Idle]
  /\ releasing = [k \in Trackers |-> Quiet]
  /\ approved = FALSE /\ entered = {} /\ owed = [k \in Trackers |-> {}]
  /\ acts = 0 /\ changes = 0 /\ errors = 0 /\ restarts = 0
-----------------------------------------------------------------------------
(***************************************************************************)
(* Trackers.                                                               *)
(***************************************************************************)

Opened == {k \in Trackers : tracker[k].open}

(* tracker_for: the listing has the newest first.                          *)
Newest(k) == k \in Opened /\ \A o \in Opened : o <= k

(* What the opened and milestoned handlers make of the tracker they found. *)
IsReleased == \E k \in Opened : Newest(k) /\ "approved" \in tracker[k].labels

(* create_issue, with its kind and its first state.                        *)
CreateTracker ==
  \E k \in Trackers \ Opened :
    /\ \A o \in Trackers \ Opened : k <= o
    /\ tracker' = [tracker EXCEPT ![k] = [open |-> TRUE, labels |-> {"planning"},
                                          receipts |-> 0]]

(* A call that raises instead of doing what it was made for.               *)
Raises ==
  /\ errors + restarts < MaxFaults
  /\ errors' = errors + 1
  /\ UNCHANGED restarts

(* The milestone's own event: ensure_tracker looks, then creates.          *)
MilestoneCreated ==
  /\ opening = "waiting"
  /\ opening' = IF Opened = {} THEN "creating" ELSE "done"
  /\ UNCHANGED <<github, table, handling, releasing, ghosts, bounds>>

MilestoneOpensTracker ==
  /\ opening = "creating"
  /\ CreateTracker
  /\ opening' = "done"
  /\ UNCHANGED <<filed, inMilestone, labels, table, handling, releasing, ghosts, bounds>>
-----------------------------------------------------------------------------
(***************************************************************************)
(* People.  A payload carries the labels of the moment it was sent.        *)
(***************************************************************************)
Send(i, kind, scoped) ==
  issueInbox' = [issueInbox EXCEPT ![i] =
    Append(@, [kind |-> kind, labels |-> labels[i], scoped |-> scoped])]

FileIssue(i, scoped) ==
  /\ i \notin filed
  /\ filed' = filed \cup {i}
  /\ inMilestone' = IF scoped THEN inMilestone \cup {i} ELSE inMilestone
  /\ Send(i, "opened", scoped)
  /\ UNCHANGED <<tracker, labels, trackerInbox, ran, threads, ghosts, bounds>>

SetMilestone(i) ==
  /\ changes < MaxChanges
  /\ i \in filed \ inMilestone
  /\ inMilestone' = inMilestone \cup {i}
  /\ Send(i, "milestoned", TRUE)
  /\ changes' = changes + 1
  /\ UNCHANGED <<tracker, filed, labels, trackerInbox, ran, threads, ghosts, acts, errors,
                 restarts>>

UnsetMilestone(i) ==
  /\ changes < MaxChanges
  /\ i \in inMilestone
  /\ inMilestone' = inMilestone \ {i}
  /\ Send(i, "demilestoned", FALSE)
  /\ changes' = changes + 1
  /\ UNCHANGED <<tracker, filed, labels, trackerInbox, ran, threads, ghosts, acts, errors,
                 restarts>>

Queue(k, d) == trackerInbox' = [trackerInbox EXCEPT ![k] = Append(@, d)]

HasRoom(k) == Len(trackerInbox[k]) < MaxInbox

(* Plan release or Approved, by somebody the gate takes it from.           *)
Comment(k, d) ==
  /\ acts < MaxActs
  /\ k \in Opened /\ HasRoom(k)
  /\ Queue(k, d)
  /\ acts' = acts + 1
  /\ UNCHANGED <<github, issueInbox, ran, threads, ghosts, changes, errors, restarts>>

PlanRelease(k) == Comment(k, [kind |-> "plan"])

Approved(k) == Comment(k, [kind |-> "approved", ready |-> "ready" \in tracker[k].labels])

(* An approver applies the label by hand.  The event may be lost.          *)
ApplyByHand(k) ==
  /\ acts < MaxActs
  /\ k \in Opened /\ "approved" \notin tracker[k].labels
  /\ tracker' = [tracker EXCEPT ![k].labels = @ \cup {"approved"}]
  /\ \/ Queue(k, [kind |-> "labeled", by |-> "person"])
     \/ UNCHANGED trackerInbox
  /\ approved' = TRUE
  /\ acts' = acts + 1
  /\ UNCHANGED <<filed, inMilestone, labels, issueInbox, ran, threads, entered, owed, changes,
                 errors, restarts>>
-----------------------------------------------------------------------------
(***************************************************************************)
(* An issue's deliveries: opened, milestoned, demilestoned.  Each looks at *)
(* the tracker first and changes the issue's labels afterwards.            *)
(***************************************************************************)
Take(i, at, to, seen) ==
  handling' = [handling EXCEPT ![i] = [at |-> at, to |-> to, seen |-> seen]]

EndOfDelivery(i) ==
  /\ handling' = [handling EXCEPT ![i] = Idle]
  /\ issueInbox' = [issueInbox EXCEPT ![i] = Tail(@)]

(* not_started: judged by the payload.                                     *)
NotStarted(d) == "other" \notin d.labels

(* Where the handler goes once it knows whether the release is out.  One   *)
(* that finds the issue parked already only leaves its notice.             *)
Decides(i, d, released) ==
  \/ /\ d.kind = "opened"
     /\ IF released THEN Take(i, "adding", "intake", d.labels)
        ELSE Take(i, "dropping", "backlog", d.labels)
     /\ UNCHANGED issueInbox
  \/ /\ d.kind # "opened" /\ NotStarted(d)
     /\ d.kind = "milestoned" /\ released
     /\ Take(i, "dropping", "intake", d.labels)
     /\ UNCHANGED issueInbox
  \/ /\ d.kind # "opened" /\ NotStarted(d)
     /\ ~(d.kind = "milestoned" /\ released)
     /\ IF "backlog" \in d.labels THEN EndOfDelivery(i)
        ELSE Take(i, "dropping", "backlog", d.labels) /\ UNCHANGED issueInbox
  \/ /\ d.kind # "opened" /\ ~NotStarted(d)
     /\ EndOfDelivery(i)

(* Whether ensure_tracker is called: not for an issue in no milestone.     *)
NeedsTracker(d) == d.scoped /\ (d.kind = "opened" \/ NotStarted(d))

(* A plausible slip: the newest tracker's state is not asked for.          *)
ReleasedAtAll(d) == NeedsTracker(d) /\ Opened # {}

Released(d) == NeedsTracker(d) /\ IsReleased

LookAtTracker(i) ==
  LET d == Head(issueInbox[i]) IN
  /\ handling[i].at = "idle"
  /\ issueInbox[i] # <<>>
  /\ IF NeedsTracker(d) /\ Opened = {}
     THEN Take(i, "creating", "intake", {}) /\ UNCHANGED issueInbox
     ELSE Decides(i, d, Released(d))
  /\ UNCHANGED <<github, trackerInbox, ran, opening, releasing, ghosts, bounds>>

(* A tracker just created is not approved.                                 *)
OpenTracker(i) ==
  /\ handling[i].at = "creating"
  /\ CreateTracker
  /\ Decides(i, Head(issueInbox[i]), FALSE)
  /\ UNCHANGED <<filed, inMilestone, labels, trackerInbox, ran, opening, releasing, ghosts,
                 bounds>>

Opposite(to) == IF to = "intake" THEN "backlog" ELSE "intake"

DropLabel(i) ==
  /\ handling[i].at = "dropping"
  /\ labels' = [labels EXCEPT ![i] = @ \ {Opposite(handling[i].to)}]
  /\ handling' = [handling EXCEPT ![i].at = "adding"]
  /\ UNCHANGED <<tracker, filed, inMilestone, table, opening, releasing, ghosts, bounds>>

(* factory:intake is not added where the payload already had it.           *)
AddLabel(i) ==
  LET to == handling[i].to IN
  /\ handling[i].at = "adding"
  /\ labels' = [labels EXCEPT ![i] =
                  IF to = "intake" /\ "intake" \in handling[i].seen THEN @ ELSE @ \cup {to}]
  /\ IF to = "intake"
     THEN handling' = [handling EXCEPT ![i].at = "starting"] /\ UNCHANGED issueInbox
     ELSE EndOfDelivery(i)
  /\ entered' = IF to = "intake" THEN entered \cup {i} ELSE entered
  /\ UNCHANGED <<tracker, filed, inMilestone, trackerInbox, ran, opening, releasing, approved,
                 owed, bounds>>

(* The Intake Analyst flips the label, or leaves it for the sweep to find; *)
(* what may happen while it runs is module RunRecovery.                    *)
Analyses(i) ==
  /\ ran' = ran \cup {i}
  /\ \/ labels' = [labels EXCEPT ![i] = (@ \ {"intake"}) \cup {"other"}]
     \/ UNCHANGED labels

RunIntake(i) ==
  /\ handling[i].at = "starting"
  /\ Analyses(i)
  /\ EndOfDelivery(i)
  /\ UNCHANGED <<tracker, filed, inMilestone, trackerInbox, opening, releasing, ghosts, bounds>>

(* The delivery is stamped failed; nothing looks at it again.              *)
HandlerRaises(i) ==
  /\ \/ handling[i].at = "idle" /\ issueInbox[i] # <<>>
     \/ handling[i].at \in {"creating", "dropping", "adding"}
  /\ Raises
  /\ EndOfDelivery(i)
  /\ UNCHANGED <<github, trackerInbox, ran, opening, releasing, ghosts, acts, changes>>
-----------------------------------------------------------------------------
(***************************************************************************)
(* A tracker's deliveries.                                                 *)
(***************************************************************************)
EndOfInvocation(k) ==
  /\ releasing' = [releasing EXCEPT ![k] = Quiet]
  /\ trackerInbox' = [trackerInbox EXCEPT ![k] = Tail(@)]

(* The label revert spares the App's own writes, but the sweep signs its   *)
(* events as nobody on the list.                                           *)
Reverts(d) == d.kind = "labeled" /\ Approvers /\ d.by = "sweep"

Route(k) ==
  LET d == Head(trackerInbox[k]) IN
  /\ releasing[k].at = "idle"
  /\ trackerInbox[k] # <<>>
  /\ \/ /\ d.kind = "plan"
        /\ releasing' = [releasing EXCEPT ![k].at = "planning"]
        /\ UNCHANGED <<tracker, trackerInbox>>
     \/ /\ d.kind = "approved" /\ d.ready
        /\ tracker' = [tracker EXCEPT ![k].labels = @ \ {"ready"}]
        /\ releasing' = [releasing EXCEPT ![k].at = "approving"]
        /\ UNCHANGED trackerInbox
     \/ /\ d.kind = "approved" /\ ~d.ready
        /\ EndOfInvocation(k)
        /\ UNCHANGED tracker
     \/ /\ Reverts(d)
        /\ tracker' = [tracker EXCEPT ![k].labels = @ \ {"approved"}]
        /\ EndOfInvocation(k)
     \/ /\ d.kind = "labeled" /\ ~Reverts(d)
        /\ tracker' = [tracker EXCEPT ![k].labels = @ \ {"ready"}]
        /\ releasing' = [releasing EXCEPT ![k].at = "checking"]
        /\ UNCHANGED trackerInbox
  /\ UNCHANGED <<filed, inMilestone, labels, issueInbox, ran, opening, handling, ghosts, bounds>>

(* Gate G0 by comment: the label the App adds comes back as an event.      *)
Approve(k) ==
  /\ releasing[k].at = "approving"
  /\ tracker' = [tracker EXCEPT ![k].labels = @ \cup {"approved"}]
  /\ \/ Queue(k, [kind |-> "labeled", by |-> "app"])
     \/ UNCHANGED trackerInbox
  /\ releasing' = [releasing EXCEPT ![k].at = "checking"]
  /\ approved' = TRUE
  /\ UNCHANGED <<filed, inMilestone, labels, issueInbox, ran, opening, handling, entered, owed,
                 bounds>>

(* The Scrum Master's run leaves a verdict, or nothing, or fails; only     *)
(* after a failure does the chain not look whether the release is out.     *)
EndPlanning(k) ==
  /\ releasing[k].at = "planning"
  /\ \/ \E v \in Verdicts :
          /\ tracker' = [tracker EXCEPT ![k].labels = (@ \ {"planning"}) \cup {v}]
          /\ approved' = (approved \/ v = "approved")
          /\ releasing' = [releasing EXCEPT ![k].at = "checking"]
          /\ UNCHANGED trackerInbox
     \/ /\ releasing' = [releasing EXCEPT ![k].at = "checking"]
        /\ UNCHANGED <<tracker, approved, trackerInbox>>
     \/ EndOfInvocation(k) /\ UNCHANGED <<tracker, approved>>
  /\ UNCHANGED <<filed, inMilestone, labels, issueInbox, ran, opening, handling, entered, owed,
                 bounds>>

(* A plausible slip: only what is parked already is released.              *)
OnlyParked(ls) == "backlog" \in ls

(* An issue past intake is left where it is.                               *)
Eligible(ls) == "other" \notin ls

Listing == {[issue |-> i, labels |-> labels[i]] : i \in {j \in inMilestone : Eligible(labels[j])}}

(* A plausible slip: the receipt is not looked for.                        *)
ApprovedIsEnough(k) == "approved" \in tracker[k].labels

(* release_chain: approved, and no receipt yet.                            *)
MayRelease(k) == "approved" \in tracker[k].labels /\ tracker[k].receipts = 0

ListMembers(k) ==
  /\ releasing[k].at = "checking"
  /\ IF MayRelease(k)
     THEN /\ releasing' = [releasing EXCEPT ![k] = [Quiet EXCEPT !.at = "moving",
                                                                 !.todo = Listing]]
          /\ owed' = [owed EXCEPT ![k] = {m.issue : m \in Listing}]
          /\ UNCHANGED trackerInbox
     ELSE EndOfInvocation(k) /\ UNCHANGED owed
  /\ UNCHANGED <<github, issueInbox, ran, opening, handling, approved, entered, bounds>>

(* Newest first, each as it was when it was listed.                        *)
Current(k, m) ==
  /\ releasing[k].at = "moving"
  /\ m \in releasing[k].todo
  /\ \A o \in releasing[k].todo : o.issue <= m.issue

TakeOffBacklog(k, m) ==
  /\ Current(k, m) /\ "backlog" \in m.labels
  /\ labels' = [labels EXCEPT ![m.issue] = @ \ {"backlog"}]
  /\ releasing' = [releasing EXCEPT ![k].todo =
       (@ \ {m}) \cup {[m EXCEPT !.labels = @ \ {"backlog"}]}]
  /\ UNCHANGED <<tracker, filed, inMilestone, table, opening, handling, ghosts, bounds>>

PutInIntake(k, m) ==
  /\ Current(k, m) /\ "backlog" \notin m.labels
  /\ labels' = [labels EXCEPT ![m.issue] =
                  IF "intake" \in m.labels THEN @ ELSE @ \cup {"intake"}]
  /\ releasing' = [releasing EXCEPT ![k].todo = @ \ {m}, ![k].freed = @ \cup {m.issue}]
  /\ entered' = entered \cup {m.issue}
  /\ UNCHANGED <<tracker, filed, inMilestone, table, opening, handling, approved, owed, bounds>>

(* A plausible slip: the receipt is posted before the issues are moved.    *)
ReceiptFirst(k) == TRUE

AllMoved(k) == releasing[k].todo = {}

PostReceipt(k) ==
  /\ releasing[k].at = "moving"
  /\ AllMoved(k)
  /\ tracker' = [tracker EXCEPT ![k].receipts = @ + 1]
  /\ releasing' = [releasing EXCEPT ![k].at = "running"]
  /\ UNCHANGED <<filed, inMilestone, labels, table, opening, handling, ghosts, bounds>>

(* The fan-out: each freed issue has an intake run, all of them at once.   *)
FanOut(k, i) ==
  /\ releasing[k].at = "running"
  /\ i \in releasing[k].freed
  /\ Analyses(i)
  /\ releasing' = [releasing EXCEPT ![k].freed = @ \ {i}]
  /\ UNCHANGED <<tracker, filed, inMilestone, trackerInbox, issueInbox, opening, handling,
                 ghosts, bounds>>

EndRelease(k) ==
  /\ releasing[k].at = "running"
  /\ releasing[k].freed = {}
  /\ EndOfInvocation(k)
  /\ UNCHANGED <<github, issueInbox, ran, opening, handling, ghosts, bounds>>

(* Any call up to the receipt may raise: what is done stays done.          *)
ReleaseRaises(k) ==
  /\ \/ releasing[k].at = "idle" /\ trackerInbox[k] # <<>>
     \/ releasing[k].at \in {"approving", "checking", "moving"}
  /\ Raises
  /\ EndOfInvocation(k)
  /\ UNCHANGED <<github, issueInbox, ran, opening, handling, ghosts, acts, changes>>
-----------------------------------------------------------------------------
(* A plausible slip: the sweep takes any tracker that is out for done.     *)
NothingToSweep(k) == FALSE

(* sweep_repo, for a tracker: approved and no receipt.                     *)
Undispatched(k) == "approved" \in tracker[k].labels /\ tracker[k].receipts = 0

SweepTracker(k) ==
  /\ Undispatched(k) /\ HasRoom(k)
  /\ Queue(k, [kind |-> "labeled", by |-> "sweep"])
  /\ UNCHANGED <<github, issueInbox, ran, threads, ghosts, bounds>>

(* The threads are gone; what they were processing is pending again.       *)
Restart ==
  /\ errors + restarts < MaxFaults
  /\ restarts' = restarts + 1
  /\ opening' = IF opening = "creating" THEN "waiting" ELSE opening
  /\ handling' = [i \in Issues |-> Idle]
  /\ releasing' = [k \in Trackers |-> Quiet]
  /\ UNCHANGED <<github, table, ghosts, acts, changes, errors>>

People ==
  \/ \E i \in Issues, scoped \in BOOLEAN : FileIssue(i, scoped)
  \/ \E i \in Issues : SetMilestone(i) \/ UnsetMilestone(i)
  \/ \E k \in Trackers : PlanRelease(k) \/ Approved(k) \/ ApplyByHand(k)

IssueStep(i) ==
  \/ LookAtTracker(i) \/ OpenTracker(i) \/ DropLabel(i) \/ AddLabel(i)
  \/ RunIntake(i) \/ HandlerRaises(i)

TrackerStep(k) ==
  \/ Route(k) \/ Approve(k) \/ EndPlanning(k) \/ ListMembers(k)
  \/ \E m \in releasing[k].todo : TakeOffBacklog(k, m) \/ PutInIntake(k, m)
  \/ PostReceipt(k)
  \/ \E i \in Issues : FanOut(k, i)
  \/ EndRelease(k) \/ ReleaseRaises(k)

Next ==
  \/ People
  \/ MilestoneCreated \/ MilestoneOpensTracker
  \/ \E i \in Issues : IssueStep(i)
  \/ \E k \in Trackers : TrackerStep(k) \/ SweepTracker(k)
  \/ Restart

Spec == Init /\ [][Next]_vars

(***************************************************************************)
(* Fairness.  The worker and the reconciler's sweep go on: which delivery  *)
(* is next is left open.  Nothing is asked of people, failures or stops.   *)
(***************************************************************************)
Engine ==
  \/ MilestoneCreated \/ MilestoneOpensTracker
  \/ \E i \in Issues : IssueStep(i)
  \/ \E k \in Trackers : TrackerStep(k) \/ SweepTracker(k)

FairSpec == Spec /\ WF_vars(Engine)
-----------------------------------------------------------------------------
(***************************************************************************)
(* What must hold.                                                         *)
(***************************************************************************)

(* No agent touches a requirement before gate G0 was approved: whatever    *)
(* the order of filing, planning, approving and changing milestones.       *)
NothingBeforeTheGate == ran # {} => approved

(* A release is dispatched once: no replayed comment, echoed label or      *)
(* second sweep posts another receipt and starts the issues again.         *)
OneReceipt == \A k \in Trackers : tracker[k].receipts <= 1

(* A receipt is never posted over a milestone half released: every issue   *)
(* its listing began with has been moved to intake.                        *)
ReceiptIsComplete ==
  \A k \in Trackers : tracker[k].receipts > 0 => owed[k] \subseteq entered

(* An approved release is dispatched, although the event of the approval   *)
(* is lost, a call raises half way or the process stops.                   *)
ApprovedIsDispatched ==
  \A k \in Trackers :
    ("approved" \in tracker[k].labels) ~> (tracker[k].receipts > 0)

(* An issue that is in a released milestone enters intake, whichever came  *)
(* first and in whatever order the threads of the issue and of the tracker *)
(* looked at each other, unless a call raised or it left the milestone.    *)
AddedEntersIntake ==
  \A i \in Issues :
    (i \in inMilestone /\ IsReleased) ~> (i \in entered \/ i \notin inMilestone \/ errors > 0)
-----------------------------------------------------------------------------
(***************************************************************************)
(* What the documents say and the code does not do.                        *)
(***************************************************************************)

(* "Every factory:backlog issue in that milestone is moved to              *)
(* factory:intake and its Intake Analyst runs, all in the same run".       *)
ReleasedIsStarted ==
  \A k \in Trackers, i \in Issues :
    (tracker[k].receipts > 0 /\ i \in owed[k]) ~> (i \in ran)

(* "A tracker issue is opened if the milestone has none".                  *)
OneTracker == Cardinality(Opened) <= 1

(* "Removing an issue from a milestone parks it only if it has not passed  *)
(* intake".                                                                *)
InFlightStaysPut == \A i \in Issues : ~({"other", "backlog"} \subseteq labels[i])
=============================================================================
