-------------------------- MODULE ReleaseGateProofs --------------------------
(***************************************************************************)
(* Theorems about ReleaseGate, for every number of issues, trackers,       *)
(* comments, changes, failing calls and stops.                             *)
(***************************************************************************)
EXTENDS ReleaseGate, TLAPS

Handling  == [at : {"idle", "creating", "dropping", "adding", "starting"},
              to : {"backlog", "intake"}, seen : SUBSET States]
Releasing == [at : {"idle", "planning", "approving", "checking", "moving", "running"},
              todo : SUBSET Members, freed : SUBSET Issues]
ATracker  == [open : BOOLEAN, labels : SUBSET Stages, receipts : Nat]

(* A delivery stays in its table while it is worked on.                    *)
WorksOnADelivery ==
  /\ \A i \in Issues : handling[i].at # "idle" => issueInbox[i] # <<>>
  /\ \A k \in Trackers : releasing[k].at # "idle" => trackerInbox[k] # <<>>

TypeInv == TypeOK /\ WorksOnADelivery

LEMMA InitTypes ==
  ASSUME Init PROVE TypeInv
<1> USE ReleaseGateAssumption DEF ReleaseGateAssumption
<1>1. handling \in [Issues -> Handling] /\ releasing \in [Trackers -> Releasing]
  BY DEF Init, Idle, Quiet, Handling, Releasing
<1>2. tracker \in [Trackers -> ATracker] /\ labels \in [Issues -> SUBSET States]
  BY DEF Init, NoTracker, ATracker, States
<1>3. issueInbox \in [Issues -> Seq(IssueEvents)] /\ trackerInbox \in [Trackers -> Seq(TrackerEvents)]
  BY DEF Init
<1>4. owed \in [Trackers -> SUBSET Issues] /\ filed \subseteq Issues
  BY DEF Init, Issues
<1>5. /\ filed \subseteq Issues /\ inMilestone \subseteq filed /\ ran \subseteq Issues
      /\ acts \in 0 .. MaxActs /\ changes \in 0 .. MaxChanges
      /\ errors \in Nat /\ restarts \in Nat /\ errors + restarts <= MaxFaults
  BY <1>4 DEF Init
<1>6. opening \in {"waiting", "creating", "done"} /\ approved \in BOOLEAN /\ entered \subseteq Issues
  BY DEF Init
<1>7. TypeOK
  BY <1>1, <1>2, <1>3, <1>4, <1>5, <1>6 DEF TypeOK, Handling, Releasing, ATracker
<1>8. WorksOnADelivery
  BY DEF Init, WorksOnADelivery, Idle, Quiet
<1>9. QED
  BY <1>7, <1>8 DEF TypeInv

LEMMA RaisesTypes ==
  ASSUME TypeOK, Raises
  PROVE  errors' \in Nat /\ restarts' \in Nat /\ errors' + restarts' <= MaxFaults
BY ReleaseGateAssumption DEF TypeOK, Raises, ReleaseGateAssumption

(* Appending to one queue leaves every queue with what it had.             *)
LEMMA SendTypes ==
  ASSUME TypeInv, NEW i \in Issues, NEW scoped \in BOOLEAN,
         NEW kind \in {"opened", "milestoned", "demilestoned"}, Send(i, kind, scoped)
  PROVE  /\ issueInbox' \in [Issues -> Seq(IssueEvents)]
         /\ \A j \in Issues : issueInbox[j] # <<>> => issueInbox'[j] # <<>>
<1> DEFINE e == [kind |-> kind, labels |-> labels[i], scoped |-> scoped]
<1>1. e \in IssueEvents
  BY DEF TypeInv, TypeOK, IssueEvents
<1>2. issueInbox[i] \in Seq(IssueEvents)
  BY DEF TypeInv, TypeOK
<1>3. Append(issueInbox[i], e) \in Seq(IssueEvents) /\ Append(issueInbox[i], e) # <<>>
  BY <1>1, <1>2
<1>4. issueInbox' = [issueInbox EXCEPT ![i] = Append(issueInbox[i], e)]
  BY DEF Send
<1> HIDE DEF e
<1>5. QED
  BY <1>3, <1>4 DEF TypeInv, TypeOK

LEMMA QueueTypes ==
  ASSUME TypeInv, NEW k \in Trackers, NEW d \in TrackerEvents, Queue(k, d)
  PROVE  /\ trackerInbox' \in [Trackers -> Seq(TrackerEvents)]
         /\ \A j \in Trackers : trackerInbox[j] # <<>> => trackerInbox'[j] # <<>>
<1>1. trackerInbox[k] \in Seq(TrackerEvents)
  BY DEF TypeInv, TypeOK
<1>2. Append(trackerInbox[k], d) \in Seq(TrackerEvents) /\ Append(trackerInbox[k], d) # <<>>
  BY <1>1
<1>3. QED
  BY <1>2 DEF Queue, TypeInv, TypeOK

LEMMA EndOfDeliveryTypes ==
  ASSUME TypeInv, NEW i \in Issues, issueInbox[i] # <<>>, EndOfDelivery(i)
  PROVE  /\ handling' \in [Issues -> Handling] /\ issueInbox' \in [Issues -> Seq(IssueEvents)]
         /\ \A j \in Issues : handling'[j].at # "idle" => issueInbox'[j] # <<>>
<1>1. Idle \in Handling /\ Idle.at = "idle"
  BY DEF Idle, Handling
<1>2. issueInbox[i] \in Seq(IssueEvents)
  BY DEF TypeInv, TypeOK
<1>3. Tail(issueInbox[i]) \in Seq(IssueEvents)
  BY <1>2
<1>4. QED
  BY <1>1, <1>3 DEF TypeInv, TypeOK, WorksOnADelivery, EndOfDelivery, Handling

LEMMA TakeTypes ==
  ASSUME TypeInv, NEW i \in Issues, issueInbox[i] # <<>>, UNCHANGED issueInbox,
         NEW at \in {"creating", "dropping", "adding"},
         NEW to \in {"backlog", "intake"}, NEW seen \in SUBSET States, Take(i, at, to, seen)
  PROVE  /\ handling' \in [Issues -> Handling] /\ issueInbox' \in [Issues -> Seq(IssueEvents)]
         /\ \A j \in Issues : handling'[j].at # "idle" => issueInbox'[j] # <<>>
<1>1. [at |-> at, to |-> to, seen |-> seen] \in Handling
  BY DEF Handling
<1>2. QED
  BY <1>1 DEF TypeInv, TypeOK, WorksOnADelivery, Take, Handling

LEMMA HeadTypes ==
  ASSUME TypeInv
  PROVE  /\ \A i \in Issues : issueInbox[i] # <<>> => Head(issueInbox[i]) \in IssueEvents
         /\ \A k \in Trackers : trackerInbox[k] # <<>> => Head(trackerInbox[k]) \in TrackerEvents
<1>1. \A i \in Issues : issueInbox[i] \in Seq(IssueEvents)
  BY DEF TypeInv, TypeOK
<1>2. \A k \in Trackers : trackerInbox[k] \in Seq(TrackerEvents)
  BY DEF TypeInv, TypeOK
<1>3. QED
  BY <1>1, <1>2

LEMMA DecidesTypes ==
  ASSUME TypeInv, NEW i \in Issues, issueInbox[i] # <<>>, NEW d \in IssueEvents,
         NEW released \in BOOLEAN, Decides(i, d, released)
  PROVE  /\ handling' \in [Issues -> Handling] /\ issueInbox' \in [Issues -> Seq(IssueEvents)]
         /\ \A j \in Issues : handling'[j].at # "idle" => issueInbox'[j] # <<>>
<1>1. d.labels \in SUBSET States
  BY DEF IssueEvents
<1>2. CASE EndOfDelivery(i)
  BY <1>2, EndOfDeliveryTypes
<1>3. CASE ~EndOfDelivery(i)
  <2>1. /\ UNCHANGED issueInbox
        /\ \/ Take(i, "adding", "intake", d.labels)
           \/ Take(i, "dropping", "backlog", d.labels)
           \/ Take(i, "dropping", "intake", d.labels)
    BY <1>3 DEF Decides
  <2>2. QED
    BY <1>1, <2>1, TakeTypes
<1>4. QED
  BY <1>2, <1>3

LEMMA CreateTypes ==
  ASSUME TypeInv, CreateTracker
  PROVE  tracker' \in [Trackers -> ATracker]
<1>1. [open |-> TRUE, labels |-> {"planning"}, receipts |-> 0] \in ATracker
  BY DEF ATracker, Stages
<1>2. QED
  BY <1>1 DEF CreateTracker, TypeInv, TypeOK, ATracker

LEMMA EndOfInvocationTypes ==
  ASSUME TypeInv, NEW k \in Trackers, trackerInbox[k] # <<>>, EndOfInvocation(k)
  PROVE  /\ releasing' \in [Trackers -> Releasing]
         /\ trackerInbox' \in [Trackers -> Seq(TrackerEvents)]
         /\ \A j \in Trackers : releasing'[j].at # "idle" => trackerInbox'[j] # <<>>
<1>1. Quiet \in Releasing /\ Quiet.at = "idle"
  BY DEF Quiet, Releasing
<1>2. trackerInbox[k] \in Seq(TrackerEvents)
  BY DEF TypeInv, TypeOK
<1>3. Tail(trackerInbox[k]) \in Seq(TrackerEvents)
  BY <1>2
<1>4. QED
  BY <1>1, <1>3 DEF TypeInv, TypeOK, WorksOnADelivery, EndOfInvocation, Releasing
-----------------------------------------------------------------------------
(* What a step leaves alone keeps its type; what it changes is named.      *)
IssueSide ==
  /\ handling \in [Issues -> Handling] /\ issueInbox \in [Issues -> Seq(IssueEvents)]
  /\ \A i \in Issues : handling[i].at # "idle" => issueInbox[i] # <<>>

TrackerSide ==
  /\ releasing \in [Trackers -> Releasing] /\ trackerInbox \in [Trackers -> Seq(TrackerEvents)]
  /\ \A k \in Trackers : releasing[k].at # "idle" => trackerInbox[k] # <<>>

GitHubSide ==
  /\ tracker \in [Trackers -> ATracker]
  /\ filed \subseteq Issues /\ inMilestone \subseteq filed
  /\ labels \in [Issues -> SUBSET States]

Rest ==
  /\ ran \subseteq Issues /\ opening \in {"waiting", "creating", "done"}
  /\ approved \in BOOLEAN /\ entered \subseteq Issues /\ owed \in [Trackers -> SUBSET Issues]
  /\ acts \in 0 .. MaxActs /\ changes \in 0 .. MaxChanges
  /\ errors \in Nat /\ restarts \in Nat /\ errors + restarts <= MaxFaults

LEMMA Sides ==
  TypeInv <=> IssueSide /\ TrackerSide /\ GitHubSide /\ Rest
BY DEF TypeInv, TypeOK, WorksOnADelivery, IssueSide, TrackerSide, GitHubSide, Rest,
       Handling, Releasing, ATracker

LEMMA SidesAfter ==
  ASSUME IssueSide', TrackerSide', GitHubSide', Rest' PROVE TypeInv'
BY DEF TypeInv, TypeOK, WorksOnADelivery, IssueSide, TrackerSide, GitHubSide, Rest,
       Handling, Releasing, ATracker

LEMMA AnalysesTypes ==
  ASSUME TypeInv, NEW i \in Issues, Analyses(i)
  PROVE  labels' \in [Issues -> SUBSET States] /\ ran' \subseteq Issues
<1>1. labels \in [Issues -> SUBSET States] /\ ran \subseteq Issues /\ "other" \in States
  BY DEF TypeInv, TypeOK, States
<1>2. (labels[i] \ {"intake"}) \cup {"other"} \in SUBSET States
  BY <1>1
<1>3. QED
  BY <1>1, <1>2 DEF Analyses

LEMMA PeopleTypes ==
  ASSUME TypeInv, People PROVE TypeInv'
<1> USE Sides, SidesAfter, ReleaseGateAssumption DEF ReleaseGateAssumption
<1>1. ASSUME NEW i \in Issues, NEW scoped \in BOOLEAN, FileIssue(i, scoped) PROVE TypeInv'
  <2>1. IssueSide'
    BY <1>1, SendTypes DEF FileIssue, IssueSide, threads
  <2>2. GitHubSide'
    BY <1>1 DEF FileIssue, GitHubSide
  <2>3. TrackerSide' /\ Rest'
    BY <1>1 DEF FileIssue, TrackerSide, Rest, threads, ghosts, bounds
  <2>4. QED
    BY <2>1, <2>2, <2>3
<1>2. ASSUME NEW i \in Issues, SetMilestone(i) PROVE TypeInv'
  <2>1. IssueSide'
    BY <1>2, SendTypes DEF SetMilestone, IssueSide, threads
  <2>2. GitHubSide'
    BY <1>2 DEF SetMilestone, GitHubSide
  <2>3. changes' \in 0 .. MaxChanges
    BY <1>2 DEF SetMilestone, Rest
  <2>4. TrackerSide' /\ Rest'
    BY <1>2, <2>3 DEF SetMilestone, TrackerSide, Rest, threads, ghosts
  <2>5. QED
    BY <2>1, <2>2, <2>4
<1>3. ASSUME NEW i \in Issues, UnsetMilestone(i) PROVE TypeInv'
  <2>1. IssueSide'
    BY <1>3, SendTypes DEF UnsetMilestone, IssueSide, threads
  <2>2. GitHubSide'
    BY <1>3 DEF UnsetMilestone, GitHubSide
  <2>3. changes' \in 0 .. MaxChanges
    BY <1>3 DEF UnsetMilestone, Rest
  <2>4. TrackerSide' /\ Rest'
    BY <1>3, <2>3 DEF UnsetMilestone, TrackerSide, Rest, threads, ghosts
  <2>5. QED
    BY <2>1, <2>2, <2>4
<1>4. ASSUME NEW k \in Trackers, NEW d \in TrackerEvents, Comment(k, d) PROVE TypeInv'
  <2>1. TrackerSide'
    BY <1>4, QueueTypes DEF Comment, TrackerSide, threads
  <2>2. acts' \in 0 .. MaxActs
    BY <1>4 DEF Comment, Rest
  <2>3. IssueSide' /\ GitHubSide' /\ Rest'
    BY <1>4, <2>2 DEF Comment, IssueSide, GitHubSide, Rest, threads, ghosts, github
  <2>4. QED
    BY <2>1, <2>3
<1>5. ASSUME NEW k \in Trackers, ApplyByHand(k) PROVE TypeInv'
  <2>1. [kind |-> "labeled", by |-> "person"] \in TrackerEvents
    BY DEF TrackerEvents
  <2>2. TrackerSide'
    BY <1>5, <2>1, QueueTypes DEF ApplyByHand, TrackerSide, threads
  <2>3. GitHubSide'
    BY <1>5 DEF ApplyByHand, GitHubSide, ATracker, Stages
  <2>4. acts' \in 0 .. MaxActs
    BY <1>5 DEF ApplyByHand, Rest
  <2>5. IssueSide' /\ Rest'
    BY <1>5, <2>4 DEF ApplyByHand, IssueSide, Rest, threads
  <2>6. QED
    BY <2>2, <2>3, <2>5
<1>6. ASSUME NEW k \in Trackers
      PROVE  /\ [kind |-> "plan"] \in TrackerEvents
             /\ [kind |-> "approved", ready |-> "ready" \in tracker[k].labels] \in TrackerEvents
  BY DEF TrackerEvents
<1>7. QED
  BY <1>1, <1>2, <1>3, <1>4, <1>5, <1>6 DEF People, PlanRelease, Approved

LEMMA MilestoneTypes ==
  ASSUME TypeInv, MilestoneCreated \/ MilestoneOpensTracker PROVE TypeInv'
<1> USE Sides, SidesAfter
<1>1. GitHubSide'
  BY CreateTypes DEF MilestoneCreated, MilestoneOpensTracker, GitHubSide, github
<1>2. IssueSide' /\ TrackerSide'
  BY DEF MilestoneCreated, MilestoneOpensTracker, IssueSide, TrackerSide, table
<1>3. Rest'
  BY DEF MilestoneCreated, MilestoneOpensTracker, Rest, table, ghosts, bounds
<1>4. QED
  BY <1>1, <1>2, <1>3

LEMMA IssueStepTypes ==
  ASSUME TypeInv, NEW i \in Issues, IssueStep(i) PROVE TypeInv'
<1> USE Sides, SidesAfter
<1>1. CASE LookAtTracker(i)
  <2> DEFINE d == Head(issueInbox[i])
  <2>1. issueInbox[i] # <<>> /\ d \in IssueEvents /\ Released(d) \in BOOLEAN /\ {} \in SUBSET States
    BY <1>1, HeadTypes DEF LookAtTracker, Released, NeedsTracker, IsReleased
  <2>2. \/ Take(i, "creating", "intake", {}) /\ UNCHANGED issueInbox
        \/ Decides(i, d, Released(d))
    BY <1>1 DEF LookAtTracker
  <2> HIDE DEF d
  <2>3. IssueSide'
    BY <2>1, <2>2, TakeTypes, DecidesTypes DEF IssueSide
  <2>4. TrackerSide' /\ GitHubSide' /\ Rest'
    BY <1>1 DEF LookAtTracker, TrackerSide, GitHubSide, Rest, github, ghosts, bounds
  <2>5. QED
    BY <2>3, <2>4
<1>2. CASE OpenTracker(i)
  <2>1. issueInbox[i] # <<>>
    BY <1>2 DEF OpenTracker, IssueSide
  <2>2. IssueSide'
    BY <1>2, <2>1, HeadTypes, DecidesTypes DEF OpenTracker, IssueSide
  <2>3. GitHubSide'
    BY <1>2, CreateTypes DEF OpenTracker, GitHubSide
  <2>4. TrackerSide' /\ Rest'
    BY <1>2 DEF OpenTracker, TrackerSide, Rest, ghosts, bounds
  <2>5. QED
    BY <2>2, <2>3, <2>4
<1>3. CASE DropLabel(i)
  <2>1. GitHubSide'
    BY <1>3 DEF DropLabel, GitHubSide
  <2>2. IssueSide'
    BY <1>3 DEF DropLabel, IssueSide, Handling, table
  <2>3. TrackerSide' /\ Rest'
    BY <1>3 DEF DropLabel, TrackerSide, Rest, table, ghosts, bounds
  <2>4. QED
    BY <2>1, <2>2, <2>3
<1>4. CASE AddLabel(i)
  <2>1. handling[i].to \in States /\ issueInbox[i] # <<>>
    BY <1>4 DEF AddLabel, IssueSide, Handling, States
  <2>2. GitHubSide'
    BY <1>4, <2>1 DEF AddLabel, GitHubSide
  <2>3. IssueSide'
    <3>1. CASE handling[i].to = "intake"
      <4>1. handling' = [handling EXCEPT ![i].at = "starting"] /\ UNCHANGED issueInbox
        BY <1>4, <3>1 DEF AddLabel
      <4>2. [handling[i] EXCEPT !.at = "starting"] \in Handling
        BY DEF IssueSide, Handling
      <4>3. QED
        BY <2>1, <4>1, <4>2 DEF IssueSide
    <3>2. CASE handling[i].to # "intake"
      BY <1>4, <2>1, <3>2, EndOfDeliveryTypes DEF AddLabel, IssueSide
    <3>3. QED
      BY <3>1, <3>2
  <2>4. TrackerSide' /\ Rest'
    BY <1>4 DEF AddLabel, TrackerSide, Rest, bounds
  <2>5. QED
    BY <2>2, <2>3, <2>4
<1>5. CASE RunIntake(i)
  <2>1. issueInbox[i] # <<>>
    BY <1>5 DEF RunIntake, IssueSide
  <2>2. IssueSide'
    BY <1>5, <2>1, EndOfDeliveryTypes DEF RunIntake, IssueSide
  <2>3. GitHubSide' /\ Rest'
    BY <1>5, AnalysesTypes DEF RunIntake, GitHubSide, Rest, ghosts, bounds
  <2>4. TrackerSide'
    BY <1>5 DEF RunIntake, TrackerSide
  <2>5. QED
    BY <2>2, <2>3, <2>4
<1>6. CASE HandlerRaises(i)
  <2>1. issueInbox[i] # <<>>
    BY <1>6 DEF HandlerRaises, IssueSide
  <2>2. IssueSide'
    BY <1>6, <2>1, EndOfDeliveryTypes DEF HandlerRaises, IssueSide
  <2>3. GitHubSide' /\ TrackerSide'
    BY <1>6 DEF HandlerRaises, GitHubSide, TrackerSide, github
  <2>4. Rest'
    BY <1>6, RaisesTypes DEF HandlerRaises, Rest, ghosts, TypeInv
  <2>5. QED
    BY <2>2, <2>3, <2>4
<1>7. QED
  BY <1>1, <1>2, <1>3, <1>4, <1>5, <1>6 DEF IssueStep

LEMMA ListingTypes ==
  ASSUME TypeInv
  PROVE  /\ Listing \in SUBSET Members
         /\ {m.issue : m \in Listing} \in SUBSET Issues
BY DEF TypeInv, TypeOK, Listing, Members

LEMMA TrackerStepTypes ==
  ASSUME TypeInv, NEW k \in Trackers, TrackerStep(k) PROVE TypeInv'
<1> USE Sides, SidesAfter
<1>1. CASE Route(k)
  <2>1. trackerInbox[k] # <<>>
    BY <1>1 DEF Route
  <2>2. GitHubSide'
    BY <1>1 DEF Route, GitHubSide, ATracker, Stages
  <2>3. TrackerSide'
    <3>1. CASE EndOfInvocation(k)
      BY <2>1, <3>1, EndOfInvocationTypes DEF TrackerSide
    <3>2. CASE ~EndOfInvocation(k)
      <4>1. /\ UNCHANGED trackerInbox
            /\ \E at \in {"planning", "approving", "checking"} :
                  releasing' = [releasing EXCEPT ![k].at = at]
        BY <1>1, <3>2 DEF Route
      <4>2. QED
        BY <2>1, <4>1 DEF TrackerSide, Releasing
    <3>3. QED
      BY <3>1, <3>2
  <2>4. IssueSide' /\ Rest'
    BY <1>1 DEF Route, IssueSide, Rest, ghosts, bounds
  <2>5. QED
    BY <2>2, <2>3, <2>4
<1>2. CASE Approve(k)
  <2>1. trackerInbox[k] # <<>>
    BY <1>2 DEF Approve, TrackerSide
  <2>2. /\ trackerInbox' \in [Trackers -> Seq(TrackerEvents)]
        /\ \A j \in Trackers : trackerInbox[j] # <<>> => trackerInbox'[j] # <<>>
    <3>1. [kind |-> "labeled", by |-> "app"] \in TrackerEvents
      BY DEF TrackerEvents
    <3>2. CASE Queue(k, [kind |-> "labeled", by |-> "app"])
      BY <3>1, <3>2, QueueTypes
    <3>3. CASE UNCHANGED trackerInbox
      BY <3>3 DEF TrackerSide
    <3>4. QED
      BY <1>2, <3>2, <3>3 DEF Approve
  <2>3. TrackerSide'
    BY <1>2, <2>1, <2>2 DEF Approve, TrackerSide, Releasing
  <2>4. GitHubSide'
    BY <1>2 DEF Approve, GitHubSide, ATracker, Stages
  <2>5. IssueSide' /\ Rest'
    BY <1>2 DEF Approve, IssueSide, Rest, bounds
  <2>6. QED
    BY <2>3, <2>4, <2>5
<1>3. CASE EndPlanning(k)
  <2>1. trackerInbox[k] # <<>>
    BY <1>3 DEF EndPlanning, TrackerSide
  <2>2. Verdicts \subseteq Stages
    BY ReleaseGateAssumption DEF ReleaseGateAssumption, Stages
  <2>3. GitHubSide'
    BY <1>3, <2>2 DEF EndPlanning, GitHubSide, ATracker
  <2>4. TrackerSide'
    <3>1. CASE EndOfInvocation(k)
      BY <2>1, <3>1, EndOfInvocationTypes DEF TrackerSide
    <3>2. CASE ~EndOfInvocation(k)
      <4>1. UNCHANGED trackerInbox /\ releasing' = [releasing EXCEPT ![k].at = "checking"]
        BY <1>3, <3>2 DEF EndPlanning
      <4>2. QED
        BY <2>1, <4>1 DEF TrackerSide, Releasing
    <3>3. QED
      BY <3>1, <3>2
  <2>5. IssueSide' /\ Rest'
    BY <1>3 DEF EndPlanning, IssueSide, Rest, bounds
  <2>6. QED
    BY <2>3, <2>4, <2>5
<1>4. CASE ListMembers(k)
  <2>1. trackerInbox[k] # <<>>
    BY <1>4 DEF ListMembers, TrackerSide
  <2>2. TrackerSide'
    <3>1. CASE MayRelease(k)
      <4>1. [Quiet EXCEPT !.at = "moving", !.todo = Listing] \in Releasing
        BY ListingTypes DEF Quiet, Releasing
      <4>2. QED
        BY <1>4, <2>1, <3>1, <4>1 DEF ListMembers, TrackerSide
    <3>2. CASE ~MayRelease(k)
      BY <1>4, <2>1, <3>2, EndOfInvocationTypes DEF ListMembers, TrackerSide
    <3>3. QED
      BY <3>1, <3>2
  <2>3. owed' \in [Trackers -> SUBSET Issues]
    BY <1>4, ListingTypes DEF ListMembers, Rest
  <2>4. IssueSide' /\ GitHubSide' /\ Rest'
    BY <1>4, <2>3 DEF ListMembers, IssueSide, GitHubSide, Rest, github, bounds
  <2>5. QED
    BY <2>2, <2>4
<1>5. ASSUME NEW m \in releasing[k].todo, TakeOffBacklog(k, m) PROVE TypeInv'
  <2>1. m \in Members /\ m.issue \in Issues
    BY DEF TrackerSide, Releasing, Members
  <2>2. [m EXCEPT !.labels = @ \ {"backlog"}] \in Members
    BY <2>1 DEF Members
  <2>3. TrackerSide'
    BY <1>5, <2>2 DEF TakeOffBacklog, TrackerSide, Releasing, table
  <2>4. GitHubSide'
    BY <1>5 DEF TakeOffBacklog, GitHubSide
  <2>5. IssueSide' /\ Rest'
    BY <1>5 DEF TakeOffBacklog, IssueSide, Rest, table, ghosts, bounds
  <2>6. QED
    BY <2>3, <2>4, <2>5
<1>6. ASSUME NEW m \in releasing[k].todo, PutInIntake(k, m) PROVE TypeInv'
  <2>1. m.issue \in Issues
    BY DEF TrackerSide, Releasing, Members
  <2>2. TrackerSide'
    BY <1>6, <2>1 DEF PutInIntake, TrackerSide, Releasing, table
  <2>3. GitHubSide'
    BY <1>6 DEF PutInIntake, GitHubSide, States
  <2>4. IssueSide' /\ Rest'
    BY <1>6, <2>1 DEF PutInIntake, IssueSide, Rest, table, bounds
  <2>5. QED
    BY <2>2, <2>3, <2>4
<1>7. CASE PostReceipt(k)
  <2>1. GitHubSide'
    BY <1>7 DEF PostReceipt, GitHubSide, ATracker
  <2>2. TrackerSide'
    BY <1>7 DEF PostReceipt, TrackerSide, Releasing, table
  <2>3. IssueSide' /\ Rest'
    BY <1>7 DEF PostReceipt, IssueSide, Rest, table, ghosts, bounds
  <2>4. QED
    BY <2>1, <2>2, <2>3
<1>8. ASSUME NEW i \in Issues, FanOut(k, i) PROVE TypeInv'
  <2>1. GitHubSide' /\ Rest'
    BY <1>8, AnalysesTypes DEF FanOut, GitHubSide, Rest, ghosts, bounds
  <2>2. TrackerSide'
    BY <1>8 DEF FanOut, TrackerSide, Releasing
  <2>3. IssueSide'
    BY <1>8 DEF FanOut, IssueSide
  <2>4. QED
    BY <2>1, <2>2, <2>3
<1>9. CASE EndRelease(k)
  <2>1. TrackerSide'
    BY <1>9, EndOfInvocationTypes DEF EndRelease, TrackerSide
  <2>2. IssueSide' /\ GitHubSide' /\ Rest'
    BY <1>9 DEF EndRelease, IssueSide, GitHubSide, Rest, github, ghosts, bounds
  <2>3. QED
    BY <2>1, <2>2
<1>10. CASE ReleaseRaises(k)
  <2>1. trackerInbox[k] # <<>>
    BY <1>10 DEF ReleaseRaises, TrackerSide
  <2>2. TrackerSide'
    BY <1>10, <2>1, EndOfInvocationTypes DEF ReleaseRaises, TrackerSide
  <2>3. IssueSide' /\ GitHubSide'
    BY <1>10 DEF ReleaseRaises, IssueSide, GitHubSide, github
  <2>4. Rest'
    BY <1>10, RaisesTypes DEF ReleaseRaises, Rest, ghosts, TypeInv
  <2>5. QED
    BY <2>2, <2>3, <2>4
<1>11. QED
  BY <1>1, <1>2, <1>3, <1>4, <1>5, <1>6, <1>7, <1>8, <1>9, <1>10 DEF TrackerStep

LEMMA SweepTypes ==
  ASSUME TypeInv, NEW k \in Trackers, SweepTracker(k) PROVE TypeInv'
<1> USE Sides, SidesAfter
<1>1. [kind |-> "labeled", by |-> "sweep"] \in TrackerEvents
  BY DEF TrackerEvents
<1>2. TrackerSide'
  BY <1>1, QueueTypes DEF SweepTracker, TrackerSide, threads
<1>3. IssueSide' /\ GitHubSide' /\ Rest'
  BY DEF SweepTracker, IssueSide, GitHubSide, Rest, github, threads, ghosts, bounds
<1>4. QED
  BY <1>2, <1>3

LEMMA RestartTypes ==
  ASSUME TypeInv, Restart PROVE TypeInv'
<1> USE Sides, SidesAfter
<1>1. IssueSide' /\ TrackerSide'
  BY DEF Restart, IssueSide, TrackerSide, Idle, Quiet, Handling, Releasing, table
<1>2. GitHubSide'
  BY DEF Restart, GitHubSide, github
<1>3. Rest'
  BY ReleaseGateAssumption DEF Restart, Rest, table, ghosts, ReleaseGateAssumption
<1>4. QED
  BY <1>1, <1>2, <1>3

LEMMA TypesAreKept ==
  ASSUME TypeInv, [Next]_vars PROVE TypeInv'
<1>1. CASE UNCHANGED vars
  BY <1>1 DEF vars, TypeInv, TypeOK, WorksOnADelivery
<1>2. CASE Next
  BY <1>2, PeopleTypes, MilestoneTypes, IssueStepTypes, TrackerStepTypes, SweepTypes,
     RestartTypes DEF Next
<1>3. QED
  BY <1>1, <1>2

(* The variables of ReleaseGate keep their types: issues only ever carry   *)
(* the labels of the queue, trackers those of the gate.                    *)
THEOREM TypesHold == Spec => []TypeOK
<1>1. Init => TypeInv
  BY InitTypes
<1>2. TypeInv /\ [Next]_vars => TypeInv'
  BY TypesAreKept
<1>3. TypeInv => TypeOK
  BY DEF TypeInv
<1>4. QED
  BY <1>1, <1>2, <1>3, PTL DEF Spec
-----------------------------------------------------------------------------
(***************************************************************************)
(* The gate.  Whoever is about to start an analyst has seen an approval,   *)
(* so ran alone is not inductive: the threads' places count too.           *)
(***************************************************************************)
HeadsForIntake(h) == h.at = "starting" \/ (h.at \in {"dropping", "adding"} /\ h.to = "intake")

Gate ==
  /\ \A k \in Trackers : "approved" \in tracker[k].labels => approved
  /\ \A i \in Issues : HeadsForIntake(handling[i]) => approved
  /\ \A k \in Trackers : releasing[k].at \in {"moving", "running"} => approved
  /\ NothingBeforeTheGate

LEMMA GateInit ==
  ASSUME Init PROVE Gate
BY DEF Init, Gate, HeadsForIntake, NothingBeforeTheGate, NoTracker, Idle, Quiet

(* A delivery heads for intake only where its tracker was found approved.  *)
LEMMA DecidesGate ==
  ASSUME TypeInv, Gate, NEW i \in Issues, NEW d \in IssueEvents, NEW released \in BOOLEAN,
         released => approved, Decides(i, d, released), UNCHANGED approved
  PROVE  \A j \in Issues : HeadsForIntake(handling'[j]) => approved'
<1>1. \/ EndOfDelivery(i)
      \/ Take(i, "dropping", "backlog", d.labels)
      \/ released /\ \E at \in {"adding", "dropping"} : Take(i, at, "intake", d.labels)
  BY DEF Decides
<1>2. handling \in [Issues -> Handling]
  BY DEF TypeInv, TypeOK, Handling
<1>3. CASE EndOfDelivery(i)
  BY <1>2, <1>3 DEF EndOfDelivery, Gate, HeadsForIntake, Idle
<1>4. CASE Take(i, "dropping", "backlog", d.labels)
  BY <1>2, <1>4 DEF Take, Gate, HeadsForIntake
<1>5. CASE released /\ \E at \in {"adding", "dropping"} : Take(i, at, "intake", d.labels)
  BY <1>5
<1>6. QED
  BY <1>1, <1>3, <1>4, <1>5

LEMMA CreateGate ==
  ASSUME TypeInv, Gate, CreateTracker, UNCHANGED approved
  PROVE  \A k \in Trackers : "approved" \in tracker'[k].labels => approved'
<1>1. tracker \in [Trackers -> ATracker]
  BY DEF TypeInv, TypeOK, ATracker
<1>2. PICK o \in Trackers :
        tracker' = [tracker EXCEPT ![o] = [open |-> TRUE, labels |-> {"planning"}, receipts |-> 0]]
  BY DEF CreateTracker
<1>3. QED
  BY <1>1, <1>2 DEF Gate

LEMMA PeopleGate ==
  ASSUME TypeInv, Gate, People PROVE Gate'
<1> USE DEF Gate, NothingBeforeTheGate, threads
<1>1. ASSUME NEW i \in Issues, NEW scoped \in BOOLEAN, FileIssue(i, scoped) PROVE Gate'
  BY <1>1 DEF FileIssue, ghosts
<1>2. ASSUME NEW i \in Issues, SetMilestone(i) \/ UnsetMilestone(i) PROVE Gate'
  BY <1>2 DEF SetMilestone, UnsetMilestone, ghosts
<1>3. ASSUME NEW k \in Trackers, PlanRelease(k) \/ Approved(k) PROVE Gate'
  BY <1>3 DEF PlanRelease, Approved, Comment, github, ghosts
<1>4. ASSUME NEW k \in Trackers, ApplyByHand(k) PROVE Gate'
  BY <1>4 DEF ApplyByHand
<1>5. QED
  BY <1>1, <1>2, <1>3, <1>4 DEF People

LEMMA IssueStepGate ==
  ASSUME TypeInv, Gate, NEW i \in Issues, IssueStep(i) PROVE Gate'
<1>h. handling \in [Issues -> Handling]
  BY DEF TypeInv, TypeOK, Handling
<1>1. CASE LookAtTracker(i)
  <2> DEFINE d == Head(issueInbox[i])
  <2>1. d \in IssueEvents /\ Released(d) \in BOOLEAN /\ UNCHANGED <<approved, tracker, releasing, ran>>
    BY <1>1, HeadTypes DEF LookAtTracker, Released, NeedsTracker, IsReleased, github, ghosts
  <2>2. Released(d) => approved
    BY DEF Released, IsReleased, Newest, Opened, Gate
  <2>3. Take(i, "creating", "intake", {}) \/ Decides(i, d, Released(d))
    BY <1>1 DEF LookAtTracker
  <2> HIDE DEF d
  <2>4. \A j \in Issues : HeadsForIntake(handling'[j]) => approved'
    <3>1. CASE Decides(i, d, Released(d))
      BY <2>1, <2>2, <3>1, DecidesGate
    <3>2. CASE Take(i, "creating", "intake", {})
      BY <1>h, <2>1, <3>2 DEF Take, Gate, HeadsForIntake
    <3>3. QED
      BY <2>3, <3>1, <3>2
  <2>5. QED
    BY <2>1, <2>4 DEF Gate, NothingBeforeTheGate
<1>2. CASE OpenTracker(i)
  <2>1. Head(issueInbox[i]) \in IssueEvents
    BY <1>2, HeadTypes DEF OpenTracker, TypeInv, WorksOnADelivery
  <2>2. /\ CreateTracker /\ Decides(i, Head(issueInbox[i]), FALSE)
        /\ UNCHANGED <<approved, releasing, ran>>
    BY <1>2 DEF OpenTracker, ghosts
  <2>3. \A j \in Issues : HeadsForIntake(handling'[j]) => approved'
    BY <2>1, <2>2, DecidesGate
  <2>4. \A k \in Trackers : "approved" \in tracker'[k].labels => approved'
    BY <2>2, CreateGate
  <2>5. QED
    BY <2>2, <2>3, <2>4 DEF Gate, NothingBeforeTheGate
<1>3. CASE DropLabel(i)
  BY <1>h, <1>3 DEF DropLabel, Gate, NothingBeforeTheGate, HeadsForIntake, Handling, table, ghosts
<1>4. CASE AddLabel(i)
  <2>1. \A j \in Issues : HeadsForIntake(handling'[j]) => approved'
    <3>1. CASE handling[i].to = "intake"
      BY <1>h, <1>4, <3>1 DEF AddLabel, Gate, HeadsForIntake, Handling
    <3>2. CASE handling[i].to # "intake"
      BY <1>h, <1>4, <3>2 DEF AddLabel, EndOfDelivery, Idle, Gate, HeadsForIntake, Handling
    <3>3. QED
      BY <3>1, <3>2
  <2>2. QED
    BY <1>4, <2>1 DEF AddLabel, Gate, NothingBeforeTheGate
<1>5. CASE RunIntake(i)
  <2>1. approved /\ approved' /\ UNCHANGED <<tracker, releasing>>
    BY <1>5 DEF RunIntake, Gate, HeadsForIntake, ghosts
  <2>2. QED
    BY <2>1 DEF Gate, NothingBeforeTheGate
<1>6. CASE HandlerRaises(i)
  BY <1>h, <1>6
  DEF HandlerRaises, EndOfDelivery, Idle, Gate, NothingBeforeTheGate, HeadsForIntake, github, ghosts
<1>7. QED
  BY <1>1, <1>2, <1>3, <1>4, <1>5, <1>6 DEF IssueStep

LEMMA TrackerStepGate ==
  ASSUME TypeInv, Gate, NEW k \in Trackers, TrackerStep(k) PROVE Gate'
<1>t. tracker \in [Trackers -> ATracker] /\ releasing \in [Trackers -> Releasing]
  BY DEF TypeInv, TypeOK, ATracker, Releasing
<1> USE DEF Gate, NothingBeforeTheGate
<1>1. CASE Route(k)
  <2>1. UNCHANGED <<approved, handling, ran>>
    BY <1>1 DEF Route, ghosts
  <2>2. \A j \in Trackers : tracker'[j].labels \subseteq tracker[j].labels
    BY <1>1, <1>t DEF Route, ATracker
  <2>3. \A j \in Trackers : releasing'[j].at \in {"moving", "running"} => releasing[j].at = releasing'[j].at
    BY <1>1, <1>t DEF Route, EndOfInvocation, Quiet, Releasing
  <2>4. QED
    BY <2>1, <2>2, <2>3
<1>2. CASE Approve(k)
  BY <1>2 DEF Approve
<1>3. CASE EndPlanning(k)
  <2>1. UNCHANGED <<handling, ran>> /\ (approved => approved')
    BY <1>3 DEF EndPlanning
  <2>2. \A j \in Trackers : "approved" \in tracker'[j].labels => approved'
    <3>1. CASE UNCHANGED <<tracker, approved>>
      BY <3>1
    <3>2. CASE \E v \in Verdicts :
                 /\ tracker' = [tracker EXCEPT ![k].labels = (@ \ {"planning"}) \cup {v}]
                 /\ approved' = (approved \/ v = "approved")
      <4>1. PICK v \in Verdicts :
              /\ tracker' = [tracker EXCEPT ![k].labels = (@ \ {"planning"}) \cup {v}]
              /\ approved' = (approved \/ v = "approved")
        BY <3>2
      <4>2. \A j \in Trackers : tracker'[j].labels \subseteq tracker[j].labels \cup {v}
        BY <1>t, <4>1 DEF ATracker
      <4>3. QED
        BY <4>1, <4>2
    <3>3. QED
      BY <1>3, <3>1, <3>2 DEF EndPlanning
  <2>3. \A j \in Trackers : releasing'[j].at \in {"moving", "running"} => releasing[j].at = releasing'[j].at
    BY <1>3, <1>t DEF EndPlanning, EndOfInvocation, Quiet, Releasing
  <2>4. QED
    BY <2>1, <2>2, <2>3
<1>4. CASE ListMembers(k)
  <2>1. UNCHANGED <<approved, tracker, handling, ran>>
    BY <1>4 DEF ListMembers, github
  <2>2. CASE MayRelease(k)
    BY <2>1, <2>2 DEF MayRelease
  <2>3. CASE ~MayRelease(k)
    BY <1>4, <1>t, <2>1, <2>3 DEF ListMembers, EndOfInvocation, Quiet, Releasing
  <2>4. QED
    BY <2>2, <2>3
<1>5. ASSUME NEW m \in releasing[k].todo, TakeOffBacklog(k, m) \/ PutInIntake(k, m) PROVE Gate'
  <2>1. UNCHANGED <<approved, tracker, handling, ran>> /\ releasing[k].at = "moving"
    BY <1>5 DEF TakeOffBacklog, PutInIntake, Current, table, ghosts
  <2>2. QED
    BY <2>1
<1>6. CASE PostReceipt(k)
  <2>1. UNCHANGED <<approved, handling, ran>> /\ releasing[k].at = "moving"
    BY <1>6 DEF PostReceipt, table, ghosts
  <2>2. QED
    BY <2>1
<1>7. ASSUME NEW i \in Issues, FanOut(k, i) PROVE Gate'
  <2>1. UNCHANGED approved /\ approved
    BY <1>7 DEF FanOut, ghosts
  <2>2. QED
    BY <2>1
<1>8. CASE EndRelease(k) \/ ReleaseRaises(k)
  <2>1. UNCHANGED <<approved, tracker, handling, ran>> /\ EndOfInvocation(k)
    BY <1>8 DEF EndRelease, ReleaseRaises, github, ghosts
  <2>2. QED
    BY <1>t, <2>1 DEF EndOfInvocation, Quiet, Releasing
<1>9. QED
  BY <1>1, <1>2, <1>3, <1>4, <1>5, <1>6, <1>7, <1>8 DEF TrackerStep

LEMMA GateIsKept ==
  ASSUME TypeInv, Gate, [Next]_vars PROVE Gate'
<1>1. CASE UNCHANGED vars
  BY <1>1 DEF vars, Gate, NothingBeforeTheGate
<1>2. CASE MilestoneCreated
  BY <1>2 DEF MilestoneCreated, Gate, NothingBeforeTheGate, github, table, ghosts
<1>3. CASE MilestoneOpensTracker
  BY <1>3, CreateGate DEF MilestoneOpensTracker, Gate, NothingBeforeTheGate, table, ghosts
<1>4. ASSUME NEW k \in Trackers, SweepTracker(k) PROVE Gate'
  BY <1>4 DEF SweepTracker, Gate, NothingBeforeTheGate, github, threads, ghosts
<1>5. CASE Restart
  BY <1>5 DEF Restart, Gate, NothingBeforeTheGate, HeadsForIntake, Idle, Quiet, github, table, ghosts
<1>6. QED
  BY <1>1, <1>2, <1>3, <1>4, <1>5, PeopleGate, IssueStepGate, TrackerStepGate DEF Next

(* No intake run before gate G0, whatever the order of filing, approving   *)
(* and changing milestones, and however often the process stops.           *)
THEOREM TheGateHolds == Spec => []NothingBeforeTheGate
<1>1. Init => TypeInv /\ Gate
  BY InitTypes, GateInit
<1>2. TypeInv /\ Gate /\ [Next]_vars => TypeInv' /\ Gate'
  BY TypesAreKept, GateIsKept
<1>3. Gate => NothingBeforeTheGate
  BY DEF Gate
<1>4. QED
  BY <1>1, <1>2, <1>3, PTL DEF Spec
-----------------------------------------------------------------------------
(***************************************************************************)
(* The receipt.  A thread that is moving issues has seen none posted, and  *)
(* no other thread works on the same tracker; what its listing began with  *)
(* is either moved or still on its list.                                   *)
(***************************************************************************)
Dispatch ==
  /\ \A k \in Trackers :
       releasing[k].at = "moving" =>
         /\ tracker[k].receipts = 0
         /\ owed[k] \subseteq entered \cup {m.issue : m \in releasing[k].todo}
  /\ OneReceipt
  /\ ReceiptIsComplete

LEMMA DispatchInit ==
  ASSUME Init PROVE Dispatch
BY DEF Init, Dispatch, OneReceipt, ReceiptIsComplete, NoTracker, Quiet

(* A step that leaves receipts, lists and threads alone, but for a thread  *)
(* that ends and an issue that enters.                                     *)
LEMMA DispatchApart ==
  ASSUME Dispatch, UNCHANGED owed, entered \subseteq entered',
         \A k \in Trackers : tracker'[k].receipts = tracker[k].receipts,
         \A k \in Trackers : releasing'[k].at = "moving" =>
           releasing[k].at = "moving" /\ releasing'[k].todo = releasing[k].todo
  PROVE  Dispatch'
BY DEF Dispatch, OneReceipt, ReceiptIsComplete

LEMMA CreateDispatch ==
  ASSUME TypeInv, Dispatch, CreateTracker, UNCHANGED <<owed, releasing, entered>>
  PROVE  Dispatch'
<1>1. tracker \in [Trackers -> ATracker]
  BY DEF TypeInv, TypeOK, ATracker
<1>2. PICK o \in Trackers :
        tracker' = [tracker EXCEPT ![o] = [open |-> TRUE, labels |-> {"planning"}, receipts |-> 0]]
  BY DEF CreateTracker
<1>3. \A k \in Trackers : tracker'[k].receipts = tracker[k].receipts \/ tracker'[k].receipts = 0
  BY <1>1, <1>2
<1>4. QED
  BY <1>3 DEF Dispatch, OneReceipt, ReceiptIsComplete

LEMMA OthersDispatch ==
  ASSUME TypeInv, Dispatch,
         \/ People \/ MilestoneCreated \/ MilestoneOpensTracker \/ Restart
         \/ \E k \in Trackers : SweepTracker(k)
         \/ \E i \in Issues : IssueStep(i)
  PROVE  Dispatch'
<1>t. tracker \in [Trackers -> ATracker]
  BY DEF TypeInv, TypeOK, ATracker
<1>1. CASE People
  <2>1. UNCHANGED <<owed, entered, releasing>>
    BY <1>1 DEF People, FileIssue, SetMilestone, UnsetMilestone, PlanRelease, Approved, Comment,
       ApplyByHand, threads, ghosts
  <2>2. \A k \in Trackers : tracker'[k].receipts = tracker[k].receipts
    <3>1. ASSUME NEW o \in Trackers, ApplyByHand(o) PROVE \A k \in Trackers : tracker'[k].receipts = tracker[k].receipts
      BY <1>t, <3>1 DEF ApplyByHand, ATracker
    <3>2. CASE ~\E o \in Trackers : ApplyByHand(o)
      BY <1>1, <3>2 DEF People, FileIssue, SetMilestone, UnsetMilestone, PlanRelease, Approved,
         Comment, github
    <3>3. QED
      BY <3>1, <3>2
  <2>3. QED
    BY <2>1, <2>2, DispatchApart
<1>2. CASE MilestoneCreated
  BY <1>2, DispatchApart DEF MilestoneCreated, github, ghosts
<1>3. CASE MilestoneOpensTracker
  BY <1>3, CreateDispatch DEF MilestoneOpensTracker, ghosts
<1>4. CASE Restart
  BY <1>4, DispatchApart DEF Restart, Quiet, github, ghosts
<1>5. CASE \E k \in Trackers : SweepTracker(k)
  BY <1>5, DispatchApart DEF SweepTracker, github, threads, ghosts
<1>6. ASSUME NEW i \in Issues, IssueStep(i) PROVE Dispatch'
  <2>1. CASE OpenTracker(i)
    BY <2>1, CreateDispatch DEF OpenTracker, ghosts
  <2>2. CASE ~OpenTracker(i)
    <3>1. UNCHANGED <<tracker, releasing, owed>> /\ entered \subseteq entered'
      BY <1>6, <2>2 DEF IssueStep, LookAtTracker, DropLabel, AddLabel, RunIntake, HandlerRaises,
         github, ghosts
    <3>2. QED
      BY <3>1, DispatchApart
  <2>3. QED
    BY <2>1, <2>2
<1>7. QED
  BY <1>1, <1>2, <1>3, <1>4, <1>5, <1>6

LEMMA TrackerStepDispatch ==
  ASSUME TypeInv, Dispatch, NEW k \in Trackers, TrackerStep(k) PROVE Dispatch'
<1>t. tracker \in [Trackers -> ATracker] /\ releasing \in [Trackers -> Releasing]
      /\ owed \in [Trackers -> SUBSET Issues]
  BY DEF TypeInv, TypeOK, ATracker, Releasing
<1>1. CASE Route(k) \/ Approve(k) \/ EndPlanning(k)
  <2>1. UNCHANGED <<owed, entered>>
    BY <1>1 DEF Route, Approve, EndPlanning, ghosts
  <2>2. \A j \in Trackers : tracker'[j].receipts = tracker[j].receipts
    <3>1. \/ UNCHANGED tracker
          \/ \E ls \in SUBSET Stages : tracker' = [tracker EXCEPT ![k].labels = ls]
      <4>1. tracker[k].labels \in SUBSET Stages /\ Verdicts \subseteq Stages /\ "approved" \in Stages
        BY <1>t, ReleaseGateAssumption DEF ATracker, ReleaseGateAssumption, Stages
      <4>2. CASE Route(k)
        BY <4>1, <4>2 DEF Route
      <4>3. CASE Approve(k)
        BY <4>1, <4>3 DEF Approve
      <4>4. CASE EndPlanning(k)
        BY <4>1, <4>4 DEF EndPlanning
      <4>5. QED
        BY <1>1, <4>2, <4>3, <4>4
    <3>2. QED
      BY <1>t, <3>1 DEF ATracker
  <2>3. \A j \in Trackers : releasing'[j].at = "moving" => releasing'[j] = releasing[j]
    BY <1>1, <1>t DEF Route, Approve, EndPlanning, EndOfInvocation, Quiet, Releasing
  <2>4. QED
    BY <2>1, <2>2, <2>3, DispatchApart
<1>2. CASE ListMembers(k)
  <2>1. UNCHANGED <<tracker, entered>>
    BY <1>2 DEF ListMembers, github
  <2>2. CASE MayRelease(k)
    <3>1. /\ releasing' = [releasing EXCEPT ![k] = [Quiet EXCEPT !.at = "moving", !.todo = Listing]]
          /\ owed' = [owed EXCEPT ![k] = {m.issue : m \in Listing}]
      BY <1>2, <2>2 DEF ListMembers
    <3>2. releasing'[k].todo = Listing
      BY <1>t, <3>1 DEF Quiet
    <3>3. owed'[k] = {m.issue : m \in releasing'[k].todo} /\ tracker[k].receipts = 0
      BY <1>t, <2>2, <3>1, <3>2 DEF MayRelease
    <3>4. \A j \in Trackers \ {k} : owed'[j] = owed[j] /\ releasing'[j] = releasing[j]
      BY <1>t, <3>1
    <3>5. QED
      BY <2>1, <3>3, <3>4 DEF Dispatch, OneReceipt, ReceiptIsComplete
  <2>3. CASE ~MayRelease(k)
    BY <1>2, <1>t, <2>1, <2>3, DispatchApart DEF ListMembers, EndOfInvocation, Quiet
  <2>4. QED
    BY <2>2, <2>3
<1>3. ASSUME NEW m \in releasing[k].todo, TakeOffBacklog(k, m) PROVE Dispatch'
  <2>1. UNCHANGED <<tracker, owed, entered>>
    BY <1>3 DEF TakeOffBacklog, ghosts
  <2>2. m \in Members
    BY <1>t DEF Releasing
  <2>3. [m EXCEPT !.labels = @ \ {"backlog"}].issue = m.issue
    BY <2>2 DEF Members
  <2>4. \A j \in Trackers : releasing'[j].at = releasing[j].at
    BY <1>3, <1>t DEF TakeOffBacklog, Releasing
  <2>5. /\ releasing'[k].todo = (releasing[k].todo \ {m}) \cup {[m EXCEPT !.labels = @ \ {"backlog"}]}
        /\ \A j \in Trackers \ {k} : releasing'[j].todo = releasing[j].todo
    BY <1>3, <1>t DEF TakeOffBacklog, Releasing
  <2>6. \A j \in Trackers : {o.issue : o \in releasing[j].todo} \subseteq {o.issue : o \in releasing'[j].todo}
    BY <2>3, <2>5
  <2>7. QED
    BY <2>1, <2>4, <2>6 DEF Dispatch, OneReceipt, ReceiptIsComplete
<1>4. ASSUME NEW m \in releasing[k].todo, PutInIntake(k, m) PROVE Dispatch'
  <2>1. UNCHANGED <<tracker, owed>> /\ entered' = entered \cup {m.issue}
    BY <1>4 DEF PutInIntake
  <2>2. \A j \in Trackers : releasing'[j].at = releasing[j].at
    BY <1>4, <1>t DEF PutInIntake, Releasing
  <2>3. \A j \in Trackers : releasing[j].todo \subseteq releasing'[j].todo \cup {m}
    BY <1>4, <1>t DEF PutInIntake, Releasing
  <2>4. \A j \in Trackers :
          {o.issue : o \in releasing[j].todo} \subseteq {o.issue : o \in releasing'[j].todo} \cup {m.issue}
    BY <2>3
  <2>5. QED
    BY <2>1, <2>2, <2>4 DEF Dispatch, OneReceipt, ReceiptIsComplete
<1>5. CASE PostReceipt(k)
  <2>1. UNCHANGED <<owed, entered>> /\ releasing[k].at = "moving" /\ releasing[k].todo = {}
    BY <1>5 DEF PostReceipt, AllMoved, ghosts
  <2>2. tracker[k].receipts = 0 /\ owed[k] \subseteq entered
    BY <2>1 DEF Dispatch
  <2>3. tracker'[k].receipts = 1 /\ releasing'[k].at = "running"
    BY <1>5, <1>t, <2>2 DEF PostReceipt, Releasing, ATracker
  <2>4. \A j \in Trackers \ {k} : tracker'[j] = tracker[j] /\ releasing'[j] = releasing[j]
    BY <1>5, <1>t DEF PostReceipt
  <2>5. QED
    BY <2>1, <2>2, <2>3, <2>4 DEF Dispatch, OneReceipt, ReceiptIsComplete
<1>6. ASSUME NEW i \in Issues, FanOut(k, i) PROVE Dispatch'
  <2>1. UNCHANGED <<tracker, owed, entered>>
    BY <1>6 DEF FanOut, ghosts
  <2>2. \A j \in Trackers : releasing'[j].at = "moving" =>
          releasing[j].at = "moving" /\ releasing'[j].todo = releasing[j].todo
    BY <1>6, <1>t DEF FanOut, Releasing
  <2>3. QED
    BY <2>1, <2>2, DispatchApart
<1>7. CASE EndRelease(k) \/ ReleaseRaises(k)
  <2>1. UNCHANGED <<tracker, owed, entered>> /\ EndOfInvocation(k)
    BY <1>7 DEF EndRelease, ReleaseRaises, github, ghosts
  <2>2. QED
    BY <1>t, <2>1, DispatchApart DEF EndOfInvocation, Quiet
<1>8. QED
  BY <1>1, <1>2, <1>3, <1>4, <1>5, <1>6, <1>7 DEF TrackerStep

LEMMA DispatchIsKept ==
  ASSUME TypeInv, Dispatch, [Next]_vars PROVE Dispatch'
<1>1. CASE UNCHANGED vars
  BY <1>1, DispatchApart DEF vars
<1>2. CASE Next
  BY <1>2, OthersDispatch, TrackerStepDispatch DEF Next
<1>3. QED
  BY <1>1, <1>2

LEMMA DispatchHolds == Spec => []Dispatch
<1>1. Init => TypeInv /\ Dispatch
  BY InitTypes, DispatchInit
<1>2. TypeInv /\ Dispatch /\ [Next]_vars => TypeInv' /\ Dispatch'
  BY TypesAreKept, DispatchIsKept
<1>3. QED
  BY <1>1, <1>2, PTL DEF Spec

(* A tracker never gets a second receipt, whoever asks again.              *)
THEOREM DispatchedOnce == Spec => []OneReceipt
<1>1. Dispatch => OneReceipt
  BY DEF Dispatch
<1>2. QED
  BY <1>1, DispatchHolds, PTL

(* A receipt stands for a milestone whose every listed issue has entered   *)
(* intake, although any call in between may raise and the process stop.    *)
THEOREM ReceiptsAreTrue == Spec => []ReceiptIsComplete
<1>1. Dispatch => ReceiptIsComplete
  BY DEF Dispatch
<1>2. QED
  BY <1>1, DispatchHolds, PTL
=============================================================================
