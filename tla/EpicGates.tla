------------------------------ MODULE EpicGates ------------------------------
(***************************************************************************)
(* One epic from its intake to its Dispatcher: gates G1 and G2, the chain  *)
(* of documents between them, and expedite, which opens both by itself.    *)
(*                                                                         *)
(* A gate opens in two ways: the engine merges the document's PR and flips *)
(* the label, for an Approved comment or on an expedited epic, and runs    *)
(* the stage behind it; or a person merges, applies the approved label,    *)
(* and the event of that label runs the stage.  The engine acts as a       *)
(* GitHub App, so its own flip is such an event as well.                   *)
(*                                                                         *)
(* The epic's deliveries are handled one at a time, in order (the promise  *)
(* of module Inbox), by the labels their payloads carried; what the chain  *)
(* does after a run it decides by the labels of the moment.  Wording,      *)
(* branches of the PRs and the retries of failed runs (module RunRecovery) *)
(* are left out.                                                           *)
(***************************************************************************)
EXTENDS Naturals, Sequences

CONSTANTS
  Listed,       \* whether factory-approvers.json lists the lead for the gates
  Labellers,    \* who puts labels on by hand
  Tidy,         \* whether they take the ready label off when they approve
  SystemTests,  \* whether the repo has a Test Planner between the two others
  MaxActs,      \* bound: what people do on the epic
  MaxFaults,    \* bound: calls that raise, runs that fail, stops of the process
  MaxInbox      \* bound: deliveries waiting when a person adds one

ASSUME EpicGatesAssumption ==
  /\ Listed \in BOOLEAN /\ SystemTests \in BOOLEAN
  /\ Labellers \subseteq {"lead", "member"}
  /\ Tidy \subseteq BOOLEAN
  /\ {MaxActs, MaxFaults, MaxInbox} \subseteq Nat

VARIABLES
  (* GitHub *)
  labels,      \* the factory labels of the epic
  doc,         \* doc[g]: the PR with the document of gate g
  (* the deliveries table *)
  inbox,
  (* the process *)
  thread,      \* where the delivery at work is
  (* history and bounds *)
  approved,    \* gates that somebody who may has approved
  waived,      \* somebody who may has put expedite on
  opened,      \* gates opened with the one or the other
  begun,       \* the roles that have been started
  overlooked,  \* the expedited gate the epic waits at was not looked at, or not as it is
  foreign,     \* labels last put on by somebody who may not, and not taken off since
  slipped,     \* gates that a reply or a chain was let through by a label of these
  acts, faults, errors

history == <<approved, waived, opened, begun, overlooked, foreign, slipped>>
vars == <<labels, doc, inbox, thread, history, acts, faults, errors>>

Gates == {"spec", "design"}
Ready    == [spec |-> "spec-ready",    design |-> "design-ready"]
Approved == [spec |-> "spec-approved", design |-> "design-approved"]
Stage    == [spec |-> "planner",       design |-> "dispatch"]

States == {"intake", "spec-ready", "spec-approved", "planned", "design-ready", "design-approved"}
Labels == States \cup {"blocked", "expedite", "in-progress"}
Roles  == {"intake", "planner", "testplanner", "architect", "dispatch"}

(* The states a role starts from and leaves the epic in, as its prompt has *)
(* it; the Test Planner and the Dispatcher write elsewhere.                *)
From == [intake |-> "intake", planner |-> "spec-approved", testplanner |-> "planned",
         architect |-> "planned", dispatch |-> "design-approved"]
To   == [From EXCEPT !["intake"] = "spec-ready", !["planner"] = "planned",
                     !["architect"] = "design-ready"]
Writes == [r \in Roles |-> CASE r = "intake"  -> {"spec"}
                             [] r = "planner" -> {"design"}
                             [] OTHER         -> {}]

(* "member" stands for everybody who may comment and is not listed.        *)
Persons == {"lead", "member"}

(* kind: opened, or a comment, or a label put on by somebody or the App.   *)
Delivery ==
  [kind : {"opened", "reply", "approved", "spec-approved", "design-approved", "expedite"},
   by : Persons \cup {"app"}, labels : SUBSET Labels]

Idle == [at |-> "idle", gate |-> "spec", role |-> "intake", round |-> 0, seen |-> FALSE,
         status |-> "success"]

TypeOK ==
  /\ labels \subseteq Labels
  /\ doc \in [Gates -> {"none", "open", "merged"}]
  /\ inbox \in Seq(Delivery)
  /\ thread \in [at : {"idle", "merging", "dropping", "adding", "fan", "working", "clearing",
                       "chain"},
                 gate : Gates, role : Roles, round : Nat, seen : BOOLEAN,
                 status : {"success", "other"}]
  /\ approved \subseteq Gates /\ opened \subseteq Gates /\ begun \subseteq Roles
  /\ waived \in BOOLEAN /\ overlooked \in BOOLEAN
  /\ foreign \subseteq Labels /\ slipped \subseteq Gates
  /\ {acts, faults, errors} \subseteq Nat

(* Filed, let in, and not analysed yet.                                    *)
Init ==
  /\ labels = {"intake"}
  /\ doc = [g \in Gates |-> "none"]
  /\ inbox = <<[kind |-> "opened", by |-> "member", labels |-> {}]>>
  /\ thread = Idle
  /\ approved = {} /\ opened = {} /\ begun = {}
  /\ waived = FALSE /\ overlooked = FALSE
  /\ foreign = {} /\ slipped = {}
  /\ acts = 0 /\ faults = 0 /\ errors = 0
-----------------------------------------------------------------------------
(***************************************************************************)
(* People.                                                                 *)
(***************************************************************************)
Authorized(who) == Listed => who = "lead"

Acts == acts < MaxActs /\ Len(inbox) < MaxInbox /\ acts' = acts + 1

Event(kind, who, ls) == inbox' = Append(inbox, [kind |-> kind, by |-> who, labels |-> ls])

(* Which gate an Approved comment is taken to be about.                    *)
GatesAt(ls) == IF "spec-ready" \in ls THEN {"spec"}
               ELSE IF "design-ready" \in ls THEN {"design"} ELSE {}

(* Others than these start nothing, and whose reply it is does not matter. *)
HasEffect(who, kind) ==
  IF kind = "approved" THEN GatesAt(labels) # {} ELSE "blocked" \in labels /\ who = "member"

(* The labels on the epic that an event still to come takes off again.     *)
Unreverted == labels \cap foreign

PutOnBy(who, l) == foreign' = IF Authorized(who) THEN foreign \ {l} ELSE foreign \cup {l}

(* A reply carries the labels of its moment, whatever becomes of them.     *)
Comment(who, kind) ==
  /\ HasEffect(who, kind)
  /\ Acts /\ Event(kind, who, labels)
  /\ approved' = approved \cup
       (IF kind = "approved" /\ Authorized(who) THEN GatesAt(labels) ELSE {})
  /\ slipped' = slipped \cup {g \in Gates : kind = "reply" /\ Approved[g] \in Unreverted}
  /\ UNCHANGED <<labels, doc, thread, waived, opened, begun, overlooked, foreign, faults, errors>>

(* A person merges the document and applies the approved label.            *)
ApproveByHand(who, g, tidy) ==
  /\ Ready[g] \in labels /\ Approved[g] \notin labels
  /\ labels' = (labels \cup {Approved[g]}) \ (IF tidy THEN {Ready[g]} ELSE {})
  /\ Acts /\ Event(Approved[g], who, labels')
  /\ doc' = [doc EXCEPT ![g] = "merged"]
  /\ approved' = approved \cup (IF Authorized(who) THEN {g} ELSE {})
  /\ opened' = opened \cup (IF Authorized(who) THEN {g} ELSE {})
  /\ PutOnBy(who, Approved[g])
  /\ UNCHANGED <<thread, waived, begun, overlooked, slipped, faults, errors>>

(* A gate that is being opened, or about to be, is not called back.        *)
UnderWay ==
  \/ thread.at \in {"merging", "dropping", "adding"}
  \/ \E i \in DOMAIN inbox : inbox[i].kind = "expedite" /\ Authorized(inbox[i].by)

PutExpedite(who) ==
  /\ "expedite" \notin labels
  /\ labels' = labels \cup {"expedite"}
  /\ Acts /\ Event("expedite", who, labels')
  /\ waived' = (Authorized(who) \/ (waived /\ UnderWay))
  /\ PutOnBy(who, "expedite")
  /\ UNCHANGED <<doc, thread, approved, opened, begun, overlooked, slipped, faults, errors>>

TakeExpedite ==
  /\ "expedite" \in labels
  /\ acts < MaxActs /\ acts' = acts + 1
  /\ labels' = labels \ {"expedite"}
  /\ waived' = (waived /\ UnderWay)
  /\ foreign' = foreign \ {"expedite"}
  /\ UNCHANGED <<doc, inbox, thread, approved, opened, begun, overlooked, slipped, faults, errors>>
-----------------------------------------------------------------------------
(***************************************************************************)
(* Routing a delivery.                                                     *)
(***************************************************************************)
Current == Head(inbox)

Goes(at) == thread' = [thread EXCEPT !.at = at]

Begins(r) == thread' = [Idle EXCEPT !.at = "fan", !.role = r]

Opens(g) == thread' = [Idle EXCEPT !.at = "merging", !.gate = g]

EndOfInvocation == thread' = Idle /\ inbox' = Tail(inbox)

(* The stage that halted, by the first of the epic's states that names     *)
(* one, or intake where there is no state at all.                          *)
Resumed(ls) ==
  IF "intake" \in ls THEN {"intake"}
  ELSE IF "spec-approved" \in ls THEN {"planner"}
  ELSE IF "planned" \in ls THEN {"architect"}
  ELSE IF "design-approved" \in ls THEN {"dispatch"}
  ELSE IF ls \subseteq {"blocked", "in-progress"} THEN {"intake"} ELSE {}

RouteComment ==
  LET d == Current
      gates == IF d.kind = "approved" THEN GatesAt(d.labels) ELSE {}
      roles == IF "blocked" \in d.labels THEN Resumed(d.labels) ELSE {}
  IN /\ thread = Idle /\ inbox # <<>> /\ d.kind \in {"approved", "reply"}
     /\ \/ /\ \E g \in gates : Authorized(d.by) /\ Opens(g)
           /\ UNCHANGED <<labels, inbox>>
        \/ /\ gates # {} /\ ~Authorized(d.by)
           /\ EndOfInvocation /\ UNCHANGED labels
        \/ /\ gates = {} /\ \E r \in roles : Begins(r)
           /\ labels' = labels \ {"blocked"} /\ UNCHANGED inbox
        \/ /\ gates = {} /\ roles = {}
           /\ EndOfInvocation /\ UNCHANGED labels
     /\ UNCHANGED <<doc, history, acts, faults, errors>>

(* A plausible slip: the marker counts as a state.                         *)
SoleCountingMarks(ls) == ls \ {"blocked", "in-progress"}

SoleStates(ls) == ls \ {"blocked", "in-progress", "expedite"}

(* What an expedited epic with these labels does on its own.               *)
ExpeditedGates(ls) ==
  IF ls \cap {"blocked", "in-progress"} # {} THEN {}
  ELSE {g \in Gates : SoleStates(ls) = {Ready[g]}}

(* A plausible slip: the marker is not among the labels that are judged.   *)
RevertedApprovals(d) == Listed /\ d.by \notin {"lead", "app"} /\ d.kind # "expedite"

(* The App's own writes and those of the people listed stand.              *)
Reverted(d) == Listed /\ d.by \notin {"lead", "app"}

(* An expedited epic waits at a gate, neither blocked nor at work.         *)
Waits(g) == labels = {"expedite", Ready[g]}

(* A label that is taken off is all that a revert looks at.                *)
RouteLabel ==
  LET d == Current
      roles == {Stage[g] : g \in {h \in Gates : Approved[h] = d.kind}}
      gates == IF d.kind = "expedite" THEN ExpeditedGates(d.labels) ELSE {}
  IN /\ thread = Idle /\ inbox # <<>> /\ d.kind \notin {"opened", "approved", "reply"}
     /\ \/ /\ Reverted(d)
           /\ labels' = labels \ {d.kind} /\ EndOfInvocation
           /\ foreign' = foreign \ {d.kind}
           /\ overlooked' = (overlooked \/ \E g \in Gates : Waits(g)')
        \/ /\ ~Reverted(d) /\ \E r \in roles : Begins(r)
           /\ UNCHANGED <<labels, inbox, foreign, overlooked>>
        \/ /\ ~Reverted(d) /\ \E g \in gates : Opens(g)
           /\ UNCHANGED <<labels, inbox, foreign, overlooked>>
        \/ /\ ~Reverted(d) /\ roles = {} /\ gates = {}
           /\ EndOfInvocation /\ UNCHANGED <<labels, foreign, overlooked>>
     /\ UNCHANGED <<doc, approved, waived, opened, begun, slipped, acts, faults, errors>>

RouteOpened ==
  /\ thread = Idle /\ inbox # <<>> /\ Current.kind = "opened"
  /\ Begins("intake")
  /\ UNCHANGED <<labels, doc, inbox, history, acts, faults, errors>>
-----------------------------------------------------------------------------
(***************************************************************************)
(* approve_gate, from a route or from the chain.                           *)
(***************************************************************************)
Fault == faults < MaxFaults /\ faults' = faults + 1
Errs == Fault /\ errors' = errors + 1

(* A plausible slip: no open PR is taken for a document that is missing.   *)
MergeableIfOpen(g) == doc[g] = "open"

(* No open PR is taken for one that is merged already.                     *)
Mergeable(g) == TRUE

MergeDocument ==
  /\ thread.at = "merging"
  /\ \/ /\ Mergeable(thread.gate)
        /\ doc' = [doc EXCEPT ![thread.gate] = IF @ = "open" THEN "merged" ELSE @]
        /\ Goes("dropping") /\ UNCHANGED inbox
     \/ /\ ~Mergeable(thread.gate)
        /\ EndOfInvocation /\ UNCHANGED doc
  /\ UNCHANGED <<labels, history, acts, faults, errors>>

(* The person is asked to finish it; the epic keeps its ready label.       *)
MergeFails ==
  /\ thread.at = "merging" /\ doc[thread.gate] = "open" /\ Errs
  /\ EndOfInvocation
  /\ UNCHANGED <<labels, doc, history, acts>>

DropReady ==
  /\ thread.at = "dropping"
  /\ labels' = labels \ {Ready[thread.gate]}
  /\ Goes("adding")
  /\ UNCHANGED <<doc, inbox, history, acts, faults, errors>>

(* The flip comes back as an event of its own.                             *)
AddApproved ==
  LET g == thread.gate
      flipped == labels \cup {Approved[g]}
  IN /\ thread.at = "adding"
     /\ labels' = flipped
     /\ inbox' = IF Approved[g] \in labels THEN inbox
                 ELSE Append(inbox, [kind |-> Approved[g], by |-> "app", labels |-> flipped])
     /\ opened' = opened \cup (IF g \in approved \/ waived THEN {g} ELSE {})
     /\ thread' = [thread EXCEPT !.at = "fan", !.role = Stage[g]]
     /\ UNCHANGED <<doc, approved, waived, begun, overlooked, foreign, slipped, acts, faults,
                    errors>>

CallRaises ==
  /\ thread.at \in {"dropping", "adding", "chain"} /\ Errs
  /\ EndOfInvocation
  /\ UNCHANGED <<labels, doc, history, acts>>
-----------------------------------------------------------------------------
(***************************************************************************)
(* A run and its chain.                                                    *)
(***************************************************************************)
MAX_ROUNDS == 4
EXPEDITE_MAX_ROUNDS == 32

Cap(seen) == IF seen THEN EXPEDITE_MAX_ROUNDS ELSE MAX_ROUNDS

StartRole ==
  /\ thread.at = "fan"
  /\ \/ /\ thread.round < Cap(thread.seen)
        /\ begun' = begun \cup {thread.role}
        /\ labels' = labels \cup {"in-progress"}
        /\ Goes("working") /\ UNCHANGED inbox
     \/ /\ thread.round >= Cap(thread.seen)
        /\ EndOfInvocation /\ UNCHANGED <<labels, begun>>
  /\ UNCHANGED <<doc, approved, waived, opened, overlooked, foreign, slipped, acts, faults,
                 errors>>

Ends(status) == thread' = [thread EXCEPT !.at = "clearing", !.status = status]

Flipped(r) == (labels \ {From[r]}) \cup {To[r]}

Documents(r) == [g \in Gates |-> IF g \in Writes[r] THEN "open" ELSE doc[g]]

(* A run that is started where its stage is not may do its work again.     *)
Finishes ==
  /\ thread.at = "working"
  /\ From[thread.role] \in labels \/ From[thread.role] # To[thread.role]
  /\ labels' = Flipped(thread.role)
  /\ doc' = Documents(thread.role)
  /\ Ends("success")
  /\ UNCHANGED <<inbox, history, acts, faults, errors>>

(* Or see that there is nothing to do.                                     *)
StandsDown ==
  /\ thread.at = "working" /\ From[thread.role] \notin labels
  /\ Ends("other")
  /\ UNCHANGED <<labels, doc, inbox, history, acts, faults, errors>>

AsksPeople ==
  /\ thread.at = "working"
  /\ labels' = labels \cup {"blocked"}
  /\ Ends("success")
  /\ UNCHANGED <<doc, inbox, history, acts, faults, errors>>

(* Before or after its work was visible.                                   *)
RunFails ==
  /\ thread.at = "working" /\ Errs
  /\ \/ UNCHANGED <<labels, doc>>
     \/ /\ labels' = Flipped(thread.role) /\ doc' = Documents(thread.role)
  /\ Ends("other")
  /\ UNCHANGED <<inbox, history, acts>>

ClearInProgress ==
  /\ thread.at = "clearing"
  /\ labels' = labels \ {"in-progress"}
  /\ Goes("chain")
  /\ UNCHANGED <<doc, inbox, history, acts, faults, errors>>

(* The follow-up of the two planners, where the epic is at planned.        *)
AfterPlanning(r) == IF r = "planner" /\ SystemTests THEN "testplanner" ELSE "architect"

Planners == {"planner", "testplanner"}

ChainFollows ==
  LET next == [thread EXCEPT !.round = @ + 1]
  IN /\ thread.at = "chain" /\ thread.status = "success"
     /\ \/ /\ thread.role \in Planners /\ "planned" \in labels
           /\ thread' = [next EXCEPT !.at = "fan", !.role = AfterPlanning(thread.role)]
           /\ UNCHANGED slipped
        \/ /\ thread.role \notin Planners /\ "expedite" \in labels
           /\ \E g \in ExpeditedGates(labels) :
                /\ thread' = [next EXCEPT !.at = "merging", !.gate = g, !.seen = TRUE]
                /\ slipped' = slipped \cup {h \in {g} : "expedite" \in Unreverted}
     /\ UNCHANGED <<labels, doc, inbox, approved, waived, opened, begun, overlooked, foreign, acts,
                    faults, errors>>

ChainEnds ==
  /\ thread.at = "chain"
  /\ \/ /\ thread.status = "success" /\ thread.role \notin Planners
        /\ "expedite" \notin labels \/ ExpeditedGates(labels) = {}
        /\ UNCHANGED overlooked
     \/ /\ thread.status # "success" \/ (thread.role \in Planners /\ "planned" \notin labels)
        /\ overlooked' = (overlooked \/ \E g \in Gates : Waits(g))
  /\ EndOfInvocation
  /\ UNCHANGED <<labels, doc, approved, waived, opened, begun, foreign, slipped, acts, faults,
                 errors>>

(* A stop and a start: the delivery is routed again, by the labels it came *)
(* with, and the marker of the run it was at is taken off.                 *)
Restart ==
  /\ thread # Idle /\ Fault
  /\ thread' = Idle
  /\ labels' = labels \ (IF thread.at \in {"working", "clearing"} THEN {"in-progress"} ELSE {})
  /\ UNCHANGED <<doc, inbox, history, acts, errors>>
-----------------------------------------------------------------------------
People ==
  \/ \E who \in Persons, kind \in {"approved", "reply"} : Comment(who, kind)
  \/ \E who \in Labellers, g \in Gates, tidy \in Tidy : ApproveByHand(who, g, tidy)
  \/ \E who \in Labellers : PutExpedite(who)
  \/ TakeExpedite

Engine ==
  \/ RouteOpened \/ RouteComment \/ RouteLabel
  \/ MergeDocument \/ DropReady \/ AddApproved
  \/ StartRole \/ Finishes \/ StandsDown \/ AsksPeople
  \/ ClearInProgress \/ ChainFollows \/ ChainEnds

Next == People \/ Engine \/ MergeFails \/ CallRaises \/ RunFails \/ Restart

Spec == Init /\ [][Next]_vars

(* The worker and the agents go on; nothing is assumed of people.          *)
FairSpec == Spec /\ WF_vars(Engine)
-----------------------------------------------------------------------------
(***************************************************************************)
(* Properties.                                                             *)
(***************************************************************************)

(* No planner before G1 and no Dispatcher before G2: whichever comments    *)
(* were refused, echoed, written twice or replayed after a stop, whatever  *)
(* a blocked stage was resumed by, and whoever put a label on, somebody    *)
(* who may had approved that gate, or had put on an expedite that was not  *)
(* taken off again before it opened (approve_gate and its callers, and the *)
(* reverts).  Except where the label of somebody who may not was read      *)
(* between its being put on and its event: by a reply, or by a chain.      *)
NoStageBeforeItsGate ==
  /\ "planner" \in begun => "spec" \in opened \cup slipped
  /\ "dispatch" \in begun => "design" \in opened \cup slipped

(* An approval somebody gave is acted on, although it waited behind a run, *)
(* and although the process stopped anywhere between the merge, the two    *)
(* labels and the run (approve_gate).                                      *)
Given(g) ==
  \E i \in DOMAIN inbox : /\ inbox[i].kind = "approved" /\ Authorized(inbox[i].by)
                          /\ g \in GatesAt(inbox[i].labels)

ApprovalIsActedOn == \A g \in Gates : Given(g) ~> (Stage[g] \in begun \/ errors > 0)

(* No expedited epic stays at gate G1 or G2: either the event of the label *)
(* or the chain of the run it was put on under opens the gate, whichever   *)
(* order the two came in, unless that run failed or had not led there      *)
(* (expedite_now, chain_node).                                             *)
ExpeditedAdvances ==
  \A g \in Gates : Waits(g) ~> (~Waits(g) \/ overlooked \/ errors > 0)
-----------------------------------------------------------------------------
(***************************************************************************)
(* What the documents say and the code does not do.                        *)
(***************************************************************************)

(* "State labels are mutually exclusive; exactly one factory:* state label *)
(* per issue" (FACTORY.md, section 3): the flip the engine made comes back *)
(* and runs the planner once more, on an epic that has moved on.           *)
OneState ==
  (thread = Idle /\ errors = 0 /\ "blocked" \notin labels) =>
    \E s \in States : SoleStates(labels) = {s}

(* "Applying it is authorised against the expedite approvers, because      *)
(* applying it is the G1 and G2 approval" (FACTORY.md, section 4a): the    *)
(* chain of a run reads the label before the event that takes it off.      *)
OnlyApproversOpen == \A g \in Gates : Stage[g] \in begun => g \in opened

(* "The map is read the same way whether a state was just reached by a     *)
(* role finishing or was already there when the marker was applied": not   *)
(* when it was applied while a run was live that had not led there.        *)
MarkerIsNeverOverlooked == \A g \in Gates : Waits(g) ~> (~Waits(g) \/ errors > 0)
=============================================================================
