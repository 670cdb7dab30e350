-------------------------- MODULE EpicGatesProofs --------------------------
(***************************************************************************)
(* Proofs about EpicGates, for any number of acts, failures and stops.     *)
(***************************************************************************)
EXTENDS EpicGates, TLAPS

(***************************************************************************)
(* The inductive invariant.                                                *)
(***************************************************************************)

(* A gate that is being opened has been approved, or waived by expedite,   *)
(* or a chain read an expedite that is taken off again.                    *)
OpeningIsApproved ==
  thread.at \in {"merging", "dropping", "adding"} => thread.gate \in approved \cup slipped \/ waived

Through == opened \cup slipped

(* What the epic says of its gates is so, or was put on by somebody who    *)
(* may not: its marker, its approved labels.  The stages that are on or    *)
(* have been on were let through.                                          *)
EpicIsTrue ==
  /\ "expedite" \in labels => waived \/ "expedite" \in foreign
  /\ \A g \in Gates : Approved[g] \in labels => g \in Through \/ Approved[g] \in foreign
  /\ \A g \in Gates : thread.role = Stage[g] \/ Stage[g] \in begun => g \in Through

(* A delivery will be judged by its payload alone, however long it waits:  *)
(* whatever that lets it do has been approved, or slipped through.         *)
Backed(d, given, waiver, through) ==
  /\ d.kind = "approved" => GatesAt(d.labels) # {}
  /\ d.kind = "approved" /\ Authorized(d.by) => GatesAt(d.labels) \subseteq given
  /\ d.kind = "expedite" => d.by # "app" /\ (Authorized(d.by) => waiver)
  /\ \A g \in Gates : d.kind = Approved[g] /\ ~Reverted(d) => g \in through
  /\ \A g \in Gates : d.kind = "reply" /\ Approved[g] \in d.labels => g \in through

InboxIsBacked == \A i \in DOMAIN inbox : Backed(inbox[i], approved, waived, Through)

(* The delivery at work is the oldest.                                     *)
WorkIsWaiting == thread.at # "idle" => inbox # <<>>

Typed == TypeOK /\ WorkIsWaiting

GateInv == OpeningIsApproved /\ EpicIsTrue /\ InboxIsBacked

-----------------------------------------------------------------------------
(***************************************************************************)
(* Types.                                                                  *)
(***************************************************************************)
LEMMA Names ==
  /\ Gates = {"spec", "design"}
  /\ \A g \in Gates : Ready[g] \in Labels /\ Approved[g] \in Labels /\ Stage[g] \in Roles
  /\ \A g \in Gates : Approved[g] \in {"spec-approved", "design-approved"}
  /\ \A r \in Roles : From[r] \in Labels /\ To[r] \in Labels
  BY DEF Gates, Ready, Approved, Stage, Labels, States, Roles, From, To

Threads ==
  [at : {"idle", "merging", "dropping", "adding", "fan", "working", "clearing", "chain"},
   gate : Gates, role : Roles, round : Nat, seen : BOOLEAN,
   status : {"success", "other"}]

(* Routed deliveries start from here.                                      *)
LEMMA IdleTyped ==
  /\ Idle.at = "idle" /\ Idle.role = "intake" /\ Idle.gate = "spec"
  /\ Idle \in Threads
  BY DEF Idle, Threads, Gates, Roles

LEMMA InitTyped == Init => Typed
<1> SUFFICES ASSUME Init PROVE Typed
  OBVIOUS
<1>1. [kind |-> "opened", by |-> "member", labels |-> {}] \in Delivery
  BY DEF Delivery, Persons
<1>2. inbox \in Seq(Delivery)
  BY <1>1 DEF Init
<1>3. labels \subseteq Labels
  BY DEF Init, Labels, States
<1>. QED
  <2>1. thread \in Threads
    BY IdleTyped DEF Init
  <2>2. WorkIsWaiting /\ doc \in [Gates -> {"none", "open", "merged"}]
    BY IdleTyped DEF Init, WorkIsWaiting
  <2>3. /\ approved \subseteq Gates /\ opened \subseteq Gates /\ begun \subseteq Roles
        /\ waived \in BOOLEAN /\ overlooked \in BOOLEAN
        /\ foreign \subseteq Labels /\ slipped \subseteq Gates
    BY DEF Init
  <2>4. {acts, faults, errors} \subseteq Nat
    BY DEF Init
  <2>. QED
    BY <1>2, <1>3, <2>1, <2>2, <2>3, <2>4 DEF Typed, TypeOK, Threads

LEMMA PeopleTyped == Typed /\ People => Typed'
<1> SUFFICES ASSUME Typed, People PROVE Typed'
  OBVIOUS
<1>1. CASE \E who \in Persons, kind \in {"approved", "reply"} : Comment(who, kind)
  <2> PICK who \in Persons, kind \in {"approved", "reply"} : Comment(who, kind)
    BY <1>1
  <2>1. [kind |-> kind, by |-> who, labels |-> labels] \in Delivery
    BY DEF Typed, WorkIsWaiting, TypeOK, Delivery
  <2>2. GatesAt(labels) \subseteq Gates
    BY DEF GatesAt, Gates
  <2>. QED
    BY <2>1, <2>2 DEF Typed, WorkIsWaiting, TypeOK, Comment, Acts, Event
<1>2. CASE \E who \in Labellers, g \in Gates, tidy \in Tidy : ApproveByHand(who, g, tidy)
  <2> PICK who \in Labellers, g \in Gates, tidy \in Tidy : ApproveByHand(who, g, tidy)
    BY <1>2
  <2>1. labels' \subseteq Labels
    BY Names DEF Typed, WorkIsWaiting, TypeOK, ApproveByHand
  <2>2. Approved[g] \in {"spec-approved", "design-approved"} /\ who \in Persons
    BY Names, EpicGatesAssumption DEF EpicGatesAssumption, Persons
  <2>3. [kind |-> Approved[g], by |-> who, labels |-> labels'] \in Delivery
    BY <2>1, <2>2 DEF Delivery
  <2>4. inbox' \in Seq(Delivery)
    BY <2>3 DEF Typed, WorkIsWaiting, TypeOK, ApproveByHand, Event
  <2>5. doc' \in [Gates -> {"none", "open", "merged"}]
    BY DEF Typed, TypeOK, ApproveByHand
  <2>6. WorkIsWaiting'
    BY DEF Typed, WorkIsWaiting, TypeOK, ApproveByHand, Event
  <2>7. foreign' \subseteq Labels
    BY Names DEF Typed, TypeOK, ApproveByHand, PutOnBy
  <2>. QED
    BY <2>1, <2>4, <2>5, <2>6, <2>7 DEF Typed, TypeOK, ApproveByHand, Acts
<1>3. CASE \E who \in Labellers : PutExpedite(who)
  <2> PICK who \in Labellers : PutExpedite(who)
    BY <1>3
  <2>1. labels' \subseteq Labels
    BY DEF Typed, WorkIsWaiting, TypeOK, PutExpedite, Labels
  <2>2. who \in Persons
    BY EpicGatesAssumption DEF EpicGatesAssumption, Persons
  <2>3. [kind |-> "expedite", by |-> who, labels |-> labels'] \in Delivery
    BY <2>1, <2>2 DEF Delivery
  <2>4. Authorized(who) \in BOOLEAN
    BY EpicGatesAssumption DEF EpicGatesAssumption, Authorized
  <2>5. foreign' \subseteq Labels
    BY <2>1 DEF Typed, TypeOK, PutExpedite, PutOnBy, Labels
  <2>6. waived' \in BOOLEAN
    BY <2>4 DEF PutExpedite
  <2>. QED
    BY <2>1, <2>3, <2>5, <2>6 DEF Typed, WorkIsWaiting, TypeOK, PutExpedite, Acts, Event
<1>4. CASE TakeExpedite
  <2>1. waived' \in BOOLEAN
    BY <1>4 DEF Typed, WorkIsWaiting, TypeOK, TakeExpedite
  <2>. QED
    BY <1>4, <2>1 DEF Typed, WorkIsWaiting, TypeOK, TakeExpedite
<1>. QED
  BY <1>1, <1>2, <1>3, <1>4 DEF People

LEMMA RouteTyped == Typed /\ (RouteOpened \/ RouteComment \/ RouteLabel) => Typed'
<1> SUFFICES ASSUME Typed, RouteOpened \/ RouteComment \/ RouteLabel PROVE Typed'
  OBVIOUS
<1>1. /\ inbox # <<>> => Tail(inbox) \in Seq(Delivery)
      /\ \A ls \in SUBSET Labels : labels \ ls \subseteq Labels
  BY DEF Typed, WorkIsWaiting, TypeOK
<1>2. CASE RouteOpened
  <2>1. thread' = [Idle EXCEPT !.at = "fan", !.role = "intake"] /\ "intake" \in Roles
    BY <1>2 DEF RouteOpened, Begins, Roles
  <2>2. inbox' # <<>> /\ UNCHANGED <<labels, doc, inbox, history, acts, faults, errors>>
    BY <1>2 DEF RouteOpened
  <2>. QED
    BY <2>1, <2>2, IdleTyped DEF Typed, WorkIsWaiting, TypeOK, Threads, history
<1>3. CASE RouteComment
  <2>1. /\ GatesAt(Current.labels) \subseteq Gates
        /\ Resumed(Current.labels) \subseteq Roles
    BY DEF GatesAt, Resumed, Gates, Roles
  <2>2. CASE \E g \in Gates : Opens(g) /\ UNCHANGED <<labels, inbox>>
    BY <1>3, <2>2, IdleTyped DEF Typed, WorkIsWaiting, TypeOK, RouteComment, Opens, history
  <2>3. CASE \E r \in Roles : Begins(r) /\ labels' = labels \ {"blocked"} /\ UNCHANGED inbox
    BY <1>1, <1>3, <2>3, IdleTyped DEF Typed, WorkIsWaiting, TypeOK, RouteComment, Begins, history
  <2>4. CASE EndOfInvocation /\ UNCHANGED labels
    BY <1>1, <1>3, <2>4, IdleTyped DEF Typed, WorkIsWaiting, TypeOK, RouteComment,
      EndOfInvocation, history
  <2>. QED
    BY <1>3, <2>1, <2>2, <2>3, <2>4 DEF RouteComment
<1>4. CASE RouteLabel
  <2>1. CASE labels' = labels \ {Current.kind} /\ EndOfInvocation
    BY <1>1, <1>4, <2>1, IdleTyped DEF Typed, WorkIsWaiting, TypeOK, RouteLabel, EndOfInvocation,
      history
  <2>2. CASE \E r \in Roles : Begins(r) /\ UNCHANGED <<labels, inbox>>
    BY <1>4, <2>2, IdleTyped DEF Typed, WorkIsWaiting, TypeOK, RouteLabel, Begins, history
  <2>3. CASE \E g \in Gates : Opens(g) /\ UNCHANGED <<labels, inbox>>
    BY <1>4, <2>3, IdleTyped DEF Typed, WorkIsWaiting, TypeOK, RouteLabel, Opens, history
  <2>4. CASE EndOfInvocation /\ UNCHANGED labels
    BY <1>1, <1>4, <2>4, IdleTyped DEF Typed, WorkIsWaiting, TypeOK, RouteLabel, EndOfInvocation,
      history
  <2>5. /\ {Stage[g] : g \in {h \in Gates : Approved[h] = Current.kind}} \subseteq Roles
        /\ ExpeditedGates(Current.labels) \subseteq Gates
    BY Names DEF ExpeditedGates
  <2>. QED
    BY <1>4, <2>1, <2>2, <2>3, <2>4, <2>5 DEF RouteLabel
<1>. QED
  BY <1>2, <1>3, <1>4

LEMMA StepTyped == Typed /\ [Next]_vars => Typed'
<1> SUFFICES ASSUME Typed, [Next]_vars PROVE Typed'
  OBVIOUS
<1>1. inbox # <<>> => Tail(inbox) \in Seq(Delivery)
  BY DEF Typed, TypeOK
<1>2. ASSUME EndOfInvocation, inbox # <<>>,
             UNCHANGED <<approved, waived, opened, begun, foreign, slipped>>,
             labels' \subseteq Labels,
             doc' \in [Gates -> {"none", "open", "merged"}], overlooked' \in BOOLEAN,
             {acts, faults, errors}' \subseteq Nat
      PROVE  Typed'
  BY <1>1, <1>2, IdleTyped DEF Typed, TypeOK, Threads, WorkIsWaiting, EndOfInvocation
<1>3. CASE MergeDocument
  <2>1. CASE EndOfInvocation /\ UNCHANGED doc
    BY <1>2, <1>3, <2>1 DEF MergeDocument, Typed, TypeOK, WorkIsWaiting, history
  <2>2. CASE Goes("dropping") /\ UNCHANGED inbox
    BY <1>3, <2>2 DEF MergeDocument, Typed, TypeOK, WorkIsWaiting, Goes, history
  <2>. QED
    BY <1>3, <2>1, <2>2 DEF MergeDocument
<1>4. CASE MergeFails \/ CallRaises
  BY <1>2, <1>4 DEF MergeFails, CallRaises, Errs, Fault, Typed, TypeOK, WorkIsWaiting, history
<1>5. CASE DropReady
  BY <1>5 DEF DropReady, Goes, Typed, TypeOK, WorkIsWaiting, history
<1>6. CASE AddApproved
  <2>1. thread.gate \in Gates /\ labels' \subseteq Labels
    BY <1>6, Names DEF AddApproved, Typed, TypeOK
  <2>2. /\ Approved[thread.gate] \in {"spec-approved", "design-approved"}
        /\ Stage[thread.gate] \in Roles
    BY <2>1, Names
  <2>3. [kind |-> Approved[thread.gate], by |-> "app", labels |-> labels'] \in Delivery
    BY <2>1, <2>2 DEF Delivery
  <2>4. inbox' \in Seq(Delivery) /\ (inbox # <<>> => inbox' # <<>>)
    BY <1>6, <2>3 DEF AddApproved, Typed, TypeOK
  <2>. QED
    BY <1>6, <2>1, <2>2, <2>4 DEF AddApproved, Typed, TypeOK, WorkIsWaiting
<1>7. CASE StartRole
  <2>1. CASE EndOfInvocation /\ UNCHANGED <<labels, begun>>
    BY <1>2, <1>7, <2>1 DEF StartRole, Typed, TypeOK, WorkIsWaiting
  <2>2. CASE /\ Goes("working") /\ UNCHANGED inbox
             /\ begun' = begun \cup {thread.role} /\ labels' = labels \cup {"in-progress"}
    BY <1>7, <2>2 DEF StartRole, Typed, TypeOK, WorkIsWaiting, Goes, Labels
  <2>. QED
    BY <1>7, <2>1, <2>2 DEF StartRole
<1>8. CASE Finishes \/ StandsDown \/ AsksPeople \/ RunFails
  <2>1. thread.role \in Roles
    BY DEF Typed, TypeOK
  <2>2. Flipped(thread.role) \subseteq Labels /\ labels \cup {"blocked"} \subseteq Labels
    BY <2>1, Names DEF Typed, TypeOK, Flipped, Labels
  <2>3. Documents(thread.role) \in [Gates -> {"none", "open", "merged"}]
    BY DEF Documents, Typed, TypeOK
  <2>4. CASE Finishes
    BY <2>2, <2>3, <2>4 DEF Finishes, Ends, Typed, TypeOK, WorkIsWaiting, history
  <2>5. CASE StandsDown
    BY <2>5 DEF StandsDown, Ends, Typed, TypeOK, WorkIsWaiting, history
  <2>6. CASE AsksPeople
    BY <2>2, <2>6 DEF AsksPeople, Ends, Typed, TypeOK, WorkIsWaiting, history
  <2>7. CASE RunFails
    <3>1. labels' \subseteq Labels /\ doc' \in [Gates -> {"none", "open", "merged"}]
      BY <2>2, <2>3, <2>7 DEF RunFails, Typed, TypeOK
    <3>2. /\ thread' = [thread EXCEPT !.at = "clearing", !.status = "other"]
          /\ UNCHANGED <<inbox, history, acts>>
          /\ faults' = faults + 1 /\ errors' = errors + 1
      BY <2>7 DEF RunFails, Ends, Errs, Fault
    <3>3. WorkIsWaiting'
      BY <2>7, <3>2 DEF RunFails, Typed, WorkIsWaiting
    <3>4. thread' \in Threads
      BY <3>2 DEF Typed, TypeOK, Threads
    <3>. QED
      BY <3>1, <3>2, <3>3, <3>4 DEF Typed, TypeOK, Threads, history
  <2>. QED
    BY <1>8, <2>4, <2>5, <2>6, <2>7
<1>9. CASE ClearInProgress
  BY <1>9 DEF ClearInProgress, Goes, Typed, TypeOK, WorkIsWaiting, history
<1>10. CASE ChainFollows
  <2>0. slipped' \subseteq Gates
    <3>1. ExpeditedGates(labels) \subseteq Gates
      BY DEF ExpeditedGates
    <3>. QED
      <4>1. slipped \subseteq Gates
        BY DEF Typed, TypeOK
      <4>2. slipped' = slipped \/ \E g \in Gates : slipped' \subseteq slipped \cup {g}
        BY <1>10, <3>1 DEF ChainFollows
      <4>. QED
        BY <4>1, <4>2
  <2>1. AfterPlanning(thread.role) \in Roles /\ ExpeditedGates(labels) \subseteq Gates
    BY DEF AfterPlanning, Roles, ExpeditedGates
  <2>2. thread.round + 1 \in Nat
    BY DEF Typed, TypeOK
  <2>3. CASE thread' = [[thread EXCEPT !.round = @ + 1]
                          EXCEPT !.at = "fan", !.role = AfterPlanning(thread.role)]
    BY <1>10, <2>0, <2>1, <2>2, <2>3 DEF ChainFollows, Typed, TypeOK, WorkIsWaiting
  <2>4. CASE \E g \in Gates : thread' = [[thread EXCEPT !.round = @ + 1]
                                      EXCEPT !.at = "merging", !.gate = g, !.seen = TRUE]
    <3>1. /\ inbox # <<>>
          /\ UNCHANGED <<labels, doc, inbox, approved, waived, opened, begun, overlooked, foreign,
                         acts, faults, errors>>
      BY <1>10 DEF ChainFollows, Typed, WorkIsWaiting
    <3>2. thread' \in Threads
      BY <2>2, <2>4 DEF Typed, TypeOK, Threads
    <3>. QED
      BY <2>0, <3>1, <3>2 DEF Typed, TypeOK, Threads, WorkIsWaiting
  <2>. QED
    BY <1>10, <2>1, <2>3, <2>4 DEF ChainFollows
<1>11. CASE ChainEnds
  BY <1>2, <1>11 DEF ChainEnds, Typed, TypeOK, WorkIsWaiting
<1>12. CASE Restart
  BY <1>12, IdleTyped DEF Restart, Fault, Typed, TypeOK, Threads, WorkIsWaiting, history
<1>13. CASE UNCHANGED vars
  BY <1>13 DEF vars, history, Typed, TypeOK, WorkIsWaiting
<1>. QED
  BY <1>3, <1>4, <1>5, <1>6, <1>7, <1>8, <1>9, <1>10, <1>11, <1>12, <1>13, PeopleTyped, RouteTyped
  DEF Next, Engine

(* The variables keep their types, and the delivery an invocation is at    *)
(* stays the oldest until that invocation has ended.                       *)
THEOREM GateTypes == Spec => []TypeOK
<1>1. Spec => []Typed
  BY InitTyped, StepTyped, PTL DEF Spec
<1>. QED
  BY <1>1, PTL DEF Typed
-----------------------------------------------------------------------------
(***************************************************************************)
(* No stage before its gate.                                               *)
(***************************************************************************)
LEMMA GatesBegin == Init => GateInv
  BY IdleTyped DEF Init, GateInv, OpeningIsApproved, EpicIsTrue, InboxIsBacked, Backed, Gates,
     Approved, Stage

(* Deliveries stay backed while approvals, openings and the waiver only    *)
(* grow.                                                                   *)
Growing ==
  /\ approved \subseteq approved' /\ Through \subseteq Through'
  /\ \/ waived' \/ ~waived
     \/ \A i \in DOMAIN inbox : inbox[i].kind = "expedite" => ~Authorized(inbox[i].by)

LEMMA BackedStays ==
  ASSUME InboxIsBacked, Growing
  PROVE  \A i \in DOMAIN inbox : Backed(inbox[i], approved', waived', Through')
  BY DEF InboxIsBacked, Growing, Backed

LEMMA InboxStays ==
  ASSUME Typed, InboxIsBacked, Growing, inbox' = inbox \/ (inbox # <<>> /\ inbox' = Tail(inbox))
  PROVE  InboxIsBacked'
<1>1. \A i \in DOMAIN inbox' : \E j \in DOMAIN inbox : inbox'[i] = inbox[j]
  <2>1. CASE inbox' = inbox
    BY <2>1
  <2>2. CASE inbox # <<>> /\ inbox' = Tail(inbox)
    <3>1. \A i \in DOMAIN inbox' : i + 1 \in DOMAIN inbox /\ inbox'[i] = inbox[i + 1]
      BY <2>2 DEF Typed, TypeOK
    <3>. QED
      BY <3>1
  <2>. QED
    BY <2>1, <2>2
<1>. QED
  BY <1>1, BackedStays DEF InboxIsBacked

LEMMA InboxGrows ==
  ASSUME Typed, InboxIsBacked, Growing, NEW d, inbox' = Append(inbox, d),
         Backed(d, approved', waived', Through')
  PROVE  InboxIsBacked'
<1>1. \A i \in DOMAIN inbox' : (i \in DOMAIN inbox /\ inbox'[i] = inbox[i]) \/ inbox'[i] = d
  BY DEF Typed, TypeOK
<1>. QED
  BY <1>1, BackedStays DEF InboxIsBacked

(* The gates, labels, roles and marks are all told apart by their names.   *)
LEMMA Distinct ==
  /\ Stage["spec"] = "planner" /\ Stage["design"] = "dispatch"
  /\ Approved["spec"] = "spec-approved" /\ Approved["design"] = "design-approved"
  /\ Gates = {"spec", "design"}
  BY DEF Stage, Approved, Gates

LEMMA PeopleKeep == Typed /\ GateInv /\ People => GateInv'
<1> SUFFICES ASSUME Typed, GateInv, People PROVE GateInv'
  OBVIOUS
<1> USE DEF GateInv
<1>1. CASE \E who \in Persons, kind \in {"approved", "reply"} : Comment(who, kind)
  <2> PICK who \in Persons, kind \in {"approved", "reply"} : Comment(who, kind)
    BY <1>1
  <2>1. Through \subseteq Through' /\ approved \subseteq approved' /\ slipped \subseteq slipped'
    BY DEF Through, Comment
  <2>2. OpeningIsApproved' /\ Growing
    BY <2>1 DEF OpeningIsApproved, Growing, Comment
  <2>3. EpicIsTrue'
    BY <2>1 DEF EpicIsTrue, Comment
  <2>4. kind = "reply" => \A g \in Gates : Approved[g] \in labels => g \in Through'
    BY DEF Comment, EpicIsTrue, Unreverted, Through
  <2>5. Backed([kind |-> kind, by |-> who, labels |-> labels], approved', waived', Through')
    BY <2>4, Distinct DEF Comment, HasEffect, Backed
  <2>. QED
    BY <2>2, <2>3, <2>5, InboxGrows DEF Comment, Event
<1>2. CASE \E who \in Labellers, g \in Gates, tidy \in Tidy : ApproveByHand(who, g, tidy)
  <2> PICK who \in Labellers, g \in Gates, tidy \in Tidy : ApproveByHand(who, g, tidy)
    BY <1>2
  <2>1. Authorized(who) => g \in Through'
    BY DEF Through, ApproveByHand
  <2>2. ~Authorized(who) => Approved[g] \in foreign'
    BY DEF ApproveByHand, PutOnBy
  <2>3. foreign \subseteq foreign' \cup {Approved[g]}
    BY DEF ApproveByHand, PutOnBy
  <2>4. Through \subseteq Through' /\ approved \subseteq approved'
    BY DEF Through, ApproveByHand
  <2>5. OpeningIsApproved' /\ Growing
    BY <2>4 DEF OpeningIsApproved, Growing, ApproveByHand
  <2>6. EpicIsTrue'
    BY <2>1, <2>2, <2>3, <2>4, Distinct DEF EpicIsTrue, ApproveByHand
  <2>7. ~Authorized(who) => Reverted([kind |-> Approved[g], by |-> who, labels |-> labels'])
    BY EpicGatesAssumption DEF EpicGatesAssumption, Authorized, Reverted
  <2>8. Backed([kind |-> Approved[g], by |-> who, labels |-> labels'], approved', waived', Through')
    BY <2>1, <2>7, Distinct DEF Backed
  <2>. QED
    BY <2>5, <2>6, <2>8, InboxGrows DEF ApproveByHand, Event
<1>3. ASSUME waived' = (waived /\ UnderWay), approved' = approved, Through' = Through,
             slipped' = slipped, thread' = thread
      PROVE  OpeningIsApproved' /\ Growing
  BY <1>3 DEF OpeningIsApproved, Growing, UnderWay
<1>4. CASE \E who \in Labellers : PutExpedite(who)
  <2> PICK who \in Labellers : PutExpedite(who)
    BY <1>4
  <2>1. Authorized(who) => waived'
    BY DEF PutExpedite
  <2>2. ~Authorized(who) => "expedite" \in foreign'
    BY DEF PutExpedite, PutOnBy
  <2>3. foreign \subseteq foreign' \cup {"expedite"} /\ Through' = Through
    BY DEF PutExpedite, PutOnBy, Through
  <2>4. OpeningIsApproved' /\ Growing
    <3>1. CASE Authorized(who)
      BY <2>1, <2>3, <3>1 DEF OpeningIsApproved, Growing, PutExpedite
    <3>2. CASE ~Authorized(who)
      BY <1>3, <2>3, <3>2 DEF PutExpedite
    <3>. QED
      BY <3>1, <3>2
  <2>5. EpicIsTrue'
    BY <2>1, <2>2, <2>3, Distinct DEF EpicIsTrue, PutExpedite
  <2>6. who # "app"
    BY EpicGatesAssumption DEF EpicGatesAssumption
  <2>7. Backed([kind |-> "expedite", by |-> who, labels |-> labels'], approved', waived', Through')
    BY <2>1, <2>6, Distinct DEF Backed
  <2>. QED
    BY <2>4, <2>5, <2>7, InboxGrows DEF PutExpedite, Event
<1>5. CASE TakeExpedite
  <2>1. Through' = Through
    BY <1>5 DEF TakeExpedite, Through
  <2>2. OpeningIsApproved' /\ Growing
    BY <1>3, <1>5, <2>1 DEF TakeExpedite
  <2>3. EpicIsTrue'
    BY <1>5, <2>1, Distinct DEF EpicIsTrue, TakeExpedite
  <2>. QED
    BY <1>5, <2>2, <2>3, InboxStays DEF TakeExpedite
<1>. QED
  BY <1>1, <1>2, <1>4, <1>5 DEF People

(* What a delivery lets the router do has been approved: it opens a gate   *)
(* that is approved or waived, or begins a stage behind an open one.       *)
LEMMA RoutesKeep == Typed /\ GateInv /\ (RouteOpened \/ RouteComment \/ RouteLabel) => GateInv'
<1> SUFFICES ASSUME Typed, GateInv, RouteOpened \/ RouteComment \/ RouteLabel PROVE GateInv'
  OBVIOUS
<1>1. /\ UNCHANGED <<approved, waived, opened, begun, slipped>>
      /\ labels' \subseteq labels /\ inbox # <<>>
      /\ inbox' = inbox \/ inbox' = Tail(inbox)
      /\ labels' \cap foreign \subseteq foreign'
  <2>1. CASE RouteOpened \/ RouteComment
    BY <2>1 DEF RouteOpened, RouteComment, EndOfInvocation, history
  <2>2. CASE RouteLabel
    BY <2>2 DEF RouteLabel, EndOfInvocation
  <2>. QED
    BY <2>1, <2>2
<1>2. InboxIsBacked' /\ Backed(Current, approved, waived, Through)
  <2>1. Growing
    BY <1>1 DEF Growing, Through
  <2>2. 1 \in DOMAIN inbox /\ Current = inbox[1]
    BY <1>1 DEF Current, Typed, TypeOK
  <2>. QED
    BY <1>1, <2>1, <2>2, InboxStays DEF GateInv, InboxIsBacked
<1>3. ASSUME NEW r \in Roles, Begins(r), \A g \in Gates : r = Stage[g] => g \in Through
      PROVE  GateInv'
  BY <1>1, <1>2, <1>3, IdleTyped, Distinct
  DEF GateInv, Begins, OpeningIsApproved, EpicIsTrue, Through, Idle
<1>4. ASSUME NEW g \in Gates, Opens(g), g \in approved \cup slipped \/ waived
      PROVE  GateInv'
  BY <1>1, <1>2, <1>4, IdleTyped, Distinct
  DEF GateInv, Opens, OpeningIsApproved, EpicIsTrue, Through, Idle
<1>5. ASSUME EndOfInvocation PROVE GateInv'
  BY <1>1, <1>2, <1>5, IdleTyped, Distinct
  DEF GateInv, EndOfInvocation, OpeningIsApproved, EpicIsTrue, Through
<1>6. CASE RouteOpened
  BY <1>3, <1>6, Distinct DEF RouteOpened, Roles
<1>7. CASE RouteComment
  <2>1. \A g \in GatesAt(Current.labels) :
          Current.kind = "approved" /\ Authorized(Current.by) => g \in Gates /\ g \in approved
    BY <1>2 DEF Backed, GatesAt, Gates
  <2>2. Current.kind = "reply" =>
          \A r \in Resumed(Current.labels) :
            r \in Roles /\ \A g \in Gates : r = Stage[g] => g \in Through
    BY <1>2, Distinct DEF Backed, Resumed, Roles
  <2>3. Current.kind = "approved" => GatesAt(Current.labels) # {}
    BY <1>2 DEF Backed
  <2>. QED
    BY <1>3, <1>4, <1>5, <1>7, <2>1, <2>2, <2>3 DEF RouteComment
<1>8. CASE RouteLabel
  <2>1. \A g \in Gates : Approved[g] = Current.kind /\ ~Reverted(Current) =>
          Stage[g] \in Roles /\ g \in Through
    BY <1>2, Names DEF Backed
  <2>2. \A g, h \in Gates : Stage[g] = Stage[h] => g = h
    BY Distinct
  <2>3. Current.kind = "expedite" /\ ~Reverted(Current) =>
          waived /\ ExpeditedGates(Current.labels) \subseteq Gates
    BY <1>2 DEF Backed, ExpeditedGates, Reverted, Authorized
  <2>. QED
    BY <1>3, <1>4, <1>5, <1>8, <2>1, <2>2, <2>3 DEF RouteLabel
<1>. QED
  BY <1>6, <1>7, <1>8

LEMMA StepKeeps == Typed /\ GateInv /\ [Next]_vars => GateInv'
<1> SUFFICES ASSUME Typed, GateInv, [Next]_vars PROVE GateInv'
  OBVIOUS
<1>1. ASSUME EndOfInvocation, inbox # <<>>,
             UNCHANGED <<approved, waived, opened, begun, foreign, slipped>>,
             labels' \subseteq labels
      PROVE  GateInv'
  <2>1. InboxIsBacked'
    BY <1>1, InboxStays DEF GateInv, Growing, Through, EndOfInvocation
  <2>. QED
    BY <1>1, <2>1, IdleTyped, Distinct
    DEF GateInv, EndOfInvocation, OpeningIsApproved, EpicIsTrue, Through
<1>2. ASSUME UNCHANGED <<inbox, approved, waived, opened>>, slipped \subseteq slipped',
             OpeningIsApproved', EpicIsTrue'
      PROVE  GateInv'
  BY <1>2, InboxStays DEF GateInv, Growing, Through
<1>3. CASE MergeDocument
  BY <1>1, <1>2, <1>3
  DEF MergeDocument, Goes, Typed, TypeOK, WorkIsWaiting, GateInv, OpeningIsApproved, EpicIsTrue,
      Through, history
<1>4. CASE MergeFails \/ CallRaises
  BY <1>1, <1>4 DEF MergeFails, CallRaises, Typed, TypeOK, WorkIsWaiting, history
<1>5. CASE DropReady
  BY <1>2, <1>5, Distinct
  DEF DropReady, Goes, Typed, TypeOK, GateInv, OpeningIsApproved, EpicIsTrue, Through, history
<1>6. CASE AddApproved
  <2>1. thread.gate \in Gates /\ thread.gate \in Through'
    BY <1>6 DEF AddApproved, Typed, TypeOK, GateInv, OpeningIsApproved, Through
  <2>4. Through \subseteq Through' /\ Growing
    BY <1>6 DEF AddApproved, Growing, Through
  <2>2. OpeningIsApproved' /\ EpicIsTrue'
    BY <1>6, <2>1, <2>4, Distinct DEF AddApproved, Typed, TypeOK, GateInv, OpeningIsApproved,
      EpicIsTrue
  <2>3. Backed([kind |-> Approved[thread.gate], by |-> "app", labels |-> labels'],
               approved', waived', Through')
    BY <2>1, Distinct DEF Backed
  <2>. QED
    BY <1>6, <2>2, <2>3, <2>4, InboxStays, InboxGrows DEF AddApproved, GateInv
<1>7. CASE StartRole
  BY <1>1, <1>2, <1>7, Distinct
  DEF StartRole, Goes, Typed, TypeOK, WorkIsWaiting, GateInv, OpeningIsApproved, EpicIsTrue, Through
<1>8. CASE Finishes \/ StandsDown \/ AsksPeople \/ RunFails
  <2>1. /\ UNCHANGED <<inbox, history>>
        /\ \/ thread' = [thread EXCEPT !.at = "clearing", !.status = "success"]
           \/ thread' = [thread EXCEPT !.at = "clearing", !.status = "other"]
        /\ labels' = labels \/ labels' = labels \cup {"blocked"} \/ labels' = Flipped(thread.role)
    BY <1>8 DEF Finishes, StandsDown, AsksPeople, RunFails, Ends, history
  <2>2. \A g \in Gates : Approved[g] \in labels' => Approved[g] \in labels \/ thread.role = Stage[g]
    BY <2>1, Distinct DEF Flipped, To, From, Roles, Typed, TypeOK
  <2>3. "expedite" \in labels' => "expedite" \in labels
    BY <2>1 DEF Flipped, To, From, Roles, Typed, TypeOK
  <2>4. thread'.at = "clearing" /\ thread'.role = thread.role
    BY <2>1 DEF Typed, TypeOK
  <2>5. OpeningIsApproved'
    BY <2>4 DEF OpeningIsApproved
  <2>6. EpicIsTrue'
    BY <2>1, <2>2, <2>3, <2>4 DEF GateInv, EpicIsTrue, Through, history
  <2>. QED
    BY <1>2, <2>1, <2>5, <2>6 DEF history
<1>9. CASE ClearInProgress
  BY <1>2, <1>9 DEF ClearInProgress, Goes, Typed, TypeOK, GateInv, OpeningIsApproved, EpicIsTrue,
    Through, history
<1>10. CASE ChainFollows
  <2>1. /\ UNCHANGED <<labels, inbox, approved, waived, opened, begun, foreign>>
        /\ slipped \subseteq slipped'
    BY <1>10 DEF ChainFollows
  <2>2. CASE thread'.at = "fan" /\ thread'.role \in {"testplanner", "architect"}
    BY <1>2, <2>1, <2>2, Distinct DEF GateInv, OpeningIsApproved, EpicIsTrue, Through
  <2>3. CASE /\ thread'.role = thread.role /\ "expedite" \in labels
             /\ "expedite" \in foreign => thread'.gate \in slipped'
    BY <1>2, <2>1, <2>3 DEF GateInv, OpeningIsApproved, EpicIsTrue, Through
  <2>. QED
    BY <1>10, <2>2, <2>3 DEF ChainFollows, AfterPlanning, Unreverted, Typed, TypeOK
<1>11. CASE ChainEnds
  BY <1>1, <1>11 DEF ChainEnds, Typed, TypeOK, WorkIsWaiting
<1>12. CASE Restart
  BY <1>2, <1>12, IdleTyped, Distinct DEF Restart, GateInv, OpeningIsApproved, EpicIsTrue,
    Through, history
<1>13. CASE UNCHANGED vars
  BY <1>2, <1>13 DEF vars, history, GateInv, OpeningIsApproved, EpicIsTrue, Through
<1>. QED
  BY <1>3, <1>4, <1>5, <1>6, <1>7, <1>8, <1>9, <1>10, <1>11, <1>12, <1>13, PeopleKeep, RoutesKeep
  DEF Next, Engine

(* NoStageBeforeItsGate: no planner before G1 and no Dispatcher before G2, *)
(* whoever puts labels on by hand, for any number of comments, replies,    *)
(* failures and stops, but for the gates that a reply or a chain was let   *)
(* through by a label that its event had still to take off.                *)
THEOREM NoStageOutOfTurn == Spec => []NoStageBeforeItsGate
<1>1. Init => Typed /\ GateInv
  BY InitTyped, GatesBegin
<1>2. Typed /\ GateInv /\ [Next]_vars => (Typed /\ GateInv)'
  BY StepTyped, StepKeeps
<1>3. GateInv => NoStageBeforeItsGate
  BY Distinct DEF GateInv, EpicIsTrue, Through, NoStageBeforeItsGate
<1>. QED
  BY <1>1, <1>2, <1>3, PTL DEF Spec
=============================================================================
