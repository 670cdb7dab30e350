------------------------- MODULE SystemTestsProofs -------------------------
(***************************************************************************)
(* Proofs about SystemTests, for any policies, any number of cases, tasks  *)
(* and reports, and any number of comments, failures and stops.            *)
(***************************************************************************)
EXTENDS SystemTests, WellFoundedInduction, TLAPS

(***************************************************************************)
(* The inductive invariants.                                               *)
(***************************************************************************)

(* What a step may never take from an issue.                               *)
Lasting == {"bug", "verified", "passed", "skipped"}

(* The deliveries of k, and those of the epic, that wait or are handled.   *)
Waiting(k) == {inbox[k][i] : i \in 1 .. Len(inbox[k])}
WaitingOnEpic == {epicInbox[i] : i \in 1 .. Len(epicInbox)}

(* Who is at work has a delivery in hand, and who raises a bug has one.    *)
HandsFull ==
  /\ \A k \in Kids : doing[k].at # "idle" => inbox[k] # <<>>
  /\ epicDoing.at # "idle" => epicInbox # <<>>
  /\ \A r \in Reports :
       report[r].filed \/ report[r].at \in {"labelling", "filing", "linking"} => report[r].bug # {}

(* A thread carries out what the payload at the head of its inbox asked,   *)
(* and what Skip tests takes off is no verdict.                            *)
AsAnswered ==
  /\ \A k \in Kids : doing[k].at # "idle" =>
       /\ doing[k].drop = Answer(k).drop /\ doing[k].add = Answer(k).add
       /\ doing[k].closes = Answer(k).closes
       /\ doing[k].at \in {"filing", "linking"} => Answer(k).at = "filing"
  /\ \A c \in Cases : epicDoing.todo[c] \cap Lasting = {}

(* A case is closed last.                                                  *)
ClosesLast ==
  /\ \A c \in Cases : doing[c].at = "closing" => ~Unsettled(c)
  /\ epicDoing.at = "closing" => ~Unsettled(Oldest(epicDoing.left))

CaseInv == AsAnswered /\ ClosesLast /\ ClosedCaseIsSettled

(* There is no delivery and no report of an issue that is not there, and a *)
(* bug is raised by one report.                                            *)
OnlyOfWhatIsThere ==
  /\ \A k \in Kids : inbox[k] # <<>> => kid[k].there
  /\ \A r \in Reports : \A b \in report[r].bug : kid[b].there
  /\ \A r, s \in Reports : r # s => report[r].bug \cap report[s].bug = {}

(* A bug that is being raised has no fix linked and is not to be tested.   *)
NoRetestYet ==
  \A r \in Reports : report[r].at # "done" =>
    \A b \in report[r].bug :
      /\ kid[b].blockedBy = {} /\ "retest" \notin kid[b].labels
      /\ \A d \in Waiting(b) : "retest" \notin d.kid.labels

(* A bug at retest is repaired, but while a failed re-test takes it back.  *)
Repaired(b) == "retest" \in kid[b].labels => Assembled(kid[b].blockedBy)

TakingBack(b) ==
  inbox[b] # <<>> /\ BugFails(b) /\ doing[b].at \in {"idle", "filing", "linking", "dropping"}

RetestInv ==
  /\ OnlyOfWhatIsThere /\ NoRetestYet
  /\ errors = 0 => \A b \in Bugs : Repaired(b) \/ TakingBack(b)

(* What people see as a bug of the epic, open_bugs finds.                  *)
Seen(labels) == labels \cap {"open", "retest"} # {}
Known(b) == kid[b].there /\ kid[b].named /\ "bug" \in kid[b].labels

SeenIsKnown ==
  /\ \A b \in Bugs :
       /\ Seen(kid[b].labels) => Known(b)
       /\ \A d \in Waiting(b) : Seen(d.kid.labels) => Known(b)
  /\ \A r \in Reports : report[r].at = "labelling" => kid[BugOf(r)].named
  /\ \A d \in WaitingOnEpic : \A b \in d.open : Known(b)
  /\ \A b \in reported : Known(b)

Over(b) == kid[b].closed \/ "verified" \in kid[b].labels

ApprovalIsClear ==
  (policy = "gate" /\ epicDoing.at = "releasing") => \A b \in EpicPayload.open : Over(b)

ReportedAreOver == policy = "gate" => \A b \in reported : Over(b)

GateInv == errors = 0 => SeenIsKnown /\ ApprovalIsClear /\ ReportedAreOver

Typed == TypeOK /\ HandsFull

-----------------------------------------------------------------------------
(***************************************************************************)
(* Types.                                                                  *)
(***************************************************************************)
LEMMA Sorts ==
  /\ NumCases \in Nat /\ Built \in Nat /\ MaxEvents \in Nat
  /\ Kids = Cases \cup Bugs /\ Cases \cap Bugs = {} /\ Cases \subseteq Nat
  /\ \A k \in Kids : k \in Cases <=> k \notin Bugs
  /\ NoKid \in Kid /\ Idle \in Move /\ NotSkipping.left = {}
<1>1. /\ NumCases \in Nat /\ Built \in Nat /\ MaxEvents \in Nat
      /\ \A c \in 1 .. NumCases : Deps[c] \subseteq 1 .. Built
  BY TestsAssumption
<1>2. NoKid \in Kid /\ Idle \in Move /\ NotSkipping.left = {}
  BY DEF NoKid, Kid, Idle, Move, NotSkipping
<1>3. Cases \cap Bugs = {} /\ Cases \subseteq Nat
  BY <1>1 DEF Cases, Bugs
<1>. QED
  BY <1>1, <1>2, <1>3 DEF Kids

LEMMA KidTypes ==
  ASSUME TypeOK, NEW k \in Kids
  PROVE  /\ kid[k] \in Kid /\ kid[k].labels \subseteq Labels /\ kid[k].blockedBy \subseteq Tasks
         /\ inbox[k] \in Seq(Delivery) /\ doing[k] \in Move
         /\ doing[k].fix \subseteq Tasks /\ doing[k].drop \subseteq Labels
         /\ doing[k].add \subseteq Labels /\ doing[k].closes \in BOOLEAN
  BY DEF TypeOK, Kid, Move

LEMMA InHand ==
  ASSUME Typed, NEW k \in Kids, inbox[k] # <<>>
  PROVE  /\ Payload(k) \in Delivery /\ Payload(k) \in Waiting(k)
         /\ Payload(k).kid \in Kid /\ Payload(k).kid.labels \subseteq Labels
         /\ Payload(k).kid.blockedBy \subseteq Tasks
<1>1. inbox[k] \in Seq(Delivery)
  BY KidTypes DEF Typed
<1>2. Payload(k) \in Delivery
  BY <1>1 DEF Payload
<1>3. Payload(k) \in Waiting(k)
  BY <1>1 DEF Payload, Waiting
<1>. QED
  BY <1>2, <1>3 DEF Delivery, Kid

LEMMA EpicInHand ==
  ASSUME Typed, epicInbox # <<>>
  PROVE  /\ EpicPayload \in EpicDelivery /\ EpicPayload \in WaitingOnEpic
         /\ EpicPayload.open \subseteq Bugs
<1>1. EpicPayload \in EpicDelivery
  BY DEF EpicPayload, Typed, TypeOK
<1>2. EpicPayload \in WaitingOnEpic
  BY DEF EpicPayload, WaitingOnEpic, Typed, TypeOK
<1>. QED
  BY <1>1, <1>2 DEF EpicDelivery

LEMMA Raising ==
  ASSUME Typed, NEW r \in Reports,
         report[r].filed \/ report[r].at \in {"labelling", "filing", "linking"}
  PROVE  BugOf(r) \in report[r].bug /\ BugOf(r) \in Bugs
  BY DEF Typed, TypeOK, HandsFull, BugOf

(* What the payload at the head of an inbox makes a thread do.             *)
LEMMA AnswerFacts ==
  ASSUME NEW k \in Kids, Payload(k) \in Delivery
  PROVE  /\ Answer(k) \in Move /\ Answer(k).fix = {}
         /\ Answer(k).drop \cap Lasting = {} /\ "retest" \notin Answer(k).add
         /\ k \in Cases /\ Answer(k).closes => Answer(k).add \cap {"passed", "skipped"} # {}
         /\ k \in Bugs /\ Answer(k).at = "filing" => BugFails(k)
         /\ k \in Bugs /\ BugFails(k) => Answer(k).at = "filing" /\ Answer(k).drop = {"retest"}
         /\ k \in Bugs /\ "open" \in Answer(k).add => BugFails(k)
<1>1. Payload(k).kid.labels \subseteq Labels
  BY DEF Delivery, Kid
<1>2. {"manual", "passed", "failed", "skipped", "retest", "verified", "open"} \subseteq Labels
  BY DEF Labels
<1>3. /\ {"manual"} \in SUBSET Labels /\ {"passed"} \in SUBSET Labels
      /\ {"failed"} \in SUBSET Labels
      /\ {"skipped"} \in SUBSET Labels /\ {"retest"} \in SUBSET Labels /\ {"open"} \in SUBSET Labels
      /\ {"verified"} \in SUBSET Labels /\ TRUE \in BOOLEAN
      /\ Payload(k).kid.labels \cap {"manual", "failed"} \in SUBSET Labels
  BY <1>2
<1>4. /\ Idle \in Move /\ Idle.fix = {} /\ Idle.drop = {} /\ Idle.add = {} /\ Idle.closes = FALSE
      /\ Idle.at = "idle"
  BY DEF Idle, Move
<1>5. k \in Cases <=> k \notin Bugs
  BY Sorts
<1> USE DEF CasePasses, CaseFails, CaseSkips, NamedBug, BugPasses, BugFails, BugCloses
<1>6. CASE CasePasses(k)
  <2>1. Answer(k) = Changes({"manual"}, {"passed"}, TRUE)
    BY <1>5, <1>6 DEF Answer
  <2>2. k \notin Bugs
    BY <1>5, <1>6
  <2>3. /\ Answer(k) \in Move /\ Answer(k).fix = {} /\ Answer(k).at = "dropping"
        /\ Answer(k).drop = {"manual"}
        /\ Answer(k).add = {"passed"} /\ Answer(k).closes = TRUE
    BY <1>2, <1>3, <2>1 DEF Changes, Idle, Move
  <2>. QED
    BY <2>2, <2>3 DEF Lasting
<1>7. CASE CaseFails(k)
  <2>1. Answer(k) = Fails({"manual"}, {"failed"})
    BY <1>5, <1>7 DEF Answer
  <2>2. k \notin Bugs
    BY <1>5, <1>7
  <2>3. /\ Answer(k) \in Move /\ Answer(k).fix = {} /\ Answer(k).at = "filing"
        /\ Answer(k).drop = {"manual"}
        /\ Answer(k).add = {"failed"} /\ Answer(k).closes = FALSE
    BY <1>2, <1>3, <2>1 DEF Fails, Changes, Idle, Move
  <2>. QED
    BY <2>2, <2>3 DEF Lasting
<1>8. CASE CaseSkips(k)
  <2>1. Answer(k) = Changes(Payload(k).kid.labels \cap {"manual", "failed"}, {"skipped"}, TRUE)
    BY <1>5, <1>8 DEF Answer
  <2>2. k \notin Bugs
    BY <1>5, <1>8
  <2>3. /\ Answer(k) \in Move /\ Answer(k).fix = {} /\ Answer(k).at = "dropping"
        /\ Answer(k).drop = Payload(k).kid.labels \cap {"manual", "failed"}
        /\ Answer(k).add = {"skipped"} /\ Answer(k).closes = TRUE
    BY <1>2, <1>3, <2>1 DEF Changes, Idle, Move
  <2>. QED
    BY <2>2, <2>3 DEF Lasting
<1>9. CASE BugPasses(k)
  <2>1. Answer(k) = Changes({"retest"}, {"verified"}, TRUE)
    BY <1>5, <1>9 DEF Answer
  <2>2. k \notin Cases /\ ~BugFails(k)
    BY <1>5, <1>9
  <2>3. /\ Answer(k) \in Move /\ Answer(k).fix = {} /\ Answer(k).at = "dropping"
        /\ Answer(k).drop = {"retest"}
        /\ Answer(k).add = {"verified"} /\ Answer(k).closes = TRUE
    BY <1>2, <1>3, <2>1 DEF Changes, Idle, Move
  <2>. QED
    BY <2>2, <2>3 DEF Lasting
<1>10. CASE BugFails(k)
  <2>1. Answer(k) = Fails({"retest"}, {"open"})
    BY <1>5, <1>10 DEF Answer
  <2>2. k \notin Cases
    BY <1>5, <1>10
  <2>3. /\ Answer(k) \in Move /\ Answer(k).fix = {} /\ Answer(k).at = "filing"
        /\ Answer(k).drop = {"retest"}
        /\ Answer(k).add = {"open"} /\ Answer(k).closes = FALSE
    BY <1>2, <1>3, <2>1 DEF Fails, Changes, Idle, Move
  <2>. QED
    BY <1>10, <2>2, <2>3 DEF Lasting
<1>11. CASE BugCloses(k)
  <2>1. Answer(k) = [Idle EXCEPT !.at = "ending"]
    BY <1>5, <1>11 DEF Answer
  <2>2. ~BugFails(k)
    BY <1>11
  <2>. QED
    BY <2>1, <2>2 DEF Idle, Move
<1>12. CASE /\ ~CasePasses(k) /\ ~CaseFails(k) /\ ~CaseSkips(k)
            /\ ~BugPasses(k) /\ ~BugFails(k) /\ ~BugCloses(k)
  <2>1. Answer(k) = Idle
    BY <1>12 DEF Answer, NoEffect
  <2>2. ~BugFails(k)
    BY <1>12
  <2>. QED
    BY <1>4, <2>1, <2>2
<1>. QED
  BY <1>6, <1>7, <1>8, <1>9, <1>10, <1>11, <1>12

-----------------------------------------------------------------------------
(***************************************************************************)
(* What the steps do to a case or a bug.                                   *)
(***************************************************************************)

(* Issue k becomes x, and no other changes.                                *)
Alters(k, x) ==
  /\ x \in Kid /\ kid' \in [Kids -> Kid]
  /\ kid'[k] = x /\ \A j \in Kids : j # k => kid'[j] = kid[j]

LEMMA Altering ==
  ASSUME TypeOK, NEW k \in Kids, NEW x \in Kid, kid' = [kid EXCEPT ![k] = x]
  PROVE  Alters(k, x)
  BY DEF Alters, TypeOK

(* The ways in which it does.                                              *)
Closed(k) == [kid[k] EXCEPT !.closed = TRUE]
Titled(k) == [kid[k] EXCEPT !.named = TRUE]
Linked(k, ts) == [kid[k] EXCEPT !.blockedBy = ts]

LEMMA ClosedFields ==
  ASSUME TypeOK, NEW k \in Kids
  PROVE  /\ Closed(k) \in Kid /\ Closed(k).there = kid[k].there /\ Closed(k).closed = TRUE
         /\ Closed(k).named = kid[k].named /\ Closed(k).labels = kid[k].labels
         /\ Closed(k).blockedBy = kid[k].blockedBy
  BY KidTypes DEF Closed, Kid

LEMMA TitledFields ==
  ASSUME TypeOK, NEW k \in Kids
  PROVE  /\ Titled(k) \in Kid /\ Titled(k).there = kid[k].there /\ Titled(k).closed = kid[k].closed
         /\ Titled(k).named = TRUE /\ Titled(k).labels = kid[k].labels
         /\ Titled(k).blockedBy = kid[k].blockedBy
  BY KidTypes DEF Titled, Kid

LEMMA LinkedFields ==
  ASSUME TypeOK, NEW k \in Kids, NEW ts \in SUBSET Tasks
  PROVE  /\ Linked(k, ts) \in Kid /\ Linked(k, ts).there = kid[k].there
         /\ Linked(k, ts).closed = kid[k].closed /\ Linked(k, ts).named = kid[k].named
         /\ Linked(k, ts).labels = kid[k].labels /\ Linked(k, ts).blockedBy = ts
  BY KidTypes DEF Linked, Kid

LEMMA RelabelledFields ==
  ASSUME TypeOK, NEW k \in Kids, NEW drop, NEW add, add \subseteq Labels
  PROVE  LET x == Relabelled(k, drop, add) IN
         /\ x \in Kid /\ x.there = kid[k].there /\ x.closed = kid[k].closed
         /\ x.named = kid[k].named /\ x.labels = (kid[k].labels \ drop) \cup add
         /\ x.blockedBy = kid[k].blockedBy
  BY KidTypes DEF Relabelled, Kid

(* What every alteration of k keeps.                                       *)
Keeps(k, x) ==
  /\ kid[k].there => x.there
  /\ kid[k].closed => x.closed
  /\ kid[k].named => x.named
  /\ kid[k].labels \cap Lasting \subseteq x.labels

LEMMA Closes ==
  ASSUME TypeOK, NEW k \in Kids, Close(k) \/ CloseByHand(k)
  PROVE  Alters(k, Closed(k))
<1>1. kid' = [kid EXCEPT ![k] = Closed(k)]
  BY DEF Close, CloseByHand, Closed
<1>. QED
  BY <1>1, Altering, ClosedFields

LEMMA Drops ==
  ASSUME TypeOK, NEW k \in Kids, Drop(k)
  PROVE  Alters(k, Relabelled(k, doing[k].drop, {}))
<1>1. kid[k].labels \ doing[k].drop = (kid[k].labels \ doing[k].drop) \cup {}
  OBVIOUS
<1>2. kid' = [kid EXCEPT ![k] = Relabelled(k, doing[k].drop, {})]
  BY <1>1 DEF Drop, Relabelled
<1>. QED
  BY <1>2, Altering, RelabelledFields

LEMMA Adds ==
  ASSUME TypeOK, NEW k \in Kids, Add(k)
  PROVE  Alters(k, Relabelled(k, {}, doing[k].add))
<1>1. kid[k].labels \cup doing[k].add = (kid[k].labels \ {}) \cup doing[k].add
  OBVIOUS
<1>2. kid' = [kid EXCEPT ![k] = Relabelled(k, {}, doing[k].add)]
  BY <1>1 DEF Add, Relabelled
<1>. QED
  BY <1>2, Altering, RelabelledFields, KidTypes

LEMMA Links ==
  ASSUME Typed, NEW k \in Kids, LinkFix(k)
  PROVE  /\ Alters(k, Linked(k, Payload(k).kid.blockedBy \cup doing[k].fix))
         /\ Payload(k).kid.blockedBy \cup doing[k].fix \in SUBSET Tasks
<1> DEFINE ts == Payload(k).kid.blockedBy \cup doing[k].fix
<1>1. ts \in SUBSET Tasks
  BY InHand, KidTypes DEF LinkFix, Typed, HandsFull
<1>2. kid' = [kid EXCEPT ![k] = Linked(k, ts)]
  BY DEF LinkFix, Linked
<1>. QED
  BY <1>1, <1>2, Altering, LinkedFields DEF Typed

LEMMA Raises ==
  ASSUME Typed, NEW r \in Reports
  PROVE  /\ Retitle(r) => Alters(BugOf(r), Titled(BugOf(r)))
         /\ LabelBug(r) => Alters(BugOf(r), Relabelled(BugOf(r), {}, {"bug", "open"}))
         /\ LinkBugFix(r) => /\ Alters(BugOf(r), Linked(BugOf(r), report[r].fix))
                             /\ report[r].fix \in SUBSET Tasks
<1> DEFINE b == BugOf(r)
<1>1. Retitle(r) \/ LabelBug(r) \/ LinkBugFix(r) => b \in Kids
  BY Raising, Sorts DEF Retitle, LabelBug, LinkBugFix
<1>2. report[r].fix \in SUBSET Tasks
  BY DEF Typed, TypeOK
<1>3. kid[b].labels \cup {"bug", "open"} = (kid[b].labels \ {}) \cup {"bug", "open"}
  OBVIOUS
<1>4. /\ Retitle(r) => kid' = [kid EXCEPT ![b] = Titled(b)]
      /\ LinkBugFix(r) => kid' = [kid EXCEPT ![b] = Linked(b, report[r].fix)]
  BY DEF Retitle, Titled, LinkBugFix, Linked
<1>5. LabelBug(r) => kid' = [kid EXCEPT ![b] = Relabelled(b, {}, {"bug", "open"})]
  BY <1>3 DEF LabelBug, Relabelled
<1>6. {"bug", "open"} \subseteq Labels
  BY DEF Labels
<1>. QED
  BY <1>1, <1>2, <1>4, <1>5, <1>6, Altering, TitledFields, LinkedFields, RelabelledFields DEF Typed

(* A bug that was not there yet.                                           *)
Fresh(b, x) ==
  /\ b \in Bugs /\ ~kid[b].there /\ x \in Kid
  /\ x.there /\ ~x.closed /\ x.blockedBy = {}
  /\ x.labels = {"bug"} \/ (x.labels = {"bug", "open"} /\ x.named)

LEMMA Opens ==
  ASSUME TypeOK
  PROVE  /\ \A r \in Reports, b \in Bugs : FileBug(r, b) =>
              \E x \in Kid : Alters(b, x) /\ Fresh(b, x)
         /\ \A r \in Reports : OpenBug(r) =>
              \E b \in Bugs, x \in Kid :
                /\ Alters(b, x) /\ Fresh(b, x)
                /\ report' = [report EXCEPT ![r].at = "filing", ![r].bug = {b}]
<1> DEFINE filed == [NoKid EXCEPT !.there = TRUE, !.labels = {"bug"}]
           opened == [NoKid EXCEPT !.there = TRUE, !.named = TRUE, !.labels = {"bug", "open"}]
<1>1. /\ filed \in Kid /\ filed.there /\ ~filed.closed /\ filed.blockedBy = {}
      /\ filed.labels = {"bug"}
      /\ opened \in Kid /\ opened.there /\ ~opened.closed /\ opened.blockedBy = {}
      /\ opened.labels = {"bug", "open"} /\ opened.named
  BY DEF NoKid, Kid, Labels
<1>2. ASSUME NEW r \in Reports, NEW b \in Bugs, FileBug(r, b)
      PROVE  kid' = [kid EXCEPT ![b] = filed] /\ ~kid[b].there
  BY <1>2 DEF FileBug, NewBug
<1>3. ASSUME NEW r \in Reports, OpenBug(r)
      PROVE  \E b \in Bugs : /\ kid' = [kid EXCEPT ![b] = opened] /\ ~kid[b].there
                             /\ report' = [report EXCEPT ![r].at = "filing", ![r].bug = {b}]
  BY <1>3 DEF OpenBug, NewBug
<1>4. \A b \in Bugs : b \in Kids
  BY Sorts
<1> HIDE DEF filed, opened
<1>5. ASSUME NEW b \in Bugs, ~kid[b].there
      PROVE  Fresh(b, filed) /\ Fresh(b, opened)
  BY <1>1, <1>5 DEF Fresh
<1>6. \A r \in Reports, b \in Bugs : FileBug(r, b) => Alters(b, filed) /\ Fresh(b, filed)
  BY <1>1, <1>2, <1>4, <1>5, Altering
<1>7. ASSUME NEW r \in Reports, OpenBug(r)
      PROVE  \E b \in Bugs : /\ Alters(b, opened) /\ Fresh(b, opened)
                             /\ report' = [report EXCEPT ![r].at = "filing", ![r].bug = {b}]
  <2>1. PICK b \in Bugs : /\ kid' = [kid EXCEPT ![b] = opened] /\ ~kid[b].there
                          /\ report' = [report EXCEPT ![r].at = "filing", ![r].bug = {b}]
    BY <1>3, <1>7
  <2>2. Alters(b, opened) /\ Fresh(b, opened)
    BY <1>1, <1>4, <1>5, <2>1, Altering
  <2>. QED
    BY <2>1, <2>2
<1>. QED
  BY <1>1, <1>6, <1>7

(* The cases are numbered: of those left there is an oldest.               *)
LEMMA OldestIsLeft ==
  ASSUME NEW cs \in SUBSET Cases, cs # {}
  PROVE  Oldest(cs) \in cs
<1>1. cs \subseteq Nat
  BY Sorts
<1>2. PICK c \in cs : \A o \in cs : <<o, c>> \notin OpToRel(<, Nat)
  BY <1>1, NatLessThanWellFounded, WFMin
<1>3. \A o \in cs : c <= o
  <2> SUFFICES ASSUME NEW o \in cs, ~(c <= o) PROVE FALSE
    OBVIOUS
  <2>1. o \in Nat /\ c \in Nat /\ o < c
    BY <1>1
  <2>2. <<o, c>> \in OpToRel(<, Nat)
    BY <2>1 DEF OpToRel
  <2>. QED
    BY <1>2, <2>2
<1>. QED
  BY <1>3 DEF Oldest

LEMMA Skips ==
  ASSUME Typed
  PROVE  LET c == Oldest(epicDoing.left) IN
         /\ epicDoing.at \in {"dropping", "adding", "closing"} => c \in Cases /\ c \in Kids
         /\ SkipDrop => Alters(c, Relabelled(c, epicDoing.todo[c], {}))
         /\ SkipAdd => Alters(c, Relabelled(c, {}, {"skipped"}))
         /\ SkipClose => Alters(c, Closed(c))
<1> DEFINE c == Oldest(epicDoing.left)
<1>1. epicDoing.at \in {"dropping", "adding", "closing"} => epicDoing.left # {}
  BY DEF Typed, TypeOK
<1>2. epicDoing.left \in SUBSET Cases
  BY DEF Typed, TypeOK
<1>3. epicDoing.at \in {"dropping", "adding", "closing"} => c \in Cases /\ c \in Kids
  BY <1>1, <1>2, OldestIsLeft, Sorts
<1>4. /\ kid[c].labels \ epicDoing.todo[c] = (kid[c].labels \ epicDoing.todo[c]) \cup {}
      /\ kid[c].labels \cup {"skipped"} = (kid[c].labels \ {}) \cup {"skipped"}
  OBVIOUS
<1>5. SkipDrop => kid' = [kid EXCEPT ![c] = Relabelled(c, epicDoing.todo[c], {})]
  BY <1>4 DEF SkipDrop, Relabelled
<1>6. SkipAdd => kid' = [kid EXCEPT ![c] = Relabelled(c, {}, {"skipped"})]
  BY <1>4 DEF SkipAdd, Relabelled
<1>7. SkipClose => kid' = [kid EXCEPT ![c] = Closed(c)]
  BY DEF SkipClose, Closed
<1>8. /\ SkipDrop \/ SkipAdd \/ SkipClose => epicDoing.at \in {"dropping", "adding", "closing"}
      /\ {"skipped"} \subseteq Labels
  BY DEF SkipDrop, SkipAdd, SkipClose, Labels
<1> HIDE DEF c
<1>9. c \in Kids => /\ Relabelled(c, epicDoing.todo[c], {}) \in Kid
                    /\ Relabelled(c, {}, {"skipped"}) \in Kid /\ Closed(c) \in Kid
  BY <1>8, RelabelledFields, ClosedFields DEF Typed
<1>10. /\ SkipDrop => Alters(c, Relabelled(c, epicDoing.todo[c], {}))
       /\ SkipAdd => Alters(c, Relabelled(c, {}, {"skipped"}))
       /\ SkipClose => Alters(c, Closed(c))
  BY <1>3, <1>5, <1>6, <1>7, <1>8, <1>9, Altering DEF Typed
<1>. QED
  BY <1>3, <1>10 DEF c

LEMMA Dispatches ==
  ASSUME TypeOK, Dispatch
  PROVE  /\ kid' \in [Kids -> Kid]
         /\ \A k \in Kids :
              \/ kid'[k] = kid[k]
              \/ k \in Cases /\ kid'[k] = Relabelled(k, {"failed"}, {"manual"})
              \/ k \in Bugs /\ Retestable(k) /\ kid'[k] = Relabelled(k, {"open"}, {"retest"})
<1>1. kid' = [k \in Kids |->
       CASE k \in Cases /\ Runnable(k)  -> Relabelled(k, {"failed"}, {"manual"})
         [] k \in Bugs /\ Retestable(k) -> Relabelled(k, {"open"}, {"retest"})
         [] OTHER                       -> kid[k]]
  BY DEF Dispatch
<1>2. ASSUME NEW k \in Kids
      PROVE  \/ kid'[k] = kid[k]
             \/ k \in Cases /\ kid'[k] = Relabelled(k, {"failed"}, {"manual"})
             \/ k \in Bugs /\ Retestable(k) /\ kid'[k] = Relabelled(k, {"open"}, {"retest"})
  BY <1>1, Sorts
<1>3. {"manual"} \subseteq Labels /\ {"retest"} \subseteq Labels
  BY DEF Labels
<1>4. ASSUME NEW k \in Kids PROVE kid'[k] \in Kid
  BY <1>2, <1>3, RelabelledFields, KidTypes
<1>. QED
  BY <1>1, <1>2, <1>4

(* One case or bug changes at a time, but for a run of the Dispatcher.     *)
LEMMA OneAtATime ==
  ASSUME Typed, [Next]_vars
  PROVE  \/ UNCHANGED kid \/ Dispatch
         \/ \E k \in Kids, x \in Kid : Alters(k, x) /\ (AsAnswered => Fresh(k, x) \/ Keeps(k, x))
<1>1. ASSUME NEW k \in Kids, Close(k) \/ CloseByHand(k)
      PROVE  Alters(k, Closed(k)) /\ Keeps(k, Closed(k))
  BY <1>1, Closes, ClosedFields DEF Keeps, Typed
<1>2. ASSUME NEW k \in Kids, Drop(k)
      PROVE  \E x \in Kid : Alters(k, x) /\ (AsAnswered => Keeps(k, x))
  <2>1. Alters(k, Relabelled(k, doing[k].drop, {}))
    BY <1>2, Drops DEF Typed
  <2>2. doing[k].at # "idle" /\ inbox[k] # <<>>
    BY <1>2 DEF Drop, Typed, HandsFull
  <2>3. AsAnswered => doing[k].drop \cap Lasting = {}
    BY <2>2, InHand, AnswerFacts DEF AsAnswered
  <2>4. AsAnswered => Keeps(k, Relabelled(k, doing[k].drop, {}))
    BY <2>3, RelabelledFields DEF Keeps, Typed
  <2>. QED
    BY <2>1, <2>4 DEF Alters
<1>3. ASSUME NEW k \in Kids, Add(k)
      PROVE  \E x \in Kid : Alters(k, x) /\ Keeps(k, x)
  <2>1. Alters(k, Relabelled(k, {}, doing[k].add))
    BY <1>3, Adds DEF Typed
  <2>2. Keeps(k, Relabelled(k, {}, doing[k].add))
    BY RelabelledFields, KidTypes DEF Keeps, Typed
  <2>. QED
    BY <2>1, <2>2 DEF Alters
<1>4. ASSUME NEW k \in Kids, LinkFix(k)
      PROVE  \E x \in Kid : Alters(k, x) /\ Keeps(k, x)
  <2> DEFINE ts == Payload(k).kid.blockedBy \cup doing[k].fix
  <2>1. Alters(k, Linked(k, ts)) /\ ts \in SUBSET Tasks
    BY <1>4, Links
  <2> HIDE DEF ts
  <2>2. Keeps(k, Linked(k, ts))
    BY <2>1, LinkedFields DEF Keeps, Typed
  <2>. QED
    BY <2>1, <2>2 DEF Alters
<1>5. ASSUME NEW r \in Reports, Retitle(r) \/ LabelBug(r) \/ LinkBugFix(r)
      PROVE  \E k \in Kids, x \in Kid : Alters(k, x) /\ Keeps(k, x)
  <2> DEFINE b == BugOf(r)
  <2>1. b \in Kids
    BY <1>5, Raising, Sorts DEF Retitle, LabelBug, LinkBugFix
  <2>2. \E x \in Kid : /\ Alters(b, x)
                       /\ x = Titled(b) \/ x = Relabelled(b, {}, {"bug", "open"})
                            \/ (x = Linked(b, report[r].fix) /\ report[r].fix \in SUBSET Tasks)
    BY <1>5, Raises DEF Alters
  <2>3. {"bug", "open"} \subseteq Labels
    BY DEF Labels
  <2> HIDE DEF b
  <2>4. Keeps(b, Titled(b))
    BY <2>1, TitledFields DEF Keeps, Typed
  <2>5. Keeps(b, Relabelled(b, {}, {"bug", "open"}))
    BY <2>1, <2>3, RelabelledFields DEF Keeps, Typed
  <2>6. report[r].fix \in SUBSET Tasks => Keeps(b, Linked(b, report[r].fix))
    BY <2>1, LinkedFields DEF Keeps, Typed
  <2>. QED
    BY <2>1, <2>2, <2>4, <2>5, <2>6
<1>6. ASSUME SkipDrop \/ SkipAdd \/ SkipClose
      PROVE  \E k \in Kids, x \in Kid : Alters(k, x) /\ (AsAnswered => Keeps(k, x))
  <2> DEFINE c == Oldest(epicDoing.left)
  <2>1. c \in Cases /\ c \in Kids
    BY <1>6, Skips DEF SkipDrop, SkipAdd, SkipClose
  <2>2. \E x \in Kid : /\ Alters(c, x)
                       /\ \/ x = Relabelled(c, epicDoing.todo[c], {})
                          \/ x = Relabelled(c, {}, {"skipped"}) \/ x = Closed(c)
    BY <1>6, Skips DEF Alters
  <2>3. AsAnswered => epicDoing.todo[c] \cap Lasting = {}
    BY <2>1 DEF AsAnswered
  <2>4. {"skipped"} \subseteq Labels
    BY DEF Labels
  <2> HIDE DEF c
  <2>5. AsAnswered => Keeps(c, Relabelled(c, epicDoing.todo[c], {}))
    BY <2>1, <2>3, RelabelledFields DEF Keeps, Typed
  <2>6. Keeps(c, Relabelled(c, {}, {"skipped"}))
    BY <2>1, <2>4, RelabelledFields DEF Keeps, Typed
  <2>7. Keeps(c, Closed(c))
    BY <2>1, ClosedFields DEF Keeps, Typed
  <2>. QED
    BY <2>1, <2>2, <2>5, <2>6, <2>7
<1>7. ASSUME \E r \in Reports : OpenBug(r) \/ \E b \in Bugs : FileBug(r, b)
      PROVE  \E k \in Kids, x \in Kid : Alters(k, x) /\ Fresh(k, x)
  BY <1>7, Opens, Sorts DEF Typed
<1>8. CASE \E k \in Kids : Close(k) \/ CloseByHand(k)
  BY <1>1, <1>8, ClosedFields DEF Typed
<1>9. CASE \E k \in Kids : Drop(k) \/ Add(k) \/ LinkFix(k)
  BY <1>2, <1>3, <1>4, <1>9
<1>10. ASSUME ~UNCHANGED kid, ~Dispatch
       PROVE  \/ \E k \in Kids : Close(k) \/ CloseByHand(k) \/ Drop(k) \/ Add(k) \/ LinkFix(k)
              \/ \E r \in Reports : Retitle(r) \/ LabelBug(r) \/ LinkBugFix(r)
              \/ SkipDrop \/ SkipAdd \/ SkipClose
              \/ \E r \in Reports : OpenBug(r) \/ \E b \in Bugs : FileBug(r, b)
  BY <1>10
  DEF Next, People, Verdict, SkipCase, OnEpic, CommentBug, Land, KidStep, Route, FileFix, End,
      CallRaises, EpicStep, RouteEpic, ReleaseToStaging, EndOfSkip, EpicCallRaises, ReportStep,
      FileBugFix, ReportRaises, Restart, github, vars
<1>. QED
  BY <1>5, <1>6, <1>7, <1>8, <1>9, <1>10

LEMMA KidTyped ==
  ASSUME Typed, [Next]_vars
  PROVE  kid' \in [Kids -> Kid]
  BY OneAtATime, Dispatches DEF Alters, Typed, TypeOK

(* What was found, answered or decided of an issue stays.                  *)
LEMMA KidsGoOn ==
  ASSUME Typed, AsAnswered, [Next]_vars, NEW k \in Kids, kid[k].there \/ k \in Cases
  PROVE  Keeps(k, kid'[k])
<1>1. Keeps(k, kid[k])
  BY DEF Keeps
<1>2. CASE Dispatch
  <2>1. {"manual"} \subseteq Labels /\ {"retest"} \subseteq Labels
    BY DEF Labels
  <2>2. \A drop, add : add \subseteq Labels /\ drop \cap Lasting = {} =>
          Keeps(k, Relabelled(k, drop, add))
    BY RelabelledFields DEF Keeps, Typed
  <2>3. {"failed"} \cap Lasting = {} /\ {"open"} \cap Lasting = {}
    BY DEF Lasting
  <2>. QED
    BY <1>1, <1>2, <2>1, <2>2, <2>3, Dispatches DEF Typed
<1>3. CASE \E j \in Kids, x \in Kid : Alters(j, x) /\ (Fresh(j, x) \/ Keeps(j, x))
  BY <1>1, <1>3, Sorts DEF Alters, Fresh
<1>. QED
  BY <1>1, <1>2, <1>3, OneAtATime

(* What the inboxes do: a delivery is put in at the end, or the one in     *)
(* hand goes.                                                              *)
Joins(k, d) == d \in Delivery /\ inbox' = [inbox EXCEPT ![k] = Append(@, d)]
Leaves(k) == inbox[k] # <<>> /\ inbox' = [inbox EXCEPT ![k] = Tail(@)]

LEMMA Joining ==
  ASSUME Typed, NEW k \in Kids, NEW d \in Delivery, Joins(k, d)
  PROVE  /\ inbox' \in [Kids -> Seq(Delivery)] /\ inbox'[k] # <<>>
         /\ Waiting(k)' = Waiting(k) \cup {d}
         /\ inbox[k] # <<>> => Payload(k)' = Payload(k)
         /\ \A j \in Kids : j # k => inbox'[j] = inbox[j]
<1>1. inbox \in [Kids -> Seq(Delivery)]
  BY DEF Typed, TypeOK
<1> DEFINE s == inbox[k]
<1>2. s \in Seq(Delivery)
  BY <1>1
<1>3. inbox'[k] = Append(s, d) /\ \A j \in Kids : j # k => inbox'[j] = inbox[j]
  BY <1>1 DEF Joins
<1>4. inbox' \in [Kids -> Seq(Delivery)]
  BY <1>1, <1>2 DEF Joins
<1> HIDE DEF s
<1>5. /\ Append(s, d) \in Seq(Delivery)
      /\ Len(Append(s, d)) = Len(s) + 1 /\ Len(s) \in Nat
      /\ Append(s, d)[Len(s) + 1] = d
      /\ \A i \in 1 .. Len(s) : Append(s, d)[i] = s[i]
  BY <1>2
<1>6. {Append(s, d)[i] : i \in 1 .. Len(s) + 1} = {s[i] : i \in 1 .. Len(s)} \cup {d}
  BY <1>5
<1>7. Append(s, d) # <<>>
  BY <1>5
<1>8. s # <<>> => Head(Append(s, d)) = Head(s)
  BY <1>2, <1>5
<1>. QED
  BY <1>3, <1>4, <1>5, <1>6, <1>7, <1>8 DEF Waiting, Payload, s

LEMMA Leaving ==
  ASSUME Typed, NEW k \in Kids, Leaves(k)
  PROVE  /\ inbox' \in [Kids -> Seq(Delivery)]
         /\ Waiting(k)' \subseteq Waiting(k)
         /\ \A j \in Kids : j # k => inbox'[j] = inbox[j]
<1>1. inbox \in [Kids -> Seq(Delivery)]
  BY DEF Typed, TypeOK
<1> DEFINE s == inbox[k]
<1>2. s \in Seq(Delivery) /\ s # <<>>
  BY <1>1 DEF Leaves
<1>3. inbox'[k] = Tail(s) /\ \A j \in Kids : j # k => inbox'[j] = inbox[j]
  BY <1>1 DEF Leaves
<1>4. inbox' \in [Kids -> Seq(Delivery)]
  BY <1>1, <1>2 DEF Leaves
<1> HIDE DEF s
<1>5. /\ Len(s) \in Nat /\ Len(Tail(s)) = Len(s) - 1
      /\ \A i \in 1 .. Len(s) - 1 : Tail(s)[i] = s[i + 1]
  BY <1>2
<1>6. {Tail(s)[i] : i \in 1 .. Len(s) - 1} \subseteq {s[i] : i \in 1 .. Len(s)}
  BY <1>5
<1>. QED
  BY <1>3, <1>4, <1>5, <1>6 DEF Waiting, s

(* The inbox of an issue that nothing joins or leaves.                     *)
LEMMA Standing ==
  ASSUME NEW k \in Kids, inbox'[k] = inbox[k]
  PROVE  Payload(k)' = Payload(k) /\ Waiting(k)' = Waiting(k)
  BY DEF Payload, Waiting

LEMMA SameAnswer ==
  ASSUME NEW k \in Kids, Payload(k)' = Payload(k)
  PROVE  Answer(k)' = Answer(k) /\ (BugFails(k)' <=> BugFails(k))
  BY DEF Answer, BugFails, NamedBug, Bears, CasePasses, CaseFails, CaseSkips, BugPasses, BugCloses,
         Changes, Fails, NoEffect

LEMMA CloseTells ==
  ASSUME Typed, NEW k \in Kids, Close(k)
  PROVE  \/ UNCHANGED inbox
         \/ \E d \in Delivery : Joins(k, d) /\ d.kid.labels = kid[k].labels
<1> DEFINE d == [says |-> "closed", kid |-> kid'[k]]
<1>1. kid'[k] = Closed(k)
  BY Closes DEF Alters, Typed
<1>2. d \in Delivery /\ d.kid.labels = kid[k].labels
  BY <1>1, ClosedFields DEF Delivery, Typed
<1>3. inbox' = inbox \/ inbox' = [inbox EXCEPT ![k] = Append(@, d)]
  BY DEF Close
<1>. QED
  BY <1>2, <1>3 DEF Joins

LEMMA InboxMoves ==
  ASSUME Typed, [Next]_vars
  PROVE  \/ UNCHANGED inbox
         \/ \E k \in Kids : Leaves(k) /\ UNCHANGED kid /\ doing' = [doing EXCEPT ![k] = Idle]
         \/ \E k \in Kids, d \in Delivery :
              /\ Joins(k, d) /\ d.kid.labels = kid[k].labels
              /\ kid[k].there \/ inbox[k] # <<>>
<1>1. ASSUME NEW k \in Kids, NEW what \in {"passed", "failed", "skip", "closed"}, Says(k, what)
      PROVE  \E d \in Delivery : /\ Joins(k, d) /\ d.kid.labels = kid[k].labels
                                 /\ kid[k].there \/ inbox[k] # <<>>
  <2> DEFINE d == [says |-> what, kid |-> kid[k]]
  <2>1. d \in Delivery /\ d.kid = kid[k]
    BY KidTypes DEF Delivery, Typed
  <2>2. inbox' = [inbox EXCEPT ![k] = Append(@, d)] /\ kid[k].there
    BY <1>1 DEF Says
  <2>. QED
    BY <2>1, <2>2 DEF Joins
<1>2. ASSUME NEW k \in Kids, Close(k), ~UNCHANGED inbox
      PROVE  \E d \in Delivery : /\ Joins(k, d) /\ d.kid.labels = kid[k].labels
                                 /\ kid[k].there \/ inbox[k] # <<>>
  <2>1. inbox[k] # <<>>
    BY <1>2 DEF Close, Typed, HandsFull
  <2>. QED
    BY <1>2, <2>1, CloseTells
<1>3. ASSUME NEW k \in Kids, EndOfDelivery(k), inbox[k] # <<>>
      PROVE  Leaves(k) /\ doing' = [doing EXCEPT ![k] = Idle]
  BY <1>3 DEF EndOfDelivery, Leaves
<1>4. ASSUME NEW k \in Kids, Route(k) \/ End(k) \/ CallRaises(k)
      PROVE  /\ UNCHANGED kid
             /\ UNCHANGED inbox \/ (Leaves(k) /\ doing' = [doing EXCEPT ![k] = Idle])
  <2>1. UNCHANGED kid
    BY <1>4 DEF Route, End, CallRaises, github
  <2>2. UNCHANGED inbox \/ (EndOfDelivery(k) /\ inbox[k] # <<>>)
    BY <1>4 DEF Route, End, CallRaises, Typed, HandsFull
  <2>. QED
    BY <1>3, <2>1, <2>2
<1>5. CASE \E k \in Kids : \/ Verdict(k, "passed") \/ Verdict(k, "failed")
                            \/ SkipCase(k) \/ CloseByHand(k)
  BY <1>1, <1>5 DEF Verdict, SkipCase, CloseByHand
<1>6. CASE \E k \in Kids : Close(k)
  BY <1>2, <1>6
<1>7. CASE \E k \in Kids : Route(k) \/ End(k) \/ CallRaises(k)
  BY <1>4, <1>7
<1>8. CASE UNCHANGED inbox
  BY <1>8
<1>. QED
  BY <1>5, <1>6, <1>7, <1>8, Sorts
  DEF Next, People, OnEpic, CommentBug, FileBug, Land, Dispatch, KidStep, FileFix, LinkFix, Drop,
      Add, EpicStep, RouteEpic, ReleaseToStaging, SkipDrop, SkipAdd, SkipClose, EndOfSkip,
      EpicCallRaises, ReportStep, OpenBug, Retitle, LabelBug, FileBugFix, LinkBugFix, ReportRaises,
      Restart, table, vars

(* The same for the inbox of the epic.                                     *)
LEMMA EpicInboxMoves ==
  ASSUME Typed, [Next]_vars
  PROVE  /\ epicInbox' \in Seq(EpicDelivery)
         /\ \/ UNCHANGED epicInbox
            \/ /\ epicInbox # <<>> /\ epicInbox' = Tail(epicInbox)
               /\ WaitingOnEpic' \subseteq WaitingOnEpic /\ epicDoing'.at = "idle"
            \/ \E d \in EpicDelivery :
                 /\ epicInbox' = Append(epicInbox, d) /\ WaitingOnEpic' = WaitingOnEpic \cup {d}
                 /\ \A b \in d.open : kid[b].there /\ Seen(kid[b].labels)
                 /\ UNCHANGED <<kid, epicDoing, reported>>
                 /\ epicInbox # <<>> => EpicPayload' = EpicPayload
<1>1. epicInbox \in Seq(EpicDelivery)
  BY DEF Typed, TypeOK
<1>2. ASSUME NEW d \in EpicDelivery, epicInbox' = Append(epicInbox, d)
      PROVE  /\ epicInbox' \in Seq(EpicDelivery) /\ WaitingOnEpic' = WaitingOnEpic \cup {d}
             /\ epicInbox # <<>> => EpicPayload' = EpicPayload
  <2>1. /\ epicInbox' \in Seq(EpicDelivery)
        /\ epicInbox # <<>> => Head(epicInbox') = Head(epicInbox)
        /\ Len(epicInbox') = Len(epicInbox) + 1 /\ Len(epicInbox) \in Nat
        /\ epicInbox'[Len(epicInbox) + 1] = d
        /\ \A i \in 1 .. Len(epicInbox) : epicInbox'[i] = epicInbox[i]
    BY <1>1, <1>2
  <2>2. {epicInbox'[i] : i \in 1 .. Len(epicInbox) + 1}
          = {epicInbox[i] : i \in 1 .. Len(epicInbox)} \cup {d}
    BY <2>1
  <2>. QED
    BY <2>1, <2>2 DEF WaitingOnEpic, EpicPayload
<1>3. ASSUME epicInbox # <<>>, epicInbox' = Tail(epicInbox)
      PROVE  epicInbox' \in Seq(EpicDelivery) /\ WaitingOnEpic' \subseteq WaitingOnEpic
  <2>1. /\ epicInbox' \in Seq(EpicDelivery)
        /\ Len(epicInbox) \in Nat /\ Len(epicInbox') = Len(epicInbox) - 1
        /\ \A i \in 1 .. Len(epicInbox) - 1 : epicInbox'[i] = epicInbox[i + 1]
    BY <1>1, <1>3
  <2>2. {epicInbox'[i] : i \in 1 .. Len(epicInbox) - 1}
          \subseteq {epicInbox[i] : i \in 1 .. Len(epicInbox)}
    BY <2>1
  <2>. QED
    BY <2>1, <2>2 DEF WaitingOnEpic
<1>4. ASSUME NEW what \in {"approved", "skip"}, OnEpic(what)
      PROVE  \E d \in EpicDelivery :
               /\ epicInbox' = Append(epicInbox, d)
               /\ \A b \in d.open : kid[b].there /\ Seen(kid[b].labels)
               /\ UNCHANGED <<kid, epicDoing, reported>>
  <2> DEFINE d == [says |-> what, at |-> epic, open |-> {b \in Bugs :
                     kid[b].there /\ ~kid[b].closed /\ kid[b].labels \cap {"open", "retest"} # {}}]
  <2>1. d \in EpicDelivery /\ \A b \in d.open : kid[b].there /\ Seen(kid[b].labels)
    BY DEF EpicDelivery, Typed, TypeOK, Seen
  <2>2. epicInbox' = Append(epicInbox, d) /\ UNCHANGED <<kid, epicDoing, reported>>
    BY <1>4 DEF OnEpic, github
  <2>. QED
    BY <2>1, <2>2
<1>5. CASE OnEpic("approved") \/ OnEpic("skip")
  <2>1. PICK d \in EpicDelivery :
          /\ epicInbox' = Append(epicInbox, d)
          /\ \A b \in d.open : kid[b].there /\ Seen(kid[b].labels)
          /\ UNCHANGED <<kid, epicDoing, reported>>
    BY <1>4, <1>5
  <2>. QED
    BY <1>2, <2>1
<1>6. CASE RouteEpic \/ ReleaseToStaging \/ EndOfSkip \/ EpicCallRaises
  <2>1. \/ UNCHANGED epicInbox
        \/ epicInbox # <<>> /\ epicInbox' = Tail(epicInbox) /\ epicDoing'.at = "idle"
    BY <1>6 DEF RouteEpic, ReleaseToStaging, EndOfSkip, EpicCallRaises, EndOfEpicDelivery,
                NotSkipping, NextCase, Typed, HandsFull
  <2>. QED
    BY <1>1, <1>3, <2>1
<1>7. CASE UNCHANGED epicInbox
  BY <1>1, <1>7
<1>. QED
  BY <1>5, <1>6, <1>7
  DEF Next, People, Verdict, SkipCase, CloseByHand, CommentBug, FileBug, Land, Dispatch, KidStep,
      Route, FileFix, LinkFix, Drop, Add, Close, End, CallRaises, EpicStep, SkipDrop, SkipAdd,
      SkipClose, ReportStep, OpenBug, Retitle, LabelBug, FileBugFix, LinkBugFix, ReportRaises,
      Restart, table, vars

LEMMA InitTyped == Init => Typed
<1> SUFFICES ASSUME Init PROVE Typed
  OBVIOUS
<1>1. kid \in [Kids -> Kid]
  <2>1. ASSUME NEW c \in Cases PROVE Deps[c] \subseteq Tasks
    BY TestsAssumption DEF Cases, Tasks
  <2>2. ASSUME NEW k \in Kids PROVE kid[k] \in Kid
    BY <2>1, <2>2, Sorts DEF Init, NoKid, Kid
  <2>. QED
    BY <2>2 DEF Init
<1>2. doing \in [Kids -> Move] /\ \A k \in Kids : doing[k].at = "idle"
  BY Sorts DEF Init, Idle
<1>4. events \in 0 .. MaxEvents /\ errors \in 0 .. events
  <2>1. events = 0 /\ errors = 0
    BY DEF Init
  <2>. QED
    BY <2>1, Sorts
<1>5. /\ task \in [Tasks -> {"none", "building", "landed", "staged"}]
      /\ inbox \in [Kids -> Seq(Delivery)] /\ epicInbox \in Seq(EpicDelivery)
  <2>1. <<>> \in Seq(Delivery) /\ <<>> \in Seq(EpicDelivery)
    OBVIOUS
  <2>2. /\ inbox = [k \in Kids |-> <<>>] /\ epicInbox = <<>>
        /\ task = [t \in Tasks |-> IF t <= Built THEN "building" ELSE "none"]
    BY DEF Init
  <2>. QED
    BY <2>1, <2>2
<1>6. /\ report \in [Reports -> [at : {"none", "asked", "opening", "labelling", "filing", "linking",
                                      "done"},
                                 bug : SUBSET Bugs, fix : SUBSET Tasks, filed : BOOLEAN]]
      /\ \A r \in Reports : report[r].at = "none" /\ ~report[r].filed
  BY DEF Init, NoReport
<1>7. /\ epicDoing \in [at : {"idle", "releasing", "dropping", "adding", "closing", "skipped"},
                        todo : [Cases -> SUBSET Labels], left : SUBSET Cases]
      /\ epicDoing.at = "idle" /\ epicDoing.left = {}
  BY DEF Init, NotSkipping
<1>8. TypeOK
  BY <1>1, <1>2, <1>4, <1>5, <1>6, <1>7 DEF Init, TypeOK
<1>. QED
  BY <1>2, <1>6, <1>7, <1>8 DEF Typed, HandsFull

(* The thread of k goes on to m, and no other moves.                       *)
LEMMA DoingTyped ==
  ASSUME Typed, [Next]_vars
  PROVE  doing' \in [Kids -> Move] /\ \A k \in Kids : doing'[k].at # "idle" => inbox'[k] # <<>>
<1>1. CASE UNCHANGED doing
  <2>1. ASSUME NEW k \in Kids, doing[k].at # "idle" PROVE inbox'[k] # <<>>
    <3>1. inbox[k] # <<>>
      BY <2>1 DEF Typed, HandsFull
    <3>2. CASE \E j \in Kids, d \in Delivery : Joins(j, d)
      BY <3>1, <3>2, Joining
    <3>3. CASE \E j \in Kids : Leaves(j) /\ doing' = [doing EXCEPT ![j] = Idle]
      <4>1. PICK j \in Kids : Leaves(j) /\ doing' = [doing EXCEPT ![j] = Idle]
        BY <3>3
      <4>2. j # k
        BY <1>1, <2>1, <4>1 DEF Idle, Typed, TypeOK
      <4>. QED
        BY <3>1, <4>1, <4>2, Leaving
    <3>. QED
      BY <3>1, <3>2, <3>3, InboxMoves
  <2>. QED
    BY <1>1, <2>1 DEF Typed, TypeOK
<1>2. ASSUME NEW k \in Kids, NEW m \in Move, doing' = [doing EXCEPT ![k] = m],
             m.at = "idle" \/ inbox'[k] # <<>>,
             \A j \in Kids : j # k => inbox'[j] = inbox[j]
      PROVE  doing' \in [Kids -> Move] /\ \A j \in Kids : doing'[j].at # "idle" => inbox'[j] # <<>>
  BY <1>2 DEF Typed, TypeOK, HandsFull
<1>3. ASSUME NEW k \in Kids, Route(k) \/ End(k) \/ CallRaises(k)
      PROVE  doing' \in [Kids -> Move] /\ \A j \in Kids : doing'[j].at # "idle" => inbox'[j] # <<>>
  <2>1. CASE EndOfDelivery(k) /\ inbox[k] # <<>>
    <3>1. Leaves(k) /\ doing' = [doing EXCEPT ![k] = Idle] /\ Idle.at = "idle"
      BY <2>1 DEF EndOfDelivery, Leaves, Idle
    <3>. QED
      BY <1>2, <3>1, Leaving, Sorts
  <2>2. CASE Route(k) /\ UNCHANGED inbox /\ doing' = [doing EXCEPT ![k] = Answer(k)]
    <3>1. inbox[k] # <<>>
      BY <2>2 DEF Route
    <3>2. Answer(k) \in Move
      BY <3>1, InHand, AnswerFacts
    <3>. QED
      BY <1>2, <2>2, <3>1, <3>2
  <2>3. CASE CallRaises(k) /\ UNCHANGED inbox /\ \E at \in {"dropping", "ending"} : Goes(k, at)
    <3>1. PICK at \in {"dropping", "ending"} : Goes(k, at)
      BY <2>3
    <3> DEFINE m == [doing[k] EXCEPT !.at = at]
    <3>2. m \in Move /\ doing' = [doing EXCEPT ![k] = m]
      BY <3>1, KidTypes DEF Goes, Move, Typed
    <3>3. inbox[k] # <<>>
      BY <2>3 DEF CallRaises, Typed, HandsFull
    <3>. QED
      BY <1>2, <2>3, <3>2, <3>3
  <2>4. \/ EndOfDelivery(k) /\ inbox[k] # <<>>
        \/ Route(k) /\ UNCHANGED inbox /\ doing' = [doing EXCEPT ![k] = Answer(k)]
        \/ CallRaises(k) /\ UNCHANGED inbox /\ \E at \in {"dropping", "ending"} : Goes(k, at)
    BY <1>3 DEF Route, End, CallRaises, Typed, HandsFull
  <2>. QED
    BY <2>1, <2>2, <2>3, <2>4
<1>4. ASSUME NEW k \in Kids, FileFix(k) \/ LinkFix(k) \/ Drop(k) \/ Add(k)
      PROVE  doing' \in [Kids -> Move] /\ \A j \in Kids : doing'[j].at # "idle" => inbox'[j] # <<>>
  <2>1. UNCHANGED inbox /\ inbox[k] # <<>>
    BY <1>4 DEF FileFix, LinkFix, Drop, Add, table, Typed, HandsFull
  <2>2. \E m \in Move : doing' = [doing EXCEPT ![k] = m]
    <3>1. CASE FileFix(k)
      <4>1. PICK t \in Tasks : doing' = [doing EXCEPT ![k].at = "linking", ![k].fix = {t}]
        BY <3>1 DEF FileFix
      <4> DEFINE m == [doing[k] EXCEPT !.at = "linking", !.fix = {t}]
      <4>2. doing' = [doing EXCEPT ![k] = m]
        BY <4>1
      <4>3. m \in Move
        BY KidTypes DEF Move, Typed
      <4>. QED
        BY <4>2, <4>3
    <3>2. CASE \E at \in {"dropping", "adding", "closing", "ending"} : Goes(k, at)
      <4>1. PICK at \in {"dropping", "adding", "closing", "ending"} : Goes(k, at)
        BY <3>2
      <4> DEFINE m == [doing[k] EXCEPT !.at = at]
      <4>2. m \in Move /\ doing' = [doing EXCEPT ![k] = m]
        BY <4>1, KidTypes DEF Goes, Move, Typed
      <4>. QED
        BY <4>2
    <3>. QED
      BY <1>4, <3>1, <3>2 DEF LinkFix, Drop, Add
  <2>. QED
    BY <1>2, <2>1, <2>2
<1>5. ASSUME NEW k \in Kids, Close(k)
      PROVE  doing' \in [Kids -> Move] /\ \A j \in Kids : doing'[j].at # "idle" => inbox'[j] # <<>>
  <2> DEFINE m == [doing[k] EXCEPT !.at = "ending"]
  <2>1. m \in Move /\ doing' = [doing EXCEPT ![k] = m]
    BY <1>5, KidTypes DEF Close, Goes, Move, Typed
  <2>2. inbox[k] # <<>> /\ inbox \in [Kids -> Seq(Delivery)]
    BY <1>5 DEF Close, Typed, TypeOK, HandsFull
  <2>3. inbox'[k] # <<>> /\ \A j \in Kids : j # k => inbox'[j] = inbox[j]
    BY <1>5, <2>2, CloseTells, Joining
  <2>. QED
    BY <1>2, <2>1, <2>3
<1>6. CASE Restart
  BY <1>6, Sorts DEF Restart, Idle
<1>. QED
  BY <1>1, <1>3, <1>4, <1>5, <1>6
  DEF Next, People, Verdict, SkipCase, CloseByHand, OnEpic, CommentBug, FileBug, Land, Dispatch,
      KidStep, EpicStep, RouteEpic, ReleaseToStaging, SkipDrop, SkipAdd, SkipClose, EndOfSkip,
      EpicCallRaises, ReportStep, OpenBug, Retitle, LabelBug, FileBugFix, LinkBugFix, ReportRaises,
      vars

LEMMA EpicDoingTyped ==
  ASSUME Typed, [Next]_vars
  PROVE  /\ epicDoing' \in [at : {"idle", "releasing", "dropping", "adding", "closing", "skipped"},
                            todo : [Cases -> SUBSET Labels], left : SUBSET Cases]
         /\ epicDoing'.left = {} <=> epicDoing'.at \in {"idle", "releasing", "skipped"}
         /\ epicDoing'.at # "idle" => epicInbox' # <<>>
<1> DEFINE Doing == [at : {"idle", "releasing", "dropping", "adding", "closing", "skipped"},
                     todo : [Cases -> SUBSET Labels], left : SUBSET Cases]
<1>1. /\ epicDoing \in Doing
      /\ epicDoing.left = {} <=> epicDoing.at \in {"idle", "releasing", "skipped"}
      /\ epicDoing.at # "idle" => epicInbox # <<>>
  BY DEF Typed, TypeOK, HandsFull
<1>2. NotSkipping \in Doing /\ NotSkipping.left = {} /\ NotSkipping.at = "idle"
  BY DEF NotSkipping
<1>3. CASE UNCHANGED epicDoing
  <2>1. epicDoing.at # "idle" => epicInbox' # <<>>
    <3>1. CASE \E d \in EpicDelivery : epicInbox' = Append(epicInbox, d)
      <4>1. PICK d \in EpicDelivery : epicInbox' = Append(epicInbox, d)
        BY <3>1
      <4>2. epicInbox \in Seq(EpicDelivery)
        BY DEF Typed, TypeOK
      <4>3. /\ Append(epicInbox, d) \in Seq(EpicDelivery)
            /\ Len(Append(epicInbox, d)) = Len(epicInbox) + 1
        BY <4>2
      <4>. QED
        BY <4>1, <4>2, <4>3
    <3>. QED
      BY <1>1, <1>3, <3>1, EpicInboxMoves
  <2>. QED
    BY <1>1, <1>3, <2>1
<1>4. CASE RouteEpic
  <2>1. CASE epicDoing' = [epicDoing EXCEPT !.at = "releasing"] /\ UNCHANGED epicInbox
    BY <1>1, <1>4, <2>1 DEF RouteEpic
  <2>2. CASE /\ OpenCases # {} /\ UNCHANGED epicInbox
             /\ epicDoing' = [at |-> "dropping", left |-> OpenCases,
                              todo |-> [c \in Cases |-> kid[c].labels \cap {"manual", "failed"}]]
    <3>1. OpenCases \in SUBSET Cases
      BY DEF OpenCases
    <3>2. [c \in Cases |-> kid[c].labels \cap {"manual", "failed"}] \in [Cases -> SUBSET Labels]
      BY DEF Labels
    <3>. QED
      BY <1>4, <2>2, <3>1, <3>2 DEF RouteEpic
  <2>3. CASE UNCHANGED epicDoing
    BY <1>3, <2>3
  <2>. QED
    BY <1>4, <2>1, <2>2, <2>3 DEF RouteEpic
<1>5. CASE SkipDrop \/ SkipAdd
  BY <1>1, <1>5 DEF SkipDrop, SkipAdd, table
<1>6. CASE NextCase /\ UNCHANGED epicInbox /\ epicDoing.at = "closing"
  BY <1>1, <1>6 DEF NextCase
<1>7. CASE epicDoing' = NotSkipping
  BY <1>2, <1>7
<1>8. CASE /\ epicDoing' = [epicDoing EXCEPT !.at = "releasing"] /\ UNCHANGED epicInbox
           /\ epicDoing.at = "idle" /\ epicInbox # <<>>
  BY <1>1, <1>8
<1>. QED
  BY <1>3, <1>4, <1>5, <1>6, <1>7, <1>8
  DEF Next, People, Verdict, SkipCase, CloseByHand, OnEpic, CommentBug, FileBug, Land, Dispatch,
      KidStep, Route, FileFix, LinkFix, Drop, Add, Close, End, CallRaises, EpicStep,
      ReleaseToStaging, SkipClose, EndOfSkip, EpicCallRaises, EndOfEpicDelivery, ReportStep,
      OpenBug, Retitle, LabelBug, FileBugFix, LinkBugFix, ReportRaises, Restart, table, vars

Report == [at : {"none", "asked", "opening", "labelling", "filing", "linking", "done"},
           bug : SUBSET Bugs, fix : SUBSET Tasks, filed : BOOLEAN]

(* What raising a bug does to a report: it goes on, with its bug and with  *)
(* how it was filed, or it opens a bug, or it is taken again.              *)
GoesOn(r, x) ==
  /\ x \in Report /\ report' = [report EXCEPT ![r] = x]
  /\ x.filed = report[r].filed /\ x.bug = report[r].bug /\ report[r].at # "done"

LEMMA ReportMoves ==
  ASSUME Typed, NEW r \in Reports, ReportStep(r) \/ ReportRaises(r) \/ CommentBug(r), ~OpenBug(r)
  PROVE  \E x \in Report :
           /\ GoesOn(r, x)
           /\ Retitle(r) => x.at = "labelling"
           /\ LinkBugFix(r) => x.at = "done"
           /\ x.at \in {"labelling", "filing", "linking"} =>
                report[r].filed \/ report[r].at \in {"labelling", "filing", "linking"}
           /\ x.at = "labelling" => Retitle(r) \/ ReportRaises(r)
<1>1. report[r] \in Report /\ report[r].fix \subseteq Tasks
  BY DEF Typed, TypeOK, Report
<1>2. ASSUME NEW at \in {"asked", "labelling", "filing", "done"},
             report' = [report EXCEPT ![r].at = at]
      PROVE  \E x \in Report : /\ report' = [report EXCEPT ![r] = x] /\ x.at = at
                               /\ x.filed = report[r].filed /\ x.bug = report[r].bug
  <2> DEFINE x == [report[r] EXCEPT !.at = at]
  <2>1. x \in Report /\ x.at = at /\ x.filed = report[r].filed /\ x.bug = report[r].bug
    BY <1>1 DEF Report
  <2>2. report' = [report EXCEPT ![r] = x]
    BY <1>2
  <2>. QED
    BY <2>1, <2>2
<1>3. CASE FileBugFix(r)
  <2>1. PICK t \in Tasks : report' = [report EXCEPT ![r].at = "linking", ![r].fix = {t}]
    BY <1>3 DEF FileBugFix
  <2> DEFINE x == [report[r] EXCEPT !.at = "linking", !.fix = {t}]
  <2>2. report' = [report EXCEPT ![r] = x]
    BY <2>1
  <2>3. x \in Report /\ x.at = "linking" /\ x.filed = report[r].filed /\ x.bug = report[r].bug
    BY <1>1 DEF Report
  <2>4. report[r].at = "filing"
    BY <1>3 DEF FileBugFix
  <2>. QED
    BY <2>2, <2>3, <2>4 DEF GoesOn, Retitle, LinkBugFix
<1>4. CASE Retitle(r)
  <2>1. report' = [report EXCEPT ![r].at = "labelling"] /\ report[r].at = "asked" /\ report[r].filed
    BY <1>4 DEF Retitle
  <2>. QED
    BY <1>2, <1>4, <2>1 DEF GoesOn, LinkBugFix
<1>5. CASE LabelBug(r)
  <2>1. report' = [report EXCEPT ![r].at = "filing"] /\ report[r].at = "labelling"
    BY <1>5 DEF LabelBug
  <2>. QED
    BY <1>2, <2>1 DEF GoesOn, Retitle, LinkBugFix
<1>6. CASE LinkBugFix(r)
  <2>1. report' = [report EXCEPT ![r].at = "done"] /\ report[r].at = "linking"
    BY <1>6 DEF LinkBugFix
  <2>. QED
    BY <1>2, <2>1 DEF GoesOn, Retitle
<1>7. CASE ReportRaises(r) /\ ~Retitle(r) /\ ~LinkBugFix(r)
  <2>1. PICK at \in {"labelling", "done"} :
          /\ report' = [report EXCEPT ![r].at = at]
          /\ at = "labelling" => report[r].filed
    BY <1>7 DEF ReportRaises
  <2>2. report[r].at # "done"
    BY <1>7 DEF ReportRaises
  <2>. QED
    BY <1>2, <1>7, <2>1, <2>2 DEF GoesOn
<1>8. CASE CommentBug(r)
  <2>1. report' = [report EXCEPT ![r].at = "asked"] /\ report[r].at = "none"
    BY <1>8 DEF CommentBug
  <2>. QED
    BY <1>2, <2>1 DEF GoesOn, Retitle, LinkBugFix
<1>. QED
  BY <1>3, <1>4, <1>5, <1>6, <1>7, <1>8 DEF ReportStep

LEMMA FileMoves ==
  ASSUME Typed, NEW r \in Reports, NEW b \in Bugs, FileBug(r, b)
  PROVE  \E x \in Report : /\ report' = [report EXCEPT ![r] = x] /\ report[r].at = "none"
                           /\ x.at = "asked" /\ x.filed /\ x.bug = {b}
<1> DEFINE x == [NoReport EXCEPT !.at = "asked", !.bug = {b}, !.filed = TRUE]
<1>1. x \in Report /\ x.at = "asked" /\ x.filed /\ x.bug = {b}
  BY DEF NoReport, Report
<1>2. report' = [report EXCEPT ![r] = x] /\ report[r].at = "none"
  BY DEF FileBug
<1>. QED
  BY <1>1, <1>2

LEMMA OpenMoves ==
  ASSUME Typed, NEW r \in Reports, OpenBug(r)
  PROVE  \E b \in Bugs, x \in Kid, y \in Report :
           /\ Alters(b, x) /\ Fresh(b, x) /\ report[r].at = "asked"
           /\ report' = [report EXCEPT ![r] = y] /\ y.at = "filing" /\ y.bug = {b}
<1>1. PICK b \in Bugs, x \in Kid :
        /\ Alters(b, x) /\ Fresh(b, x)
        /\ report' = [report EXCEPT ![r].at = "filing", ![r].bug = {b}]
  BY Opens DEF Typed
<1> DEFINE y == [report[r] EXCEPT !.at = "filing", !.bug = {b}]
<1>2. report[r] \in Report /\ report[r].at = "asked"
  BY DEF Typed, TypeOK, Report, OpenBug
<1>3. y \in Report /\ y.at = "filing" /\ y.bug = {b}
  BY <1>2 DEF Report
<1>4. report' = [report EXCEPT ![r] = y]
  BY <1>1
<1>. QED
  BY <1>1, <1>2, <1>3, <1>4

(* A stop takes a report that is not done with back to its start.          *)
TakenAgain(r) ==
  IF report[r].at \in {"none", "done"} THEN report[r]
  ELSE [report[r] EXCEPT !.at = "asked", !.fix = {},
                         !.bug = IF report[r].filed THEN @ ELSE {}]

LEMMA RestartMoves ==
  ASSUME Typed, Restart, NEW r \in Reports
  PROVE  /\ report' \in [Reports -> Report] /\ report'[r].filed = report[r].filed
         /\ report'[r].bug \subseteq report[r].bug
         /\ report'[r].at \in {"none", "asked", "done"}
         /\ report[r].at = "done" <=> report'[r].at = "done"
         /\ report[r].filed => report'[r].bug = report[r].bug
<1>1. report' = [q \in Reports |-> TakenAgain(q)]
  BY DEF Restart, TakenAgain
<1>2. ASSUME NEW q \in Reports
      PROVE  LET x == TakenAgain(q) IN
             /\ x \in Report /\ x.filed = report[q].filed /\ x.bug \subseteq report[q].bug
             /\ x.at \in {"none", "asked", "done"}
             /\ report[q].at = "done" <=> x.at = "done"
             /\ report[q].filed => x.bug = report[q].bug
  <2>1. report[q] \in Report
    BY DEF Typed, TypeOK, Report
  <2>. QED
    BY <2>1 DEF Report, TakenAgain
<1>. QED
  BY <1>1, <1>2

LEMMA ReportTyped ==
  ASSUME Typed, [Next]_vars
  PROVE  /\ report' \in [Reports -> Report]
         /\ \A r \in Reports :
              report'[r].filed \/ report'[r].at \in {"labelling", "filing", "linking"}
                => report'[r].bug # {}
<1>1. /\ report \in [Reports -> Report]
      /\ \A r \in Reports : report[r].filed \/ report[r].at \in {"labelling", "filing", "linking"}
                              => report[r].bug # {}
  BY DEF Typed, TypeOK, HandsFull, Report
<1>2. ASSUME NEW r \in Reports, NEW x \in Report, report' = [report EXCEPT ![r] = x],
             x.filed \/ x.at \in {"labelling", "filing", "linking"} => x.bug # {}
      PROVE  /\ report' \in [Reports -> Report]
             /\ \A q \in Reports :
                  report'[q].filed \/ report'[q].at \in {"labelling", "filing", "linking"}
                    => report'[q].bug # {}
  BY <1>1, <1>2
<1>3. ASSUME NEW r \in Reports, ReportStep(r) \/ ReportRaises(r) \/ CommentBug(r), ~OpenBug(r)
      PROVE  \E x \in Report : /\ report' = [report EXCEPT ![r] = x]
                               /\ x.filed \/ x.at \in {"labelling", "filing", "linking"} =>
                                      x.bug # {}
  BY <1>1, <1>3, ReportMoves DEF GoesOn
<1>4. CASE \E r \in Reports : (ReportStep(r) \/ ReportRaises(r) \/ CommentBug(r)) /\ ~OpenBug(r)
  BY <1>2, <1>3, <1>4
<1>5. CASE \E r \in Reports : OpenBug(r)
  BY <1>2, <1>5, OpenMoves
<1>6. CASE \E r \in Reports, b \in Bugs : FileBug(r, b)
  BY <1>2, <1>6, FileMoves
<1>7. CASE Restart
  <2>1. ASSUME NEW r \in Reports
        PROVE  report'[r].filed \/ report'[r].at \in {"labelling", "filing", "linking"} =>
                 report'[r].bug # {}
    BY <1>1, <1>7, RestartMoves
  <2>2. report' \in [Reports -> Report]
    <3>1. CASE Reports = {}
      BY <1>7, <3>1 DEF Restart
    <3>2. CASE Reports # {}
      BY <1>7, <3>2, RestartMoves
    <3>. QED
      BY <3>1, <3>2
  <2>. QED
    BY <2>1, <2>2
<1>8. CASE UNCHANGED report
  BY <1>1, <1>8
<1>. QED
  BY <1>4, <1>5, <1>6, <1>7, <1>8
  DEF Next, People, Verdict, SkipCase, CloseByHand, OnEpic, Land, Dispatch, KidStep, Route, FileFix,
      LinkFix, Drop, Add, Close, End, CallRaises, EpicStep, RouteEpic, ReleaseToStaging, SkipDrop,
      SkipAdd, SkipClose, EndOfSkip, EpicCallRaises, ReportStep, vars

(* No task is taken back: one that stands where a re-test needs it stays   *)
(* there.                                                                  *)
LEMMA TasksGoOn ==
  ASSUME Typed, [Next]_vars
  PROVE  /\ task' \in [Tasks -> {"none", "building", "landed", "staged"}]
         /\ UNCHANGED policy
         /\ \A t \in Tasks : /\ task[t] = "staged" => task'[t] = "staged"
                             /\ task[t] = "landed" => task'[t] \in {"landed", "staged"}
<1>1. task \in [Tasks -> {"none", "building", "landed", "staged"}]
  BY DEF Typed, TypeOK
<1>2. CASE \E t \in Tasks : Land(t)
  BY <1>1, <1>2 DEF Land
<1>3. CASE ReleaseToStaging
  BY <1>1, <1>3 DEF ReleaseToStaging
<1>4. CASE \/ \E k \in Kids : FileFix(k)
           \/ \E r \in Reports : FileBugFix(r)
  BY <1>1, <1>4 DEF FileFix, FileBugFix, NewTask
<1>5. CASE UNCHANGED <<policy, task>>
  BY <1>1, <1>5
<1>. QED
  BY <1>2, <1>3, <1>4, <1>5
  DEF Next, People, Verdict, SkipCase, CloseByHand, OnEpic, CommentBug, FileBug, Dispatch, KidStep,
      Route, LinkFix, Drop, Add, Close, End, CallRaises, EpicStep, RouteEpic, SkipDrop, SkipAdd,
      SkipClose, EndOfSkip, EpicCallRaises, ReportStep, OpenBug, Retitle, LabelBug, LinkBugFix,
      ReportRaises, Restart, github, vars

LEMMA CountsTyped ==
  ASSUME Typed, [Next]_vars
  PROVE  events' \in 0 .. MaxEvents /\ errors' \in 0 .. events' /\ errors <= errors'
<1>1. events \in 0 .. MaxEvents /\ errors \in 0 .. events /\ MaxEvents \in Nat
  BY Sorts DEF Typed, TypeOK
<1>2. CASE Happens /\ errors' \in {errors, errors + 1}
  BY <1>1, <1>2 DEF Happens
<1>3. CASE UNCHANGED <<events, errors>>
  BY <1>1, <1>3
<1>4. \A k : CallRaises(k) \/ EpicCallRaises \/ ReportRaises(k) => Happens /\ errors' = errors + 1
  BY DEF CallRaises, EpicCallRaises, ReportRaises, Errs
<1>5. \A k, what : Verdict(k, what) \/ SkipCase(k) \/ CloseByHand(k) => Happens /\ errors' = errors
  BY DEF Verdict, SkipCase, CloseByHand, Says
<1>6. \A t : Land(t) => UNCHANGED <<events, errors>> \/ (Happens /\ errors' = errors + 1)
  BY DEF Land, Errs, bounds
<1>. QED
  BY <1>2, <1>3, <1>4, <1>5, <1>6
  DEF Next, People, OnEpic, CommentBug, FileBug, Dispatch, KidStep, Route, FileFix, LinkFix,
      Drop, Add, Close, End, EpicStep, RouteEpic, ReleaseToStaging, SkipDrop, SkipAdd, SkipClose,
      EndOfSkip, ReportStep, OpenBug, Retitle, LabelBug, FileBugFix, LinkBugFix, Restart, bounds,
      vars

LEMMA StepTyped == Typed /\ [Next]_vars => Typed'
<1> SUFFICES ASSUME Typed, [Next]_vars PROVE Typed'
  OBVIOUS
<1>1. inbox' \in [Kids -> Seq(Delivery)]
  BY InboxMoves, Joining, Leaving DEF Typed, TypeOK
<1>2. policy' \in Policies /\ epic' \in {"design-approved", "epic-ready", "in-staging"}
  <2>1. epic' \in {epic, "epic-ready", "in-staging"}
    BY DEF Next, People, Verdict, SkipCase, CloseByHand, OnEpic, CommentBug, FileBug, Land,
        Dispatch, KidStep, Route, FileFix, LinkFix, Drop, Add, Close, End, CallRaises, EpicStep,
        RouteEpic, ReleaseToStaging, SkipDrop, SkipAdd, SkipClose, EndOfSkip, EpicCallRaises,
        ReportStep, OpenBug, Retitle, LabelBug, FileBugFix, LinkBugFix, ReportRaises, Restart,
        github, vars
  <2>. QED
    BY <2>1, TasksGoOn DEF Typed, TypeOK
<1>3. /\ matrix' \in BOOLEAN /\ asked' \in BOOLEAN
      /\ missed' \subseteq {"raise", "stop", "hand"} /\ withdrawn' \subseteq Cases
  <2>1. /\ matrix \in BOOLEAN /\ asked \in BOOLEAN
        /\ missed \subseteq {"raise", "stop", "hand"} /\ withdrawn \subseteq Cases
    BY DEF Typed, TypeOK
  <2>2. matrix' \in BOOLEAN
    BY <2>1
    DEF Next, People, Verdict, SkipCase, CloseByHand, OnEpic, CommentBug, FileBug, Land, Dispatch,
        KidStep, Route, FileFix, LinkFix, Drop, Add, Close, End, CallRaises, EpicStep, RouteEpic,
        ReleaseToStaging, SkipDrop, SkipAdd, SkipClose, EndOfSkip, EpicCallRaises, ReportStep,
        OpenBug, Retitle, LabelBug, FileBugFix, LinkBugFix, ReportRaises, Restart, github, vars
  <2>3. asked' \in BOOLEAN
    BY <2>1
    DEF Next, People, Verdict, SkipCase, CloseByHand, OnEpic, CommentBug, FileBug, Land, Dispatch,
        KidStep, Route, FileFix, LinkFix, Drop, Add, Close, End, CallRaises, EpicStep, RouteEpic,
        ReleaseToStaging, SkipDrop, SkipAdd, SkipClose, EndOfSkip, EpicCallRaises, ReportStep,
        OpenBug, Retitle, LabelBug, FileBugFix, LinkBugFix, ReportRaises, Restart, vars
  <2>4. \/ missed' \subseteq missed \cup {"raise", "stop"}
        \/ \E k \in Kids : CloseByHand(k)
    BY DEF Next, People, Verdict, SkipCase, CloseByHand, OnEpic, CommentBug, FileBug, Land,
        Dispatch, KidStep, Route, FileFix, LinkFix, Drop, Add, Close, End, CallRaises, EpicStep,
        RouteEpic, ReleaseToStaging, SkipDrop, SkipAdd, SkipClose, EndOfSkip, EpicCallRaises,
        ReportStep, OpenBug, Retitle, LabelBug, FileBugFix, LinkBugFix, ReportRaises, Restart,
        bounds, vars
  <2>5. withdrawn' = withdrawn \/ \E k \in Kids : CloseByHand(k)
    BY DEF Next, People, Verdict, SkipCase, CloseByHand, OnEpic, CommentBug, FileBug, Land,
        Dispatch, KidStep, Route, FileFix, LinkFix, Drop, Add, Close, End, CallRaises, EpicStep,
        RouteEpic, ReleaseToStaging, SkipDrop, SkipAdd, SkipClose, EndOfSkip, EpicCallRaises,
        ReportStep, OpenBug, Retitle, LabelBug, FileBugFix, LinkBugFix, ReportRaises, Restart,
        bounds, vars
  <2>6. ASSUME NEW k \in Kids, CloseByHand(k)
        PROVE  missed' \subseteq missed \cup {"hand"} /\ withdrawn' \subseteq withdrawn \cup Cases
    BY <2>6 DEF CloseByHand
  <2>7. missed' \subseteq {"raise", "stop", "hand"} /\ withdrawn' \subseteq Cases
    BY <2>1, <2>4, <2>5, <2>6
  <2>. QED
    BY <2>2, <2>3, <2>7
<1>4. reported' \subseteq Bugs
  <2>1. CASE ReleaseToStaging
    <3>1. epicInbox # <<>> /\ reported \subseteq Bugs
      BY <2>1 DEF ReleaseToStaging, Typed, TypeOK, HandsFull
    <3>. QED
      BY <2>1, <3>1, EpicInHand DEF ReleaseToStaging
  <2>2. CASE UNCHANGED reported
    BY <2>2 DEF Typed, TypeOK
  <2>. QED
    BY <2>1, <2>2
    DEF Next, People, Verdict, SkipCase, CloseByHand, OnEpic, CommentBug, FileBug, Land, Dispatch,
        KidStep, Route, FileFix, LinkFix, Drop, Add, Close, End, CallRaises, EpicStep, RouteEpic,
        SkipDrop, SkipAdd, SkipClose, EndOfSkip, EpicCallRaises, ReportStep, OpenBug, Retitle,
        LabelBug, FileBugFix, LinkBugFix, ReportRaises, Restart, vars
<1>. QED
  BY <1>1, <1>2, <1>3, <1>4, KidTyped, DoingTyped, EpicDoingTyped, EpicInboxMoves, ReportTyped,
     TasksGoOn, CountsTyped
  DEF Typed, TypeOK, HandsFull, Report

(* TypeOK: the variables keep their types, whatever people, testers and    *)
(* GitHub do: no bug, task or case is touched that there is not.           *)
THEOREM TestTypes == Spec => []TypeOK
<1>1. Typed => TypeOK
  BY DEF Typed
<1>. QED
  BY <1>1, InitTyped, StepTyped, PTL DEF Spec

-----------------------------------------------------------------------------
(***************************************************************************)
(* A closed case has its verdict.                                          *)
(***************************************************************************)

(* A thread that works on keeps its delivery.                              *)
LEMMA HeadStays ==
  ASSUME Typed, [Next]_vars, NEW k \in Kids, inbox[k] # <<>>, doing'[k].at # "idle"
  PROVE  Payload(k)' = Payload(k)
<1>1. CASE \E j \in Kids, d \in Delivery : Joins(j, d)
  BY <1>1, Joining, Standing
<1>2. CASE \E j \in Kids : Leaves(j) /\ doing' = [doing EXCEPT ![j] = Idle]
  <2>1. PICK j \in Kids : Leaves(j) /\ doing' = [doing EXCEPT ![j] = Idle]
    BY <1>2
  <2>2. j # k
    BY <2>1 DEF Idle, Typed, TypeOK
  <2>. QED
    BY <2>1, <2>2, Leaving, Standing
<1>3. CASE UNCHANGED inbox
  BY <1>3 DEF Payload
<1>. QED
  BY <1>1, <1>2, <1>3, InboxMoves

(* It is done, takes up what its payload asks, or goes on with that.       *)
LEMMA Working ==
  ASSUME Typed, [Next]_vars, NEW k \in Kids
  PROVE  \/ doing'[k].at = "idle"
         \/ Route(k) /\ doing'[k] = Answer(k) /\ UNCHANGED inbox
         \/ /\ doing[k].at # "idle" /\ doing'[k].drop = doing[k].drop
            /\ doing'[k].add = doing[k].add /\ doing'[k].closes = doing[k].closes
            /\ doing'[k].at \in {"filing", "linking"} => doing[k].at \in {"filing", "linking"}
            /\ doing'[k].at = "closing" => doing[k].at = "closing" \/ (Add(k) /\ doing[k].closes)
            /\ doing[k].at \in {"filing", "linking", "dropping"} =>
                 doing'[k].at \in {"filing", "linking", "dropping"} \/ Drop(k) \/ CallRaises(k)
<1>1. doing \in [Kids -> Move]
  BY DEF Typed, TypeOK
<1>2. CASE UNCHANGED doing
  BY <1>2
<1>3. CASE Restart
  BY <1>3 DEF Restart, Idle
<1>4. ASSUME NEW j \in Kids, KidStep(j) \/ CallRaises(j), j # k PROVE doing'[k] = doing[k]
  BY <1>1, <1>4 DEF KidStep, Route, FileFix, LinkFix, Drop, Add, Close, End, CallRaises,
                    EndOfDelivery, Goes
<1>5. CASE KidStep(k) \/ CallRaises(k)
  <2>1. CASE EndOfDelivery(k)
    BY <1>1, <2>1 DEF EndOfDelivery, Idle
  <2>2. CASE Route(k) /\ ~EndOfDelivery(k)
    BY <1>1, <2>2 DEF Route
  <2>3. CASE FileFix(k)
    <3>1. PICK t \in Tasks : doing' = [doing EXCEPT ![k].at = "linking", ![k].fix = {t}]
      BY <2>3 DEF FileFix
    <3>2. doing[k].at = "filing" /\ doing[k] \in Move
      BY <1>1, <2>3 DEF FileFix
    <3> DEFINE m == [doing[k] EXCEPT !.at = "linking", !.fix = {t}]
    <3>3. doing' = [doing EXCEPT ![k] = m]
      BY <3>1
    <3>4. /\ m.drop = doing[k].drop /\ m.add = doing[k].add
          /\ m.closes = doing[k].closes /\ m.at = "linking"
      BY <3>2 DEF Move
    <3> HIDE DEF m
    <3>5. doing'[k] = m
      BY <1>1, <3>3
    <3>. QED
      BY <3>2, <3>4, <3>5
  <2>4. ASSUME NEW at, Goes(k, at)
        PROVE  /\ doing'[k].at = at /\ doing'[k].drop = doing[k].drop
               /\ doing'[k].add = doing[k].add /\ doing'[k].closes = doing[k].closes
    BY <1>1, <2>4 DEF Goes, Move
  <2>5. CASE ~EndOfDelivery(k) /\ ~Route(k) /\ ~FileFix(k)
    <3>1. \/ Goes(k, "dropping") \/ Goes(k, "adding") \/ Goes(k, "ending")
          \/ Goes(k, "closing") /\ Add(k) /\ doing[k].closes
      BY <1>5, <2>5 DEF KidStep, LinkFix, Drop, Add, Close, End, CallRaises
    <3>2. doing[k].at # "idle"
      BY <1>5, <2>5 DEF KidStep, LinkFix, Drop, Add, Close, End, CallRaises
    <3>3. doing[k].at \in {"filing", "linking", "dropping"} =>
            Goes(k, "dropping") \/ Drop(k) \/ CallRaises(k)
      BY <1>5, <2>5 DEF KidStep, LinkFix, Add, Close, End
    <3>. QED
      BY <2>4, <3>1, <3>2, <3>3
  <2>. QED
    BY <2>1, <2>2, <2>3, <2>5
<1>. QED
  BY <1>2, <1>3, <1>4, <1>5
  DEF Next, People, Verdict, SkipCase, CloseByHand, OnEpic, CommentBug, FileBug, Land, Dispatch,
      EpicStep, RouteEpic, ReleaseToStaging, SkipDrop, SkipAdd, SkipClose, EndOfSkip,
      EpicCallRaises, ReportStep, OpenBug, Retitle, LabelBug, FileBugFix, LinkBugFix, ReportRaises,
      vars

LEMMA StepAnswers == Typed /\ AsAnswered /\ [Next]_vars => AsAnswered'
<1> SUFFICES ASSUME Typed, AsAnswered, [Next]_vars PROVE AsAnswered'
  OBVIOUS
<1>1. ASSUME NEW k \in Kids, doing'[k].at # "idle"
      PROVE  /\ doing'[k].drop = Answer(k)'.drop /\ doing'[k].add = Answer(k)'.add
             /\ doing'[k].closes = Answer(k)'.closes
             /\ doing'[k].at \in {"filing", "linking"} => Answer(k)'.at = "filing"
  <2>1. CASE Route(k) /\ doing'[k] = Answer(k) /\ UNCHANGED inbox
    <3>1. Answer(k)' = Answer(k)
      BY <2>1, Standing, SameAnswer
    <3>2. Answer(k).at # "linking"
      BY DEF Answer, Changes, Fails, NoEffect, Idle
    <3>. QED
      BY <2>1, <3>1, <3>2
  <2>2. CASE doing[k].at # "idle" /\ ~Route(k)
    <3>1. inbox[k] # <<>>
      BY <2>2 DEF Typed, HandsFull
    <3>2. Answer(k)' = Answer(k)
      BY <1>1, <3>1, HeadStays, SameAnswer
    <3>. QED
      BY <1>1, <2>2, <3>2, Working DEF AsAnswered
  <2>. QED
    BY <1>1, <2>1, <2>2, Working DEF Route
<1>2. ASSUME NEW c \in Cases PROVE epicDoing'.todo[c] \cap Lasting = {}
  <2>1. CASE RouteEpic /\ epicDoing'.at = "dropping"
    <3> DEFINE f == [a \in Cases |-> kid[a].labels \cap {"manual", "failed"}]
    <3>1. \/ epicDoing' = [epicDoing EXCEPT !.at = "releasing"]
          \/ epicDoing' = [at |-> "dropping", left |-> OpenCases, todo |-> f]
          \/ epicDoing' = epicDoing
      BY <2>1 DEF RouteEpic
    <3>2. epicDoing' # [epicDoing EXCEPT !.at = "releasing"]
      BY <2>1 DEF Typed, TypeOK
    <3>3. f[c] \cap Lasting = {}
      BY DEF Lasting
    <3>4. epicDoing.todo[c] \cap Lasting = {}
      BY DEF AsAnswered
    <3> HIDE DEF f
    <3>. QED
      BY <3>1, <3>2, <3>3, <3>4
  <2>2. CASE epicDoing' = NotSkipping
    BY <2>2 DEF NotSkipping
  <2>3. CASE epicDoing'.todo = epicDoing.todo
    BY <2>3 DEF AsAnswered
  <2>4. SkipDrop \/ SkipAdd \/ SkipClose \/ NextCase => epicDoing'.todo = epicDoing.todo
    BY DEF SkipDrop, SkipAdd, SkipClose, NextCase, Typed, TypeOK
  <2>5. RouteEpic /\ epicDoing'.at # "dropping" => epicDoing'.todo = epicDoing.todo
    BY DEF RouteEpic, Typed, TypeOK
  <2>6. epicDoing' = [epicDoing EXCEPT !.at = "releasing"] => epicDoing'.todo = epicDoing.todo
    BY DEF Typed, TypeOK
  <2>. QED
    BY <2>1, <2>2, <2>3, <2>4, <2>5, <2>6
    DEF Next, People, Verdict, SkipCase, CloseByHand, OnEpic, CommentBug, FileBug, Land, Dispatch,
        KidStep, Route, FileFix, LinkFix, Drop, Add, Close, End, CallRaises, EpicStep,
        ReleaseToStaging, EndOfSkip, EpicCallRaises, EndOfEpicDelivery, ReportStep, OpenBug,
        Retitle, LabelBug, FileBugFix, LinkBugFix, ReportRaises, Restart, vars
<1>. QED
  BY <1>1, <1>2 DEF AsAnswered

(* Who changes an issue, and into what.                                    *)
LEMMA Touched ==
  ASSUME Typed, [Next]_vars, NEW k \in Kids, kid'[k] # kid[k]
  PROVE  \/ Dispatch
         \/ (Close(k) \/ CloseByHand(k)) /\ kid'[k] = Closed(k)
         \/ Drop(k) /\ kid'[k] = Relabelled(k, doing[k].drop, {})
         \/ Add(k) /\ kid'[k] = Relabelled(k, {}, doing[k].add)
         \/ LinkFix(k) /\ kid'[k] = Linked(k, Payload(k).kid.blockedBy \cup doing[k].fix)
         \/ \E r \in Reports :
              /\ k = BugOf(r)
              /\ \/ Retitle(r) /\ kid'[k] = Titled(k)
                 \/ LabelBug(r) /\ kid'[k] = Relabelled(k, {}, {"bug", "open"})
                 \/ LinkBugFix(r) /\ kid'[k] = Linked(k, report[r].fix)
         \/ /\ k = Oldest(epicDoing.left) /\ k \in Cases
            /\ \/ SkipDrop /\ kid'[k] = Relabelled(k, epicDoing.todo[k], {})
               \/ SkipAdd /\ kid'[k] = Relabelled(k, {}, {"skipped"})
               \/ SkipClose /\ kid'[k] = Closed(k)
         \/ Fresh(k, kid'[k])
<1> DEFINE Goal ==
         \/ Dispatch
         \/ (Close(k) \/ CloseByHand(k)) /\ kid'[k] = Closed(k)
         \/ Drop(k) /\ kid'[k] = Relabelled(k, doing[k].drop, {})
         \/ Add(k) /\ kid'[k] = Relabelled(k, {}, doing[k].add)
         \/ LinkFix(k) /\ kid'[k] = Linked(k, Payload(k).kid.blockedBy \cup doing[k].fix)
         \/ \E r \in Reports :
              /\ k = BugOf(r)
              /\ \/ Retitle(r) /\ kid'[k] = Titled(k)
                 \/ LabelBug(r) /\ kid'[k] = Relabelled(k, {}, {"bug", "open"})
                 \/ LinkBugFix(r) /\ kid'[k] = Linked(k, report[r].fix)
         \/ /\ k = Oldest(epicDoing.left) /\ k \in Cases
            /\ \/ SkipDrop /\ kid'[k] = Relabelled(k, epicDoing.todo[k], {})
               \/ SkipAdd /\ kid'[k] = Relabelled(k, {}, {"skipped"})
               \/ SkipClose /\ kid'[k] = Closed(k)
         \/ Fresh(k, kid'[k])
<1>1. ASSUME NEW j \in Kids, NEW x, Alters(j, x) PROVE j = k /\ kid'[k] = x
  BY <1>1 DEF Alters
<1>2. ASSUME NEW j \in Kids, Close(j) \/ CloseByHand(j) PROVE Goal
  <2>1. j = k /\ kid'[k] = Closed(j)
    BY <1>1, <1>2, Closes DEF Typed
  <2>. QED
    BY <1>2, <2>1
<1>3. ASSUME NEW j \in Kids, Drop(j) PROVE Goal
  <2>1. j = k /\ kid'[k] = Relabelled(j, doing[j].drop, {})
    BY <1>1, <1>3, Drops DEF Typed
  <2>. QED
    BY <1>3, <2>1
<1>4. ASSUME NEW j \in Kids, Add(j) PROVE Goal
  <2>1. j = k /\ kid'[k] = Relabelled(j, {}, doing[j].add)
    BY <1>1, <1>4, Adds DEF Typed
  <2>. QED
    BY <1>4, <2>1
<1>5. ASSUME NEW j \in Kids, LinkFix(j) PROVE Goal
  <2>1. j = k /\ kid'[k] = Linked(j, Payload(j).kid.blockedBy \cup doing[j].fix)
    BY <1>1, <1>5, Links
  <2>. QED
    BY <1>5, <2>1
<1>6. ASSUME NEW r \in Reports, Retitle(r) \/ LabelBug(r) \/ LinkBugFix(r) PROVE Goal
  <2> DEFINE b == BugOf(r)
  <2>1. b \in Kids
    BY <1>6, Raising, Sorts DEF Retitle, LabelBug, LinkBugFix
  <2>2. \/ Retitle(r) /\ Alters(b, Titled(b))
        \/ LabelBug(r) /\ Alters(b, Relabelled(b, {}, {"bug", "open"}))
        \/ LinkBugFix(r) /\ Alters(b, Linked(b, report[r].fix))
    BY <1>6, Raises
  <2>. QED
    BY <1>1, <2>1, <2>2
<1>7. ASSUME SkipDrop \/ SkipAdd \/ SkipClose PROVE Goal
  <2> DEFINE c == Oldest(epicDoing.left)
  <2>1. c \in Kids /\ c \in Cases
    BY <1>7, Skips DEF SkipDrop, SkipAdd, SkipClose
  <2>2. \/ SkipDrop /\ Alters(c, Relabelled(c, epicDoing.todo[c], {}))
        \/ SkipAdd /\ Alters(c, Relabelled(c, {}, {"skipped"}))
        \/ SkipClose /\ Alters(c, Closed(c))
    BY <1>7, Skips
  <2>. QED
    BY <1>1, <2>1, <2>2
<1>8. ASSUME \E r \in Reports : OpenBug(r) \/ \E b \in Bugs : FileBug(r, b) PROVE Goal
  <2>1. PICK b \in Bugs, x \in Kid : Alters(b, x) /\ Fresh(b, x)
    BY <1>8, Opens DEF Typed
  <2>. QED
    BY <1>1, <2>1, Sorts
<1>9. ASSUME Dispatch PROVE Goal
  BY <1>9
<1>10. \/ Dispatch
       \/ \E j \in Kids : Close(j) \/ CloseByHand(j) \/ Drop(j) \/ Add(j) \/ LinkFix(j)
       \/ \E r \in Reports : Retitle(r) \/ LabelBug(r) \/ LinkBugFix(r)
       \/ SkipDrop \/ SkipAdd \/ SkipClose
       \/ \E r \in Reports : OpenBug(r) \/ \E b \in Bugs : FileBug(r, b)
  BY DEF Next, People, Verdict, SkipCase, OnEpic, CommentBug, Land, KidStep, Route, FileFix, End,
      CallRaises, EpicStep, RouteEpic, ReleaseToStaging, EndOfSkip, EpicCallRaises, ReportStep,
      FileBugFix, ReportRaises, Restart, github, vars
<1> HIDE DEF Goal
<1>11. Goal
  BY <1>2, <1>3, <1>4, <1>5, <1>6, <1>7, <1>8, <1>9, <1>10
<1>. QED
  BY <1>11 DEF Goal

(* A case is closed by its own thread, by the epic's that skips it, or by  *)
(* hand.                                                                   *)
LEMMA ClosedBy ==
  ASSUME Typed, [Next]_vars, NEW c \in Cases, ~kid[c].closed, kid'[c].closed
  PROVE  \/ doing[c].at = "closing" \/ (epicDoing.at = "closing" /\ c = Oldest(epicDoing.left))
         \/ c \in withdrawn'
<1>1. c \in Kids /\ c \notin Bugs /\ TypeOK
  BY Sorts DEF Typed
<1>2. ~Dispatch
  <2>1. {"manual"} \subseteq Labels
    BY DEF Labels
  <2>. QED
    BY <1>1, <2>1, Dispatches, RelabelledFields
<1>3. \A r \in Reports : Retitle(r) \/ LabelBug(r) \/ LinkBugFix(r) => c # BugOf(r)
  BY <1>1, Raising DEF Retitle, LabelBug, LinkBugFix
<1>4. {"skipped"} \subseteq Labels /\ doing[c].add \subseteq Labels /\ ~Fresh(c, kid'[c])
  BY <1>1, KidTypes DEF Labels, Fresh
<1>5. /\ kid'[c] # Relabelled(c, doing[c].drop, {}) /\ kid'[c] # Relabelled(c, {}, doing[c].add)
      /\ kid'[c] # Relabelled(c, epicDoing.todo[c], {}) /\ kid'[c] # Relabelled(c, {}, {"skipped"})
  BY <1>1, <1>4, RelabelledFields
<1>6. LinkFix(c) => kid'[c] # Linked(c, Payload(c).kid.blockedBy \cup doing[c].fix)
  BY <1>1, Links, LinkedFields
<1>7. Close(c) \/ CloseByHand(c) \/ (SkipClose /\ c = Oldest(epicDoing.left))
  BY <1>1, <1>2, <1>3, <1>4, <1>5, <1>6, Touched
<1>. QED
  BY <1>7 DEF Close, CloseByHand, SkipClose

(* What was closed by hand stays known as that.                            *)
LEMMA Withdrawn == [Next]_vars => withdrawn \subseteq withdrawn'
<1>1. \A k : CloseByHand(k) => withdrawn \subseteq withdrawn'
  BY DEF CloseByHand
<1>. QED
  BY <1>1
  DEF Next, People, Verdict, SkipCase, OnEpic, CommentBug, FileBug, Land, Dispatch, KidStep, Route,
      FileFix, LinkFix, Drop, Add, Close, End, CallRaises, EpicStep, RouteEpic, ReleaseToStaging,
      SkipDrop, SkipAdd, SkipClose, EndOfSkip, EpicCallRaises, ReportStep, OpenBug, Retitle,
      LabelBug, FileBugFix, LinkBugFix, ReportRaises, Restart, bounds, vars


LEMMA Settles ==
  ASSUME Typed, AsAnswered, [Next]_vars, NEW c \in Cases, ~Unsettled(c)
  PROVE  ~Unsettled(c)'
  BY KidsGoOn, Sorts DEF Keeps, Unsettled, Lasting

LEMMA StepCases == Typed /\ CaseInv /\ [Next]_vars => CaseInv'
<1> SUFFICES ASSUME Typed, CaseInv, [Next]_vars PROVE CaseInv'
  OBVIOUS
<1> USE DEF CaseInv
<1>1. ASSUME NEW c \in Cases, doing'[c].at = "closing" PROVE ~Unsettled(c)'
  <2>1. c \in Kids
    BY Sorts
  <2>2. CASE Route(c) /\ doing'[c] = Answer(c)
    BY <1>1, <2>2 DEF Answer, Changes, Fails, NoEffect, Idle
  <2>3. CASE doing[c].at = "closing"
    BY <2>3, Settles DEF ClosesLast
  <2>4. CASE Add(c) /\ doing[c].closes
    <3>1. kid'[c] = Relabelled(c, {}, doing[c].add)
      BY <2>1, <2>4, Adds DEF Alters, Typed
    <3>2. doing[c].add = Answer(c).add /\ doing[c].closes = Answer(c).closes /\ inbox[c] # <<>>
      BY <2>1, <2>4 DEF Add, AsAnswered, Typed, HandsFull
    <3>3. doing[c].add \cap {"passed", "skipped"} # {}
      BY <2>1, <2>4, <3>2, InHand, AnswerFacts
    <3>4. doing[c].add \subseteq kid'[c].labels
      BY <2>1, <3>1, KidTypes, RelabelledFields DEF Typed
    <3>. QED
      BY <3>3, <3>4 DEF Unsettled
  <2>. QED
    BY <1>1, <2>1, <2>2, <2>3, <2>4, Working
<1>2. ASSUME epicDoing'.at = "closing" PROVE ~Unsettled(Oldest(epicDoing.left))'
  <2>1. CASE SkipAdd
    <3> DEFINE c == Oldest(epicDoing.left)
    <3>1. c \in Kids /\ kid'[c] = Relabelled(c, {}, {"skipped"}) /\ {"skipped"} \subseteq Labels
      BY <2>1, Skips DEF Alters, SkipAdd, Labels
    <3>2. epicDoing'.left = epicDoing.left
      BY <2>1 DEF SkipAdd, Typed, TypeOK
    <3> HIDE DEF c
    <3>3. "skipped" \in kid'[c].labels
      BY <3>1, RelabelledFields DEF Typed
    <3>. QED
      BY <3>2, <3>3 DEF Unsettled, c, Oldest
  <2>2. CASE UNCHANGED epicDoing
    <3>1. PICK c \in Cases : c = Oldest(epicDoing.left)
      BY <1>2, <2>2, Skips
    <3>2. ~Unsettled(c)
      BY <1>2, <2>2, <3>1 DEF ClosesLast
    <3>3. ~Unsettled(c)'
      BY <3>2, Settles
    <3>. QED
      BY <2>2, <3>1, <3>3 DEF Unsettled
  <2>3. ~SkipDrop /\ ~NextCase /\ epicDoing' # NotSkipping
    <3>1. ~SkipDrop
      BY <1>2 DEF SkipDrop, Typed, TypeOK
    <3>2. ~NextCase
      <4>1. \A cs, at : epicDoing' = [epicDoing EXCEPT !.left = cs, !.at = at] => epicDoing'.at = at
        BY DEF Typed, TypeOK
      <4>. QED
        BY <1>2, <4>1 DEF NextCase
    <3>3. epicDoing' # NotSkipping
      BY <1>2 DEF NotSkipping
    <3>. QED
      BY <3>1, <3>2, <3>3
  <2>4. RouteEpic => UNCHANGED epicDoing
    <3>1. RouteEpic => \/ epicDoing' = [epicDoing EXCEPT !.at = "releasing"]
                       \/ epicDoing' = [at |-> "dropping", left |-> OpenCases,
                            todo |-> [c \in Cases |-> kid[c].labels \cap {"manual", "failed"}]]
                       \/ UNCHANGED epicDoing
      BY DEF RouteEpic
    <3>2. epicDoing' # [epicDoing EXCEPT !.at = "releasing"]
      BY <1>2 DEF Typed, TypeOK
    <3>. QED
      BY <1>2, <3>1, <3>2
  <2>5. epicDoing' # [epicDoing EXCEPT !.at = "releasing"]
    BY <1>2 DEF Typed, TypeOK
  <2>. QED
    BY <2>1, <2>2, <2>3, <2>4, <2>5
    DEF Next, People, Verdict, SkipCase, CloseByHand, OnEpic, CommentBug, FileBug, Land, Dispatch,
        KidStep, Route, FileFix, LinkFix, Drop, Add, Close, End, CallRaises, EpicStep, SkipClose,
        ReleaseToStaging, EndOfSkip, EpicCallRaises, EndOfEpicDelivery, ReportStep, OpenBug,
        Retitle, LabelBug, FileBugFix, LinkBugFix, ReportRaises, Restart, vars
<1>3. ASSUME NEW c \in Cases, kid'[c].closed PROVE ~Unsettled(c)' \/ c \in withdrawn'
  <2>1. ~Unsettled(c) \/ c \in withdrawn'
    BY <1>3, ClosedBy, Withdrawn DEF ClosesLast, ClosedCaseIsSettled
  <2>. QED
    BY <2>1, Settles
<1>. QED
  BY <1>1, <1>2, <1>3, StepAnswers DEF ClosesLast, ClosedCaseIsSettled

LEMMA InitCases == Init => CaseInv
<1> SUFFICES ASSUME Init PROVE CaseInv
  OBVIOUS
<1>1. \A k \in Kids : doing[k].at = "idle"
  BY DEF Init, Idle
<1>2. epicDoing.at = "idle" /\ \A c \in Cases : epicDoing.todo[c] = {}
  BY DEF Init, NotSkipping
<1>3. \A c \in Cases : ~kid[c].closed
  BY Sorts DEF Init, NoKid
<1>. QED
  BY <1>1, <1>2, <1>3, Sorts DEF CaseInv, AsAnswered, ClosesLast, ClosedCaseIsSettled

(* ClosedCaseIsSettled: a case that no hand closed carries the verdict or  *)
(* the decision that closed it, for any number of testers' comments, calls *)
(* that raise and stops: the labels a thread takes off are never a         *)
(* verdict, and the one that closes has just put one on.                   *)
THEOREM ClosedCasesAreSettled == Spec => []ClosedCaseIsSettled
<1>1. CaseInv => ClosedCaseIsSettled
  BY DEF CaseInv
<1>. QED
  BY <1>1, InitTyped, StepTyped, InitCases, StepCases, PTL DEF Spec

-----------------------------------------------------------------------------
(***************************************************************************)
(* A bug at retest is repaired.                                            *)
(***************************************************************************)

(* A delivery is done with by its own thread.                              *)
LEMMA LeavesBy ==
  ASSUME Typed, [Next]_vars, NEW k \in Kids, Leaves(k)
  PROVE  (Route(k) /\ Answer(k) = NoEffect) \/ End(k) \/ CallRaises(k)
<1>1. inbox \in [Kids -> Seq(Delivery)] /\ inbox[k] # <<>>
  BY DEF Typed, TypeOK, Leaves
<1>2. inbox'[k] = Tail(inbox[k]) /\ Len(inbox'[k]) = Len(inbox[k]) - 1 /\ Len(inbox[k]) \in Nat
  BY <1>1 DEF Leaves
<1>3. inbox'[k] # inbox[k]
  <2>1. Len(inbox'[k]) # Len(inbox[k])
    BY <1>2
  <2>. QED
    BY <2>1, Zenon
<1>4. ASSUME NEW j \in Kids, NEW d, inbox' = [inbox EXCEPT ![j] = Append(@, d)] PROVE FALSE
  <2>1. j = k
    BY <1>1, <1>3, <1>4
  <2>2. inbox'[k] = Append(inbox[k], d)
    BY <1>1, <1>4, <2>1
  <2>3. Len(inbox'[k]) = Len(inbox[k]) + 1
    BY <1>1, <2>2
  <2>. QED
    BY <1>2, <2>3
<1>5. \A j \in Kids : EndOfDelivery(j) => j = k
  BY <1>1, <1>3 DEF EndOfDelivery
<1>6. \A j \in Kids : \A what : ~Says(j, what)
  BY <1>4 DEF Says
<1>7. \A j \in Kids : ~Close(j)
  BY <1>3, <1>4 DEF Close
<1>8. \A j \in Kids : /\ Route(j) => j = k /\ Answer(k) = NoEffect
                      /\ End(j) => j = k
                      /\ CallRaises(j) => j = k
  BY <1>3, <1>5 DEF Route, End, CallRaises
<1>9. ~UNCHANGED inbox
  BY <1>3
<1>. QED
  BY <1>6, <1>7, <1>8, <1>9, Sorts
  DEF Next, People, Verdict, SkipCase, CloseByHand, OnEpic, CommentBug, FileBug, Land, Dispatch,
      KidStep, FileFix, LinkFix, Drop, Add, EpicStep, RouteEpic, ReleaseToStaging, SkipDrop,
      SkipAdd, SkipClose, EndOfSkip, EpicCallRaises, ReportStep, OpenBug, Retitle, LabelBug,
      FileBugFix, LinkBugFix, ReportRaises, Restart, table, vars

(* A failed re-test goes on to take the label off, unless a call raises.   *)
LEMMA TakesBack ==
  ASSUME Typed, AsAnswered, [Next]_vars, errors' = errors, NEW b \in Bugs, TakingBack(b),
         "retest" \in kid'[b].labels
  PROVE  TakingBack(b)'
<1>1. b \in Kids /\ inbox[b] # <<>> /\ BugFails(b) /\ errors \in Nat
  <2>1. errors \in 0 .. events /\ events \in 0 .. MaxEvents
    BY DEF Typed, TypeOK
  <2>. QED
    BY <2>1, Sorts DEF TakingBack
<1>2. Answer(b).at = "filing" /\ Answer(b).drop = {"retest"}
  BY <1>1, InHand, AnswerFacts
<1>3. ~CallRaises(b)
  BY <1>1 DEF CallRaises, Errs
<1>4. ~Leaves(b)
  BY <1>1, <1>2, <1>3, LeavesBy DEF NoEffect, Idle, End, TakingBack
<1>5. inbox'[b] # <<>> /\ Payload(b)' = Payload(b)
  BY <1>1, <1>4, InboxMoves, Joining, Leaving, Standing
<1>6. BugFails(b)'
  BY <1>1, <1>5, SameAnswer
<1>7. ~Drop(b)
  <2>1. SUFFICES ASSUME Drop(b) PROVE FALSE
    OBVIOUS
  <2>2. kid'[b] = Relabelled(b, doing[b].drop, {}) /\ doing[b].drop = {"retest"}
    BY <1>1, <1>2, <2>1, Drops DEF Alters, AsAnswered, Drop, Typed
  <2>. QED
    BY <1>1, <2>2, RelabelledFields DEF Typed
<1>8. doing'[b].at \in {"idle", "filing", "linking", "dropping"}
  BY <1>1, <1>2, <1>3, <1>7, Working DEF TakingBack
<1>. QED
  BY <1>5, <1>6, <1>8 DEF TakingBack

(* The bugs of a report stay with it, or it takes a fresh one.             *)
LEMMA BugsRaised ==
  ASSUME Typed, [Next]_vars
  PROVE  \/ \A r \in Reports : /\ report'[r].bug \subseteq report[r].bug
                               /\ report[r].at = "done" => report'[r].at = "done"
         \/ \E q \in Reports, b \in Bugs :
              /\ Fresh(b, kid'[b]) /\ report'[q].bug = {b}
              /\ \A r \in Reports : r # q => report'[r] = report[r]
<1>1. report \in [Reports -> Report]
  BY DEF Typed, TypeOK, Report
<1>2. CASE \E r \in Reports : (ReportStep(r) \/ ReportRaises(r) \/ CommentBug(r)) /\ ~OpenBug(r)
  BY <1>1, <1>2, ReportMoves DEF GoesOn
<1>3. CASE \E r \in Reports : OpenBug(r)
  <2>1. PICK r \in Reports, b \in Bugs, x \in Kid, y \in Report :
          /\ Alters(b, x) /\ Fresh(b, x)
          /\ report' = [report EXCEPT ![r] = y] /\ y.bug = {b}
    BY <1>3, OpenMoves
  <2>2. kid'[b] = x
    BY <2>1 DEF Alters
  <2>. QED
    BY <1>1, <2>1, <2>2
<1>4. CASE \E r \in Reports, b \in Bugs : FileBug(r, b)
  <2>1. PICK r \in Reports, b \in Bugs : FileBug(r, b)
    BY <1>4
  <2>2. PICK x \in Kid : Alters(b, x) /\ Fresh(b, x)
    BY <2>1, Opens DEF Typed
  <2>3. PICK y \in Report : report' = [report EXCEPT ![r] = y] /\ y.bug = {b}
    BY <2>1, FileMoves
  <2>4. kid'[b] = x
    BY <2>2 DEF Alters
  <2>. QED
    BY <1>1, <2>2, <2>3, <2>4
<1>5. CASE Restart
  BY <1>5, RestartMoves
<1>6. CASE UNCHANGED report
  BY <1>6
<1>. QED
  BY <1>2, <1>3, <1>4, <1>5, <1>6
  DEF Next, People, Verdict, SkipCase, CloseByHand, OnEpic, Land, Dispatch, KidStep, Route, FileFix,
      LinkFix, Drop, Add, Close, End, CallRaises, EpicStep, RouteEpic, ReleaseToStaging, SkipDrop,
      SkipAdd, SkipClose, EndOfSkip, EpicCallRaises, ReportStep, vars

LEMMA StepThere ==
  ASSUME Typed, AsAnswered, OnlyOfWhatIsThere, [Next]_vars
  PROVE  OnlyOfWhatIsThere'
<1>1. ASSUME NEW k \in Kids, inbox'[k] # <<>> PROVE kid'[k].there
  <2>1. kid[k].there
    BY <1>1, InboxMoves, Joining, Leaving DEF OnlyOfWhatIsThere, Leaves
  <2>. QED
    BY <2>1, KidsGoOn DEF Keeps
<1>2. ASSUME NEW b \in Bugs, kid[b].there PROVE kid'[b].there /\ ~Fresh(b, kid'[b])
  BY <1>2, KidsGoOn, Sorts DEF Keeps, Fresh
<1>3. \A r \in Reports : report[r].bug \subseteq Bugs
  BY DEF Typed, TypeOK
<1>4. ASSUME NEW r \in Reports, NEW b \in report'[r].bug PROVE kid'[b].there
  BY <1>2, <1>3, <1>4, BugsRaised DEF OnlyOfWhatIsThere, Fresh
<1>5. ASSUME NEW r \in Reports, NEW s \in Reports, r # s
      PROVE  report'[r].bug \cap report'[s].bug = {}
  BY <1>2, <1>3, <1>5, BugsRaised DEF OnlyOfWhatIsThere
<1>. QED
  BY <1>1, <1>4, <1>5 DEF OnlyOfWhatIsThere

(* What may happen to the labels and the fixes of a bug.                   *)
LEMMA BugTouched ==
  ASSUME Typed, AsAnswered, [Next]_vars, NEW b \in Bugs
  PROVE  /\ \/ kid'[b].blockedBy = kid[b].blockedBy
            \/ LinkFix(b) /\ TakingBack(b)
            \/ \E r \in Reports : LinkBugFix(r) /\ b = BugOf(r)
            \/ Fresh(b, kid'[b])
         /\ "retest" \in kid'[b].labels => "retest" \in kid[b].labels \/ (Dispatch /\ Retestable(b))
<1>1. b \in Kids /\ b \notin Cases /\ TypeOK
  BY Sorts DEF Typed
<1>2. {"retest"} \subseteq Labels /\ {"bug", "open"} \subseteq Labels
  BY DEF Labels
<1>3. CASE Dispatch
  BY <1>1, <1>2, <1>3, Dispatches, RelabelledFields
<1>4. CASE kid'[b] = Closed(b) \/ kid'[b] = Titled(b)
  BY <1>1, <1>4, ClosedFields, TitledFields
<1>5. CASE \/ kid'[b] = Relabelled(b, doing[b].drop, {})
           \/ kid'[b] = Relabelled(b, {}, {"bug", "open"})
  BY <1>1, <1>2, <1>5, RelabelledFields
<1>6. CASE Add(b) /\ kid'[b] = Relabelled(b, {}, doing[b].add)
  <2>1. inbox[b] # <<>> /\ doing[b].add = Answer(b).add
    BY <1>1, <1>6 DEF Add, AsAnswered, Typed, HandsFull
  <2>2. "retest" \notin doing[b].add /\ doing[b].add \subseteq Labels
    BY <1>1, <2>1, InHand, AnswerFacts, KidTypes
  <2>. QED
    BY <1>1, <1>6, <2>2, RelabelledFields
<1>7. CASE LinkFix(b) /\ kid'[b] = Linked(b, Payload(b).kid.blockedBy \cup doing[b].fix)
  <2>1. doing[b].at = "linking" /\ inbox[b] # <<>> /\ Answer(b).at = "filing"
    BY <1>1, <1>7 DEF LinkFix, AsAnswered, Typed, HandsFull
  <2>2. TakingBack(b)
    BY <1>1, <2>1, InHand, AnswerFacts DEF TakingBack
  <2>3. kid'[b].labels = kid[b].labels
    BY <1>1, <1>7, Links, LinkedFields
  <2>. QED
    BY <1>7, <2>2, <2>3
<1>8. CASE \E r \in Reports : b = BugOf(r) /\ LinkBugFix(r) /\ kid'[b] = Linked(b, report[r].fix)
  <2>1. PICK r \in Reports : b = BugOf(r) /\ LinkBugFix(r) /\ kid'[b] = Linked(b, report[r].fix)
    BY <1>8
  <2>2. report[r].fix \in SUBSET Tasks
    BY DEF Typed, TypeOK
  <2>3. kid'[b].labels = kid[b].labels
    BY <1>1, <2>1, <2>2, LinkedFields
  <2>. QED
    BY <2>1, <2>3
<1>9. CASE Fresh(b, kid'[b])
  BY <1>9 DEF Fresh
<1>. QED
  BY <1>1, <1>3, <1>4, <1>5, <1>6, <1>7, <1>8, <1>9, Touched

LEMMA StepNotYet ==
  ASSUME Typed, AsAnswered, OnlyOfWhatIsThere, NoRetestYet, [Next]_vars
  PROVE  NoRetestYet'
<1>1. ASSUME NEW r \in Reports, report[r].at # "done", report'[r].at # "done",
             NEW b \in report[r].bug
      PROVE  /\ kid'[b].blockedBy = {} /\ "retest" \notin kid'[b].labels
             /\ \A d \in Waiting(b)' : "retest" \notin d.kid.labels
  <2>1. /\ b \in Bugs /\ b \in Kids /\ kid[b].there
        /\ kid[b].blockedBy = {} /\ "retest" \notin kid[b].labels
        /\ \A d \in Waiting(b) : "retest" \notin d.kid.labels
    BY <1>1, Sorts DEF Typed, TypeOK, OnlyOfWhatIsThere, NoRetestYet
  <2>2. ~Retestable(b) /\ ~Fresh(b, kid'[b])
    BY <2>1 DEF Retestable, FixesLanded, Fresh
  <2>3. ~TakingBack(b)
    BY <2>1, InHand DEF TakingBack, BugFails, Bears
  <2>4. ASSUME NEW q \in Reports, LinkBugFix(q), b = BugOf(q) PROVE FALSE
    <3>1. b \in report[q].bug
      BY <2>4, Raising DEF LinkBugFix
    <3>2. q = r
      BY <1>1, <3>1 DEF OnlyOfWhatIsThere
    <3>3. report'[q].at = "done"
      BY <2>4 DEF LinkBugFix, Typed, TypeOK
    <3>. QED
      BY <1>1, <3>2, <3>3
  <2>5. kid'[b].blockedBy = {} /\ "retest" \notin kid'[b].labels
    BY <2>1, <2>2, <2>3, <2>4, BugTouched
  <2>6. ASSUME NEW d \in Waiting(b)' PROVE "retest" \notin d.kid.labels
    BY <2>1, <2>6, InboxMoves, Joining, Leaving, Standing
  <2>. QED
    BY <2>5, <2>6
<1>2. ASSUME NEW b \in Bugs, Fresh(b, kid'[b])
      PROVE  /\ kid'[b].blockedBy = {} /\ "retest" \notin kid'[b].labels
             /\ \A d \in Waiting(b)' : "retest" \notin d.kid.labels
  <2>1. b \in Kids /\ ~kid[b].there /\ inbox[b] = <<>>
    BY <1>2, Sorts DEF Fresh, OnlyOfWhatIsThere
  <2>2. inbox'[b] = <<>>
    BY <2>1, InboxMoves, Joining, Leaving DEF Leaves
  <2>3. Waiting(b)' = {}
    BY <2>2 DEF Waiting
  <2>. QED
    BY <1>2, <2>3 DEF Fresh
<1>3. ASSUME NEW r \in Reports, report'[r].at # "done", NEW b \in report'[r].bug
      PROVE  /\ kid'[b].blockedBy = {} /\ "retest" \notin kid'[b].labels
             /\ \A d \in Waiting(b)' : "retest" \notin d.kid.labels
  <2>1. CASE /\ report'[r].bug \subseteq report[r].bug
             /\ report[r].at = "done" => report'[r].at = "done"
    BY <1>1, <1>3, <2>1
  <2>2. CASE \E a \in Bugs : Fresh(a, kid'[a]) /\ report'[r].bug = {a}
    BY <1>2, <1>3, <2>2
  <2>3. CASE report'[r] = report[r]
    BY <1>1, <1>3, <2>3
  <2>. QED
    BY <2>1, <2>2, <2>3, BugsRaised
<1>. QED
  BY <1>3 DEF NoRetestYet

(* What has landed where a re-test needs it stays there.                   *)
LEMMA StaysAssembled ==
  ASSUME Typed, [Next]_vars, NEW ts \in SUBSET Tasks, Assembled(ts)
  PROVE  Assembled(ts)'
  BY TasksGoOn DEF Assembled

LEMMA StepRetests == Typed /\ AsAnswered /\ RetestInv /\ [Next]_vars => RetestInv'
<1> SUFFICES ASSUME Typed, AsAnswered, RetestInv, [Next]_vars PROVE RetestInv'
  OBVIOUS
<1>1. OnlyOfWhatIsThere' /\ NoRetestYet'
  BY StepThere, StepNotYet DEF RetestInv
<1>2. ASSUME errors' = 0, NEW b \in Bugs, "retest" \in kid'[b].labels, ~TakingBack(b)'
      PROVE  Repaired(b)'
  <2>1. errors' = errors /\ errors = 0
    <3>1. errors \in 0 .. events /\ events \in 0 .. MaxEvents
      BY DEF Typed, TypeOK
    <3>2. errors \in Nat
      BY <3>1, Sorts
    <3>. QED
      BY <1>2, <3>2, CountsTyped
  <2>2. b \in Kids /\ kid[b].blockedBy \in SUBSET Tasks
    BY Sorts, KidTypes DEF Typed
  <2>3. ~TakingBack(b)
    BY <1>2, <2>1, TakesBack
  <2>4. Assembled(kid[b].blockedBy)
    <3>1. CASE "retest" \in kid[b].labels
      BY <2>1, <2>3, <3>1 DEF RetestInv, Repaired
    <3>2. CASE Retestable(b)
      BY <3>2 DEF Retestable, FixesLanded
    <3>. QED
      BY <1>2, <3>1, <3>2, BugTouched
  <2>5. kid'[b].blockedBy = kid[b].blockedBy
    <3>1. ASSUME NEW r \in Reports, LinkBugFix(r), b = BugOf(r) PROVE FALSE
      <4>1. report[r].at = "linking" /\ b \in report[r].bug
        BY <3>1, Raising DEF LinkBugFix
      <4>2. "retest" \notin kid[b].labels
        BY <4>1 DEF RetestInv, NoRetestYet
      <4>3. Dispatch /\ kid[b].blockedBy # {}
        BY <1>2, <4>2, BugTouched DEF Retestable, FixesLanded
      <4>. QED
        BY <4>1, <4>3 DEF RetestInv, NoRetestYet
    <3>2. ~Fresh(b, kid'[b])
      BY <1>2 DEF Fresh
    <3>. QED
      BY <2>3, <3>1, <3>2, BugTouched
  <2>6. PICK ts \in SUBSET Tasks : ts = kid[b].blockedBy
    BY <2>2
  <2>7. Assembled(ts)'
    BY <2>4, <2>6, StaysAssembled
  <2>. QED
    BY <2>5, <2>6, <2>7 DEF Repaired
<1>3. errors' = 0 => \A b \in Bugs : Repaired(b)' \/ TakingBack(b)'
  BY <1>2 DEF Repaired
<1>. QED
  BY <1>1, <1>3 DEF RetestInv

LEMMA InitRetests == Init => RetestInv
<1> SUFFICES ASSUME Init PROVE RetestInv
  OBVIOUS
<1>1. \A k \in Kids : inbox[k] = <<>>
  BY DEF Init
<1>2. \A r \in Reports : report[r].bug = {}
  BY DEF Init, NoReport
<1>3. \A b \in Bugs : "retest" \notin kid[b].labels
  BY Sorts DEF Init, NoKid
<1>. QED
  BY <1>1, <1>2, <1>3 DEF RetestInv, OnlyOfWhatIsThere, NoRetestYet, Repaired

(* RetestMeansFixed: with no call that raises, a bug that waits at retest  *)
(* with nobody at work on it has every fix landed that its report names.   *)
(* The label comes only from the Dispatcher, who looks at the fixes; tasks *)
(* are never taken back; and a second fix is linked only by a failed       *)
(* re-test, which goes on to take the label off, a stop notwithstanding.   *)
THEOREM RetestsAreOfRepairs == Spec => []RetestMeansFixed
<1>1. Typed /\ RetestInv => RetestMeansFixed
  BY DEF RetestInv, Repaired, TakingBack, AtRest, RetestMeansFixed
<1>. QED
  BY <1>1, InitTyped, StepTyped, InitCases, StepCases, InitRetests, StepRetests, PTL
  DEF Spec, CaseInv

-----------------------------------------------------------------------------
(***************************************************************************)
(* A bug that was open when the approval was written holds gate GS.        *)
(***************************************************************************)
LEMMA KnownStays ==
  ASSUME Typed, AsAnswered, [Next]_vars, NEW b \in Bugs, Known(b)
  PROVE  Known(b)' /\ (Over(b) => Over(b)')
<1>1. Keeps(b, kid'[b]) /\ "bug" \in Lasting /\ "verified" \in Lasting
  BY KidsGoOn, Sorts DEF Known, Lasting
<1>. QED
  BY <1>1 DEF Keeps, Known, Over

(* An issue gets the label of an open bug once open_bugs can find it.      *)
LEMMA BecomesKnown ==
  ASSUME Typed, AsAnswered, OnlyOfWhatIsThere, SeenIsKnown, [Next]_vars,
         NEW b \in Bugs, Seen(kid'[b].labels)
  PROVE  Known(b)'
<1>1. b \in Kids /\ b \notin Cases /\ TypeOK
  BY Sorts DEF Typed
<1>2. Seen(kid[b].labels) => Known(b)'
  BY KnownStays DEF SeenIsKnown
<1>3. CASE Dispatch
  <2>1. CASE Retestable(b)
    <3>1. Known(b)
      BY <2>1 DEF Retestable, OpenBugs, Known
    <3>. QED
      BY <3>1, KnownStays
  <2>2. CASE kid'[b] = kid[b]
    BY <1>2, <2>2
  <2>. QED
    BY <1>1, <1>3, <2>1, <2>2, Dispatches
<1>4. CASE kid'[b] = Closed(b) \/ kid'[b] = Titled(b) \/ kid'[b] = Relabelled(b, doing[b].drop, {})
  <2>1. kid'[b].labels \subseteq kid[b].labels
    <3>1. Closed(b).labels = kid[b].labels /\ Titled(b).labels = kid[b].labels
      BY <1>1, ClosedFields, TitledFields
    <3>2. Relabelled(b, doing[b].drop, {}).labels = (kid[b].labels \ doing[b].drop) \cup {}
      BY <1>1, RelabelledFields
    <3>. QED
      BY <1>4, <3>1, <3>2
  <2>. QED
    BY <1>2, <2>1 DEF Seen
<1>5. CASE Add(b) /\ kid'[b] = Relabelled(b, {}, doing[b].add)
  <2>1. inbox[b] # <<>> /\ doing[b].add = Answer(b).add /\ doing[b].add \subseteq Labels
    BY <1>1, <1>5, KidTypes DEF Add, AsAnswered, Typed, HandsFull
  <2>2. kid'[b].labels = kid[b].labels \cup doing[b].add
    BY <1>1, <1>5, <2>1, RelabelledFields
  <2>3. CASE "open" \in doing[b].add
    <3>1. BugFails(b) /\ Payload(b) \in Waiting(b)
      BY <1>1, <2>1, <2>3, InHand, AnswerFacts
    <3>2. Seen(Payload(b).kid.labels)
      BY <3>1 DEF BugFails, Bears, Seen
    <3>. QED
      BY <3>1, <3>2, KnownStays DEF SeenIsKnown
  <2>4. "retest" \notin doing[b].add
    BY <1>1, <2>1, InHand, AnswerFacts
  <2>. QED
    BY <1>2, <2>2, <2>3, <2>4 DEF Seen
<1>6. CASE LinkFix(b) /\ kid'[b] = Linked(b, Payload(b).kid.blockedBy \cup doing[b].fix)
  <2>1. kid'[b].labels = kid[b].labels
    BY <1>1, <1>6, Links, LinkedFields
  <2>. QED
    BY <1>2, <2>1
<1>7. CASE \E r \in Reports : b = BugOf(r) /\ LinkBugFix(r) /\ kid'[b] = Linked(b, report[r].fix)
  <2>1. PICK r \in Reports : kid'[b] = Linked(b, report[r].fix)
    BY <1>7
  <2>2. report[r].fix \in SUBSET Tasks
    BY DEF Typed, TypeOK
  <2>3. kid'[b].labels = kid[b].labels
    BY <1>1, <2>1, <2>2, LinkedFields
  <2>. QED
    BY <1>2, <2>3
<1>8. CASE \E r \in Reports : /\ b = BugOf(r) /\ LabelBug(r)
                              /\ kid'[b] = Relabelled(b, {}, {"bug", "open"})
  <2>1. PICK r \in Reports : b = BugOf(r) /\ LabelBug(r)
    BY <1>8
  <2>2. kid[b].named /\ kid[b].there
    BY <2>1, Raising DEF LabelBug, SeenIsKnown, OnlyOfWhatIsThere
  <2>3. {"bug", "open"} \subseteq Labels
    BY DEF Labels
  <2>4. kid'[b].named /\ kid'[b].there /\ "bug" \in kid'[b].labels
    BY <1>1, <1>8, <2>2, <2>3, RelabelledFields
  <2>. QED
    BY <2>4 DEF Known
<1>9. CASE Fresh(b, kid'[b])
  BY <1>9 DEF Fresh, Seen, Known
<1>10. CASE kid'[b] = kid[b]
  BY <1>2, <1>10
<1>. QED
  BY <1>1, <1>3, <1>4, <1>5, <1>6, <1>7, <1>8, <1>9, <1>10, Touched

(* The approval in hand is what releases, and what is reported.            *)
LEMMA ReportedMoves ==
  ASSUME Typed, [Next]_vars, NEW b \in reported'
  PROVE  b \in reported \/ (ReleaseToStaging /\ b \in EpicPayload.open)
<1>1. CASE ReleaseToStaging
  BY <1>1 DEF ReleaseToStaging
<1>2. CASE UNCHANGED reported
  BY <1>2
<1>. QED
  BY <1>1, <1>2
  DEF Next, People, Verdict, SkipCase, CloseByHand, OnEpic, CommentBug, FileBug, Land, Dispatch,
      KidStep, Route, FileFix, LinkFix, Drop, Add, Close, End, CallRaises, EpicStep, RouteEpic,
      SkipDrop, SkipAdd, SkipClose, EndOfSkip, EpicCallRaises, ReportStep, OpenBug, Retitle,
      LabelBug, FileBugFix, LinkBugFix, ReportRaises, Restart, vars

LEMMA ReleasesBy ==
  ASSUME Typed, [Next]_vars, errors' = errors, epicDoing'.at = "releasing"
  PROVE  \/ epicDoing.at = "releasing"
         \/ RouteEpic /\ EpicPayload.says = "approved" /\ ~HeldByBugs
<1>1. ASSUME \/ epicDoing' = [epicDoing EXCEPT !.at = "adding"]
             \/ epicDoing' = [epicDoing EXCEPT !.at = "closing"]
      PROVE  FALSE
  BY <1>1 DEF Typed, TypeOK
<1>2. ~NextCase
  <2>1. \A cs, at : epicDoing' = [epicDoing EXCEPT !.left = cs, !.at = at] => epicDoing'.at = at
    BY DEF Typed, TypeOK
  <2>. QED
    BY <2>1 DEF NextCase
<1>3. epicDoing' # NotSkipping
  BY DEF NotSkipping
<1>4. RouteEpic => UNCHANGED epicDoing \/ (EpicPayload.says = "approved" /\ ~HeldByBugs)
  <2>1. ASSUME NEW f, epicDoing' = [at |-> "dropping", left |-> OpenCases, todo |-> f] PROVE FALSE
    BY <2>1
  <2>. QED
    BY <2>1 DEF RouteEpic
<1>5. CASE UNCHANGED epicDoing
  BY <1>5
<1>6. ~EpicCallRaises
  <2>1. errors \in 0 .. events /\ events \in 0 .. MaxEvents
    BY DEF Typed, TypeOK
  <2>. QED
    BY <2>1, Sorts DEF EpicCallRaises, Errs
<1>. QED
  BY <1>1, <1>2, <1>3, <1>4, <1>5, <1>6
  DEF Next, People, Verdict, SkipCase, CloseByHand, OnEpic, CommentBug, FileBug, Land, Dispatch,
      KidStep, Route, FileFix, LinkFix, Drop, Add, Close, End, CallRaises, EpicStep,
      ReleaseToStaging, SkipDrop, SkipAdd, SkipClose, EndOfSkip, EndOfEpicDelivery,
      ReportStep, OpenBug, Retitle, LabelBug, FileBugFix, LinkBugFix, ReportRaises, Restart, vars

LEMMA StepSeen ==
  ASSUME Typed, AsAnswered, OnlyOfWhatIsThere, SeenIsKnown, [Next]_vars, errors' = errors
  PROVE  SeenIsKnown'
<1>1. ASSUME NEW b \in Bugs, NEW d \in Waiting(b)', Seen(d.kid.labels) PROVE Known(b)'
  <2>1. b \in Kids
    BY Sorts
  <2>2. d \in Waiting(b) \/ d.kid.labels = kid[b].labels
    BY <1>1, <2>1, InboxMoves, Joining, Leaving, Standing
  <2>3. Known(b)
    BY <1>1, <2>2 DEF SeenIsKnown
  <2>. QED
    BY <2>3, KnownStays
<1>2. ASSUME NEW r \in Reports, report'[r].at = "labelling" PROVE kid'[BugOf(r)'].named
  <2>1. report \in [Reports -> Report] /\ errors \in Nat
    <3>1. errors \in 0 .. events /\ events \in 0 .. MaxEvents
      BY DEF Typed, TypeOK
    <3>. QED
      BY <3>1, Sorts DEF Typed, TypeOK, Report
  <2>2. CASE report'[r] = report[r]
    <3>1. PICK b \in Bugs : b = BugOf(r) /\ b \in report[r].bug
      BY <1>2, <2>2, Raising
    <3>2. kid[b].there /\ kid[b].named /\ b \in Kids
      BY <1>2, <2>2, <3>1, Sorts DEF OnlyOfWhatIsThere, SeenIsKnown
    <3>3. kid'[b].named
      BY <3>2, KidsGoOn DEF Keeps
    <3>4. BugOf(r)' = b
      BY <2>2, <3>1 DEF BugOf
    <3>. QED
      BY <3>3, <3>4
  <2>3. CASE Retitle(r)
    <3>1. PICK b \in Bugs : b = BugOf(r)
      BY <2>3, Raising DEF Retitle
    <3>2. kid'[b].named
      BY <2>3, <3>1, Raises, Sorts, TitledFields DEF Alters, Typed
    <3>3. BugOf(r)' = b
      <4>1. report'[r].bug = report[r].bug
        BY <2>1, <2>3 DEF Retitle, Report
      <4>. QED
        BY <3>1, <4>1 DEF BugOf
    <3>. QED
      BY <3>2, <3>3
  <2>4. ASSUME NEW q \in Reports, ReportStep(q) \/ ReportRaises(q) \/ CommentBug(q), ~OpenBug(q)
        PROVE  report'[r] = report[r] \/ Retitle(r)
    <3>1. ~ReportRaises(q)
      BY <2>1 DEF ReportRaises, Errs
    <3>2. PICK x \in Report : GoesOn(q, x) /\ (x.at = "labelling" => Retitle(q))
      BY <2>4, <3>1, ReportMoves
    <3>. QED
      BY <1>2, <2>1, <3>2 DEF GoesOn
  <2>5. ASSUME NEW q \in Reports, OpenBug(q) PROVE report'[r] = report[r]
    BY <1>2, <2>1, <2>5, OpenMoves
  <2>6. ASSUME NEW q \in Reports, NEW b \in Bugs, FileBug(q, b) PROVE report'[r] = report[r]
    BY <1>2, <2>1, <2>6, FileMoves
  <2>7. ~Restart
    BY <1>2, RestartMoves
  <2>8. UNCHANGED report => report'[r] = report[r]
    OBVIOUS
  <2>9. report'[r] = report[r] \/ Retitle(r)
    BY <2>4, <2>5, <2>6, <2>7, <2>8
    DEF Next, People, Verdict, SkipCase, CloseByHand, OnEpic, Land, Dispatch, KidStep, Route,
        FileFix, LinkFix, Drop, Add, Close, End, CallRaises, EpicStep, RouteEpic, ReleaseToStaging,
        SkipDrop, SkipAdd, SkipClose, EndOfSkip, EpicCallRaises, ReportStep, vars
  <2>. QED
    BY <2>2, <2>3, <2>9
<1>3. ASSUME NEW d \in WaitingOnEpic', NEW b \in d.open PROVE Known(b)'
  <2>1. d \in EpicDelivery
    BY <1>3, EpicInboxMoves DEF WaitingOnEpic
  <2>2. b \in Bugs
    BY <1>3, <2>1 DEF EpicDelivery
  <2>3. d \in WaitingOnEpic \/ Seen(kid[b].labels)
    BY <1>3, EpicInboxMoves DEF WaitingOnEpic
  <2>4. Known(b)
    BY <1>3, <2>2, <2>3 DEF SeenIsKnown
  <2>. QED
    BY <2>2, <2>4, KnownStays
<1>4. ASSUME NEW b \in reported' PROVE Known(b)'
  <2>1. CASE b \in reported
    BY <2>1, KnownStays DEF SeenIsKnown, Typed, TypeOK
  <2>2. CASE ReleaseToStaging /\ b \in EpicPayload.open
    <3>1. b \in Bugs /\ Known(b)
      BY <2>2, EpicInHand DEF ReleaseToStaging, SeenIsKnown, Typed, HandsFull
    <3>. QED
      BY <3>1, KnownStays
  <2>. QED
    BY <1>4, <2>1, <2>2, ReportedMoves
<1>. QED
  BY <1>1, <1>2, <1>3, <1>4, BecomesKnown DEF SeenIsKnown

LEMMA StepGate == Typed /\ AsAnswered /\ RetestInv /\ GateInv /\ [Next]_vars => GateInv'
<1> SUFFICES ASSUME Typed, AsAnswered, RetestInv, GateInv, [Next]_vars, errors' = 0
             PROVE  SeenIsKnown' /\ ApprovalIsClear' /\ ReportedAreOver'
  BY DEF GateInv
<1>1. errors' = errors /\ SeenIsKnown /\ ApprovalIsClear /\ ReportedAreOver
  <2>1. errors \in 0 .. events /\ events \in 0 .. MaxEvents
    BY DEF Typed, TypeOK
  <2>2. errors \in Nat
    BY <2>1, Sorts
  <2>. QED
    BY <2>2, CountsTyped DEF GateInv
<1>2. policy' = policy
  BY TasksGoOn
<1>3. ASSUME epicInbox # <<>>, NEW b \in EpicPayload.open PROVE b \in Bugs /\ Known(b)
  BY <1>1, <1>3, EpicInHand DEF SeenIsKnown
<1>4. ASSUME policy = "gate", epicDoing'.at = "releasing", NEW b \in EpicPayload'.open
      PROVE  Over(b)'
  <2>1. /\ epicInbox # <<>> /\ EpicPayload' = EpicPayload
        /\ epicDoing.at = "releasing" \/ (RouteEpic /\ EpicPayload.says = "approved" /\ ~HeldByBugs)
    <3>1. \/ epicDoing.at = "releasing"
          \/ RouteEpic /\ EpicPayload.says = "approved" /\ ~HeldByBugs
      BY <1>1, <1>4, ReleasesBy
    <3>2. epicInbox # <<>>
      BY <3>1 DEF RouteEpic, Typed, HandsFull
    <3>3. EpicPayload' = EpicPayload
      BY <1>4, <3>2, EpicInboxMoves DEF EpicPayload
    <3>. QED
      BY <3>1, <3>2, <3>3
  <2>2. b \in Bugs /\ Known(b)
    BY <1>3, <1>4, <2>1
  <2>3. Over(b)
    <3>1. CASE epicDoing.at = "releasing"
      BY <1>1, <1>4, <2>1, <3>1 DEF ApprovalIsClear
    <3>2. CASE ~HeldByBugs
      <4>1. b \notin OpenBugs
        BY <1>4, <3>2 DEF HeldByBugs, Holds
      <4>. QED
        BY <2>2, <4>1 DEF OpenBugs, Known, Over
    <3>. QED
      BY <2>1, <3>1, <3>2
  <2>. QED
    BY <2>2, <2>3, KnownStays
<1>5. ASSUME policy = "gate", NEW b \in reported' PROVE Over(b)'
  <2>1. b \in Bugs /\ Known(b) /\ Over(b)
    <3>1. CASE b \in reported
      BY <1>1, <1>5, <3>1 DEF SeenIsKnown, ReportedAreOver, Typed, TypeOK
    <3>2. CASE ReleaseToStaging /\ b \in EpicPayload.open
      <4>1. epicInbox # <<>> /\ epicDoing.at = "releasing"
        BY <3>2 DEF ReleaseToStaging, Typed, HandsFull
      <4>. QED
        BY <1>1, <1>3, <1>5, <3>2, <4>1 DEF ApprovalIsClear
    <3>. QED
      BY <1>5, <3>1, <3>2, ReportedMoves
  <2>. QED
    BY <2>1, KnownStays
<1>6. SeenIsKnown'
  BY <1>1, StepSeen DEF RetestInv
<1>7. ApprovalIsClear' /\ ReportedAreOver'
  BY <1>2, <1>4, <1>5 DEF ApprovalIsClear, ReportedAreOver
<1>. QED
  BY <1>6, <1>7

LEMMA InitGate == Init => GateInv
<1> SUFFICES ASSUME Init PROVE GateInv
  OBVIOUS
<1>1. \A b \in Bugs : kid[b].labels = {} /\ inbox[b] = <<>>
  BY Sorts DEF Init, NoKid
<1>2. \A b \in Bugs : ~Seen(kid[b].labels) /\ Waiting(b) = {}
  BY <1>1 DEF Seen, Waiting
<1>3. WaitingOnEpic = {} /\ reported = {} /\ epicDoing.at = "idle"
  <2>1. epicInbox = <<>> /\ reported = {} /\ epicDoing.at = "idle"
    BY DEF Init, NotSkipping
  <2>. QED
    BY <2>1 DEF WaitingOnEpic
<1>4. \A r \in Reports : report[r].at = "none"
  BY DEF Init, NoReport
<1>. QED
  BY <1>2, <1>3, <1>4 DEF GateInv, SeenIsKnown, ApprovalIsClear, ReportedAreOver

(* ReportedBugHoldsGS: where the policy is the gate and no call raises, a  *)
(* bug that was open when the approval was written is verified or closed   *)
(* once that approval has put the epic on staging.  An issue has the label *)
(* of an open bug only after the title by which open_bugs finds it, the    *)
(* gate reads the bugs again when it handles the comment, and no step      *)
(* takes a verdict back or reopens.                                        *)
THEOREM ReportedBugsHoldGS == Spec => []ReportedBugHoldsGS
<1>1. GateInv => ReportedBugHoldsGS
  BY DEF GateInv, ReportedAreOver, Over, ReportedBugHoldsGS
<1>. QED
  BY <1>1, InitTyped, StepTyped, InitCases, StepCases, InitRetests, StepRetests, InitGate, StepGate,
     PTL DEF Spec, CaseInv
=============================================================================
