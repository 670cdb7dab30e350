------------------------------ MODULE Promotion ------------------------------
(***************************************************************************)
(* Gate G3: epics on staging ship when people merge their promotion PRs.   *)
(*                                                                         *)
(* An epic's train has tasks in several repos, and each of these gets a    *)
(* promotion PR naming the epics that ride it.  Every merged PR is a       *)
(* delivery of its own, and the threads of two repos' merges run at the    *)
(* same time.  Each asks repo by repo whether a promotion of the epic is   *)
(* still open; the one that finds none moves the epic and its tasks from   *)
(* factory:in-staging to factory:deployed, label by label.                 *)
(*                                                                         *)
(* Epics are named by themselves: two repos whose epics share a number are *)
(* left out, and so is the wording of the notices.  One epic's number may  *)
(* begin another's, and a promotion is searched for it as text.            *)
(***************************************************************************)
EXTENDS Naturals, FiniteSets

CONSTANTS
  Repos,      \* the repos of the estate
  Epics,
  Train,      \* Train[e]: the repos with a task of epic e
  ReadIn,     \* ReadIn[e]: the epics whose mention holds that of e (#1 is in #12)
  MaxPRs,     \* bound: promotion PRs, numbered 1 .. MaxPRs
  MaxFaults   \* bound: calls that raise, PRs closed unmerged, stops of the process

ASSUME PromotionAssumption ==
  /\ Epics # {}
  /\ Train \in [Epics -> (SUBSET Repos) \ {{}}]
  /\ ReadIn \in [Epics -> SUBSET Epics] /\ \A e \in Epics : e \in ReadIn[e]
  /\ MaxPRs \in Nat /\ MaxFaults \in Nat

PRs == 1 .. MaxPRs

VARIABLES
  (* GitHub *)
  pr,         \* pr[p]: a promotion PR
  epic,       \* epic[e]: the state label of an epic, "bare" between two of them
  task,       \* task[e][r]: that of its task in repo r
  notices,    \* notices[e][p]: how often e was told that PR p was merged
  (* the process *)
  thread,     \* thread[p]: where the delivery of p's merge is
  (* history and bounds *)
  carried,    \* carried[e]: the repos that have merged a promotion of e
  withdrawn,  \* withdrawn[e]: those where one was ever closed unmerged
  unread,     \* unread[e][p]: how often e was told with its comments unread
  misread,    \* the epics that were ever held back for another epic's promotion
  torn,       \* a stop hit a thread that had begun to ship
  errors, faults

github == <<pr, epic, task, notices>>
history == <<carried, withdrawn, unread, misread>>
vars == <<pr, epic, task, notices, thread, carried, withdrawn, unread, misread, torn, errors,
          faults>>

States == {"building", "in-staging", "bare", "deployed"}

(* at: none -> queued -> choosing <-> asking -> telling | taking -> putting *)
(* -> tasks -> choosing ...  todo: the epics to ship; left: the repos still *)
(* to ask, or to list the tasks of; waits: a promotion is open.             *)
Thread == [at : {"none", "queued", "choosing", "asking", "telling", "taking", "putting", "tasks",
                 "task"},
           todo : SUBSET Epics, epic : Epics, left : SUBSET Repos, waits : BOOLEAN, repo : Repos]

TypeOK ==
  /\ pr \in [PRs -> [state : {"none", "open", "merged", "closed"}, repo : Repos,
                     epics : SUBSET Epics]]
  /\ epic \in [Epics -> States]
  /\ task \in [Epics -> [Repos -> States]]
  /\ notices \in [Epics -> [PRs -> Nat]]
  /\ thread \in [PRs -> Thread]
  /\ \A p \in PRs : thread[p].at # "none" => pr[p].state = "merged"
  /\ carried \in [Epics -> SUBSET Repos] /\ withdrawn \in [Epics -> SUBSET Repos]
  /\ unread \in [Epics -> [PRs -> Nat]] /\ misread \subseteq Epics
  /\ torn \in BOOLEAN /\ errors \in 0 .. faults /\ faults \in 0 .. MaxFaults

AnEpic == CHOOSE e \in Epics : TRUE
ARepo == CHOOSE r \in Repos : TRUE

NoPR == [state |-> "none", repo |-> ARepo, epics |-> {}]

NoThread == [at |-> "none", todo |-> {}, epic |-> AnEpic, left |-> {}, waits |-> FALSE,
             repo |-> ARepo]

Init ==
  /\ pr = [p \in PRs |-> NoPR]
  /\ epic = [e \in Epics |-> "building"]
  /\ task = [e \in Epics |-> [r \in Repos |-> "building"]]
  /\ notices = [e \in Epics |-> [p \in PRs |-> 0]]
  /\ thread = [p \in PRs |-> NoThread]
  /\ carried = [e \in Epics |-> {}] /\ withdrawn = [e \in Epics |-> {}]
  /\ unread = [e \in Epics |-> [p \in PRs |-> 0]] /\ misread = {}
  /\ torn = FALSE /\ errors = 0 /\ faults = 0

Fault == faults < MaxFaults /\ faults' = faults + 1
Raises == Fault /\ errors' = errors + 1
-----------------------------------------------------------------------------
(***************************************************************************)
(* The Release Manager and the people who merge.                           *)
(***************************************************************************)
OpenIn(r) == {p \in PRs : pr[p].state = "open" /\ pr[p].repo = r}

Fresh(p) == pr[p].state = "none" /\ \A q \in PRs : pr[q].state = "none" => p <= q

(* Open, or retitle, the promotion of repo r so that it carries e: GitHub  *)
(* holds one open PR from one branch into another.                         *)
CarriedBy(e, r, p) ==
  IF OpenIn(r) # {} THEN p \in OpenIn(r) ELSE Fresh(p)

(* The epic is on staging with its tasks; its promotions are opened, one   *)
(* repo after another, before the merge list tells people of them.         *)
PutOnStaging(e) ==
  /\ epic[e] = "building"
  /\ epic' = [epic EXCEPT ![e] = "in-staging"]
  /\ task' = [task EXCEPT ![e] = [r \in Repos |-> IF r \in Train[e] THEN "in-staging" ELSE @[r]]]
  /\ UNCHANGED <<pr, notices, thread, history, torn, errors, faults>>

Wanted(e) ==
  {r \in Train[e] : r \notin carried[e] /\ \A p \in OpenIn(r) : e \notin pr[p].epics}

OpenPromotion(e, r, p) ==
  /\ epic[e] = "in-staging" /\ r \in Wanted(e) /\ CarriedBy(e, r, p)
  /\ pr' = [pr EXCEPT ![p] = [state |-> "open", repo |-> r, epics |-> @.epics \cup {e}]]
  /\ UNCHANGED <<epic, task, notices, thread, history, torn, errors, faults>>

Listed(e) == \A r \in Train[e] : r \notin Wanted(e) \/ r \in withdrawn[e]

Merge(p) ==
  /\ pr[p].state = "open" /\ \A e \in pr[p].epics : Listed(e)
  /\ pr' = [pr EXCEPT ![p].state = "merged"]
  /\ thread' = [thread EXCEPT ![p].at = "queued"]
  /\ carried' = [e \in Epics |-> carried[e] \cup (IF e \in pr[p].epics THEN {pr[p].repo} ELSE {})]
  /\ UNCHANGED <<epic, task, notices, withdrawn, unread, misread, torn, errors, faults>>

CloseUnmerged(p) ==
  /\ Fault /\ pr[p].state = "open"
  /\ pr' = [pr EXCEPT ![p].state = "closed"]
  /\ withdrawn' = [e \in Epics |->
       withdrawn[e] \cup (IF e \in pr[p].epics THEN {pr[p].repo} ELSE {})]
  /\ UNCHANGED <<epic, task, notices, thread, carried, unread, misread, torn, errors>>
-----------------------------------------------------------------------------
(***************************************************************************)
(* The thread of a merged promotion PR.                                    *)
(***************************************************************************)
Goes(p, at) == thread' = [thread EXCEPT ![p].at = at]

Ends(p) == thread' = [thread EXCEPT ![p] = NoThread]

(* The epics the title names that are waiting to ship, read one by one     *)
(* before the first of them is shipped.                                    *)
PromotedEpics(p) ==
  /\ thread[p].at = "queued"
  /\ thread' = [thread EXCEPT ![p].at = "choosing",
                              ![p].todo = {e \in pr[p].epics : epic[e] = "in-staging"}]
  /\ UNCHANGED <<github, history, torn, errors, faults>>

Choose(p) ==
  /\ thread[p].at = "choosing"
  /\ \/ /\ thread[p].todo = {}
        /\ Ends(p)
     \/ \E e \in thread[p].todo :
          thread' = [thread EXCEPT ![p].at = "asking", ![p].epic = e, ![p].left = Repos,
                                   ![p].todo = @ \ {e}, ![p].waits = FALSE]
  /\ UNCHANGED <<github, history, torn, errors, faults>>

(* A plausible slip: only the repo that merged is looked at.               *)
OwnRepoOnly(p) == thread[p].left \cap {pr[p].repo}

ReposLeft(p) == thread[p].left

(* The thread's own repo first, then its siblings.                         *)
IsNext(p, r) ==
  r \in ReposLeft(p) /\ (pr[p].repo \in ReposLeft(p) => r = pr[p].repo)

(* A plausible slip: merged promotions are listed with the open ones.      *)
PromotionListed(e, r) == \E p \in PRs : pr[p].repo = r /\ e \in pr[p].epics

OwnPromotionOpen(e, r) == \E p \in OpenIn(r) : e \in pr[p].epics

(* The body names every epic in full, and e is looked for as a substring:  *)
(* the promotion of another epic may be taken for that of e.               *)
TakenForOwn(e, r) ==
  ~OwnPromotionOpen(e, r) /\ \E p \in OpenIn(r) : pr[p].epics \cap ReadIn[e] # {}

PromotionOpen(e, r) == OwnPromotionOpen(e, r) \/ TakenForOwn(e, r)

(* A repo that cannot be listed counts as one whose promotion is open.     *)
Asked(p, r, waits) ==
  /\ thread[p].at = "asking" /\ IsNext(p, r)
  /\ thread' = [thread EXCEPT ![p].left = @ \ {r}, ![p].waits = @ \/ waits]

Ask(p, r) ==
  LET e == thread[p].epic IN
  /\ Asked(p, r, PromotionOpen(e, r))
  /\ misread' = IF TakenForOwn(e, r) THEN misread \cup {e} ELSE misread
  /\ UNCHANGED <<github, carried, withdrawn, unread, torn, errors, faults>>

(* A plausible slip: a repo that cannot be listed is passed over.          *)
AskPassesOver(p, r) ==
  Asked(p, r, FALSE) /\ Raises /\ UNCHANGED <<github, history, torn>>

AskFails(p, r) ==
  Asked(p, r, TRUE) /\ Raises /\ UNCHANGED <<github, history, torn>>

Answered(p) ==
  /\ thread[p].at = "asking" /\ ReposLeft(p) = {}
  /\ Goes(p, IF thread[p].waits THEN "telling" ELSE "taking")
  /\ UNCHANGED <<github, history, torn, errors, faults>>

(* A plausible slip: the thread is not searched for an earlier notice.     *)
ToldBlindly(e, p) == FALSE

Told(e, p) == notices[e][p] > 0

Tell(p) ==
  /\ thread[p].at = "telling"
  /\ notices' = IF Told(thread[p].epic, p) THEN notices
                ELSE [notices EXCEPT ![thread[p].epic][p] = @ + 1]
  /\ Goes(p, "choosing")
  /\ UNCHANGED <<pr, epic, task, history, torn, errors, faults>>

(* Comments that cannot be listed read as none.                            *)
TellUnread(p) ==
  LET e == thread[p].epic IN
  /\ Fault /\ thread[p].at = "telling"
  /\ notices' = [notices EXCEPT ![e][p] = @ + 1]
  /\ unread' = [unread EXCEPT ![e][p] = @ + 1]
  /\ Goes(p, "choosing")
  /\ UNCHANGED <<pr, epic, task, carried, withdrawn, misread, torn, errors>>

(* The labels of the epic go first: off, then on.                          *)
TakeOff(state) == IF state = "in-staging" THEN "bare" ELSE state

TakeEpic(p) ==
  /\ thread[p].at = "taking"
  /\ epic' = [epic EXCEPT ![thread[p].epic] = TakeOff(@)]
  /\ Goes(p, "putting")
  /\ UNCHANGED <<pr, task, notices, history, torn, errors, faults>>

PutEpic(p) ==
  /\ thread[p].at = "putting"
  /\ epic' = [epic EXCEPT ![thread[p].epic] = "deployed"]
  /\ thread' = [thread EXCEPT ![p].at = "tasks", ![p].left = Repos]
  /\ UNCHANGED <<pr, task, notices, history, torn, errors, faults>>

(* Then, repo by repo, the tasks still listed at factory:in-staging.       *)
ListTasks(p, r) ==
  /\ thread[p].at = "tasks" /\ IsNext(p, r)
  /\ IF task[thread[p].epic][r] = "in-staging"
     THEN /\ task' = [task EXCEPT ![thread[p].epic][r] = "bare"]
          /\ thread' = [thread EXCEPT ![p].at = "task", ![p].repo = r, ![p].left = @ \ {r}]
     ELSE /\ thread' = [thread EXCEPT ![p].left = @ \ {r}]
          /\ UNCHANGED task
  /\ UNCHANGED <<pr, epic, notices, history, torn, errors, faults>>

PutTask(p) ==
  /\ thread[p].at = "task"
  /\ task' = [task EXCEPT ![thread[p].epic][thread[p].repo] = "deployed"]
  /\ Goes(p, "tasks")
  /\ UNCHANGED <<pr, epic, notices, history, torn, errors, faults>>

ListFails(p, r) ==
  /\ Raises
  /\ thread[p].at = "tasks" /\ IsNext(p, r)
  /\ thread' = [thread EXCEPT ![p].left = @ \ {r}]
  /\ UNCHANGED <<github, history, torn>>

Shipped(p) ==
  /\ thread[p].at = "tasks" /\ ReposLeft(p) = {}
  /\ Goes(p, "choosing")
  /\ UNCHANGED <<github, history, torn, errors, faults>>

(* Any other call that raises ends the delivery; a label that cannot be    *)
(* taken off is passed over.                                               *)
CallRaises(p) ==
  /\ Raises
  /\ \/ thread[p].at \in {"queued", "telling", "putting", "task"} /\ Ends(p)
     \/ thread[p].at = "taking" /\ Goes(p, "putting")
  /\ UNCHANGED <<github, history, torn>>

(* Every delivery that was being processed is taken again from its start.  *)
Restart ==
  /\ Fault
  /\ \E p \in PRs : thread[p].at \notin {"none", "queued"}
  /\ thread' = [p \in PRs |-> IF thread[p].at = "none" THEN NoThread
                              ELSE [NoThread EXCEPT !.at = "queued"]]
  /\ torn' = (torn \/ \E p \in PRs : thread[p].at \in {"putting", "tasks", "task"})
  /\ UNCHANGED <<github, history, errors>>
-----------------------------------------------------------------------------
People ==
  \/ \E p \in PRs : Merge(p) \/ CloseUnmerged(p)
  \/ \E e \in Epics : PutOnStaging(e) \/ \E r \in Repos, p \in PRs : OpenPromotion(e, r, p)

ThreadStep(p) ==
  \/ PromotedEpics(p) \/ Choose(p) \/ Answered(p) \/ Tell(p)
  \/ TakeEpic(p) \/ PutEpic(p) \/ PutTask(p) \/ Shipped(p)
  \/ \E r \in Repos : Ask(p, r) \/ ListTasks(p, r)

ThreadFails(p) ==
  \/ CallRaises(p) \/ TellUnread(p)
  \/ \E r \in Repos : AskFails(p, r) \/ ListFails(p, r)

Next ==
  \/ People
  \/ \E p \in PRs : ThreadStep(p) \/ ThreadFails(p)
  \/ Restart

(* The workers of the queue go on; of people and failures nothing is       *)
(* assumed.                                                                *)
Fairness == \A p \in PRs : WF_vars(ThreadStep(p))

Spec == Init /\ [][Next]_vars
FairSpec == Spec /\ Fairness
-----------------------------------------------------------------------------
(***************************************************************************)
(* Properties.                                                             *)
(***************************************************************************)
Merged(e) == Train[e] \subseteq carried[e]

(* No epic leaves factory:in-staging before every repo of its train has    *)
(* merged its promotion, whatever is merged while a thread asks, and where *)
(* a repo could not be listed; a promotion a person closed unmerged is not *)
(* waited for (open_promotions).                                           *)
ShippedIsMerged ==
  \A e \in Epics : epic[e] \in {"bare", "deployed"} =>
    Train[e] \subseteq carried[e] \cup withdrawn[e]

(* An epic that was told of a merge is told again by the replayed delivery *)
(* only where its comments could not be listed (the factory-promoted mark  *)
(* looked for in _comment_bodies).                                         *)
ToldOnce == \A e \in Epics, p \in PRs : notices[e][p] <= 1 + unread[e][p]

(* No thread leaves a task behind at factory:in-staging, or without a      *)
(* state, under a shipped epic, and two threads that ship the same epic do *)
(* each other no harm (ship).                                              *)
TasksShipToo ==
  (errors = 0 /\ ~torn /\ \A p \in PRs : thread[p].at = "none") =>
    \A e \in Epics : epic[e] # "bare" /\
      (epic[e] = "deployed" => \A r \in Train[e] : task[e][r] = "deployed")

(* The last merge ships the epic: of threads that run at the same time at  *)
(* least one finds no promotion open.  An epic whose mention was found in  *)
(* another's promotion is let down: nothing asks for it again.             *)
MergedEpicShips ==
  \A e \in Epics : Merged(e) ~> (epic[e] = "deployed" \/ errors > 0 \/ torn \/ e \in misread)
-----------------------------------------------------------------------------
(***************************************************************************)
(* What the documents say and the code does not do.                        *)
(***************************************************************************)

(* "It counts as shipped when the last promotion PR is merged": a          *)
(* promotion that is closed to be opened again is waited for too.          *)
ShippedEverywhere == \A e \in Epics : epic[e] = "deployed" => Merged(e)

(* "The engine, on the last merge, -> factory:deployed (epic and tasks)",  *)
(* also where the process stopped while it moved the labels.               *)
ShipSurvivesStop ==
  \A e \in Epics : Merged(e) ~>
    \/ epic[e] = "deployed" /\ \A r \in Train[e] : task[e][r] = "deployed"
    \/ errors > 0 \/ e \in misread
==============================================================================
