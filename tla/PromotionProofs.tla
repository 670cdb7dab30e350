-------------------------- MODULE PromotionProofs --------------------------
(***************************************************************************)
(* Proofs about Promotion, for any estate, any number of promotions and    *)
(* any number of failures.                                                 *)
(***************************************************************************)
EXTENDS Promotion, TLAPS

(***************************************************************************)
(* The inductive invariants.                                               *)
(***************************************************************************)

(* The promotions of e are done with in every repo of rs.                  *)
DoneIn(e, rs) == rs \subseteq carried[e] \cup withdrawn[e]

(* People merge no promotion before they have seen all of an epic's.       *)
MergedIsListed ==
  \A p \in PRs : pr[p].state = "merged" => \A e \in pr[p].epics : Listed(e)

(* A thread works on what its PR carried.                                  *)
OfItsPR(t, p) ==
  /\ t.todo \subseteq pr[p].epics
  /\ t.at \notin {"none", "queued", "choosing"} => t.epic \in pr[p].epics

WorksOnItsOwn == \A p \in PRs : OfItsPR(thread[p], p)

(* What a thread has found out stays true while it asks on: the repos it   *)
(* has behind it are done with.                                            *)
Found(t) ==
  /\ t.at = "asking" /\ ~t.waits => DoneIn(t.epic, Train[t.epic] \ t.left)
  /\ t.at \in {"taking", "putting", "tasks", "task"} => DoneIn(t.epic, Train[t.epic])

FoundIsTrue == \A p \in PRs : Found(thread[p])

ShipInv == MergedIsListed /\ WorksOnItsOwn /\ FoundIsTrue /\ ShippedIsMerged

(* Only an epic that has been on staging is shipped, and its tasks have    *)
(* been there with it.                                                     *)
OfStaged(t) ==
  /\ \A e \in t.todo : epic[e] # "building"
  /\ t.at \notin {"none", "queued", "choosing"} => epic[t.epic] # "building"

StagedFirst ==
  /\ \A p \in PRs : OfStaged(thread[p])
  /\ \A e \in Epics, r \in Repos : epic[e] # "building" /\ r \in Train[e] => task[e][r] # "building"

(* What is half done has a thread that will finish it: t puts the label on *)
(* epic e, on its task in repo r, or has yet to list that task.            *)
PutsEpic(t, e) == t.at = "putting" /\ t.epic = e
PutsTask(t, e, r) == t.at = "task" /\ t.epic = e /\ t.repo = r
WillList(t, e, r) == t.at \in {"tasks", "task"} /\ t.epic = e /\ r \in t.left

Behind(e, r) == epic[e] = "deployed" /\ task[e][r] = "in-staging"

HalfDoneIsAtWork ==
  (errors = 0 /\ ~torn) =>
    \A e \in Epics :
      /\ epic[e] = "bare" => \E p \in PRs : PutsEpic(thread[p], e)
      /\ \A r \in Train[e] :
           /\ task[e][r] = "bare" => \E p \in PRs : PutsTask(thread[p], e, r)
           /\ Behind(e, r) => \E p \in PRs : WillList(thread[p], e, r)

TaskInv == StagedFirst /\ HalfDoneIsAtWork

-----------------------------------------------------------------------------
(***************************************************************************)
(* Types.                                                                  *)
(***************************************************************************)
LEMMA Names ==
  /\ AnEpic \in Epics /\ ARepo \in Repos
  /\ NoPR.state = "none" /\ NoPR.repo \in Repos /\ NoPR.epics = {}
  /\ NoThread \in Thread /\ NoThread.at = "none" /\ NoThread.todo = {}
  /\ [NoThread EXCEPT !.at = "queued"] \in Thread
  /\ Train \in [Epics -> SUBSET Repos]
<1>1. Train \in [Epics -> SUBSET Repos] /\ \A e \in Epics : Train[e] # {}
  BY PromotionAssumption
<1>2. AnEpic \in Epics
  BY PromotionAssumption DEF AnEpic
<1>3. ARepo \in Repos
  BY <1>1, <1>2 DEF ARepo
<1>. QED
  BY <1>1, <1>2, <1>3 DEF NoPR, NoThread, Thread

-----------------------------------------------------------------------------
(***************************************************************************)
(* What the steps of a thread do to it.                                    *)
(***************************************************************************)

(* Thread p becomes t, and no other moves.                                 *)
Becomes(p, t) ==
  /\ t \in Thread /\ thread' \in [PRs -> Thread]
  /\ thread'[p] = t /\ \A q \in PRs \ {p} : thread'[q] = thread[q]

(* It stays with its epic and with those it has still to do.               *)
Same(t, p) == t.epic = thread[p].epic /\ t.todo = thread[p].todo

LEMMA Becoming ==
  ASSUME TypeOK, NEW p \in PRs, NEW t \in Thread, thread' = [thread EXCEPT ![p] = t]
  PROVE  Becomes(p, t)
  BY DEF Becomes, TypeOK

LEMMA ThreadTypes ==
  ASSUME TypeOK, NEW p \in PRs
  PROVE  /\ thread[p] \in Thread /\ thread[p].epic \in Epics /\ thread[p].todo \subseteq Epics
         /\ thread[p].left \subseteq Repos /\ thread[p].repo \in Repos
         /\ thread[p].waits \in BOOLEAN
  BY DEF TypeOK, Thread

LEMMA Going ==
  ASSUME TypeOK, NEW p \in PRs, NEW at, Goes(p, at),
         at \in {"choosing", "telling", "taking", "putting", "tasks"}
  PROVE  \E t \in Thread : /\ Becomes(p, t) /\ t.at = at /\ Same(t, p)
                           /\ t.left = thread[p].left /\ t.repo = thread[p].repo
<1> DEFINE t == [thread[p] EXCEPT !.at = at]
<1>1. /\ t \in Thread /\ t.at = at /\ Same(t, p)
      /\ t.left = thread[p].left /\ t.repo = thread[p].repo
  BY ThreadTypes DEF Thread, Same
<1>2. thread' = [thread EXCEPT ![p] = t]
  BY DEF Goes
<1>. QED
  BY <1>1, <1>2, Becoming

LEMMA Ending ==
  ASSUME TypeOK, NEW p \in PRs, Ends(p)
  PROVE  \E t \in Thread : Becomes(p, t) /\ t.at = "none" /\ t.todo = {}
  BY Names, Becoming DEF Ends

LEMMA Promoting ==
  ASSUME TypeOK, NEW p \in PRs, PromotedEpics(p)
  PROVE  \E t \in Thread : /\ Becomes(p, t) /\ t.at = "choosing"
                           /\ t.todo = {e \in pr[p].epics : epic[e] = "in-staging"}
<1> DEFINE todo == {e \in pr[p].epics : epic[e] = "in-staging"}
           t == [thread[p] EXCEPT !.at = "choosing", !.todo = todo]
<1>1. todo \subseteq Epics
  BY DEF TypeOK
<1>2. thread' = [thread EXCEPT ![p] = t]
  BY DEF PromotedEpics
<1> HIDE DEF todo
<1>3. t \in Thread /\ t.at = "choosing" /\ t.todo = todo
  BY <1>1, ThreadTypes DEF Thread
<1>. QED
  BY <1>2, <1>3, Becoming DEF todo

LEMMA Choosing ==
  ASSUME TypeOK, NEW p \in PRs, Choose(p), thread[p].todo # {}
  PROVE  \E t \in Thread : /\ Becomes(p, t) /\ t.at = "asking" /\ t.epic \in thread[p].todo
                           /\ t.todo \subseteq thread[p].todo /\ t.left = Repos
<1>1. PICK e \in thread[p].todo :
        thread' = [thread EXCEPT ![p].at = "asking", ![p].epic = e, ![p].left = Repos,
                                 ![p].todo = @ \ {e}, ![p].waits = FALSE]
  BY DEF Choose
<1> DEFINE t == [thread[p] EXCEPT !.at = "asking", !.epic = e, !.left = Repos, !.todo = @ \ {e},
                                  !.waits = FALSE]
<1>2. thread[p] \in Thread /\ e \in Epics
  BY ThreadTypes
<1>3. thread' = [thread EXCEPT ![p] = t]
  BY <1>1
<1>4. /\ t \in Thread /\ t.at = "asking" /\ t.epic = e
      /\ t.todo \subseteq thread[p].todo /\ t.left = Repos
  BY <1>2 DEF Thread
<1>. QED
  BY <1>3, <1>4, Becoming

LEMMA Asking ==
  ASSUME TypeOK, NEW p \in PRs, NEW r \in Repos, NEW w \in BOOLEAN, Asked(p, r, w)
  PROVE  \E t \in Thread : /\ Becomes(p, t) /\ t.at = "asking" /\ Same(t, p)
                           /\ t.left = thread[p].left \ {r} /\ t.waits = (thread[p].waits \/ w)
<1> DEFINE t == [thread[p] EXCEPT !.left = @ \ {r}, !.waits = @ \/ w]
<1>1. /\ t \in Thread /\ t.at = "asking" /\ Same(t, p)
      /\ t.left = thread[p].left \ {r} /\ t.waits = (thread[p].waits \/ w)
  BY ThreadTypes DEF Thread, Asked, Same
<1>2. thread' = [thread EXCEPT ![p] = t]
  BY DEF Asked
<1>. QED
  BY <1>1, <1>2, Becoming

LEMMA Putting ==
  ASSUME TypeOK, NEW p \in PRs, PutEpic(p)
  PROVE  \E t \in Thread : Becomes(p, t) /\ t.at = "tasks" /\ Same(t, p) /\ t.left = Repos
<1> DEFINE t == [thread[p] EXCEPT !.at = "tasks", !.left = Repos]
<1>1. t \in Thread /\ t.at = "tasks" /\ Same(t, p) /\ t.left = Repos
  BY ThreadTypes DEF Thread, Same
<1>2. thread' = [thread EXCEPT ![p] = t]
  BY DEF PutEpic
<1>. QED
  BY <1>1, <1>2, Becoming

LEMMA Passing ==
  ASSUME TypeOK, NEW p \in PRs, NEW r, thread[p].at = "tasks",
         thread' = [thread EXCEPT ![p].left = @ \ {r}]
  PROVE  \E t \in Thread : /\ Becomes(p, t) /\ t.at = "tasks" /\ Same(t, p)
                           /\ t.left = thread[p].left \ {r}
<1> DEFINE t == [thread[p] EXCEPT !.left = @ \ {r}]
<1>1. t \in Thread /\ t.at = "tasks" /\ Same(t, p) /\ t.left = thread[p].left \ {r}
  BY ThreadTypes DEF Thread, Same
<1>2. thread' = [thread EXCEPT ![p] = t]
  OBVIOUS
<1>. QED
  BY <1>1, <1>2, Becoming

LEMMA Listing ==
  ASSUME TypeOK, NEW p \in PRs, NEW r \in Repos, ListTasks(p, r)
  PROVE  \E t \in Thread :
           /\ Becomes(p, t) /\ Same(t, p) /\ t.left = thread[p].left \ {r}
           /\ \/ task[thread[p].epic][r] = "in-staging" /\ t.at = "task" /\ t.repo = r
              \/ task[thread[p].epic][r] # "in-staging" /\ t.at = "tasks"
<1>1. CASE task[thread[p].epic][r] = "in-staging"
  <2> DEFINE t == [thread[p] EXCEPT !.at = "task", !.repo = r, !.left = @ \ {r}]
  <2>1. t \in Thread /\ Same(t, p) /\ t.left = thread[p].left \ {r} /\ t.at = "task" /\ t.repo = r
    BY ThreadTypes DEF Thread, Same
  <2>2. thread' = [thread EXCEPT ![p] = t]
    BY <1>1 DEF ListTasks
  <2>. QED
    BY <1>1, <2>1, <2>2, Becoming
<1>2. CASE task[thread[p].epic][r] # "in-staging"
  <2>1. thread' = [thread EXCEPT ![p].left = @ \ {r}] /\ thread[p].at = "tasks"
    BY <1>2 DEF ListTasks
  <2>. QED
    BY <1>2, <2>1, Passing
<1>. QED
  BY <1>1, <1>2

LEMMA Queueing ==
  ASSUME TypeOK, NEW p \in PRs, Merge(p)
  PROVE  \E t \in Thread : Becomes(p, t) /\ t.at = "queued" /\ Same(t, p)
<1> DEFINE t == [thread[p] EXCEPT !.at = "queued"]
<1>1. t \in Thread /\ t.at = "queued" /\ Same(t, p)
  BY ThreadTypes DEF Thread, Same
<1>2. thread' = [thread EXCEPT ![p] = t]
  BY DEF Merge
<1>. QED
  BY <1>1, <1>2, Becoming

-----------------------------------------------------------------------------
LEMMA InitTyped == Init => TypeOK
<1> SUFFICES ASSUME Init PROVE TypeOK
  OBVIOUS
<1>1. errors \in 0 .. faults /\ faults \in 0 .. MaxFaults
  BY PromotionAssumption DEF Init
<1>. QED
  BY <1>1, Names DEF Init, TypeOK, NoPR, States

(* Every step of a thread is a move of that thread alone, and leaves the   *)
(* promotions as they are.                                                 *)
LEMMA Moving ==
  ASSUME TypeOK, NEW p \in PRs, ThreadStep(p) \/ ThreadFails(p)
  PROVE  /\ thread[p].at # "none" /\ UNCHANGED <<pr, carried, withdrawn, torn>>
         /\ \E t \in Thread : Becomes(p, t)
<1>1. thread[p].at # "none" /\ UNCHANGED <<pr, carried, withdrawn, torn>>
  BY DEF ThreadStep, ThreadFails, PromotedEpics, Choose, Answered, Tell, TakeEpic, PutEpic,
         PutTask, Shipped, Ask, Asked, ListTasks, CallRaises, TellUnread, AskFails, ListFails,
         github, history
<1> SUFFICES \E t \in Thread : Becomes(p, t)
  BY <1>1
<1>2. CASE PromotedEpics(p)
  BY <1>2, Promoting
<1>3. CASE Choose(p)
  BY <1>3, Choosing, Ending DEF Choose
<1>4. CASE \/ Answered(p) \/ Tell(p) \/ TellUnread(p) \/ TakeEpic(p) \/ PutTask(p)
           \/ Shipped(p)
  BY <1>4, Going DEF Answered, Tell, TellUnread, TakeEpic, PutTask, Shipped
<1>5. CASE PutEpic(p)
  BY <1>5, Putting
<1>6. CASE \E r \in Repos : Ask(p, r) \/ AskFails(p, r)
  <2>1. \A r \in Repos : PromotionOpen(thread[p].epic, r) \in BOOLEAN
    BY DEF PromotionOpen, OwnPromotionOpen, TakenForOwn
  <2>. QED
    BY <1>6, <2>1, Asking DEF Ask, AskFails
<1>7. CASE \E r \in Repos : ListTasks(p, r)
  BY <1>7, Listing
<1>8. CASE \E r \in Repos : ListFails(p, r)
  BY <1>8, Passing DEF ListFails
<1>9. CASE CallRaises(p)
  BY <1>9, Ending, Going DEF CallRaises
<1>. QED
  BY <1>2, <1>3, <1>4, <1>5, <1>6, <1>7, <1>8, <1>9 DEF ThreadStep, ThreadFails

LEMMA StepTyped == TypeOK /\ [Next]_vars => TypeOK'
<1> SUFFICES ASSUME TypeOK, [Next]_vars PROVE TypeOK'
  OBVIOUS
<1>1. CASE \E e \in Epics : PutOnStaging(e)
  <2>1. PICK e \in Epics : PutOnStaging(e)
    BY <1>1
  <2>2. task' \in [Epics -> [Repos -> States]]
    BY <2>1 DEF PutOnStaging, TypeOK, States
  <2>3. epic' \in [Epics -> States]
    BY <2>1 DEF PutOnStaging, TypeOK, States
  <2>. QED
    BY <2>1, <2>2, <2>3 DEF PutOnStaging, TypeOK, history
<1>2. CASE \E e \in Epics, r \in Repos, p \in PRs : OpenPromotion(e, r, p)
  BY <1>2 DEF OpenPromotion, TypeOK, history, CarriedBy, OpenIn, Fresh
<1>3. CASE \E p \in PRs : Merge(p)
  <2>1. PICK p \in PRs : Merge(p)
    BY <1>3
  <2>2. thread' \in [PRs -> Thread] /\ \A q \in PRs \ {p} : thread'[q] = thread[q]
    BY <2>1, Queueing DEF Becomes
  <2>3. carried' \in [Epics -> SUBSET Repos]
    BY <2>1 DEF Merge, TypeOK
  <2>4. /\ pr' \in [PRs -> [state : {"none", "open", "merged", "closed"},
                           repo : Repos, epics : SUBSET Epics]]
        /\ pr'[p].state = "merged" /\ \A q \in PRs \ {p} : pr'[q] = pr[q]
    BY <2>1 DEF Merge, TypeOK
  <2>5. \A q \in PRs : thread'[q].at # "none" => pr'[q].state = "merged"
    BY <2>2, <2>4 DEF TypeOK
  <2>6. UNCHANGED <<epic, task, notices, withdrawn, unread, misread, torn, errors, faults>>
    BY <2>1 DEF Merge
  <2>. QED
    BY <2>2, <2>3, <2>4, <2>5, <2>6 DEF TypeOK
<1>4. CASE \E p \in PRs : CloseUnmerged(p)
  <2>1. PICK p \in PRs : CloseUnmerged(p)
    BY <1>4
  <2>2. withdrawn' \in [Epics -> SUBSET Repos]
    BY <2>1 DEF CloseUnmerged, TypeOK
  <2>3. errors' \in 0 .. faults' /\ faults' \in 0 .. MaxFaults
    BY <2>1, PromotionAssumption DEF CloseUnmerged, Fault, TypeOK
  <2>. QED
    BY <2>1, <2>2, <2>3 DEF CloseUnmerged, TypeOK
<1>5. ASSUME NEW p \in PRs, ThreadStep(p) \/ ThreadFails(p) PROVE TypeOK'
  <2>1. PICK t \in Thread : Becomes(p, t)
    BY <1>5, Moving
  <2>2. thread[p].at # "none" /\ UNCHANGED <<pr, carried, withdrawn, torn>>
    BY <1>5, Moving
  <2>3. /\ thread' \in [PRs -> Thread]
        /\ \A q \in PRs : thread'[q].at # "none" => pr'[q].state = "merged"
    BY <2>1, <2>2 DEF Becomes, TypeOK
  <2>4. epic' \in [Epics -> States]
    BY <1>5 DEF ThreadStep, ThreadFails, PromotedEpics, Choose, Answered, Tell, TakeEpic, TakeOff,
                PutEpic, PutTask, Shipped, Ask, ListTasks, CallRaises, TellUnread, AskFails,
                ListFails, github,
                TypeOK, States
  <2>5. task' \in [Epics -> [Repos -> States]]
    <3>1. thread[p].epic \in Epics /\ thread[p].repo \in Repos
      BY ThreadTypes
    <3>2. CASE PutTask(p)
      BY <3>1, <3>2 DEF PutTask, TypeOK, States
    <3>3. CASE \E r \in Repos : ListTasks(p, r)
      <4> DEFINE e == thread[p].epic
      <4>1. PICK r \in Repos : task' = [task EXCEPT ![e][r] = "bare"] \/ UNCHANGED task
        BY <3>3 DEF ListTasks
      <4>2. e \in Epics
        BY <3>1
      <4> HIDE DEF e
      <4>3. \A c \in Epics : task[c] \in [Repos -> States]
        BY DEF TypeOK
      <4>4. [task[e] EXCEPT ![r] = "bare"] \in [Repos -> States]
        BY <4>2, <4>3 DEF States
      <4>. QED
        BY <4>1, <4>2, <4>4 DEF TypeOK
    <3>4. CASE UNCHANGED task
      BY <3>4 DEF TypeOK
    <3>. QED
      BY <1>5, <3>2, <3>3, <3>4
      DEF ThreadStep, ThreadFails, PromotedEpics, Choose, Answered, Tell, TakeEpic, PutEpic,
          Shipped, Ask, CallRaises, TellUnread, AskFails, ListFails, github
  <2>6. notices' \in [Epics -> [PRs -> Nat]]
    <3>1. CASE Tell(p) \/ TellUnread(p)
      <4> DEFINE e == thread[p].epic
      <4>1. e \in Epics
        BY ThreadTypes
      <4>2. UNCHANGED notices \/ notices' = [notices EXCEPT ![e][p] = @ + 1]
        BY <3>1 DEF Tell, TellUnread
      <4> HIDE DEF e
      <4>3. notices \in [Epics -> [PRs -> Nat]]
        BY DEF TypeOK
      <4>4. [notices[e] EXCEPT ![p] = @ + 1] \in [PRs -> Nat]
        BY <4>1, <4>3
      <4>. QED
        BY <4>1, <4>2, <4>3, <4>4
    <3>2. CASE UNCHANGED notices
      BY <3>2 DEF TypeOK
    <3>. QED
      BY <1>5, <3>1, <3>2
      DEF ThreadStep, ThreadFails, PromotedEpics, Choose, Answered, TakeEpic, PutEpic, PutTask,
          Shipped, Ask, ListTasks, CallRaises, AskFails, ListFails, github
  <2>8. unread' \in [Epics -> [PRs -> Nat]] /\ misread' \subseteq Epics
    <3>1. CASE TellUnread(p)
      BY <3>1, ThreadTypes DEF TellUnread, TypeOK
    <3>2. CASE \E r \in Repos : Ask(p, r)
      BY <3>2, ThreadTypes DEF Ask, TypeOK
    <3>3. CASE UNCHANGED <<unread, misread>>
      BY <3>3 DEF TypeOK
    <3>. QED
      BY <1>5, <3>1, <3>2, <3>3
      DEF ThreadStep, ThreadFails, PromotedEpics, Choose, Answered, Tell, TakeEpic, PutEpic,
          PutTask, Shipped, ListTasks, CallRaises, AskFails, ListFails, history
  <2>7. errors' \in 0 .. faults' /\ faults' \in 0 .. MaxFaults
    <3>1. CASE Raises
      BY <3>1, PromotionAssumption DEF Raises, Fault, TypeOK
    <3>2. CASE UNCHANGED <<errors, faults>>
      BY <3>2 DEF TypeOK
    <3>3. CASE Fault /\ UNCHANGED errors
      BY <3>3, PromotionAssumption DEF Fault, TypeOK
    <3>. QED
      BY <1>5, <3>1, <3>2, <3>3
      DEF ThreadStep, ThreadFails, PromotedEpics, Choose, Answered, Tell, TakeEpic, PutEpic,
          PutTask, Shipped, Ask, ListTasks, CallRaises, TellUnread, AskFails, ListFails
  <2>. QED
    BY <2>2, <2>3, <2>4, <2>5, <2>6, <2>7, <2>8 DEF TypeOK
<1>6. CASE Restart
  <2>1. faults' \in 0 .. MaxFaults /\ errors' \in 0 .. faults'
    BY <1>6, PromotionAssumption DEF Restart, Fault, TypeOK
  <2>2. thread' \in [PRs -> Thread]
    BY <1>6, Names DEF Restart
  <2>3. \A p \in PRs : thread'[p].at # "none" => thread[p].at # "none"
    BY <1>6, Names DEF Restart
  <2>4. torn' \in BOOLEAN
    BY <1>6 DEF Restart, TypeOK
  <2>. QED
    BY <1>6, <2>1, <2>2, <2>3, <2>4 DEF Restart, TypeOK, github, history
<1>7. CASE UNCHANGED vars
  BY <1>7 DEF vars, TypeOK
<1>. QED
  BY <1>1, <1>2, <1>3, <1>4, <1>5, <1>6, <1>7 DEF Next, People

(* The variables keep their types, whatever people and GitHub do.          *)
THEOREM PromotionTypes == Spec => []TypeOK
  BY InitTyped, StepTyped, PTL DEF Spec

-----------------------------------------------------------------------------
(***************************************************************************)
(* An epic is told once of each merge.                                     *)
(***************************************************************************)
LEMMA StepTells == TypeOK /\ ToldOnce /\ [Next]_vars => ToldOnce'
<1> SUFFICES ASSUME TypeOK, ToldOnce, [Next]_vars PROVE ToldOnce'
  OBVIOUS
<1> SUFFICES ASSUME NEW e \in Epics, NEW q \in PRs PROVE notices'[e][q] <= 1 + unread'[e][q]
  BY DEF ToldOnce
<1>0. /\ notices[e][q] \in Nat /\ unread[e][q] \in Nat /\ notices[e][q] <= 1 + unread[e][q]
      /\ \A p \in PRs : thread[p].epic \in Epics
  BY ThreadTypes DEF TypeOK, ToldOnce
<1>1. CASE \E p \in PRs : Tell(p)
  BY <1>0, <1>1 DEF Tell, Told, TypeOK, history
<1>2. CASE UNCHANGED <<notices, unread>>
  BY <1>0, <1>2
<1>3. ASSUME NEW p \in PRs, TellUnread(p) PROVE notices'[e][q] <= 1 + unread'[e][q]
  <2> DEFINE c == thread[p].epic
  <2>1. /\ c \in Epics /\ notices' = [notices EXCEPT ![c][p] = @ + 1]
        /\ unread' = [unread EXCEPT ![c][p] = @ + 1]
    BY <1>0, <1>3 DEF TellUnread
  <2> HIDE DEF c
  <2>2. CASE e = c /\ q = p
    BY <1>0, <2>1, <2>2 DEF TypeOK
  <2>3. CASE ~ (e = c /\ q = p)
    <3>1. notices'[e][q] = notices[e][q] /\ unread'[e][q] = unread[e][q]
      BY <2>1, <2>3 DEF TypeOK
    <3>. QED
      BY <1>0, <3>1
  <2>. QED
    BY <2>2, <2>3
<1>. QED
  BY <1>1, <1>2, <1>3
  DEF Next, People, PutOnStaging, OpenPromotion, Merge, CloseUnmerged, ThreadStep, ThreadFails,
      PromotedEpics, Choose, Ask, Answered, TakeEpic, PutEpic, ListTasks, PutTask, Shipped,
      CallRaises, AskFails, ListFails, Restart, github, history, vars

(* ToldOnce: however often a delivery is replayed, its merge is announced  *)
(* on an epic once, and once more at most each time the epic's comments    *)
(* could not be listed.                                                    *)
THEOREM NoticesOnce == Spec => []ToldOnce
<1>1. Init => ToldOnce
  BY DEF Init, ToldOnce
<1>. QED
  BY <1>1, InitTyped, StepTyped, StepTells, PTL DEF Spec

-----------------------------------------------------------------------------
(***************************************************************************)
(* An epic ships when its train is done with.                              *)
(***************************************************************************)
LEMMA Grows ==
  ASSUME TypeOK, [Next]_vars
  PROVE  /\ \A e \in Epics : /\ carried[e] \subseteq carried'[e]
                             /\ withdrawn[e] \subseteq withdrawn'[e]
         /\ \A p \in PRs : pr[p].epics \subseteq pr'[p].epics
         /\ \A p \in PRs : pr[p].state \notin {"none", "open"} => pr'[p] = pr[p]
<1>1. CASE \E p \in PRs : Merge(p)
  BY <1>1 DEF Merge, TypeOK
<1>2. CASE \E p \in PRs : CloseUnmerged(p)
  BY <1>2 DEF CloseUnmerged, TypeOK
<1>3. CASE \E e \in Epics, r \in Repos, p \in PRs : OpenPromotion(e, r, p)
  BY <1>3 DEF OpenPromotion, CarriedBy, OpenIn, Fresh, TypeOK, history
<1>4. CASE UNCHANGED <<pr, history>>
  BY <1>4 DEF history
<1>. QED
  BY <1>1, <1>2, <1>3, <1>4
  DEF Next, People, PutOnStaging, ThreadStep, ThreadFails, PromotedEpics, Choose, Ask, Answered,
      Tell, TakeEpic, PutEpic, ListTasks, PutTask, Shipped, CallRaises, TellUnread, AskFails,
      ListFails,
      Restart, github, history, vars

LEMMA ListedStays ==
  ASSUME TypeOK, [Next]_vars, NEW e \in Epics, Listed(e)
  PROVE  Listed(e)'
<1> SUFFICES ASSUME NEW r \in Train[e]
             PROVE  \/ r \in carried'[e] \cup withdrawn'[e]
                    \/ \E p \in PRs : /\ pr'[p].state = "open" /\ pr'[p].repo = r
                                      /\ e \in pr'[p].epics
  BY DEF Listed, Wanted, OpenIn
<1>1. CASE r \in carried[e] \cup withdrawn[e]
  BY <1>1, Grows
<1>2. CASE r \notin carried[e] \cup withdrawn[e]
  <2>1. PICK p \in PRs : pr[p].state = "open" /\ pr[p].repo = r /\ e \in pr[p].epics
    BY <1>2 DEF Listed, Wanted, OpenIn
  <2>2. CASE \E q \in PRs : Merge(q)
    BY <2>1, <2>2 DEF Merge, TypeOK
  <2>3. CASE \E q \in PRs : CloseUnmerged(q)
    BY <2>1, <2>3 DEF CloseUnmerged, TypeOK
  <2>4. CASE \E c \in Epics, s \in Repos, q \in PRs : OpenPromotion(c, s, q)
    BY <2>1, <2>4 DEF OpenPromotion, CarriedBy, OpenIn, Fresh, TypeOK
  <2>5. CASE UNCHANGED pr
    BY <2>1, <2>5
  <2>. QED
    BY <2>2, <2>3, <2>4, <2>5
    DEF Next, People, PutOnStaging, ThreadStep, ThreadFails, PromotedEpics, Choose, Ask, Answered,
        Tell, TakeEpic, PutEpic, ListTasks, PutTask, Shipped, CallRaises, TellUnread, AskFails,
        ListFails,
        Restart, github, vars
<1>. QED
  BY <1>1, <1>2

LEMMA MergesAreListed == TypeOK /\ MergedIsListed /\ [Next]_vars => MergedIsListed'
<1> SUFFICES ASSUME TypeOK, MergedIsListed, [Next]_vars,
                    NEW p \in PRs, pr'[p].state = "merged", NEW e \in pr'[p].epics
             PROVE  Listed(e)'
  BY DEF MergedIsListed
<1>1. e \in Epics
  <2>1. TypeOK'
    BY StepTyped
  <2>. QED
    BY <2>1 DEF TypeOK
<1>2. CASE pr[p].state = "merged"
  <2>1. e \in pr[p].epics
    BY <1>2, Grows
  <2>. QED
    BY <1>1, <1>2, <2>1, ListedStays DEF MergedIsListed
<1>3. CASE pr[p].state # "merged"
  <2>1. Merge(p)
    <3>1. ASSUME NEW q \in PRs, Merge(q) PROVE q = p
      BY <1>3, <3>1 DEF Merge, TypeOK
    <3>2. ~ \E q \in PRs : CloseUnmerged(q)
      BY <1>3 DEF CloseUnmerged, TypeOK
    <3>3. ~ \E c \in Epics, r \in Repos, q \in PRs : OpenPromotion(c, r, q)
      <4>1. pr \in [PRs -> [state : {"none", "open", "merged", "closed"}, repo : Repos,
                            epics : SUBSET Epics]]
        BY DEF TypeOK
      <4>2. ASSUME NEW c \in Epics, NEW r \in Repos, NEW q \in PRs, OpenPromotion(c, r, q)
            PROVE  pr'[q].state = "open" /\ \A o \in PRs \ {q} : pr'[o] = pr[o]
        BY <4>1, <4>2 DEF OpenPromotion
      <4>3. pr'[p].state = "merged" /\ pr[p].state # "merged"
        BY <1>3
      <4>. QED
        BY <4>2, <4>3
    <3>4. pr' # pr
      BY <1>3
    <3>. QED
      BY <3>1, <3>2, <3>3, <3>4
      DEF Next, People, PutOnStaging, ThreadStep, ThreadFails, PromotedEpics, Choose, Ask,
          Answered, Tell, TakeEpic, PutEpic, ListTasks, PutTask, Shipped, CallRaises,
          TellUnread, AskFails,
          ListFails, Restart, github, vars
  <2>2. e \in pr[p].epics
    BY <2>1 DEF Merge, TypeOK
  <2>. QED
    BY <1>1, <2>1, <2>2, ListedStays DEF Merge
<1>. QED
  BY <1>2, <1>3

(* A repo where no promotion of a listed epic is open is done with.        *)
LEMMA NoneOpen ==
  ASSUME NEW e \in Epics, NEW r \in Train[e], Listed(e), ~PromotionOpen(e, r)
  PROVE  r \in carried[e] \cup withdrawn[e]
  BY PromotionAssumption DEF PromotionAssumption, Listed, Wanted, PromotionOpen,
     OwnPromotionOpen, OpenIn

LEMMA ShippingBegins == Init => ShipInv
<1> SUFFICES ASSUME Init PROVE ShipInv
  OBVIOUS
<1>1. \A p \in PRs : /\ thread[p].at = "none" /\ thread[p].todo = {}
                     /\ pr[p].state = "none"
  BY Names DEF Init
<1>2. \A e \in Epics : epic[e] = "building"
  BY DEF Init
<1>. QED
  BY <1>1, <1>2
  DEF ShipInv, MergedIsListed, WorksOnItsOwn, OfItsPR, FoundIsTrue, Found, ShippedIsMerged

(* What a thread has found out it knows after its step too.                *)
LEMMA StepFinds ==
  ASSUME TypeOK, ShipInv, NEW p \in PRs, ThreadStep(p) \/ ThreadFails(p)
  PROVE  \E t \in Thread : Becomes(p, t) /\ Found(t) /\ OfItsPR(t, p)
<1> DEFINE e == thread[p].epic
<1>1. OfItsPR(thread[p], p) /\ Found(thread[p]) /\ thread[p] \in Thread /\ e \in Epics
  BY ThreadTypes DEF ShipInv, WorksOnItsOwn, FoundIsTrue
<1>2. CASE PromotedEpics(p)
  <2>1. PICK t \in Thread : Becomes(p, t) /\ t.at = "choosing" /\ t.todo \subseteq pr[p].epics
    BY <1>2, Promoting
  <2>. QED
    BY <2>1 DEF Found, OfItsPR
<1>3. CASE Choose(p) /\ thread[p].todo # {}
  <2>1. PICK t \in Thread : /\ Becomes(p, t) /\ t.at = "asking" /\ t.epic \in thread[p].todo
                           /\ t.todo \subseteq thread[p].todo /\ t.left = Repos
    BY <1>3, Choosing
  <2>2. Train[t.epic] \ t.left = {}
    BY <2>1, Names, ThreadTypes
  <2>3. Found(t)
    BY <2>1, <2>2 DEF DoneIn, Found
  <2>. QED
    BY <1>1, <2>1, <2>3 DEF OfItsPR
<1>4. CASE (Choose(p) /\ thread[p].todo = {}) \/ (CallRaises(p) /\ thread[p].at # "taking")
  <2>1. Ends(p)
    BY <1>4 DEF Choose, CallRaises
  <2>. QED
    BY <2>1, Ending DEF Found, OfItsPR
<1>5. CASE \E r \in Repos : Ask(p, r)
  <2>1. PICK r \in Repos : Ask(p, r)
    BY <1>5
  <2>2. PICK t \in Thread : /\ Becomes(p, t) /\ t.at = "asking" /\ Same(t, p)
                           /\ t.left = thread[p].left \ {r}
                           /\ t.waits = (thread[p].waits \/ PromotionOpen(e, r))
    BY <2>1, Asking DEF Ask, PromotionOpen
  <2>3. thread[p].at = "asking" /\ pr[p].state = "merged"
    BY <2>1 DEF Ask, Asked, TypeOK
  <2>4. Listed(e) /\ e \in pr[p].epics
    BY <1>1, <2>3 DEF ShipInv, MergedIsListed, OfItsPR
  <2>5. ~PromotionOpen(e, r) => (r \in Train[e] => r \in carried[e] \cup withdrawn[e])
    BY <1>1, <2>4, NoneOpen
  <2>6. ~t.waits => ~thread[p].waits /\ ~PromotionOpen(e, r)
    BY <2>2, ThreadTypes DEF PromotionOpen, OwnPromotionOpen, TakenForOwn
  <2>7. ~t.waits => DoneIn(e, Train[e] \ thread[p].left)
    BY <1>1, <2>3, <2>6 DEF Found
  <2>8. ~t.waits => DoneIn(e, Train[e] \ t.left)
    BY <2>2, <2>5, <2>6, <2>7 DEF DoneIn
  <2>9. Found(t)
    BY <2>2, <2>8 DEF Found, Same
  <2>. QED
    BY <1>1, <2>2, <2>4, <2>9 DEF Same, OfItsPR
<1>6. CASE \E r \in Repos : AskFails(p, r)
  <2>1. PICK r \in Repos : Asked(p, r, TRUE)
    BY <1>6 DEF AskFails
  <2>2. PICK t \in Thread : /\ Becomes(p, t) /\ t.at = "asking" /\ Same(t, p)
                           /\ t.waits = (thread[p].waits \/ TRUE)
    BY <2>1, Asking
  <2>3. t.waits /\ thread[p].at = "asking"
    BY <2>1, <2>2 DEF Asked
  <2>. QED
    BY <1>1, <2>2, <2>3 DEF Same, OfItsPR, Found
<1>7. CASE Answered(p)
  <2>1. thread[p].at = "asking" /\ thread[p].left = {}
    BY <1>7 DEF Answered, ReposLeft
  <2>2. PICK t \in Thread : /\ Becomes(p, t) /\ Same(t, p)
                           /\ t.at = IF thread[p].waits THEN "telling" ELSE "taking"
    BY <1>7, Going DEF Answered
  <2>3. ~thread[p].waits => DoneIn(e, Train[e])
    BY <1>1, <2>1 DEF Found, DoneIn
  <2>4. Found(t)
    BY <2>2, <2>3 DEF Same, Found
  <2>. QED
    BY <1>1, <2>1, <2>2, <2>4 DEF Same, OfItsPR
<1>8. CASE Tell(p) \/ TellUnread(p) \/ Shipped(p)
  <2>1. PICK t \in Thread : Becomes(p, t) /\ t.at = "choosing" /\ Same(t, p)
    BY <1>8, Going DEF Tell, TellUnread, Shipped
  <2>. QED
    BY <1>1, <2>1 DEF Same, OfItsPR, Found
<1>9. CASE TakeEpic(p) \/ PutEpic(p) \/ PutTask(p) \/ (CallRaises(p) /\ thread[p].at = "taking")
           \/ \E r \in Repos : ListTasks(p, r) \/ ListFails(p, r)
  <2>1. thread[p].at \in {"taking", "putting", "tasks", "task"}
    BY <1>9 DEF TakeEpic, PutEpic, PutTask, CallRaises, ListTasks, ListFails
  <2>2. PICK t \in Thread : Becomes(p, t) /\ Same(t, p) /\ t.at \in {"putting", "tasks", "task"}
    <3>1. CASE TakeEpic(p) \/ PutTask(p) \/ (CallRaises(p) /\ thread[p].at = "taking")
      BY <3>1, Going DEF TakeEpic, PutTask, CallRaises
    <3>2. CASE PutEpic(p)
      BY <3>2, Putting
    <3>3. CASE \E r \in Repos : ListTasks(p, r)
      BY <3>3, Listing
    <3>4. CASE \E r \in Repos : ListFails(p, r)
      BY <3>4, Passing DEF ListFails
    <3>. QED
      BY <1>9, <3>1, <3>2, <3>3, <3>4
  <2>. QED
    BY <1>1, <2>1, <2>2 DEF Same, OfItsPR, Found
<1>. QED
  BY <1>2, <1>3, <1>4, <1>5, <1>6, <1>7, <1>8, <1>9 DEF ThreadStep, ThreadFails, Choose

LEMMA StepShips == TypeOK /\ ShipInv /\ [Next]_vars => ShipInv'
<1> SUFFICES ASSUME TypeOK, ShipInv, [Next]_vars PROVE ShipInv'
  OBVIOUS
<1>1. MergedIsListed'
  BY MergesAreListed DEF ShipInv
<1>2. \A e \in Epics : carried[e] \subseteq carried'[e] /\ withdrawn[e] \subseteq withdrawn'[e]
  BY Grows
<1>3. \A p \in PRs : pr[p].epics \subseteq pr'[p].epics
  BY Grows
<1>4. ASSUME NEW p \in PRs, thread'[p] = thread[p] PROVE OfItsPR(thread[p], p)' /\ Found(thread[p])'
  BY <1>2, <1>3, <1>4, ThreadTypes
  DEF ShipInv, WorksOnItsOwn, FoundIsTrue, OfItsPR, Found, DoneIn
<1>5. CASE UNCHANGED thread /\ \A e \in Epics : epic'[e] \in {epic[e], "in-staging"}
  <2>1. ShippedIsMerged'
    BY <1>2, <1>5 DEF ShippedIsMerged, ShipInv
  <2>. QED
    BY <1>1, <1>4, <1>5, <2>1 DEF ShipInv, WorksOnItsOwn, FoundIsTrue
<1>6. CASE \E p \in PRs : Merge(p)
  <2>1. PICK p \in PRs : Merge(p)
    BY <1>6
  <2>2. PICK t \in Thread : Becomes(p, t) /\ t.at = "queued" /\ Same(t, p)
    BY <2>1, Queueing
  <2>3. thread'[p] = t /\ \A q \in PRs : q # p => thread'[q] = thread[q]
    BY <2>2 DEF Becomes
  <2>4. OfItsPR(thread[p], p)' /\ Found(thread[p])'
    BY <1>3, <2>2, <2>3 DEF OfItsPR, Found, Same, ShipInv, WorksOnItsOwn
  <2>5. ShippedIsMerged'
    BY <1>2, <2>1 DEF Merge, ShippedIsMerged, ShipInv
  <2>. QED
    BY <1>1, <1>4, <2>3, <2>4, <2>5 DEF ShipInv, WorksOnItsOwn, FoundIsTrue
<1>7. ASSUME NEW p \in PRs, ThreadStep(p) \/ ThreadFails(p) PROVE ShipInv'
  <2>1. UNCHANGED <<pr, carried, withdrawn>>
    BY <1>7, Moving
  <2>2. PICK t \in Thread : Becomes(p, t) /\ Found(t) /\ OfItsPR(t, p)
    BY <1>7, StepFinds
  <2>3. thread'[p] = t /\ \A q \in PRs : q # p => thread'[q] = thread[q]
    BY <2>2 DEF Becomes
  <2>4. OfItsPR(thread[p], p)' /\ Found(thread[p])'
    BY <2>1, <2>2, <2>3 DEF OfItsPR, Found, DoneIn
  <2>5. ShippedIsMerged'
    <3>1. CASE TakeEpic(p) \/ PutEpic(p)
      <4> DEFINE e == thread[p].epic
      <4>1. DoneIn(e, Train[e])
        BY <3>1 DEF TakeEpic, PutEpic, ShipInv, FoundIsTrue, Found
      <4>2. \A c \in Epics : c # e => epic'[c] = epic[c]
        BY <3>1 DEF TakeEpic, PutEpic, TypeOK
      <4>. QED
        BY <2>1, <4>1, <4>2 DEF ShippedIsMerged, ShipInv, DoneIn
    <3>2. CASE UNCHANGED epic
      BY <2>1, <3>2 DEF ShippedIsMerged, ShipInv
    <3>. QED
      BY <1>7, <3>1, <3>2
      DEF ThreadStep, ThreadFails, PromotedEpics, Choose, Answered, Tell, PutTask, Shipped, Ask,
          ListTasks, CallRaises, TellUnread, AskFails, ListFails, github
  <2>. QED
    BY <1>1, <1>4, <2>3, <2>4, <2>5 DEF ShipInv, WorksOnItsOwn, FoundIsTrue
<1>8. CASE Restart
  <2>1. UNCHANGED <<epic, carried, withdrawn>>
    BY <1>8 DEF Restart, github, history
  <2>2. \A p \in PRs : thread'[p].at \in {"none", "queued"} /\ thread'[p].todo = {}
    BY <1>8, Names DEF Restart, NoThread
  <2>3. WorksOnItsOwn' /\ FoundIsTrue'
    BY <2>2 DEF WorksOnItsOwn, OfItsPR, FoundIsTrue, Found
  <2>4. ShippedIsMerged'
    BY <2>1 DEF ShippedIsMerged, ShipInv
  <2>. QED
    BY <1>1, <2>3, <2>4 DEF ShipInv
<1>9. ASSUME \/ \E p \in PRs : CloseUnmerged(p)
             \/ \E e \in Epics : \/ PutOnStaging(e)
                                  \/ \E r \in Repos, p \in PRs : OpenPromotion(e, r, p)
             \/ UNCHANGED vars
      PROVE  UNCHANGED thread /\ \A e \in Epics : epic'[e] \in {epic[e], "in-staging"}
  BY <1>9 DEF CloseUnmerged, PutOnStaging, OpenPromotion, vars, TypeOK
<1>. QED
  BY <1>5, <1>6, <1>7, <1>8, <1>9 DEF Next, People

(* ShippedIsMerged: no epic leaves factory:in-staging before every repo of *)
(* its train has merged its promotion or had it closed, whatever is merged *)
(* while the threads ask and whichever repos cannot be listed.             *)
THEOREM ShipsWhatMerged == Spec => []ShippedIsMerged
<1>1. ShipInv => ShippedIsMerged
  BY DEF ShipInv
<1>. QED
  BY <1>1, InitTyped, StepTyped, ShippingBegins, StepShips, PTL DEF Spec

-----------------------------------------------------------------------------
(***************************************************************************)
(* The tasks of an epic ship with it.                                      *)
(***************************************************************************)

(* No epic goes back to being built, and no task of it either.             *)
LEMMA NeverBack ==
  ASSUME TypeOK, [Next]_vars, NEW e \in Epics
  PROVE  /\ epic[e] # "building" => epic'[e] # "building"
         /\ \A r \in Repos : task[e][r] # "building" => task'[e][r] # "building"
<1>1. CASE \E c \in Epics : PutOnStaging(c)
  BY <1>1 DEF PutOnStaging, TypeOK
<1>2. CASE \E p \in PRs : TakeEpic(p) \/ PutEpic(p)
  BY <1>2 DEF TakeEpic, TakeOff, PutEpic, TypeOK
<1>3. CASE \E p \in PRs : PutTask(p)
  <2>1. PICK p \in PRs : PutTask(p)
    BY <1>3
  <2>2. thread[p].epic \in Epics /\ thread[p].repo \in Repos
    BY ThreadTypes
  <2>3. \A c \in Epics : task[c] \in [Repos -> States]
    BY DEF TypeOK
  <2>. QED
    BY <2>1, <2>2, <2>3 DEF PutTask, TypeOK
<1>4. CASE \E p \in PRs, r \in Repos : ListTasks(p, r)
  <2>1. PICK p \in PRs, r \in Repos : ListTasks(p, r)
    BY <1>4
  <2> DEFINE c == thread[p].epic
  <2>2. c \in Epics /\ \A d \in Epics : task[d] \in [Repos -> States]
    BY ThreadTypes DEF TypeOK
  <2>3. UNCHANGED epic /\ (UNCHANGED task \/ task' = [task EXCEPT ![c][r] = "bare"])
    BY <2>1 DEF ListTasks
  <2> HIDE DEF c
  <2>4. task \in [Epics -> [Repos -> States]]
    BY DEF TypeOK
  <2>. QED
    BY <2>2, <2>3, <2>4
<1>5. CASE UNCHANGED <<epic, task>>
  BY <1>5
<1>. QED
  BY <1>1, <1>2, <1>3, <1>4, <1>5
  DEF Next, People, OpenPromotion, Merge, CloseUnmerged, ThreadStep, ThreadFails, PromotedEpics,
      Choose, Ask, Answered, Tell, Shipped, CallRaises, TellUnread, AskFails, ListFails,
      Restart, github, vars

LEMMA TasksBegin == Init => TaskInv
<1> SUFFICES ASSUME Init PROVE TaskInv
  OBVIOUS
<1>1. \A p \in PRs : thread[p].at = "none" /\ thread[p].todo = {}
  BY Names DEF Init
<1>2. \A e \in Epics : epic[e] = "building"
  BY DEF Init
<1>3. \A e \in Epics : \A r \in Repos : task[e][r] = "building"
  BY DEF Init
<1>4. \A e \in Epics : Train[e] \subseteq Repos
  BY Names
<1>. QED
  BY <1>1, <1>2, <1>3, <1>4 DEF TaskInv, StagedFirst, OfStaged, HalfDoneIsAtWork, Behind

(* A thread takes up no epic that is not on staging.                       *)
LEMMA StepStaged ==
  ASSUME TypeOK, NEW p \in PRs, OfStaged(thread[p]), ThreadStep(p) \/ ThreadFails(p)
  PROVE  \E t \in Thread : Becomes(p, t) /\ OfStaged(t)
<1> DEFINE e == thread[p].epic
<1>1. CASE PromotedEpics(p)
  <2>1. PICK t \in Thread : /\ Becomes(p, t) /\ t.at = "choosing"
                           /\ t.todo = {c \in pr[p].epics : epic[c] = "in-staging"}
    BY <1>1, Promoting
  <2>. QED
    BY <2>1 DEF OfStaged
<1>2. CASE Choose(p) /\ thread[p].todo # {}
  <2>1. PICK t \in Thread : /\ Becomes(p, t) /\ t.at = "asking" /\ t.epic \in thread[p].todo
                           /\ t.todo \subseteq thread[p].todo
    BY <1>2, Choosing
  <2>. QED
    BY <2>1 DEF OfStaged
<1>3. CASE (Choose(p) /\ thread[p].todo = {}) \/ (CallRaises(p) /\ thread[p].at # "taking")
  <2>1. Ends(p)
    BY <1>3 DEF Choose, CallRaises
  <2>. QED
    BY <2>1, Ending DEF OfStaged
<1>4. CASE ~PromotedEpics(p) /\ ~Choose(p) /\ (CallRaises(p) => thread[p].at = "taking")
  <2>1. thread[p].at \notin {"none", "queued", "choosing"}
    BY <1>4 DEF ThreadStep, ThreadFails, Ask, Asked, AskFails, Answered, Tell, TakeEpic, PutEpic,
                ListTasks, ListFails, PutTask, Shipped, CallRaises, TellUnread
  <2>2. PICK t \in Thread : Becomes(p, t) /\ Same(t, p)
    <3>1. CASE \/ Answered(p) \/ Tell(p) \/ TellUnread(p) \/ TakeEpic(p) \/ PutTask(p)
               \/ Shipped(p) \/ CallRaises(p)
      <4>1. \E at \in {"choosing", "telling", "taking", "putting", "tasks"} : Goes(p, at)
        BY <1>4, <3>1 DEF Answered, Tell, TellUnread, TakeEpic, PutTask, Shipped, CallRaises
      <4>. QED
        BY <4>1, Going
    <3>2. CASE PutEpic(p)
      BY <3>2, Putting
    <3>3. CASE \E r \in Repos : Ask(p, r) \/ AskFails(p, r)
      <4>1. PICK r \in Repos, w \in BOOLEAN : Asked(p, r, w)
        BY <3>3 DEF Ask, AskFails, PromotionOpen
      <4>. QED
        BY <4>1, Asking
    <3>4. CASE \E r \in Repos : ListTasks(p, r)
      BY <3>4, Listing
    <3>5. CASE \E r \in Repos : ListFails(p, r)
      BY <3>5, Passing DEF ListFails
    <3>. QED
      BY <1>4, <3>1, <3>2, <3>3, <3>4, <3>5 DEF ThreadStep, ThreadFails
  <2>. QED
    BY <2>1, <2>2 DEF OfStaged, Same
<1>. QED
  BY <1>1, <1>2, <1>3, <1>4

LEMMA StagedStays == TypeOK /\ StagedFirst /\ [Next]_vars => StagedFirst'
<1> SUFFICES ASSUME TypeOK, StagedFirst, [Next]_vars PROVE StagedFirst'
  OBVIOUS
<1>1. \A e \in Epics : epic[e] # "building" => epic'[e] # "building"
  BY NeverBack
<1>2. ASSUME NEW e \in Epics, NEW r \in Repos, epic'[e] # "building", r \in Train[e]
      PROVE  task'[e][r] # "building"
  <2>1. CASE epic[e] = "building"
    <3>1. PutOnStaging(e)
      <4>1. ASSUME NEW c \in Epics, PutOnStaging(c) PROVE c = e
        BY <1>2, <2>1, <4>1 DEF PutOnStaging, TypeOK
      <4>2. ASSUME NEW p \in PRs, TakeEpic(p) \/ PutEpic(p) PROVE FALSE
        <5>1. epic[thread[p].epic] # "building"
          BY <4>2 DEF StagedFirst, OfStaged, TakeEpic, PutEpic
        <5>2. epic'[e] = epic[e]
          BY <2>1, <4>2, <5>1 DEF TakeEpic, PutEpic, TypeOK
        <5>. QED
          BY <1>2, <2>1, <5>2
      <4>3. epic' # epic
        BY <1>2, <2>1
      <4>. QED
        BY <4>1, <4>2, <4>3
        DEF Next, People, OpenPromotion, Merge, CloseUnmerged, ThreadStep, ThreadFails,
            PromotedEpics, Choose, Ask, Answered, Tell, ListTasks, PutTask, Shipped, CallRaises,
            TellUnread, AskFails, ListFails, Restart, github, vars
    <3>. QED
      BY <1>2, <3>1 DEF PutOnStaging, TypeOK
  <2>2. CASE epic[e] # "building"
    BY <1>2, <2>2, NeverBack DEF StagedFirst
  <2>. QED
    BY <2>1, <2>2
<1>3. ASSUME NEW t \in Thread, OfStaged(t) PROVE OfStaged(t)'
  <2>1. t.todo \subseteq Epics /\ t.epic \in Epics
    BY DEF Thread
  <2>. QED
    BY <1>1, <1>3, <2>1 DEF OfStaged
<1>4. ASSUME NEW q \in PRs, thread'[q] = thread[q] PROVE OfStaged(thread[q])'
  BY <1>3, <1>4, ThreadTypes DEF StagedFirst, OfStaged
<1>5. CASE UNCHANGED thread
  BY <1>2, <1>4, <1>5 DEF StagedFirst
<1>6. CASE \E p \in PRs : Merge(p)
  <2>1. PICK p \in PRs : Merge(p)
    BY <1>6
  <2>2. PICK t \in Thread : Becomes(p, t) /\ t.at = "queued" /\ Same(t, p)
    BY <2>1, Queueing
  <2>3. OfStaged(t)
    BY <2>2 DEF OfStaged, Same, StagedFirst
  <2>4. thread'[p] = t /\ \A q \in PRs : q # p => thread'[q] = thread[q]
    BY <2>2 DEF Becomes
  <2>5. OfStaged(thread[p])'
    BY <1>3, <2>3, <2>4 DEF OfStaged
  <2>. QED
    BY <1>2, <1>4, <2>4, <2>5 DEF StagedFirst
<1>7. ASSUME NEW p \in PRs, ThreadStep(p) \/ ThreadFails(p) PROVE StagedFirst'
  <2>1. PICK t \in Thread : Becomes(p, t) /\ OfStaged(t)
    BY <1>7, StepStaged DEF StagedFirst
  <2>2. thread'[p] = t /\ \A q \in PRs : q # p => thread'[q] = thread[q]
    BY <2>1 DEF Becomes
  <2>3. OfStaged(thread[p])'
    BY <1>3, <2>1, <2>2 DEF OfStaged
  <2>. QED
    BY <1>2, <1>4, <2>2, <2>3 DEF StagedFirst
<1>8. CASE Restart
  <2>1. \A p \in PRs : thread'[p].at \in {"none", "queued"} /\ thread'[p].todo = {}
    BY <1>8, Names DEF Restart, NoThread
  <2>. QED
    BY <1>2, <2>1 DEF StagedFirst, OfStaged
<1>. QED
  BY <1>5, <1>6, <1>7, <1>8
  DEF Next, People, CloseUnmerged, PutOnStaging, OpenPromotion, vars

(* A step of thread p, which becomes t, leaves nothing half done that      *)
(* neither was so before nor is p's to finish.                             *)
Finishes(p, t) ==
  \A c \in Epics :
    /\ epic'[c] = "bare" => \/ epic[c] = "bare" /\ ~PutsEpic(thread[p], c)
                            \/ PutsEpic(t, c)
    /\ \A r \in Train[c] :
         /\ task'[c][r] = "bare" => \/ task[c][r] = "bare" /\ ~PutsTask(thread[p], c, r)
                                    \/ PutsTask(t, c, r)
         /\ Behind(c, r)' => \/ Behind(c, r) /\ ~WillList(thread[p], c, r)
                             \/ WillList(t, c, r)

LEMMA StepFinishes ==
  ASSUME TypeOK, NEW p \in PRs, ThreadStep(p) \/ TellUnread(p)
  PROVE  \E t \in Thread : Becomes(p, t) /\ Finishes(p, t)
<1> DEFINE e == thread[p].epic
<1>1. e \in Epics /\ thread[p].repo \in Repos /\ \A c \in Epics : Train[c] \subseteq Repos
  BY Names, ThreadTypes
<1>2. \A c \in Epics : task[c] \in [Repos -> States]
  BY DEF TypeOK
<1>3. CASE /\ UNCHANGED <<epic, task>>
           /\ thread[p].at \notin {"putting", "tasks", "task"}
  <2>1. PICK t \in Thread : Becomes(p, t)
    BY Moving DEF ThreadFails
  <2>2. Finishes(p, t)
    BY <1>3 DEF Finishes, PutsEpic, PutsTask, WillList, Behind
  <2>. QED
    BY <2>1, <2>2
<1>4. CASE TakeEpic(p)
  <2>1. PICK t \in Thread : Becomes(p, t) /\ t.at = "putting" /\ Same(t, p)
    BY <1>4, Going DEF TakeEpic
  <2>2. \A c \in Epics : epic'[c] = IF c = e THEN TakeOff(epic[c]) ELSE epic[c]
    BY <1>4 DEF TakeEpic, TypeOK
  <2>3. UNCHANGED task /\ thread[p].at = "taking" /\ t.epic = e
    BY <1>4, <2>1 DEF TakeEpic, Same
  <2>4. Finishes(p, t)
    BY <2>1, <2>2, <2>3 DEF Finishes, PutsEpic, PutsTask, WillList, Behind, TakeOff
  <2>. QED
    BY <2>1, <2>4
<1>5. CASE PutEpic(p)
  <2>1. PICK t \in Thread : Becomes(p, t) /\ t.at = "tasks" /\ Same(t, p) /\ t.left = Repos
    BY <1>5, Putting
  <2>2. \A c \in Epics : epic'[c] = IF c = e THEN "deployed" ELSE epic[c]
    BY <1>5 DEF PutEpic, TypeOK
  <2>3. UNCHANGED task /\ thread[p].at = "putting" /\ t.epic = e
    BY <1>5, <2>1 DEF PutEpic, Same
  <2>4. Finishes(p, t)
    BY <1>1, <2>1, <2>2, <2>3 DEF Finishes, PutsEpic, PutsTask, WillList, Behind
  <2>. QED
    BY <2>1, <2>4
<1>6. CASE \E r \in Repos : ListTasks(p, r)
  <2>1. PICK r \in Repos : ListTasks(p, r)
    BY <1>6
  <2>2. PICK t \in Thread : /\ Becomes(p, t) /\ Same(t, p) /\ t.left = thread[p].left \ {r}
                           /\ \/ task[e][r] = "in-staging" /\ t.at = "task" /\ t.repo = r
                              \/ task[e][r] # "in-staging" /\ t.at = "tasks"
    BY <2>1, Listing
  <2>3. \A c \in Epics : \A s \in Repos :
          task'[c][s] = IF c = e /\ s = r /\ task[c][s] = "in-staging" THEN "bare" ELSE task[c][s]
    BY <1>1, <1>2, <2>1 DEF ListTasks, TypeOK
  <2>4. UNCHANGED epic /\ thread[p].at = "tasks" /\ t.epic = e
    BY <2>1, <2>2 DEF ListTasks, Same
  <2>5. Finishes(p, t)
    BY <1>1, <2>2, <2>3, <2>4 DEF Finishes, PutsEpic, PutsTask, WillList, Behind
  <2>. QED
    BY <2>2, <2>5
<1>7. CASE PutTask(p)
  <2>1. PICK t \in Thread : Becomes(p, t) /\ t.at = "tasks" /\ Same(t, p) /\ t.left = thread[p].left
    BY <1>7, Going DEF PutTask
  <2>2. \A c \in Epics : \A s \in Repos :
          task'[c][s] = IF c = e /\ s = thread[p].repo THEN "deployed" ELSE task[c][s]
    BY <1>1, <1>2, <1>7 DEF PutTask, TypeOK
  <2>3. UNCHANGED epic /\ thread[p].at = "task" /\ t.epic = e
    BY <1>7, <2>1 DEF PutTask, Same
  <2>4. Finishes(p, t)
    BY <1>1, <2>1, <2>2, <2>3 DEF Finishes, PutsEpic, PutsTask, WillList, Behind
  <2>. QED
    BY <2>1, <2>4
<1>8. CASE Shipped(p)
  <2>1. PICK t \in Thread : Becomes(p, t)
    BY <1>8, Moving DEF ThreadStep
  <2>2. UNCHANGED <<epic, task>> /\ thread[p].at = "tasks" /\ thread[p].left = {}
    BY <1>8 DEF Shipped, github, ReposLeft
  <2>3. Finishes(p, t)
    BY <2>2 DEF Finishes, PutsEpic, PutsTask, WillList, Behind
  <2>. QED
    BY <2>1, <2>3
<1>. QED
  BY <1>3, <1>4, <1>5, <1>6, <1>7, <1>8
  DEF ThreadStep, PromotedEpics, Choose, Ask, Asked, Answered, Tell, TellUnread, github

LEMMA StepLeavesNoneBehind == TypeOK /\ HalfDoneIsAtWork /\ [Next]_vars => HalfDoneIsAtWork'
<1> SUFFICES ASSUME TypeOK, HalfDoneIsAtWork, [Next]_vars, errors' = 0, ~torn',
                    NEW c \in Epics
             PROVE  /\ epic'[c] = "bare" => \E p \in PRs : PutsEpic(thread'[p], c)
                    /\ \A r \in Train[c] :
                         /\ task'[c][r] = "bare" => \E p \in PRs : PutsTask(thread'[p], c, r)
                         /\ Behind(c, r)' => \E p \in PRs : WillList(thread'[p], c, r)
  BY DEF HalfDoneIsAtWork, PutsEpic, PutsTask, WillList, Behind
<1>1. errors = 0 /\ ~torn /\ \A p \in PRs : ThreadFails(p) => TellUnread(p)
  <2>1. ~Raises
    BY DEF Raises, TypeOK
  <2>2. \A p \in PRs : ThreadFails(p) => TellUnread(p)
    BY <2>1 DEF ThreadFails, CallRaises, AskFails, ListFails
  <2>3. UNCHANGED errors /\ (Restart \/ UNCHANGED torn)
    BY <2>2 DEF Next, People, PutOnStaging, OpenPromotion, Merge, CloseUnmerged, ThreadStep,
                PromotedEpics, Choose, Ask, Answered, Tell, TakeEpic, PutEpic, ListTasks, PutTask,
                Shipped, TellUnread, Restart, vars
  <2>4. ~torn
    BY <2>3 DEF Restart
  <2>. QED
    BY <2>2, <2>3, <2>4
<1>2. /\ epic[c] = "bare" => \E p \in PRs : PutsEpic(thread[p], c)
      /\ \A r \in Train[c] :
           /\ task[c][r] = "bare" => \E p \in PRs : PutsTask(thread[p], c, r)
           /\ Behind(c, r) => \E p \in PRs : WillList(thread[p], c, r)
  BY <1>1 DEF HalfDoneIsAtWork
<1>3. ASSUME NEW p \in PRs, ThreadStep(p) \/ TellUnread(p)
      PROVE  /\ epic'[c] = "bare" => \E q \in PRs : PutsEpic(thread'[q], c)
             /\ \A r \in Train[c] :
                  /\ task'[c][r] = "bare" => \E q \in PRs : PutsTask(thread'[q], c, r)
                  /\ Behind(c, r)' => \E q \in PRs : WillList(thread'[q], c, r)
  <2>1. PICK t \in Thread : Becomes(p, t) /\ Finishes(p, t)
    BY <1>3, StepFinishes
  <2>2. thread'[p] = t /\ \A q \in PRs : q # p => thread'[q] = thread[q]
    BY <2>1 DEF Becomes
  <2>3. epic'[c] = "bare" => \E q \in PRs : PutsEpic(thread'[q], c)
    BY <1>2, <2>1, <2>2 DEF Finishes
  <2>4. ASSUME NEW r \in Train[c], task'[c][r] = "bare"
        PROVE  \E q \in PRs : PutsTask(thread'[q], c, r)
    BY <1>2, <2>1, <2>2, <2>4 DEF Finishes
  <2>5. ASSUME NEW r \in Train[c], Behind(c, r)'
        PROVE  \E q \in PRs : WillList(thread'[q], c, r)
    BY <1>2, <2>1, <2>2, <2>5 DEF Finishes
  <2>. QED
    BY <2>3, <2>4, <2>5
<1>4. CASE \E p \in PRs : Merge(p)
  <2>1. PICK p \in PRs : Merge(p)
    BY <1>4
  <2>2. thread[p].at = "none"
    BY <2>1 DEF Merge, TypeOK
  <2>3. PICK t \in Thread : Becomes(p, t)
    BY <2>1, Queueing
  <2>4. \A q \in PRs : q # p => thread'[q] = thread[q]
    BY <2>3 DEF Becomes
  <2>. QED
    BY <1>2, <2>1, <2>2, <2>4 DEF Merge, PutsEpic, PutsTask, WillList, Behind
<1>5. CASE \E e \in Epics : PutOnStaging(e)
  <2>1. PICK e \in Epics : PutOnStaging(e)
    BY <1>5
  <2>2. \A d \in Epics : epic'[d] = IF d = e THEN "in-staging" ELSE epic[d]
    BY <2>1 DEF PutOnStaging, TypeOK
  <2>3. \A r \in Train[c] : r \in Repos /\ task'[c][r] = IF c = e THEN "in-staging" ELSE task[c][r]
    BY <2>1, Names DEF PutOnStaging, TypeOK
  <2>4. UNCHANGED thread
    BY <2>1 DEF PutOnStaging
  <2>. QED
    BY <1>2, <2>2, <2>3, <2>4 DEF PutsEpic, PutsTask, WillList, Behind
<1>6. CASE Restart
  <2>1. \A p \in PRs : thread[p].at \notin {"putting", "tasks", "task"}
    BY <1>1, <1>6 DEF Restart
  <2>. QED
    BY <1>2, <1>6, <2>1 DEF Restart, github, PutsEpic, PutsTask, WillList, Behind
<1>7. CASE UNCHANGED <<epic, task, thread>>
  BY <1>2, <1>7 DEF PutsEpic, PutsTask, WillList, Behind
<1>. QED
  BY <1>1, <1>3, <1>4, <1>5, <1>6, <1>7
  DEF Next, People, OpenPromotion, CloseUnmerged, vars

(* TasksShipToo: when no call raised and no stop tore a thread, and every  *)
(* delivery is done with, no epic is without a state and no task of a      *)
(* shipped epic was left behind, however many threads shipped it.          *)
THEOREM TasksShipWithTheirEpic == Spec => []TasksShipToo
<1>1. TypeOK /\ TaskInv => TasksShipToo
  <2> SUFFICES ASSUME TypeOK, TaskInv, errors = 0, ~torn, \A p \in PRs : thread[p].at = "none",
                      NEW e \in Epics
               PROVE  epic[e] # "bare" /\ (epic[e] = "deployed" =>
                        \A r \in Train[e] : task[e][r] = "deployed")
    BY DEF TasksShipToo
  <2>1. \A p \in PRs : \A r \in Train[e] :
          ~PutsTask(thread[p], e, r) /\ ~WillList(thread[p], e, r)
    BY DEF PutsTask, WillList
  <2>2. epic[e] # "bare"
    BY DEF TaskInv, HalfDoneIsAtWork, PutsEpic
  <2>3. ASSUME epic[e] = "deployed", NEW r \in Train[e] PROVE task[e][r] = "deployed"
    <3>1. r \in Repos
      BY Names
    <3>2. task[e][r] \in States
      BY <3>1 DEF TypeOK
    <3>3. task[e][r] # "building"
      BY <2>3, <3>1 DEF TaskInv, StagedFirst
    <3>4. task[e][r] # "bare" /\ ~Behind(e, r)
      BY <2>1 DEF TaskInv, HalfDoneIsAtWork
    <3>. QED
      BY <2>3, <3>2, <3>3, <3>4 DEF States, Behind
  <2>. QED
    BY <2>2, <2>3
<1>2. TypeOK /\ TaskInv /\ [Next]_vars => TaskInv'
  BY StagedStays, StepLeavesNoneBehind DEF TaskInv
<1>. QED
  BY <1>1, <1>2, InitTyped, StepTyped, TasksBegin, PTL DEF Spec
=============================================================================
