---------------------------- MODULE RoleSession ------------------------------
(***************************************************************************)
(* The sessions of one task's build environment.                           *)
(*                                                                         *)
(* One run after another holds the environment's turn.  A run resets the   *)
(* copy to GitHub, puts back what the last one could not push, continues   *)
(* its conversation, lets Claude work, runs the repo's own tests, resumes  *)
(* Claude while they are red, pushes the branch and opens its PR.  What it *)
(* could not push, and the conversation, are kept beside the copy for the  *)
(* next run, in files that a stop of the process can leave half written.   *)
(*                                                                         *)
(* Work is a set of numbered pieces, and a branch the set of its commits:  *)
(* one branch builds on another that it includes.  An agent works on the   *)
(* branch of its task, or leaves HEAD on another of the factory's, which   *)
(* is pushed all the same, or off them.  Branches are only ever pushed to, *)
(* never rewritten or deleted, on GitHub.                                  *)
(***************************************************************************)
EXTENDS Naturals

CONSTANTS
  MaxFixes,   \* MAX_FIX_RESUMES: resumes of one run on red tests
  MaxRounds,  \* CONVERSATION_MAX_ROUNDS: runs that continue one conversation
  MaxWork,    \* bound: pieces of work
  MaxOthers,  \* bound: pushes to the task's branch by someone else
  MaxFaults   \* bound: calls that fail, stops of the process, and sessions that leave
              \* HEAD elsewhere than on the task's branch

ASSUME RoleSessionAssumption ==
  /\ MaxFixes \in Nat /\ MaxRounds \in Nat \ {0}
  /\ MaxWork \in Nat /\ MaxOthers \in Nat /\ MaxFaults \in Nat

Pieces == 1 .. MaxWork
Carrier == 0                  \* the commit that carries edits in a bundle
Commits == Pieces \cup {Carrier}

(* Of the factory's branches, the task's and one other.                    *)
Branches == {"task", "other"}

VARIABLES
  (* GitHub *)
  github,   \* the commits of each branch
  (* the environment *)
  copy,     \* the copy of the repo
  wip,      \* wip/work.bundle and wip.json
  conv,     \* the conversation kept for the implementer
  (* the run that holds the turn *)
  run,
  (* history and bounds *)
  left,     \* the unpushed work that the last implementer run left on the branch
  excused,  \* why it may be gone
  half,     \* a restore once broke off before the carrier commit was taken apart
  unseen,   \* git failed, and the run took its commits for pushed
  made, others, faults

environment == <<copy, wip, conv>>
history == <<left, excused, half, unseen>>
bounds == <<made, others, faults>>
vars == <<github, copy, wip, conv, run, left, excused, half, unseen, made, others, faults>>

(* on: where HEAD is; "away" is no branch of the factory's, or none.        *)
(* head: the branch in hand; seen: each as of the last fetch or push.       *)
Copy == [on : Branches \cup {"away"}, head : SUBSET Commits,
         seen : [Branches -> SUBSET Commits], edits : SUBSET Pieces]

Wip == [kept : BOOLEAN, on : Branches, head : SUBSET Commits, edits : SUBSET Pieces,
        old : BOOLEAN]

(* spoke: how many runs really spoke in it; refused: it was kept by a run   *)
(* that could not open it.                                                  *)
Conversation == [kept : BOOLEAN, rounds : 0 .. MaxRounds, spoke : Nat, refused : BOOLEAN,
                 old : BOOLEAN]

(* ask: how Claude is asked next; said: the conversation last heard of.     *)
Run == [pc : {"idle", "restore", "open", "claude", "observe", "push", "keep", "bundle",
              "converse"},
        keep : BOOLEAN, rounds : 0 .. MaxRounds - 1, resumed : BOOLEAN,
        ask : {"fresh", "resume"}, said : {"none", "kept", "new"}, fixes : 0 .. MaxFixes,
        red : BOOLEAN, ranOut : BOOLEAN,
        status : {"success", "error", "timeout"}]

TypeOK ==
  /\ github \in [Branches -> SUBSET Commits]
  /\ copy \in Copy /\ wip \in Wip /\ conv \in Conversation /\ run \in Run
  /\ left \in [on : Branches \cup {"away"}, head : SUBSET Commits, edits : SUBSET Pieces]
  /\ excused \in SUBSET {"away", "old", "fault", "stop"}
  /\ half \in BOOLEAN /\ unseen \in BOOLEAN
  /\ made \in 0 .. MaxWork /\ others \in 0 .. MaxOthers /\ faults \in 0 .. MaxFaults

Nothing == [on |-> "away", head |-> {}, edits |-> {}]
NoWip == [kept |-> FALSE, on |-> "task", head |-> {}, edits |-> {}, old |-> FALSE]
NoConversation == [kept |-> FALSE, rounds |-> 0, spoke |-> 0, refused |-> FALSE, old |-> FALSE]

NewRun(pc, keep) ==
  [pc |-> pc, keep |-> keep, rounds |-> 0, resumed |-> FALSE, ask |-> "fresh",
   said |-> "none", fixes |-> 0, red |-> FALSE, ranOut |-> FALSE,
   status |-> "error"]

ResetTo(remote) == [on |-> "away", head |-> remote.task, seen |-> remote, edits |-> {}]

Init ==
  /\ github = [b \in Branches |-> {}]
  /\ copy = ResetTo(github) /\ wip = NoWip /\ conv = NoConversation
  /\ run = NewRun("idle", FALSE)
  /\ left = Nothing /\ excused = {} /\ half = FALSE /\ unseen = FALSE
  /\ made = 0 /\ others = 0 /\ faults = 0

Fault == faults < MaxFaults /\ faults' = faults + 1
-----------------------------------------------------------------------------
(***************************************************************************)
(* Before Claude: the reset, the kept work, the kept conversation.         *)
(***************************************************************************)

(* A plausible slip: the local branches are left as the last run had them. *)
StartUnreset(keep) ==
  /\ run.pc = "idle"
  /\ copy' = [ResetTo(github) EXCEPT !.head = copy.head]
  /\ run' = NewRun("restore", keep) /\ unseen' = FALSE
  /\ UNCHANGED <<github, wip, conv, left, excused, half, bounds>>

(* An implementer's run, or one of another role, which keeps nothing.      *)
Start(keep) ==
  /\ run.pc = "idle"
  /\ copy' = ResetTo(github)
  /\ run' = NewRun("restore", keep) /\ unseen' = FALSE
  /\ UNCHANGED <<github, wip, conv, left, excused, half, bounds>>

(* Edits travel as one commit on top of the branch.                        *)
Packed(head, edits) == head \cup edits \cup (IF edits = {} THEN {} ELSE {Carrier})

(* GitHub may have moved on.                                               *)
BuildsOnGitHub == copy.seen[wip.on] \subseteq wip.head

(* Out of the bundle, the edits as edits again.  When git fails where it   *)
(* asks for GitHub's branch, that branch is taken to be none.              *)
RestoreWork ==
  /\ run.pc = "restore" /\ run.keep /\ wip.kept /\ ~wip.old
  /\ \/ BuildsOnGitHub /\ UNCHANGED <<excused, faults>>
     \/ ~BuildsOnGitHub /\ Fault /\ excused' = excused \cup {"fault"}
  /\ copy' = [copy EXCEPT !.on = wip.on, !.head = wip.head, !.edits = wip.edits]
  /\ run' = [run EXCEPT !.pc = "open"]
  /\ UNCHANGED <<github, wip, conv, left, half, unseen, made, others>>

NothingToRestore ==
  /\ run.pc = "restore"
  /\ \/ ~run.keep /\ wip' = wip
     \/ run.keep /\ (wip.kept => wip.old \/ ~BuildsOnGitHub) /\ wip' = NoWip
  /\ run' = [run EXCEPT !.pc = "open"]
  /\ UNCHANGED <<github, copy, conv, history, bounds>>

(* A git command fails.  The last one takes the carrier commit apart: when *)
(* that fails the branch is checked out with it.                           *)
RestoreFails ==
  /\ run.pc = "restore" /\ run.keep /\ wip.kept /\ ~wip.old
  /\ Fault
  /\ \/ UNCHANGED <<copy, half>>
     \/ /\ BuildsOnGitHub /\ wip.edits # {} /\ half' = TRUE
        /\ copy' = [copy EXCEPT !.on = wip.on, !.head = Packed(wip.head, wip.edits)]
  /\ wip' = NoWip /\ excused' = excused \cup {"fault"}
  /\ run' = [run EXCEPT !.pc = "open"]
  /\ UNCHANGED <<github, conv, left, unseen, made, others>>

Continuable == conv.kept /\ ~conv.old /\ conv.rounds < MaxRounds

OpenConversation ==
  /\ run.pc = "open" /\ run.keep /\ Continuable
  /\ run' = [run EXCEPT !.pc = "claude", !.ask = "resume", !.said = "none",
                        !.rounds = conv.rounds]
  /\ UNCHANGED <<github, environment, history, bounds>>

(* None, or too old or too long, which drops it, or one that cannot be     *)
(* copied, which does not.                                                 *)
StartAfresh ==
  /\ run.pc = "open"
  /\ \/ ~run.keep /\ UNCHANGED <<conv, faults>>
     \/ run.keep /\ ~Continuable /\ conv' = NoConversation /\ UNCHANGED faults
     \/ run.keep /\ Continuable /\ Fault /\ conv' \in {conv, NoConversation}
  /\ run' = [run EXCEPT !.pc = "claude"]
  /\ UNCHANGED <<github, copy, wip, history, made, others>>
-----------------------------------------------------------------------------
(***************************************************************************)
(* Claude works; the tests are run; the branch is pushed.                  *)
(***************************************************************************)

(* The sessions are over, with `status`; what nothing reads again is       *)
(* cleared.                                                                *)
Over(status) ==
  [run EXCEPT !.pc = "keep", !.status = status, !.ask = "fresh", !.fixes = 0, !.red = FALSE]

(* What it leaves for the next implementer, and what excuses its loss.     *)
Leaves(status) ==
  IF run.keep
    THEN /\ left' = IF status = "success" THEN Nothing
                   ELSE [on |-> copy'.on, head |-> copy'.head, edits |-> copy'.edits]
         /\ excused' = {why \in {"away", "fault"} :
                          IF why = "away" THEN copy'.on = "away"
                          ELSE unseen' /\ status = "success"}
    ELSE UNCHANGED <<left, excused>>

Ends(status) == run' = Over(status) /\ Leaves(status) /\ half' = half

(* What a session leaves in the copy: another piece of work, some of it    *)
(* committed and some not, GitHub's commits merged in, HEAD anywhere; it   *)
(* may push for itself and open the PR.                                    *)
Worked ==
  \E new \in SUBSET ({made + 1} \cap Pieces), merged \in {{}, github.task},
     on \in Branches \cup {"away"} :
  \E done \in SUBSET (copy.edits \cup new) :
    LET head == copy.head \cup merged \cup done
    IN /\ faults' = IF on \in {"task", copy.on} THEN faults ELSE faults + 1
       /\ faults' <= MaxFaults
       /\ made' = IF new = {} THEN made ELSE made + 1
       /\ \/ /\ copy' = [on |-> on, head |-> head, edits |-> (copy.edits \cup new) \ done,
                         seen |-> [copy.seen EXCEPT !.task = @ \cup merged]]
             /\ UNCHANGED github
          \/ /\ on \in Branches /\ github[on] \subseteq head /\ head # {}
             /\ copy' = [on |-> on, head |-> head, edits |-> (copy.edits \cup new) \ done,
                         seen |-> [copy.seen EXCEPT ![on] = head]]
             /\ github' = [github EXCEPT ![on] = head]

Heard == IF run.ask = "resume" THEN (IF run.said = "none" THEN "kept" ELSE run.said) ELSE "new"

(* The session of the run, or of a fix, ends by itself; a fresh one that   *)
(* fails at once has not said which conversation it is.                    *)
SessionEnds ==
  /\ run.pc = "claude"
  /\ Worked
  /\ \E status \in {"success", "error"}, ranOut \in BOOLEAN, said \in {run.said, Heard} :
       /\ ranOut => status = "error"
       /\ status = "success" \/ ranOut \/ run.ask = "resume" => said = Heard
       /\ run' = [run EXCEPT !.pc = "observe", !.said = said,
                    !.resumed = IF run.fixes = 0 THEN run.ask = "resume" ELSE @,
                    !.ranOut = IF run.fixes = 0 THEN ranOut ELSE @,
                    !.status = status]
  /\ UNCHANGED <<wip, conv, history, others>>

(* The wall clock ends it, perhaps before it said which conversation it is. *)
SessionTimesOut ==
  /\ run.pc = "claude"
  /\ Worked
  /\ \E said \in {run.said, Heard} :
       /\ run' = [Over("timeout") EXCEPT !.said = said,
                    !.resumed = IF run.fixes = 0 THEN run.ask = "resume" ELSE @]
  /\ UNCHANGED <<wip, conv, half, unseen, others>>
  /\ Leaves("timeout")

(* The conversation will not open: the prompt goes to a fresh one.         *)
WillNotOpen ==
  /\ run.pc = "claude" /\ run.ask = "resume"
  /\ \E said \in {run.said, Heard} : run' = [run EXCEPT !.ask = "fresh", !.said = said]
  /\ UNCHANGED <<github, environment, history, bounds>>

Pushable == copy.on \in Branches /\ ~(copy.head \subseteq copy.seen[copy.on])

(* What the inspection of the branch says.  A git command that fails reads *)
(* as nothing to push, or as a branch that GitHub does not have.           *)
FoundNothing ==
  \/ ~Pushable /\ UNCHANGED <<unseen, faults>>
  \/ Pushable /\ Fault /\ unseen' = TRUE

FoundAhead ==
  \/ Pushable /\ UNCHANGED faults
  \/ ~Pushable /\ copy.on \in Branches /\ Fault

(* Nothing to push: red tests before it stay red.                          *)
NothingToPush ==
  /\ run.pc = "observe" /\ FoundNothing
  /\ UNCHANGED <<github, environment, made, others>>
  /\ Ends(IF run.red THEN "error" ELSE run.status)

(* A repo without a test command has no test that fails.                   *)
TestsPass ==
  /\ run.pc = "observe" /\ FoundAhead
  /\ run' = [run EXCEPT !.pc = "push"]
  /\ UNCHANGED <<github, environment, history, made, others>>

(* A plausible slip: resumes on red tests are not counted.                 *)
FixTestsUncounted ==
  /\ run.pc = "observe" /\ FoundAhead
  /\ run' = [run EXCEPT !.pc = "claude", !.red = TRUE,
                        !.ask = IF run.said = "none" THEN "fresh" ELSE "resume"]
  /\ UNCHANGED <<github, environment, history, made, others>>

(* Red: Claude is resumed, in the conversation last heard of.              *)
FixTests ==
  /\ run.pc = "observe" /\ FoundAhead /\ run.fixes < MaxFixes
  /\ run' = [run EXCEPT !.pc = "claude", !.red = TRUE, !.fixes = @ + 1,
                        !.ask = IF run.said = "none" THEN "fresh" ELSE "resume"]
  /\ UNCHANGED <<github, environment, history, made, others>>

(* Red, after the last resume or too late for another one; or the tests    *)
(* are killed at the wall clock.                                           *)
StaysRed ==
  /\ run.pc = "observe" /\ FoundAhead
  /\ UNCHANGED <<github, environment, unseen, made, others>>
  /\ \E status \in {"error", "timeout"} : Ends(status)

(* A success, whether gh finds or opens the PR or fails.                   *)
Push ==
  /\ run.pc = "push" /\ github[copy.on] \subseteq copy.head
  /\ github' = [github EXCEPT ![copy.on] = copy.head]
  /\ copy' = [copy EXCEPT !.seen[copy.on] = copy.head]
  /\ UNCHANGED <<wip, conv, unseen, bounds>>
  /\ Ends("success")

(* A plausible slip: the exit code of git push is not read.                *)
PushUnread ==
  /\ run.pc = "push"
  /\ \/ ~(github[copy.on] \subseteq copy.head) /\ UNCHANGED faults
     \/ Fault
  /\ UNCHANGED <<github, environment, unseen, made, others>>
  /\ Ends("success")

(* GitHub has commits that the branch lacks, or git fails.                 *)
PushRefused ==
  /\ run.pc = "push"
  /\ \/ ~(github[copy.on] \subseteq copy.head) /\ UNCHANGED faults
     \/ Fault
  /\ UNCHANGED <<github, environment, unseen, made, others>>
  /\ Ends("error")

(* The push that is killed may have arrived.                               *)
PushTimesOut ==
  /\ run.pc = "push" /\ Fault
  /\ \/ UNCHANGED github
     \/ /\ github[copy.on] \subseteq copy.head
        /\ github' = [github EXCEPT ![copy.on] = copy.head]
  /\ UNCHANGED <<environment, unseen, made, others>>
  /\ Ends("timeout")
-----------------------------------------------------------------------------
(***************************************************************************)
(* After Claude: the work is kept or dropped, then the conversation.       *)
(***************************************************************************)
OutOfTurns == run.ranOut /\ run.status # "success"

NotKeeping ==
  /\ run.pc = "keep" /\ ~run.keep
  /\ run' = NewRun("idle", FALSE)
  /\ UNCHANGED <<github, environment, history, bounds>>

(* A success drops the kept work; so does save_wip, before anything else.  *)
DropWork ==
  /\ run.pc = "keep" /\ run.keep
  /\ wip' = NoWip
  /\ run' = [run EXCEPT !.pc = IF run.status = "success" THEN "converse" ELSE "bundle"]
  /\ UNCHANGED <<github, copy, conv, history, bounds>>

(* The branch that is checked out, and what it has that GitHub has not.    *)
Unpushed == ~(copy.head \subseteq copy.seen.task \cup copy.seen.other)
Kept == [kept |-> TRUE, on |-> copy.on, head |-> copy.head, edits |-> copy.edits, old |-> FALSE]
CommitEdits == copy' = [copy EXCEPT !.head = Packed(@, copy.edits), !.edits = {}]

(* A plausible slip: work is kept only when there are local commits.       *)
KeepCommits ==
  /\ run.pc = "bundle" /\ copy.on \in Branches
  /\ wip' = IF Unpushed THEN Kept ELSE NoWip
  /\ CommitEdits
  /\ run' = [run EXCEPT !.pc = "converse"]
  /\ UNCHANGED <<github, conv, history, bounds>>

(* Edits are committed, and what GitHub has not goes into a bundle.        *)
KeepWork ==
  /\ run.pc = "bundle" /\ copy.on \in Branches
  /\ wip' = IF copy.edits # {} \/ Unpushed THEN Kept ELSE NoWip
  /\ CommitEdits
  /\ run' = [run EXCEPT !.pc = "converse"]
  /\ UNCHANGED <<github, conv, history, bounds>>

(* Not off the factory's branches, and not on one of an epic.              *)
KeepsNothing ==
  /\ run.pc = "bundle" /\ copy.on # "task"
  /\ excused' = excused \cup {"away"}
  /\ run' = [run EXCEPT !.pc = "converse"]
  /\ UNCHANGED <<github, environment, left, half, unseen, bounds>>

KeepFails ==
  /\ run.pc = "bundle" /\ Fault
  /\ \/ UNCHANGED copy
     \/ copy.on \in Branches /\ CommitEdits
  /\ excused' = excused \cup {"fault"}
  /\ run' = [run EXCEPT !.pc = "converse"]
  /\ UNCHANGED <<github, wip, conv, left, half, unseen, made, others>>

Continues == (run.status \in {"success", "timeout"} \/ OutOfTurns) /\ run.said # "none"

(* Whether the conversation that is kept once would not open, and how many *)
(* runs spoke in it, which is no longer counted then.                      *)
Refused == run.said = "kept" /\ (conv.refused \/ ~run.resumed)
Spoke ==
  IF run.said = "new" THEN 1
  ELSE IF Refused THEN 0 ELSE conv.spoke + 1

(* A plausible slip: every run counts as the first round.                  *)
KeepAsFirstRound ==
  /\ run.pc = "converse" /\ Continues
  /\ conv' = [kept |-> TRUE, rounds |-> 1,
              spoke |-> Spoke, refused |-> Refused, old |-> FALSE]
  /\ run' = NewRun("idle", FALSE)
  /\ UNCHANGED <<github, copy, wip, history, bounds>>

KeepConversation ==
  /\ run.pc = "converse" /\ Continues
  /\ conv' = [kept |-> TRUE, rounds |-> IF run.resumed THEN run.rounds + 1 ELSE 1,
              spoke |-> Spoke, refused |-> Refused, old |-> FALSE]
  /\ run' = NewRun("idle", FALSE)
  /\ UNCHANGED <<github, copy, wip, history, bounds>>

(* It ended in an error, or could not be copied, or was not found, which   *)
(* leaves the record of an earlier one.                                    *)
DropConversation ==
  /\ run.pc = "converse"
  /\ \/ ~Continues /\ conv' = NoConversation /\ UNCHANGED faults
     \/ Continues /\ Fault /\ conv' \in {conv, NoConversation}
  /\ run' = NewRun("idle", FALSE)
  /\ UNCHANGED <<github, copy, wip, history, made, others>>
-----------------------------------------------------------------------------
(***************************************************************************)
(* Around it: a stop, the passing of days, someone else's push.            *)
(***************************************************************************)

(* The copy is reset by the next run.  What was being replaced is gone; so *)
(* is what the run did.  A git command that hangs is killed, and the run   *)
(* with it.                                                                *)
Stop ==
  /\ run.pc # "idle" /\ Fault
  /\ \/ UNCHANGED copy
     \/ run.pc = "bundle" /\ copy.on \in Branches /\ CommitEdits
  /\ run' = NewRun("idle", FALSE)
  /\ excused' = excused \cup
       (IF run.keep /\ run.pc \in {"keep", "bundle"} THEN {"stop"} ELSE {})
  /\ UNCHANGED <<github, wip, conv, left, half, unseen, made, others>>

DaysPass ==
  /\ run.pc = "idle" /\ (wip.kept \/ conv.kept)
  /\ wip' = [wip EXCEPT !.old = wip.kept] /\ conv' = [conv EXCEPT !.old = conv.kept]
  /\ excused' = excused \cup {"old"}
  /\ UNCHANGED <<github, copy, run, left, half, unseen, bounds>>

SomeonePushes ==
  /\ others < MaxOthers /\ made < MaxWork
  /\ others' = others + 1 /\ made' = made + 1
  /\ github' = [github EXCEPT !.task = @ \cup {made + 1}]
  /\ UNCHANGED <<environment, run, history, faults>>

Session ==
  \/ RestoreWork \/ NothingToRestore \/ RestoreFails \/ OpenConversation \/ StartAfresh
  \/ SessionEnds \/ SessionTimesOut \/ WillNotOpen
  \/ NothingToPush \/ TestsPass \/ FixTests \/ StaysRed
  \/ Push \/ PushRefused \/ PushTimesOut
  \/ NotKeeping \/ DropWork \/ KeepWork \/ KeepsNothing \/ KeepFails
  \/ KeepConversation \/ DropConversation

Next ==
  \/ \E keep \in BOOLEAN : Start(keep)
  \/ Session
  \/ Stop \/ DaysPass \/ SomeonePushes

Spec == Init /\ [][Next]_vars

(* The thread of a run goes on, and every process it waits for is killed   *)
(* at the wall clock; nothing says that another run is started.            *)
FairSpec == Spec /\ WF_vars(Session)
-----------------------------------------------------------------------------
(***************************************************************************)
(* Properties.                                                             *)
(***************************************************************************)
(* What the copy holds: the branch in hand, its edits, GitHub's branches.  *)
InHand == copy.head \cup copy.edits \cup copy.seen.task \cup copy.seen.other
MovedOn == left.on \in Branches /\ ~(copy.seen[left.on] \subseteq left.head)
BuildsOnItsBranch == copy.on \in Branches => copy.seen[copy.on] \subseteq copy.head

ComesBackUnless(reasons) ==
  run.pc = "open" /\ run.keep /\ excused \subseteq reasons
    => (MovedOn \/ left.head \cup left.edits \subseteq InHand) /\ BuildsOnItsBranch

(* What an implementer's run could not push - out of turns, out of time or *)
(* red, its commits and its edits - is in the copy of the next one before  *)
(* Claude starts, whatever other roles ran in between, unless GitHub moved *)
(* the branch on; and what is put back is only put back on GitHub's own,   *)
(* or every push of it would be refused.  Excepted: it is too old, HEAD    *)
(* was on no branch that is kept, a command failed, or the process stopped *)
(* while the old was being replaced (save_wip, restore_wip).               *)
UnfinishedWorkComesBack == ComesBackUnless({})

(* A run that reports a success has delivered: the commits of the branch   *)
(* it stands on are on GitHub, through red tests, resumes and refused      *)
(* pushes, whichever of the factory's branches that is.  Excepted: a git   *)
(* command failed where the branch was inspected, which reads as nothing   *)
(* to push (_observe, inspect_pushable_branch).                            *)
SuccessIsDelivered ==
  run.pc \in {"keep", "converse"} /\ run.status = "success" /\ ~unseen
    => (copy.on \in Branches => copy.head \subseteq github[copy.on])

(* The commit that carries edits from run to run, and is on the branch in  *)
(* the copy when a run ends or is stopped there, never reaches GitHub,     *)
(* where it would be history, unless a restore broke off half-way (_reset, *)
(* restore_wip).                                                           *)
CarrierStaysHome == ~half => \A b \in Branches : Carrier \notin github[b]

(* A conversation is spoken in by at most MaxRounds runs and is then       *)
(* started over, by counting in a record that is rewritten after each; one *)
(* that would not open and is kept all the same is the exception           *)
(* (load_conversation, save_conversation).                                 *)
ConversationsStartOver ==
  conv.kept /\ ~conv.refused => conv.spoke <= MaxRounds

(* A run ends and gives the environment back, however often its tests are  *)
(* red and its conversations do not open.                                  *)
RunEnds == run.pc # "idle" ~> run.pc = "idle"
-----------------------------------------------------------------------------
(***************************************************************************)
(* What the documents say and the code does not do.                        *)
(***************************************************************************)

(* "restoring failed - starting from GitHub" (restore_wip): not when the   *)
(* last command is the one that fails.                                     *)
StartsFromGitHub ==
  run.pc = "open" /\ run.keep /\ ~wip.kept => copy = ResetTo(copy.seen)

(* "a run that ends without pushing has its work on its branch kept"       *)
(* (Repo-Workspaces): not when HEAD is on another branch at the end.       *)
WorkOffTheBranchComesBack == ComesBackUnless({"away"})

(* "Whatever the last run did but could not push is kept" (report_gave_up): *)
(* save_wip removes the old bundle before it has the new one.              *)
WorkSurvivesStop == ComesBackUnless({"stop"})

(* "or will not open is dropped" (Repo-Workspaces).                        *)
RefusedIsDropped == ~conv.refused

(* The tests are run on the working tree and the push takes the commits.   *)
PushedIsWhatWasTested == run.pc = "push" => copy.edits = {}
==============================================================================
