------------------------- MODULE RoleSessionProofs --------------------------
(***************************************************************************)
(* Proofs about RoleSession, for every number of rounds, fixes, pieces of  *)
(* work, pushes by others and faults.                                      *)
(***************************************************************************)
EXTENDS RoleSession, TLAPS

USE DEF Pieces, Carrier, Commits, Branches

(***************************************************************************)
(* The inductive invariant.                                                *)
(***************************************************************************)

(* What the copy believes of GitHub was true once, and GitHub's branches   *)
(* only grow; a copy that was just reset holds nothing else.               *)
SeenIsOnGitHub ==
  /\ \A b \in Branches : copy.seen[b] \subseteq github[b]
  /\ run.pc = "restore" => copy.head = copy.seen.task /\ copy.on = "away"

(* Only an implementer's run gets to the bundle and to the conversation,   *)
(* and to the bundle only one that did not succeed.                        *)
OnlyKeepersKeep ==
  /\ run.pc \in {"bundle", "converse"} => run.keep
  /\ run.pc = "bundle" => run.status # "success"

(* The carrier commit is nowhere that a push could take it from: in the    *)
(* copy only between the end of a run and the reset of the next.           *)
CarrierIsNowhere ==
  ~half =>
    /\ \A b \in Branches : Carrier \notin github[b]
    /\ Carrier \notin wip.head
    /\ run.pc \notin {"converse", "idle"} => Carrier \notin copy.head

(* SuccessIsDelivered.                                                     *)
Delivered ==
  run.pc \in {"keep", "converse"} /\ run.status = "success" /\ ~unseen /\ copy.on \in Branches
    => copy.head \subseteq github[copy.on]

(* A run that continues the kept conversation knows its count.             *)
Asking == run.said = "kept" \/ (run.ask = "resume" /\ run.said = "none")
Knows ==
  /\ run.pc \in {"restore", "open"} => run.ask = "fresh" /\ run.said = "none"
  /\ run.pc # "idle" /\ Asking => conv.kept /\ conv.rounds = run.rounds

Counted == conv.kept /\ ~conv.refused => conv.spoke <= conv.rounds

(* Where the work that was left is: beside the copy, or there was none     *)
(* that `remote` lacks, or the branch in `remote` has moved on.            *)
Held ==
  /\ wip.kept /\ ~wip.old
  /\ wip.on = left.on /\ wip.head = left.head /\ wip.edits = left.edits
Gone(remote) ==
  /\ ~wip.kept
  /\ \/ left.edits = {} /\ left.head \subseteq remote.task \cup remote.other
     \/ left.on \in Branches /\ ~(remote[left.on] \subseteq left.head)

(* An implementer's run that is over and has not replaced the bundle yet.  *)
Replacing == run.keep /\ run.pc \in {"keep", "bundle"}

WorkIsSomewhere ==
  excused = {} =>
    /\ ~Replacing => Held \/ Gone(github)
    /\ run.pc = "restore" => Held \/ Gone(copy.seen)
    /\ run.pc = "open" /\ run.keep
         => (MovedOn \/ left.head \cup left.edits \subseteq InHand) /\ BuildsOnItsBranch
    /\ Replacing =>
         /\ copy.on \in Branches
         /\ run.pc = "keep" /\ run.status = "success" => left = Nothing
         /\ run.status # "success" =>
              left.on = copy.on /\ left.head = copy.head /\ left.edits = copy.edits

IInv ==
  /\ TypeOK /\ SeenIsOnGitHub /\ OnlyKeepersKeep /\ CarrierIsNowhere /\ Delivered
  /\ Knows /\ Counted /\ WorkIsSomewhere

-----------------------------------------------------------------------------
(***************************************************************************)
(* Types.  The bounds are named, so that no leaf has to count.             *)
(***************************************************************************)
USE DEF vars, environment, history, bounds

Fixes == 0 .. MaxFixes
Rounds == 0 .. MaxRounds - 1
Contents == SUBSET Commits
RunOf ==
  [pc : {"idle", "restore", "open", "claude", "observe", "push", "keep", "bundle",
         "converse"},
   keep : BOOLEAN, rounds : Rounds, resumed : BOOLEAN,
   ask : {"fresh", "resume"}, said : {"none", "kept", "new"}, fixes : Fixes,
   red : BOOLEAN, ranOut : BOOLEAN,
   status : {"success", "error", "timeout"}]
Left == [on : Branches \cup {"away"}, head : Contents, edits : SUBSET Pieces]
Remotes == [Branches -> Contents]

LEMMA RunIs == Run = RunOf /\ 0 \in Fixes /\ 0 \in Rounds
  BY RoleSessionAssumption DEF Run, RunOf, Rounds, Fixes

LEMMA NewRunTyped == \A k \in BOOLEAN : NewRun("idle", k) \in Run /\ NewRun("restore", k) \in Run
  BY RunIs DEF NewRun, RunOf

LEMMA OverTyped ==
  ASSUME run \in Run PROVE \A s \in {"success", "error", "timeout"} : Over(s) \in Run
  BY RunIs DEF Over, RunOf

LEMMA NothingTyped == NoWip \in Wip /\ NoConversation \in Conversation /\ Nothing \in Left
  BY RoleSessionAssumption DEF NoWip, Wip, NoConversation, Conversation, Nothing, Left, Contents

LEMMA ResetTyped == \A r \in Remotes : ResetTo(r) \in Copy
  BY DEF ResetTo, Copy, Contents, Remotes

LEMMA PackedTyped ==
  ASSUME NEW head \in SUBSET Commits, NEW edits \in SUBSET Pieces
  PROVE  Packed(head, edits) \in SUBSET Commits
  BY DEF Packed

LEMMA CommitTyped == ASSUME copy \in Copy, CommitEdits PROVE copy' \in Copy
<1>1. Packed(copy.head, copy.edits) \in SUBSET Commits
  BY PackedTyped DEF Copy
<1>. HIDE DEF Pieces, Commits
<1>. QED  BY <1>1 DEF CommitEdits, Copy

LEMMA Zeros == 0 \in 0 .. MaxWork /\ 0 \in 0 .. MaxOthers /\ 0 \in 0 .. MaxFaults
  BY RoleSessionAssumption

Starts == \E keep \in BOOLEAN : Start(keep)

LEMMA HeardTyped == ASSUME run \in Run PROVE Heard \in {"none", "kept", "new"}
  BY RunIs DEF Heard, RunOf

LEMMA RunTyped == ASSUME TypeOK, [Next]_vars PROVE run' \in Run
<1> USE DEF TypeOK
<1>1. CASE NotKeeping \/ KeepConversation \/ DropConversation \/ Stop
          \/ Starts
  BY <1>1, NewRunTyped DEF NotKeeping, KeepConversation, DropConversation,
     Stop, Starts, Start
<1>2. CASE NothingToPush
  BY <1>2, OverTyped, RunIs DEF NothingToPush, Ends, RunOf
<1>3. CASE StaysRed \/ Push \/ PushRefused
          \/ PushTimesOut
  BY <1>3, OverTyped DEF StaysRed, Ends, Push, PushRefused,
     PushTimesOut
<1>4. CASE SessionTimesOut
  <2>1. PICK said \in {run.said, Heard} :
          run' = [Over("timeout") EXCEPT !.said = said,
                    !.resumed = IF run.fixes = 0 THEN run.ask = "resume" ELSE @]
    BY <1>4 DEF SessionTimesOut
  <2>2. said \in {"none", "kept", "new"}
    BY HeardTyped, RunIs DEF RunOf
  <2>3. Over("timeout") \in RunOf
    BY OverTyped, RunIs
  <2>. DEFINE over == Over("timeout")
              resumed == IF run.fixes = 0 THEN run.ask = "resume" ELSE over.resumed
  <2>4. resumed \in BOOLEAN
    BY <2>3 DEF RunOf
  <2>5. run' = [over EXCEPT !.said = said, !.resumed = resumed]
    BY <2>1
  <2>. HIDE DEF over, resumed
  <2>6. over \in RunOf
    BY <2>3 DEF over
  <2>. QED  BY <2>2, <2>4, <2>5, <2>6, RunIs DEF RunOf
<1>5. CASE SessionEnds
  <2>1. PICK status \in {"success", "error"}, ranOut \in BOOLEAN, said \in {run.said, Heard} :
          run' = [run EXCEPT !.pc = "observe", !.said = said,
                    !.resumed = IF run.fixes = 0 THEN run.ask = "resume" ELSE @,
                    !.ranOut = IF run.fixes = 0 THEN ranOut ELSE @,
                    !.status = status]
    BY <1>5 DEF SessionEnds
  <2>2. said \in {"none", "kept", "new"}
    BY HeardTyped, RunIs DEF RunOf
  <2>. DEFINE resumed == IF run.fixes = 0 THEN run.ask = "resume" ELSE run.resumed
              out == IF run.fixes = 0 THEN ranOut ELSE run.ranOut
  <2>3. resumed \in BOOLEAN /\ out \in BOOLEAN
    BY RunIs DEF RunOf
  <2>4. run' = [run EXCEPT !.pc = "observe", !.said = said, !.resumed = resumed,
                           !.ranOut = out, !.status = status]
    BY <2>1
  <2>. HIDE DEF resumed, out
  <2>5. [run EXCEPT !.pc = "observe", !.said = said, !.resumed = resumed] \in RunOf
    BY <2>2, <2>3, RunIs DEF RunOf
  <2>6. run' = [[run EXCEPT !.pc = "observe", !.said = said, !.resumed = resumed]
                  EXCEPT !.ranOut = out, !.status = status]
    BY <2>4
  <2>. QED  BY <2>3, <2>5, <2>6, RunIs DEF RunOf
<1>6. CASE WillNotOpen
  <2>1. PICK said \in {"none", "kept", "new"} : run' = [run EXCEPT !.ask = "fresh", !.said = said]
    BY <1>6, HeardTyped, RunIs DEF WillNotOpen, RunOf
  <2>. QED  BY <2>1, RunIs DEF RunOf
<1>7. CASE OpenConversation
  <2>1. conv.rounds \in Rounds
    BY <1>7, RoleSessionAssumption DEF OpenConversation, Rounds, Continuable, Conversation
  <2>. QED  BY <1>7, <2>1, RunIs DEF OpenConversation, RunOf
<1>8. CASE FixTests
  <2>1. run.fixes + 1 \in Fixes
    BY <1>8, RunIs, RoleSessionAssumption DEF FixTests, RunOf, Fixes
  <2>. QED  BY <1>8, <2>1, RunIs DEF FixTests, RunOf
<1>9. CASE RestoreWork \/ NothingToRestore \/ RestoreFails \/ StartAfresh
          \/ TestsPass
  BY <1>9, RunIs DEF RestoreWork, NothingToRestore, RestoreFails,
     StartAfresh, TestsPass, RunOf
<1>10. CASE DropWork \/ KeepWork \/ KeepsNothing \/ KeepFails
  BY <1>10, RunIs DEF DropWork, KeepWork, KeepsNothing, KeepFails, RunOf
<1>11. CASE DaysPass \/ SomeonePushes \/ UNCHANGED vars
  BY <1>11 DEF DaysPass, SomeonePushes
<1> QED
  BY <1>1, <1>2, <1>3, <1>4, <1>5, <1>6, <1>7, <1>8, <1>9, <1>10, <1>11 DEF Next, Session, Starts

(* What a session leaves behind, whatever it did.                          *)
LEMMA WorkedLeaves ==
  ASSUME TypeOK, Worked
  PROVE  /\ copy' \in Copy /\ github' \in Remotes
         /\ made' \in 0 .. MaxWork /\ faults' \in 0 .. MaxFaults
         /\ copy'.head \subseteq copy.head \cup github.task \cup Pieces
         /\ \A b \in Branches : /\ github[b] \subseteq github'[b]
                               /\ github'[b] \subseteq github[b] \cup copy'.head
                               /\ copy'.seen[b] \subseteq copy.seen[b] \cup github'[b]
<1>. DEFINE Head(merged, done) == copy.head \cup merged \cup done
            Rest(new, done) == (copy.edits \cup new) \ done
            Local(merged) == [copy.seen EXCEPT !.task = @ \cup merged]
<1>1. PICK new \in SUBSET ({made + 1} \cap Pieces), merged \in {{}, github.task},
           on \in Branches \cup {"away"} :
        \E done \in SUBSET (copy.edits \cup new) :
          LET head == copy.head \cup merged \cup done
          IN /\ faults' = IF on \in {"task", copy.on} THEN faults ELSE faults + 1
             /\ faults' <= MaxFaults
             /\ made' = IF new = {} THEN made ELSE made + 1
             /\ \/ /\ copy' = [on |-> on, head |-> head, edits |-> (copy.edits \cup new) \ done,
                               seen |-> [copy.seen EXCEPT !.task = @ \cup merged]]
                   /\ UNCHANGED github
                \/ /\ on \in Branches /\ github[on] \subseteq head /\ head # {}
                   /\ copy' = [on |-> on, head |-> head, edits |-> (copy.edits \cup new) \ done,
                               seen |-> [copy.seen EXCEPT ![on] = head]]
                   /\ github' = [github EXCEPT ![on] = head]
  BY Zenon DEF Worked
<1>2. PICK done \in SUBSET (copy.edits \cup new) :
        /\ faults' = IF on \in {"task", copy.on} THEN faults ELSE faults + 1
        /\ faults' <= MaxFaults
        /\ made' = IF new = {} THEN made ELSE made + 1
        /\ \/ /\ copy' = [on |-> on, head |-> Head(merged, done), edits |-> Rest(new, done),
                          seen |-> Local(merged)]
              /\ UNCHANGED github
           \/ /\ on \in Branches /\ github[on] \subseteq Head(merged, done)
              /\ copy' = [on |-> on, head |-> Head(merged, done), edits |-> Rest(new, done),
                          seen |-> [copy.seen EXCEPT ![on] = Head(merged, done)]]
              /\ github' = [github EXCEPT ![on] = Head(merged, done)]
  BY <1>1
<1>3. made' \in 0 .. MaxWork /\ faults' \in 0 .. MaxFaults
  <2>1. made \in 0 .. MaxWork /\ faults \in 0 .. MaxFaults
    BY DEF TypeOK
  <2>2. new = {} \/ made + 1 \in Pieces
    OBVIOUS
  <2>3. made' \in 0 .. MaxWork
    BY <1>2, <2>1, <2>2, RoleSessionAssumption
  <2>4. faults' \in 0 .. MaxFaults
    BY <1>2, <2>1, RoleSessionAssumption
  <2>. QED  BY <2>3, <2>4
<1>4. /\ new \subseteq Pieces /\ copy.edits \subseteq Pieces /\ copy.head \subseteq Commits
      /\ copy.seen \in Remotes /\ github \in Remotes /\ merged \subseteq github.task
      /\ github.task \subseteq Commits
  BY DEF TypeOK, Copy, Remotes, Contents
<1>. DEFINE head == Head(merged, done)
            rest == Rest(new, done)
            seen == Local(merged)
<1>5. /\ head \in SUBSET Commits /\ rest \in SUBSET Pieces
      /\ head \subseteq copy.head \cup github.task \cup Pieces
  BY <1>4
<1>. HIDE DEF Pieces, Commits
<1>6. /\ seen \in Remotes
      /\ \A b \in Branches : seen[b] \subseteq copy.seen[b] \cup github[b]
  BY <1>4 DEF Remotes, Contents
<1>7. \/ /\ copy' = [on |-> on, head |-> head, edits |-> rest, seen |-> seen]
         /\ github' = github
      \/ /\ on \in Branches /\ github[on] \subseteq head
         /\ copy' = [on |-> on, head |-> head, edits |-> rest,
                     seen |-> [copy.seen EXCEPT ![on] = head]]
         /\ github' = [github EXCEPT ![on] = head]
  BY <1>2
<1>. HIDE DEF head, rest, seen
<1>8. CASE /\ copy' = [on |-> on, head |-> head, edits |-> rest, seen |-> seen]
           /\ github' = github
  BY <1>3, <1>4, <1>5, <1>6, <1>8 DEF Copy, Remotes, Contents
<1>9. CASE /\ on \in Branches /\ github[on] \subseteq head
           /\ copy' = [on |-> on, head |-> head, edits |-> rest,
                       seen |-> [copy.seen EXCEPT ![on] = head]]
           /\ github' = [github EXCEPT ![on] = head]
  <2>1. /\ [copy.seen EXCEPT ![on] = head] \in Remotes
        /\ [github EXCEPT ![on] = head] \in Remotes
    BY <1>4, <1>5 DEF Remotes, Contents
  <2>2. copy' \in Copy /\ github' \in Remotes
    BY <1>5, <1>9, <2>1 DEF Copy, Remotes, Contents
  <2>3. \A b \in Branches :
          /\ github'[b] = IF b = on THEN head ELSE github[b]
          /\ copy'.seen[b] = IF b = on THEN head ELSE copy.seen[b]
    BY <1>4, <1>9 DEF Remotes
  <2>. QED  BY <1>3, <1>5, <1>9, <2>2, <2>3
<1>. QED  BY <1>7, <1>8, <1>9

LEMMA CopyTyped == ASSUME TypeOK, [Next]_vars PROVE copy' \in Copy
<1> USE DEF TypeOK
<1>1. CASE Starts
  BY <1>1, ResetTyped DEF Starts, Start, Remotes, Contents
<1>2. CASE RestoreWork
  BY <1>2 DEF RestoreWork, Copy, Wip
<1>3. CASE RestoreFails
  <2>. DEFINE H == Packed(wip.head, wip.edits)
  <2>1. H \in SUBSET Commits
    BY PackedTyped DEF Wip
  <2>2. wip.on \in Branches
    BY DEF Wip
  <2>. HIDE DEF H, Pieces, Commits
  <2>3. [copy EXCEPT !.on = wip.on, !.head = H] \in Copy
    BY <2>1, <2>2 DEF Copy
  <2>. QED  BY <1>3, <2>3 DEF RestoreFails, H
<1>4. CASE SessionEnds \/ SessionTimesOut
  BY <1>4, WorkedLeaves DEF SessionEnds, SessionTimesOut
<1>5. CASE Push
  BY <1>5 DEF Push, Ends, Copy
<1>6. CASE KeepWork \/ KeepFails \/ Stop
  <2>1. copy' = copy \/ CommitEdits
    BY <1>6 DEF KeepWork, KeepFails, Stop
  <2>. QED  BY <2>1, CommitTyped
<1>7. CASE NothingToRestore \/ OpenConversation \/ StartAfresh
          \/ WillNotOpen \/ NothingToPush \/ TestsPass \/ FixTests
          \/ StaysRed \/ PushRefused \/ PushTimesOut
          \/ NotKeeping \/ DropWork \/ KeepsNothing
          \/ KeepConversation \/ DropConversation \/ DaysPass
          \/ SomeonePushes \/ UNCHANGED vars
  BY <1>7 DEF NothingToRestore, OpenConversation, StartAfresh, WillNotOpen,
     NothingToPush, TestsPass, FixTests, StaysRed, PushRefused, PushTimesOut,
     NotKeeping, DropWork, KeepsNothing, KeepConversation, DropConversation,
     DaysPass, SomeonePushes
<1>. QED
  BY <1>1, <1>2, <1>3, <1>4, <1>5, <1>6, <1>7 DEF Next, Session, Starts

LEMMA WipTyped == ASSUME TypeOK, [Next]_vars PROVE wip' \in Wip
<1> USE DEF TypeOK
<1>1. CASE NothingToRestore \/ RestoreFails \/ DropWork
  BY <1>1, NothingTyped DEF NothingToRestore, RestoreFails, DropWork
<1>2. CASE KeepWork
  <2>1. Kept \in Wip
    BY <1>2 DEF KeepWork, Kept, Wip, Copy
  <2>. QED  BY <1>2, <2>1, NothingTyped DEF KeepWork
<1>3. CASE DaysPass
  BY <1>3 DEF DaysPass, Wip
<1>4. CASE RestoreWork \/ OpenConversation \/ StartAfresh \/ SessionEnds
          \/ SessionTimesOut \/ WillNotOpen \/ NothingToPush \/ TestsPass
          \/ FixTests \/ StaysRed \/ Push \/ PushRefused
          \/ PushTimesOut \/ NotKeeping \/ KeepsNothing \/ KeepFails \/ KeepConversation
          \/ DropConversation \/ Starts \/ Stop \/ SomeonePushes
          \/ UNCHANGED vars
  BY <1>4 DEF RestoreWork, OpenConversation, StartAfresh, SessionEnds,
     SessionTimesOut, WillNotOpen, NothingToPush, Ends, TestsPass, FixTests,
     StaysRed, Push, PushRefused, PushTimesOut, NotKeeping,
     KeepsNothing, KeepFails, KeepConversation, DropConversation, Starts, Start, Stop,
     SomeonePushes
<1>. QED
  BY <1>1, <1>2, <1>3, <1>4 DEF Next, Session, Starts

LEMMA ConversationTyped == ASSUME TypeOK, [Next]_vars PROVE conv' \in Conversation
<1> USE DEF TypeOK
<1>1. CASE StartAfresh \/ DropConversation
  BY <1>1, NothingTyped DEF StartAfresh, DropConversation
<1>2. CASE KeepConversation
  <2>1. Spoke \in Nat /\ Refused \in BOOLEAN
    BY DEF Spoke, Refused, Conversation, Run
  <2>2. run.rounds + 1 \in 0 .. MaxRounds /\ 1 \in 0 .. MaxRounds
    BY RunIs, RoleSessionAssumption DEF RunOf, Rounds
  <2>. QED  BY <1>2, <2>1, <2>2 DEF KeepConversation, Conversation
<1>3. CASE DaysPass
  BY <1>3 DEF DaysPass, Conversation
<1>4. CASE RestoreWork \/ NothingToRestore \/ RestoreFails
          \/ OpenConversation \/ SessionEnds \/ SessionTimesOut
          \/ WillNotOpen \/ NothingToPush \/ TestsPass \/ FixTests
          \/ StaysRed \/ Push \/ PushRefused
          \/ PushTimesOut \/ NotKeeping \/ DropWork \/ KeepWork
          \/ KeepsNothing \/ KeepFails \/ Starts \/ Stop \/ SomeonePushes \/ UNCHANGED vars
  BY <1>4 DEF RestoreWork, NothingToRestore, RestoreFails, OpenConversation,
     SessionEnds, SessionTimesOut, WillNotOpen, NothingToPush, Ends,
     TestsPass, FixTests, StaysRed, Push, PushRefused,
     PushTimesOut, NotKeeping, DropWork, KeepWork, KeepsNothing, KeepFails, Starts, Start,
     Stop, SomeonePushes
<1>. QED
  BY <1>1, <1>2, <1>3, <1>4 DEF Next, Session, Starts

LEMMA LeavesTyped ==
  ASSUME TypeOK, [Next]_vars, NEW s, Leaves(s)
  PROVE  left' \in Left /\ excused' \in SUBSET {"away", "old", "fault", "stop"}
<1>1. copy' \in Copy
  BY CopyTyped
<1>2. [on |-> copy'.on, head |-> copy'.head, edits |-> copy'.edits] \in Left
  BY <1>1 DEF Copy, Left, Contents
<1>. QED  BY <1>2, NothingTyped DEF Leaves, TypeOK, Left, Contents

LEMMA LeftTyped ==
  ASSUME TypeOK, [Next]_vars
  PROVE  left' \in Left /\ excused' \in SUBSET {"away", "old", "fault", "stop"}
<1>1. CASE NothingToPush \/ StaysRed \/ Push \/ PushRefused \/ PushTimesOut
           \/ SessionTimesOut
  <2>1. PICK s : Leaves(s)
    BY <1>1 DEF NothingToPush, StaysRed, Push, PushRefused, PushTimesOut, SessionTimesOut, Ends
  <2>. QED  BY <2>1, LeavesTyped
<1>2. CASE RestoreWork \/ NothingToRestore \/ RestoreFails
          \/ OpenConversation \/ StartAfresh \/ SessionEnds \/ WillNotOpen
          \/ TestsPass \/ FixTests \/ NotKeeping \/ DropWork \/ KeepWork
          \/ KeepsNothing \/ KeepFails \/ KeepConversation \/ DropConversation \/ Starts
          \/ Stop \/ DaysPass \/ SomeonePushes \/ UNCHANGED vars
  <2>1. /\ left' = left
        /\ \/ excused' = excused
           \/ \E why \in {"away", "old", "fault", "stop"} : excused' = excused \cup {why}
    BY <1>2 DEF RestoreWork, NothingToRestore, RestoreFails, OpenConversation,
       StartAfresh, SessionEnds, WillNotOpen, TestsPass, FixTests, NotKeeping,
       DropWork, KeepWork, KeepsNothing, KeepFails, KeepConversation, DropConversation,
       Starts, Start, Stop, DaysPass, SomeonePushes
  <2>. QED  BY <2>1 DEF TypeOK, Left, Contents
<1>. QED
  BY <1>1, <1>2 DEF Next, Session, Starts

LEMMA BranchTyped == ASSUME TypeOK, [Next]_vars PROVE github' \in Remotes
<1>0. github \in Remotes /\ copy.head \in Contents
  BY DEF TypeOK, Remotes, Contents, Copy
<1>1. CASE SessionEnds \/ SessionTimesOut
  BY <1>1, WorkedLeaves DEF SessionEnds, SessionTimesOut
<1>2. CASE Push \/ PushTimesOut
  <2>1. github' = github \/ github' = [github EXCEPT ![copy.on] = copy.head]
    BY <1>2 DEF Push, PushTimesOut
  <2>. QED  BY <1>0, <2>1 DEF Remotes
<1>3. CASE SomeonePushes
  <2>1. made + 1 \in Commits /\ github' = [github EXCEPT !.task = @ \cup {made + 1}]
    BY <1>3, RoleSessionAssumption DEF SomeonePushes, TypeOK
  <2>. QED  BY <1>0, <2>1 DEF Remotes, Contents
<1>4. CASE RestoreWork \/ NothingToRestore \/ RestoreFails
          \/ OpenConversation \/ StartAfresh \/ WillNotOpen
          \/ NothingToPush \/ TestsPass \/ FixTests \/ StaysRed
          \/ PushRefused \/ NotKeeping \/ DropWork
          \/ KeepWork \/ KeepsNothing \/ KeepFails \/ KeepConversation \/ DropConversation
          \/ Starts \/ Stop \/ DaysPass \/ UNCHANGED vars
  <2>1. github' = github
    BY <1>4 DEF RestoreWork, NothingToRestore, RestoreFails, OpenConversation,
       StartAfresh, WillNotOpen, NothingToPush, TestsPass, FixTests, StaysRed,
       PushRefused, NotKeeping, DropWork, KeepWork, KeepsNothing,
       KeepFails, KeepConversation, DropConversation, Starts, Start, Stop, DaysPass
  <2>. QED  BY <1>0, <2>1
<1>. QED
  BY <1>1, <1>2, <1>3, <1>4 DEF Next, Session, Starts

LEMMA BoundsTyped ==
  ASSUME TypeOK, [Next]_vars
  PROVE  /\ half' \in BOOLEAN /\ unseen' \in BOOLEAN
         /\ made' \in 0 .. MaxWork /\ others' \in 0 .. MaxOthers /\ faults' \in 0 .. MaxFaults
<1> USE DEF TypeOK
<1>1. CASE SessionEnds \/ SessionTimesOut
  BY <1>1, WorkedLeaves DEF SessionEnds, SessionTimesOut
<1>2. CASE SomeonePushes
  BY <1>2, RoleSessionAssumption DEF SomeonePushes
<1>3. CASE RestoreWork \/ RestoreFails \/ StartAfresh \/ NothingToPush \/ TestsPass
          \/ FixTests \/ StaysRed \/ PushRefused \/ PushTimesOut
          \/ KeepFails \/ DropConversation \/ Stop
  <2>1. Fault \/ UNCHANGED faults
    BY <1>3 DEF RestoreWork, RestoreFails, StartAfresh, NothingToPush, TestsPass, FixTests,
       StaysRed, FoundNothing, FoundAhead, PushRefused, PushTimesOut, KeepFails,
       DropConversation, Stop
  <2>2. faults' \in 0 .. MaxFaults
    BY <2>1, RoleSessionAssumption DEF Fault
  <2>3. half' \in BOOLEAN /\ unseen' \in BOOLEAN /\ UNCHANGED <<made, others>>
    BY <1>3 DEF RestoreWork, RestoreFails, StartAfresh, NothingToPush, TestsPass, FixTests,
       StaysRed, FoundNothing, PushRefused, PushTimesOut, KeepFails, DropConversation, Stop,
       Ends
  <2>. QED  BY <2>2, <2>3
<1>4. CASE NothingToRestore \/ OpenConversation
          \/ WillNotOpen \/ Push \/ NotKeeping \/ DropWork \/ KeepsNothing
          \/ KeepWork \/ KeepConversation \/ Starts \/ DaysPass
          \/ UNCHANGED vars
  BY <1>4 DEF NothingToRestore, OpenConversation, WillNotOpen,
     Ends, Push, NotKeeping, DropWork, KeepsNothing, KeepWork, KeepConversation,
     Starts, Start, DaysPass
<1>. QED
  BY <1>1, <1>2, <1>3, <1>4 DEF Next, Session, Starts

LEMMA InitTypeOK == ASSUME Init PROVE TypeOK
<1>1. /\ github \in [Branches -> SUBSET Commits] /\ half \in BOOLEAN /\ unseen \in BOOLEAN
      /\ excused \in SUBSET {"away", "old", "fault", "stop"}
  BY DEF Init
<1>2. copy \in Copy
  BY <1>1, ResetTyped DEF Init, Contents, Remotes
<1>3. wip \in Wip /\ conv \in Conversation /\ run \in Run /\ left \in Left
  BY NothingTyped, NewRunTyped DEF Init
<1>4. made \in 0 .. MaxWork /\ others \in 0 .. MaxOthers /\ faults \in 0 .. MaxFaults
  BY Zeros DEF Init
<1>. QED  BY <1>1, <1>2, <1>3, <1>4 DEF TypeOK, Left, Contents

LEMMA NextTypeOK == ASSUME TypeOK, [Next]_vars PROVE TypeOK'
  BY RunTyped, CopyTyped, WipTyped, ConversationTyped, LeftTyped, BranchTyped, BoundsTyped
  DEF TypeOK, Left, Contents, Remotes

(* The variables of the environment and the run keep their types, for all  *)
(* bounds: the count of rounds stays within MaxRounds, a conversation is   *)
(* never started on with more, and the resumes stay within MaxFixes        *)
(* (load_conversation, _observe).                                          *)
THEOREM SessionTypes == Spec => []TypeOK
<1>1. TypeOK /\ [Next]_vars => TypeOK'
  BY NextTypeOK
<1>. QED  BY InitTypeOK, <1>1, PTL DEF Spec
-----------------------------------------------------------------------------
(***************************************************************************)
(* What the ends of sessions and runs say of the run.                      *)
(***************************************************************************)
Statuses == {"success", "error", "timeout"}

LEMMA EndsAt ==
  ASSUME TypeOK, NEW s \in Statuses, Ends(s)
  PROVE  /\ run'.pc = "keep" /\ run'.status = s /\ run'.ask = "fresh" /\ run'.said = run.said
         /\ run'.keep = run.keep /\ run'.rounds = run.rounds /\ run'.resumed = run.resumed
         /\ half' = half
  BY RunIs DEF TypeOK, Ends, Over, RunOf

LEMMA TimesOutAt ==
  ASSUME TypeOK, SessionTimesOut
  PROVE  /\ run'.pc = "keep" /\ run'.status = "timeout" /\ run'.ask = "fresh"
         /\ run'.said \in {run.said, Heard}
         /\ run'.keep = run.keep /\ run'.rounds = run.rounds
<1>1. PICK said \in {run.said, Heard} :
        run' = [Over("timeout") EXCEPT !.said = said,
                  !.resumed = IF run.fixes = 0 THEN run.ask = "resume" ELSE @]
  BY DEF SessionTimesOut
<1>2. Over("timeout") \in RunOf
  BY OverTyped, RunIs DEF TypeOK
<1>3. /\ Over("timeout").pc = "keep" /\ Over("timeout").status = "timeout"
      /\ Over("timeout").ask = "fresh" /\ Over("timeout").keep = run.keep
      /\ Over("timeout").rounds = run.rounds
  BY RunIs DEF TypeOK, Over, RunOf
<1>. QED  BY <1>1, <1>2, <1>3 DEF RunOf

LEMMA SessionEndsAt ==
  ASSUME TypeOK, SessionEnds
  PROVE  /\ run'.pc = "observe" /\ run'.ask = run.ask /\ run'.said \in {run.said, Heard}
         /\ run'.keep = run.keep /\ run'.rounds = run.rounds
<1>1. PICK status \in {"success", "error"}, ranOut \in BOOLEAN, said \in {run.said, Heard} :
        run' = [run EXCEPT !.pc = "observe", !.said = said,
                  !.resumed = IF run.fixes = 0 THEN run.ask = "resume" ELSE @,
                  !.ranOut = IF run.fixes = 0 THEN ranOut ELSE @,
                  !.status = status]
  BY DEF SessionEnds
<1>. QED  BY <1>1, RunIs DEF TypeOK, RunOf
-----------------------------------------------------------------------------
(***************************************************************************)
(* One lemma for each part of the invariant.                               *)
(***************************************************************************)
(* No step but the start of a run resets the copy; none rewrites GitHub.   *)
LEMMA GitHubGrows ==
  ASSUME TypeOK, [Next]_vars, NEW b \in Branches
  PROVE  github[b] \subseteq github'[b]
<1>0. github \in Remotes
  BY DEF TypeOK, Remotes, Contents
<1>1. CASE SessionEnds \/ SessionTimesOut
  BY <1>1, WorkedLeaves DEF SessionEnds, SessionTimesOut
<1>2. CASE Push \/ PushTimesOut
  <2>1. \/ github' = github
        \/ /\ github[copy.on] \subseteq copy.head
           /\ github' = [github EXCEPT ![copy.on] = copy.head]
    BY <1>2 DEF Push, PushTimesOut
  <2>. QED  BY <1>0, <2>1 DEF Remotes
<1>3. CASE SomeonePushes
  <2>1. github' = [github EXCEPT !.task = @ \cup {made + 1}]
    BY <1>3 DEF SomeonePushes
  <2>. QED  BY <1>0, <2>1 DEF Remotes
<1>4. CASE RestoreWork \/ NothingToRestore \/ RestoreFails
          \/ OpenConversation \/ StartAfresh \/ WillNotOpen
          \/ NothingToPush \/ TestsPass \/ FixTests \/ StaysRed
          \/ PushRefused \/ NotKeeping \/ DropWork
          \/ KeepWork \/ KeepsNothing \/ KeepFails \/ KeepConversation \/ DropConversation
          \/ Starts \/ Stop \/ DaysPass \/ UNCHANGED vars
  BY <1>4 DEF RestoreWork, NothingToRestore, RestoreFails, OpenConversation,
     StartAfresh, WillNotOpen, NothingToPush, TestsPass, FixTests, StaysRed,
     PushRefused, NotKeeping, DropWork, KeepWork, KeepsNothing,
     KeepFails, KeepConversation, DropConversation, Starts, Start, Stop, DaysPass
<1>. QED
  BY <1>1, <1>2, <1>3, <1>4 DEF Next, Session, Starts

LEMMA SeenStaysOnGitHub ==
  ASSUME TypeOK, SeenIsOnGitHub, [Next]_vars
  PROVE  SeenIsOnGitHub'
<1>0. \A b \in Branches : copy.seen[b] \subseteq github[b] /\ github[b] \subseteq github'[b]
  BY GitHubGrows DEF SeenIsOnGitHub
<1>1. CASE Starts
  BY <1>1 DEF Starts, Start, ResetTo, NewRun, SeenIsOnGitHub
<1>2. CASE SessionEnds \/ SessionTimesOut
  <2>1. \A b \in Branches : copy'.seen[b] \subseteq github'[b]
    BY <1>0, <1>2, WorkedLeaves DEF SessionEnds, SessionTimesOut
  <2>2. run'.pc # "restore"
    BY <1>2, SessionEndsAt, TimesOutAt
  <2>. QED  BY <2>1, <2>2 DEF SeenIsOnGitHub
<1>3. CASE Push
  <2>1. run'.pc # "restore"
    BY <1>3, EndsAt DEF Push, Statuses
  <2>2. /\ github' = [github EXCEPT ![copy.on] = copy.head]
        /\ copy' = [copy EXCEPT !.seen[copy.on] = copy.head]
        /\ github \in Remotes /\ copy.seen \in Remotes /\ copy \in Copy
    BY <1>3 DEF Push, TypeOK, Copy, Remotes, Contents
  <2>3. copy'.seen = [copy.seen EXCEPT ![copy.on] = copy.head]
    BY <2>2 DEF Copy
  <2>4. \A b \in Branches : copy'.seen[b] \subseteq github'[b]
    BY <1>0, <2>2, <2>3 DEF Remotes
  <2>. QED  BY <2>1, <2>4 DEF SeenIsOnGitHub
<1>4. CASE RestoreWork \/ RestoreFails \/ KeepWork \/ KeepFails \/ Stop
  <2>1. copy'.seen = copy.seen
    BY <1>4 DEF RestoreWork, RestoreFails, KeepWork, KeepFails, Stop, CommitEdits, TypeOK, Copy
  <2>2. run'.pc # "restore"
    BY <1>4, RunIs DEF RestoreWork, RestoreFails, KeepWork, KeepFails, Stop, NewRun, TypeOK, RunOf
  <2>. QED  BY <1>0, <2>1, <2>2 DEF SeenIsOnGitHub
<1>5. CASE NothingToPush \/ StaysRed \/ PushRefused \/ PushTimesOut
  <2>1. PICK s \in Statuses : Ends(s)
    BY <1>5 DEF NothingToPush, StaysRed, PushRefused, PushTimesOut, Statuses, TypeOK, Run
  <2>2. copy' = copy
    BY <1>5 DEF NothingToPush, StaysRed, PushRefused, PushTimesOut
  <2>. QED  BY <1>0, <2>1, <2>2, EndsAt DEF SeenIsOnGitHub
<1>6. CASE NotKeeping \/ KeepConversation \/ DropConversation
  BY <1>0, <1>6 DEF NotKeeping, KeepConversation, DropConversation, NewRun, SeenIsOnGitHub
<1>7. CASE NothingToRestore \/ OpenConversation \/ StartAfresh
          \/ WillNotOpen \/ TestsPass \/ FixTests \/ DropWork \/ KeepsNothing
  <2>1. copy' = copy /\ run'.pc # "restore"
    BY <1>7, RunIs DEF NothingToRestore, OpenConversation, StartAfresh,
       WillNotOpen, TestsPass, FixTests, DropWork, KeepsNothing, RunOf, TypeOK
  <2>. QED  BY <1>0, <2>1 DEF SeenIsOnGitHub
<1>8. CASE DaysPass \/ SomeonePushes \/ UNCHANGED vars
  <2>1. copy' = copy /\ run' = run
    BY <1>8 DEF DaysPass, SomeonePushes
  <2>. QED  BY <1>0, <2>1 DEF SeenIsOnGitHub
<1>. QED
  BY <1>1, <1>2, <1>3, <1>4, <1>5, <1>6, <1>7, <1>8 DEF Next, Session,
     Starts

LEMMA OnlyKeepersStillKeep ==
  ASSUME TypeOK, OnlyKeepersKeep, [Next]_vars
  PROVE  OnlyKeepersKeep'
<1> USE DEF TypeOK, OnlyKeepersKeep
<1>1. CASE SessionTimesOut
  BY <1>1, TimesOutAt DEF SessionTimesOut
<1>2. CASE SessionEnds
  BY <1>2, SessionEndsAt DEF SessionEnds
<1>3. CASE NothingToPush \/ StaysRed \/ PushRefused
          \/ Push \/ PushTimesOut
  <2>1. PICK s \in Statuses : Ends(s)
    BY <1>3 DEF NothingToPush, StaysRed, PushRefused, Push, PushTimesOut,
          Statuses, Run
  <2>. QED  BY <2>1, EndsAt
<1>4. CASE Starts \/ Stop \/ NotKeeping \/ KeepConversation
          \/ DropConversation
  BY <1>4 DEF Starts, Start, Stop, NotKeeping, KeepConversation,
     DropConversation, NewRun
<1>5. CASE RestoreWork \/ NothingToRestore \/ RestoreFails
          \/ OpenConversation \/ StartAfresh \/ WillNotOpen \/ TestsPass
          \/ FixTests
  <2>1. run'.pc \in {"open", "claude", "push"}
    BY <1>5, RunIs DEF RestoreWork, NothingToRestore, RestoreFails, OpenConversation,
          StartAfresh, WillNotOpen, TestsPass, FixTests, RunOf
  <2>. QED  BY <2>1
<1>6. CASE DropWork \/ KeepWork \/ KeepsNothing \/ KeepFails
  <2>1. /\ run'.keep = run.keep /\ (run.keep \/ run.pc = "bundle")
        /\ run'.pc = "bundle" => run'.status # "success"
    BY <1>6, RunIs DEF DropWork, KeepWork, KeepsNothing, KeepFails, RunOf
  <2>. QED  BY <2>1
<1>7. CASE DaysPass \/ SomeonePushes \/ UNCHANGED vars
  BY <1>7 DEF DaysPass, SomeonePushes
<1>. QED
  BY <1>1, <1>2, <1>3, <1>4, <1>5, <1>6, <1>7 DEF Next, Session, Starts

LEMMA CarrierStaysNowhere ==
  ASSUME TypeOK, SeenIsOnGitHub, CarrierIsNowhere, [Next]_vars
  PROVE  CarrierIsNowhere'
<1>. SUFFICES ASSUME ~half' PROVE CarrierIsNowhere'
  BY DEF CarrierIsNowhere
<1>0. /\ github \in Remotes /\ copy \in Copy /\ wip \in Wip /\ run \in RunOf
      /\ Carrier \notin Pieces
  BY RunIs DEF TypeOK, Remotes, Contents
<1>00. half' = half \/ RestoreFails
  BY DEF Next, Session, Starts, RestoreWork, NothingToRestore, OpenConversation,
     StartAfresh, WillNotOpen, NothingToPush, TestsPass, FixTests, StaysRed, Push,
     PushRefused, PushTimesOut, NotKeeping, DropWork, KeepWork, KeepsNothing,
     KeepFails, KeepConversation, DropConversation, Start, Stop, DaysPass, SomeonePushes,
     SessionEnds, SessionTimesOut, Ends
<1>000. ~half
  BY <1>00 DEF RestoreFails, TypeOK
<1>a. /\ \A b \in Branches : Carrier \notin github[b]
      /\ Carrier \notin wip.head
      /\ run.pc \notin {"converse", "idle"} => Carrier \notin copy.head
  BY <1>000 DEF CarrierIsNowhere
<1>1. CASE Starts
  BY <1>1, <1>a DEF Starts, Start, ResetTo, CarrierIsNowhere
<1>2. CASE RestoreWork
  BY <1>0, <1>2, <1>a DEF RestoreWork, Copy, CarrierIsNowhere
<1>3. CASE RestoreFails
  <2>1. copy' = copy /\ github' = github /\ wip' = NoWip /\ run.pc = "restore"
    BY <1>3 DEF RestoreFails
  <2>. QED  BY <2>1, <1>a DEF NoWip, CarrierIsNowhere
<1>4. CASE SessionEnds \/ SessionTimesOut
  <2>1. wip' = wip /\ Worked /\ run.pc = "claude"
    BY <1>4 DEF SessionEnds, SessionTimesOut
  <2>2. Carrier \notin copy'.head
    BY <1>0, <1>a, <2>1, WorkedLeaves
  <2>3. \A b \in Branches : Carrier \notin github'[b]
    BY <1>a, <2>1, <2>2, WorkedLeaves
  <2>. QED  BY <1>a, <2>1, <2>2, <2>3 DEF CarrierIsNowhere
<1>5. CASE Push \/ PushTimesOut
  <2>1. /\ wip' = wip /\ run.pc = "push"
        /\ github' = github \/ github' = [github EXCEPT ![copy.on] = copy.head]
        /\ copy' = copy \/ copy' = [copy EXCEPT !.seen[copy.on] = copy.head]
    BY <1>5 DEF Push, PushTimesOut
  <2>2. copy'.head = copy.head
    BY <1>0, <2>1 DEF Copy
  <2>. QED  BY <1>0, <1>a, <2>1, <2>2 DEF Remotes, CarrierIsNowhere
<1>6. CASE NothingToRestore \/ DropWork \/ KeepsNothing
  <2>1. /\ github' = github /\ copy' = copy /\ run.pc \notin {"converse", "idle"}
        /\ wip' = wip \/ wip' = NoWip
    BY <1>6 DEF NothingToRestore, DropWork, KeepsNothing
  <2>. QED  BY <1>a, <2>1 DEF NoWip, CarrierIsNowhere
<1>7. CASE KeepWork \/ KeepFails
  <2>1. /\ github' = github /\ run.pc = "bundle" /\ run'.pc = "converse"
        /\ wip' \in {wip, Kept, NoWip}
    BY <1>7, <1>0 DEF KeepWork, KeepFails, RunOf
  <2>. QED  BY <1>a, <2>1 DEF Kept, NoWip, CarrierIsNowhere
<1>8. CASE Stop \/ NotKeeping \/ KeepConversation \/ DropConversation
  <2>1. github' = github /\ wip' = wip /\ run'.pc = "idle"
    BY <1>8 DEF Stop, NotKeeping, KeepConversation, DropConversation, NewRun
  <2>. QED  BY <1>a, <2>1 DEF CarrierIsNowhere
<1>9. CASE DaysPass
  <2>1. github' = github /\ copy' = copy /\ run' = run /\ wip'.head = wip.head
    BY <1>0, <1>9 DEF DaysPass, Wip
  <2>. QED  BY <1>a, <2>1 DEF CarrierIsNowhere
<1>10. CASE SomeonePushes
  <2>1. /\ github' = [github EXCEPT !.task = @ \cup {made + 1}]
        /\ made + 1 # Carrier /\ copy' = copy /\ run' = run /\ wip' = wip
    BY <1>10, RoleSessionAssumption DEF SomeonePushes, TypeOK
  <2>. QED  BY <1>0, <1>a, <2>1 DEF Remotes, CarrierIsNowhere
<1>11. CASE NothingToPush \/ StaysRed \/ PushRefused
  <2>1. github' = github /\ copy' = copy /\ wip' = wip /\ run.pc \notin {"converse", "idle"}
    BY <1>11 DEF NothingToPush, StaysRed, PushRefused
  <2>. QED  BY <1>a, <2>1 DEF CarrierIsNowhere
<1>12. CASE OpenConversation \/ StartAfresh \/ WillNotOpen \/ TestsPass \/ FixTests
  <2>1. github' = github /\ copy' = copy /\ wip' = wip /\ run.pc \notin {"converse", "idle"}
    BY <1>12 DEF OpenConversation, StartAfresh, WillNotOpen, TestsPass, FixTests
  <2>. QED  BY <1>a, <2>1 DEF CarrierIsNowhere
<1>13. CASE UNCHANGED vars
  BY <1>a, <1>13 DEF CarrierIsNowhere
<1>. QED
  BY <1>1, <1>2, <1>3, <1>4, <1>5, <1>6, <1>7, <1>8, <1>9, <1>10, <1>11, <1>12, <1>13
  DEF Next, Session, Starts

LEMMA DeliveredStays ==
  ASSUME TypeOK, SeenIsOnGitHub, OnlyKeepersKeep, Delivered, [Next]_vars
  PROVE  Delivered'
<1>1. CASE SessionEnds
  BY <1>1, SessionEndsAt DEF SessionEnds, Delivered
<1>2. CASE SessionTimesOut
  BY <1>2, TimesOutAt DEF SessionTimesOut, Delivered
<1>3. CASE NothingToPush
  <2>1. copy' = copy /\ github' = github
    BY <1>3 DEF NothingToPush
  <2>2. unseen' \/ ~Pushable
    BY <1>3 DEF NothingToPush, FoundNothing
  <2>3. ~Pushable /\ copy.on \in Branches => copy.head \subseteq github[copy.on]
    BY DEF Pushable, SeenIsOnGitHub
  <2>. QED  BY <2>1, <2>2, <2>3 DEF Delivered
<1>4. CASE StaysRed \/ PushRefused \/ PushTimesOut
  <2>1. run'.status \in {"error", "timeout"}
    BY <1>4, EndsAt DEF StaysRed, PushRefused, PushTimesOut, Statuses
  <2>. QED  BY <2>1 DEF Delivered
<1>5. CASE Push
  <2>1. /\ github' = [github EXCEPT ![copy.on] = copy.head]
        /\ copy' = [copy EXCEPT !.seen[copy.on] = copy.head]
        /\ github \in Remotes /\ copy \in Copy
    BY <1>5 DEF Push, TypeOK, Remotes, Contents
  <2>2. copy'.on = copy.on /\ copy'.head = copy.head
    BY <2>1 DEF Copy
  <2>. QED  BY <2>1, <2>2 DEF Delivered, Remotes
<1>6. CASE Starts \/ Stop \/ NotKeeping \/ KeepConversation
          \/ DropConversation
  BY <1>6 DEF Starts, Start, Stop, NotKeeping, KeepConversation,
     DropConversation, NewRun, Delivered
<1>7. CASE DropWork
  <2>1. UNCHANGED <<github, copy, unseen>> /\ run.pc = "keep" /\ run'.status = run.status
    BY <1>7, RunIs DEF DropWork, RunOf, TypeOK
  <2>. QED  BY <2>1 DEF Delivered
<1>8. CASE KeepWork \/ KeepsNothing \/ KeepFails
  <2>1. run.pc = "bundle" /\ run'.status = run.status
    BY <1>8, RunIs DEF KeepWork, KeepsNothing, KeepFails, RunOf, TypeOK
  <2>. QED  BY <2>1 DEF Delivered, OnlyKeepersKeep
<1>9. CASE RestoreWork \/ NothingToRestore \/ RestoreFails
          \/ OpenConversation \/ StartAfresh \/ WillNotOpen \/ TestsPass
          \/ FixTests
  <2>1. run'.pc \in {"open", "claude", "push"}
    BY <1>9, RunIs DEF RestoreWork, NothingToRestore, RestoreFails, OpenConversation,
          StartAfresh, WillNotOpen, TestsPass, FixTests, RunOf, TypeOK
  <2>. QED  BY <2>1 DEF Delivered
<1>10. CASE DaysPass \/ SomeonePushes \/ UNCHANGED vars
  <2>1. copy' = copy /\ run' = run /\ unseen' = unseen
    BY <1>10 DEF DaysPass, SomeonePushes
  <2>2. \A b \in Branches : github[b] \subseteq github'[b]
    BY GitHubGrows
  <2>. QED  BY <2>1, <2>2 DEF Delivered
<1>. QED
  BY <1>1, <1>2, <1>3, <1>4, <1>5, <1>6, <1>7, <1>8, <1>9, <1>10 DEF Next, Session,
     Starts

LEMMA KnowsStays == ASSUME TypeOK, Knows, [Next]_vars PROVE Knows'
<1> USE DEF TypeOK, Knows
<1>1. CASE SessionEnds
  <2>1. Asking' => Asking
    BY <1>1, SessionEndsAt DEF Asking, Heard
  <2>2. conv' = conv /\ run.pc = "claude"
    BY <1>1 DEF SessionEnds
  <2>. QED  BY <2>1, <2>2, <1>1, SessionEndsAt
<1>2. CASE SessionTimesOut
  <2>1. Asking' => Asking
    BY <1>2, TimesOutAt DEF Asking, Heard
  <2>2. conv' = conv /\ run.pc = "claude"
    BY <1>2 DEF SessionTimesOut
  <2>. QED  BY <2>1, <2>2, <1>2, TimesOutAt
<1>3. CASE WillNotOpen
  BY <1>3, RunIs DEF WillNotOpen, RunOf, Heard, Asking
<1>4. CASE NothingToPush \/ StaysRed \/ Push
          \/ PushRefused \/ PushTimesOut
  <2>1. PICK s \in Statuses : Ends(s)
    BY <1>4 DEF NothingToPush, StaysRed, Push, PushRefused, PushTimesOut, Statuses,
          Run
  <2>2. conv' = conv /\ run.pc \in {"observe", "push"}
    BY <1>4 DEF NothingToPush, StaysRed, Push, PushRefused, PushTimesOut
  <2>. QED  BY <2>1, <2>2, EndsAt DEF Asking
<1>5. CASE Starts \/ Stop \/ NotKeeping \/ KeepConversation
          \/ DropConversation
  BY <1>5 DEF Starts, Start, Stop, NotKeeping, KeepConversation,
     DropConversation, NewRun, Asking
<1>6. CASE DaysPass
  BY <1>6 DEF DaysPass
<1>7. CASE OpenConversation
  BY <1>7, RunIs DEF OpenConversation, RunOf, Continuable
<1>8. CASE StartAfresh \/ RestoreWork \/ NothingToRestore \/ RestoreFails
  <2>1. run' \in {[run EXCEPT !.pc = "open"], [run EXCEPT !.pc = "claude"]}
    BY <1>8 DEF StartAfresh, RestoreWork, NothingToRestore, RestoreFails
  <2>2. run.ask = "fresh" /\ run.said = "none"
    BY <1>8 DEF StartAfresh, RestoreWork, NothingToRestore, RestoreFails
  <2>. QED  BY <2>1, <2>2, RunIs DEF RunOf, Asking
<1>9. CASE FixTests
  BY <1>9, RunIs DEF FixTests, RunOf, Asking
<1>10. CASE TestsPass \/ DropWork \/ KeepWork \/ KeepsNothing \/ KeepFails
          \/ SomeonePushes \/ UNCHANGED vars
  BY <1>10, RunIs DEF TestsPass, DropWork, KeepWork, KeepsNothing, KeepFails,
     SomeonePushes, RunOf, Asking
<1>. QED
  BY <1>1, <1>2, <1>3, <1>4, <1>5, <1>6, <1>7, <1>8, <1>9,
     <1>10 DEF Next, Session, Starts

LEMMA CountedStays == ASSUME TypeOK, Knows, Counted, [Next]_vars PROVE Counted'
<1> USE DEF TypeOK, Counted
<1>1. CASE StartAfresh \/ DropConversation
  <2>1. conv' = conv \/ conv' = NoConversation
    BY <1>1 DEF StartAfresh, DropConversation
  <2>. QED  BY <2>1 DEF NoConversation
<1>2. CASE KeepConversation
  <2>1. conv' = [kept |-> TRUE, rounds |-> IF run.resumed THEN run.rounds + 1 ELSE 1,
                 spoke |-> Spoke, refused |-> Refused, old |-> FALSE]
    BY <1>2 DEF KeepConversation
  <2>2. run.said \in {"kept", "new"} /\ run.rounds \in Nat /\ run.pc # "idle"
    BY <1>2, RunIs, RoleSessionAssumption DEF KeepConversation, Continues, RunOf, Rounds
  <2>3. CASE run.said = "new"
    BY <2>1, <2>2, <2>3 DEF Spoke
  <2>4. CASE run.said = "kept" /\ Refused
    BY <2>1, <2>4
  <2>5. CASE run.said = "kept" /\ ~Refused
    <3>1. run.resumed /\ conv.kept /\ ~conv.refused /\ conv.rounds = run.rounds
      BY <2>2, <2>5 DEF Refused, Knows, Asking
    <3>2. Spoke = conv.spoke + 1 /\ conv.spoke \in Nat
      BY <2>5 DEF Spoke, Conversation
    <3>. QED  BY <2>1, <2>2, <3>1, <3>2
  <2>. QED  BY <2>2, <2>3, <2>4, <2>5
<1>3. CASE DaysPass
  BY <1>3 DEF DaysPass, Conversation
<1>4. CASE RestoreWork \/ NothingToRestore \/ RestoreFails
          \/ OpenConversation \/ SessionEnds \/ SessionTimesOut
          \/ WillNotOpen \/ NothingToPush \/ TestsPass \/ FixTests
          \/ StaysRed \/ Push \/ PushRefused
          \/ PushTimesOut \/ NotKeeping \/ DropWork \/ KeepWork
          \/ KeepsNothing \/ KeepFails \/ Starts \/ Stop \/ SomeonePushes \/ UNCHANGED vars
  BY <1>4 DEF RestoreWork, NothingToRestore, RestoreFails, OpenConversation,
     SessionEnds, SessionTimesOut, WillNotOpen, NothingToPush, Ends,
     TestsPass, FixTests, StaysRed, Push, PushRefused,
     PushTimesOut, NotKeeping, DropWork, KeepWork, KeepsNothing, KeepFails, Starts, Start,
     Stop, SomeonePushes
<1>. QED
  BY <1>1, <1>2, <1>3, <1>4 DEF Next, Session, Starts

-----------------------------------------------------------------------------
(***************************************************************************)
(* The work that was left.                                                 *)
(***************************************************************************)

(* Branches that grow do not bring work back.                              *)
LEMMA GoneStaysGone ==
  ASSUME NEW b, NEW c, \A n \in Branches : b[n] \subseteq c[n], Gone(b)  PROVE Gone(c)
<1>1. b.task \subseteq c.task /\ b.other \subseteq c.other
  OBVIOUS
<1>. QED  BY <1>1 DEF Gone

LEMMA WorkStaysSomewhere ==
  ASSUME TypeOK, SeenIsOnGitHub, OnlyKeepersKeep, WorkIsSomewhere, [Next]_vars
  PROVE  WorkIsSomewhere'
<1>. SUFFICES ASSUME excused' = {} PROVE WorkIsSomewhere'
  BY DEF WorkIsSomewhere
<1>0. /\ run \in RunOf /\ copy \in Copy /\ wip \in Wip
      /\ \A b \in Branches : github[b] \subseteq github'[b] /\ copy.seen[b] \subseteq github[b]
  BY RunIs, GitHubGrows DEF TypeOK, SeenIsOnGitHub
<1>1. CASE Starts
  <2>1. /\ UNCHANGED <<wip, left, excused, github>> /\ copy'.seen = github /\ run.pc = "idle"
        /\ run'.pc = "restore"
    BY <1>1 DEF Starts, Start, ResetTo, NewRun
  <2>2. Held \/ Gone(github)
    BY <2>1 DEF WorkIsSomewhere, Replacing
  <2>. QED  BY <2>1, <2>2 DEF WorkIsSomewhere, Replacing, Held, Gone
<1>2. CASE RestoreWork
  <2>0. BuildsOnGitHub /\ UNCHANGED excused
    BY <1>2 DEF RestoreWork
  <2>1. /\ UNCHANGED <<wip, left, excused, github>> /\ wip.kept /\ run.pc = "restore"
        /\ run'.pc = "open" /\ copy'.on = wip.on /\ copy'.head = wip.head
        /\ copy'.edits = wip.edits /\ copy'.seen = copy.seen
    BY <1>0, <1>2, <2>0 DEF RestoreWork, RunOf, Copy
  <2>2. Held
    BY <2>1 DEF WorkIsSomewhere, Gone
  <2>3. BuildsOnItsBranch'
    BY <2>0, <2>1 DEF BuildsOnItsBranch, BuildsOnGitHub
  <2>4. left'.head \cup left'.edits \subseteq InHand'
    BY <2>1, <2>2 DEF Held, InHand
  <2>. QED  BY <2>1, <2>2, <2>3, <2>4 DEF WorkIsSomewhere, Replacing, Held
<1>3. CASE NothingToRestore
  <2>1. /\ UNCHANGED <<left, excused, github, copy>> /\ run.pc = "restore"
        /\ run'.pc = "open" /\ run'.keep = run.keep
    BY <1>0, <1>3 DEF NothingToRestore, RunOf
  <2>2. /\ Held \/ Gone(copy.seen)
        /\ copy.head = copy.seen.task /\ copy.on = "away"
    BY <2>1 DEF WorkIsSomewhere, SeenIsOnGitHub
  <2>3. CASE ~run.keep
    <3>1. wip' = wip
      BY <1>3, <2>3 DEF NothingToRestore
    <3>2. Held \/ Gone(github)
      BY <1>0, <2>2, GoneStaysGone
    <3>. QED  BY <2>1, <2>3, <3>1, <3>2 DEF WorkIsSomewhere, Replacing, Held, Gone
  <2>4. CASE run.keep
    <3>1. wip' = NoWip /\ (wip.kept => wip.old \/ ~(copy.seen[wip.on] \subseteq wip.head))
      BY <1>3, <2>4 DEF NothingToRestore, BuildsOnGitHub
    <3>2. wip.on \in Branches
      BY <1>0 DEF Wip
    <3>3. MovedOn \/ (left.edits = {} /\ left.head \subseteq copy.seen.task \cup copy.seen.other)
      BY <2>2, <3>1, <3>2 DEF Held, Gone, MovedOn
    <3>4. Gone(copy.seen)'
      BY <2>1, <3>1, <3>3 DEF Gone, NoWip, MovedOn
    <3>5. Gone(github)'
      <4>1. \A n \in Branches : copy'.seen[n] \subseteq github'[n]
        BY <1>0, <2>1
      <4>. QED  BY <2>1, <3>1, <3>3, <4>1, <1>0 DEF Gone, NoWip, MovedOn
    <3>6. MovedOn' \/ left'.head \cup left'.edits \subseteq InHand'
      BY <2>1, <3>3 DEF InHand, MovedOn
    <3>7. BuildsOnItsBranch'
      BY <2>1, <2>2 DEF BuildsOnItsBranch
    <3>. QED  BY <2>1, <3>5, <3>6, <3>7 DEF WorkIsSomewhere, Replacing
  <2>. QED  BY <2>3, <2>4
<1>4. CASE RestoreFails \/ KeepsNothing \/ KeepFails \/ DaysPass
  BY <1>4 DEF RestoreFails, KeepsNothing, KeepFails, DaysPass
<1>5. CASE Stop
  <2>1. UNCHANGED <<wip, left, github>> /\ run'.pc = "idle" /\ ~Replacing /\ excused = {}
    BY <1>5 DEF Stop, NewRun, Replacing
  <2>. QED  BY <2>1 DEF WorkIsSomewhere, Replacing, Held, Gone
<1>6. CASE OpenConversation \/ StartAfresh \/ WillNotOpen \/ TestsPass
          \/ FixTests
  <2>1. UNCHANGED <<wip, left, excused, github>> /\ run.pc \in {"open", "claude", "observe"}
    BY <1>6 DEF OpenConversation, StartAfresh, WillNotOpen, TestsPass, FixTests
  <2>2. run'.pc \in {"claude", "push"}
    BY <1>0, <1>6 DEF OpenConversation, StartAfresh, WillNotOpen, TestsPass, FixTests, RunOf
  <2>. QED  BY <2>1, <2>2 DEF WorkIsSomewhere, Replacing, Held, Gone
<1>7. CASE SessionEnds
  <2>1. UNCHANGED <<wip, left, excused>> /\ run.pc = "claude" /\ run'.pc = "observe"
    BY <1>7, SessionEndsAt DEF SessionEnds
  <2>2. Held \/ Gone(github')
    BY <1>0, <2>1, GoneStaysGone DEF WorkIsSomewhere, Replacing
  <2>. QED  BY <2>1, <2>2 DEF WorkIsSomewhere, Replacing, Held, Gone
<1>8. CASE SessionTimesOut \/ NothingToPush \/ StaysRed
          \/ Push \/ PushRefused \/ PushTimesOut
  <2>1. PICK s \in Statuses : run'.status = s /\ run'.pc = "keep" /\ run'.keep = run.keep
                             /\ Leaves(s)
    <3>1. CASE SessionTimesOut
      BY <3>1, TimesOutAt DEF SessionTimesOut, Statuses
    <3>2. CASE ~SessionTimesOut
      <4>1. PICK s \in Statuses : Ends(s)
        BY <1>8, <3>2 DEF NothingToPush, StaysRed, Push, PushRefused, PushTimesOut,
              Statuses, TypeOK, Run
      <4>. QED  BY <4>1, EndsAt DEF Ends
    <3>. QED  BY <3>1, <3>2
  <2>2. wip' = wip /\ ~Replacing
    BY <1>8 DEF SessionTimesOut, NothingToPush, StaysRed, Push, PushRefused, PushTimesOut,
       Replacing
  <2>3. CASE ~run.keep
    <3>1. UNCHANGED <<left, excused>>
      BY <2>1, <2>3 DEF Leaves
    <3>2. Held \/ Gone(github')
      BY <1>0, <2>2, <3>1, GoneStaysGone DEF WorkIsSomewhere
    <3>. QED  BY <2>1, <2>2, <2>3, <3>1, <3>2 DEF WorkIsSomewhere, Replacing, Held, Gone
  <2>4. CASE run.keep
    <3>1. /\ left' = IF s = "success" THEN Nothing
                     ELSE [on |-> copy'.on, head |-> copy'.head, edits |-> copy'.edits]
          /\ "away" \notin excused'
          /\ excused' = {why \in {"away", "fault"} :
                           IF why = "away" THEN copy'.on = "away"
                           ELSE unseen' /\ s = "success"}
      BY <2>1, <2>4 DEF Leaves
    <3>2. copy'.on \in Branches
      BY <3>1, CopyTyped DEF Copy
    <3>. QED  BY <2>1, <2>4, <3>1, <3>2 DEF WorkIsSomewhere, Replacing
  <2>. QED  BY <2>3, <2>4
<1>9. CASE NotKeeping \/ KeepConversation \/ DropConversation
  <2>1. UNCHANGED <<wip, left, excused, github>> /\ run'.pc = "idle" /\ ~Replacing
    BY <1>9 DEF NotKeeping, KeepConversation, DropConversation, NewRun, Replacing
  <2>. QED  BY <2>1 DEF WorkIsSomewhere, Replacing, Held, Gone
<1>10. CASE DropWork
  <2>1. /\ UNCHANGED <<left, excused, github, copy>> /\ wip' = NoWip /\ Replacing
        /\ run.pc = "keep"
        /\ run'.pc = IF run.status = "success" THEN "converse" ELSE "bundle"
        /\ run'.status = run.status /\ run'.keep = run.keep
    BY <1>0, <1>10 DEF DropWork, RunOf, Replacing
  <2>2. CASE run.status = "success"
    <3>1. left = Nothing
      BY <2>1, <2>2 DEF WorkIsSomewhere
    <3>. QED  BY <2>1, <2>2, <3>1 DEF WorkIsSomewhere, Replacing, Gone, NoWip, Nothing
  <2>3. CASE run.status # "success"
    BY <2>1, <2>3 DEF WorkIsSomewhere, Replacing
  <2>. QED  BY <2>2, <2>3
<1>11. CASE KeepWork
  <2>1. UNCHANGED <<left, excused, github>> /\ run.pc = "bundle" /\ run'.pc = "converse"
    BY <1>0, <1>11 DEF KeepWork, RunOf
  <2>2. left.on = copy.on /\ left.head = copy.head /\ left.edits = copy.edits
    BY <2>1 DEF WorkIsSomewhere, Replacing, OnlyKeepersKeep
  <2>3. CASE copy.edits # {} \/ Unpushed
    <3>1. wip' = Kept
      BY <1>11, <2>3 DEF KeepWork
    <3>. QED  BY <2>1, <2>2, <3>1 DEF WorkIsSomewhere, Replacing, Held, Kept
  <2>4. CASE copy.edits = {} /\ ~Unpushed
    <3>1. wip' = NoWip
      BY <1>11, <2>4 DEF KeepWork
    <3>2. copy.seen.task \subseteq github.task /\ copy.seen.other \subseteq github.other
      BY <1>0
    <3>3. left.edits = {} /\ left.head \subseteq github.task \cup github.other
      BY <2>2, <2>4, <3>2 DEF Unpushed
    <3>. QED  BY <2>1, <3>1, <3>3 DEF WorkIsSomewhere, Replacing, Gone, NoWip
  <2>. QED  BY <2>3, <2>4
<1>12. CASE SomeonePushes
  <2>1. UNCHANGED <<wip, left, excused, copy, run>>
    BY <1>12 DEF SomeonePushes
  <2>2. ~Replacing => Held \/ Gone(github')
    BY <1>0, <2>1, GoneStaysGone DEF WorkIsSomewhere
  <2>. QED  BY <2>1, <2>2 DEF WorkIsSomewhere, Replacing, Held, Gone, MovedOn, InHand,
               BuildsOnItsBranch
<1>13. CASE UNCHANGED vars
  BY <1>13 DEF WorkIsSomewhere, Replacing, Held, Gone, MovedOn, InHand, BuildsOnItsBranch
<1>. QED
  BY <1>1, <1>2, <1>3, <1>4, <1>5, <1>6, <1>7, <1>8, <1>9, <1>10, <1>11, <1>12, <1>13
  DEF Next, Session, Starts
-----------------------------------------------------------------------------
(***************************************************************************)
(* The theorems.                                                           *)
(***************************************************************************)
LEMMA InitInvariant == Init => IInv
<1>. SUFFICES ASSUME Init PROVE IInv
  OBVIOUS
<1>1. TypeOK
  BY InitTypeOK
<1>2. /\ \A b \in Branches : github[b] = {} /\ copy.seen[b] = {}
      /\ wip = NoWip /\ ~conv.kept /\ run.pc = "idle" /\ left = Nothing
  BY DEF Init, ResetTo, NoConversation, NewRun
<1>3. SeenIsOnGitHub /\ OnlyKeepersKeep /\ Delivered /\ Knows /\ Counted
  BY <1>2 DEF SeenIsOnGitHub, OnlyKeepersKeep, Delivered, Knows, Counted
<1>4. CarrierIsNowhere
  BY <1>2 DEF CarrierIsNowhere, NoWip
<1>5. WorkIsSomewhere
  BY <1>2 DEF WorkIsSomewhere, Replacing, Gone, NoWip, Nothing
<1>. QED  BY <1>1, <1>3, <1>4, <1>5 DEF IInv

LEMMA InvariantIsInductive == IInv /\ [Next]_vars => IInv'
<1>. SUFFICES ASSUME IInv, [Next]_vars PROVE IInv'
  OBVIOUS
<1>. QED
  BY NextTypeOK, SeenStaysOnGitHub, OnlyKeepersStillKeep, CarrierStaysNowhere, DeliveredStays,
     KnowsStays, CountedStays, WorkStaysSomewhere DEF IInv

THEOREM SessionInvariant == Spec => []IInv
  BY InitInvariant, InvariantIsInductive, PTL DEF Spec

(* Whatever the last implementer's run could not push is in the copy of    *)
(* the next one before Claude starts, over any number of runs of other     *)
(* roles between them, with the exceptions the property names              *)
(* (save_wip, restore_wip).                                                *)
THEOREM WorkComesBack == Spec => []UnfinishedWorkComesBack
<1>1. IInv => UnfinishedWorkComesBack
  BY DEF IInv, WorkIsSomewhere, UnfinishedWorkComesBack, ComesBackUnless
<1>. QED  BY SessionInvariant, <1>1, PTL

(* A run that says it succeeded has its commits on GitHub (_observe).      *)
THEOREM SuccessesAreDelivered == Spec => []SuccessIsDelivered
<1>1. IInv => SuccessIsDelivered
  BY DEF IInv, Delivered, SuccessIsDelivered
<1>. QED  BY SessionInvariant, <1>1, PTL

(* The commit that carries edits in a bundle never reaches GitHub, unless  *)
(* a restore broke off half-way (restore_wip).                             *)
THEOREM CarriersStayHome == Spec => []CarrierStaysHome
<1>1. IInv => CarrierStaysHome
  BY DEF IInv, CarrierIsNowhere, CarrierStaysHome
<1>. QED  BY SessionInvariant, <1>1, PTL

(* No conversation that always opened is spoken in by more than MaxRounds  *)
(* runs (load_conversation, save_conversation).                            *)
THEOREM ConversationsAreBounded == Spec => []ConversationsStartOver
<1>1. IInv => ConversationsStartOver
  BY RoleSessionAssumption DEF IInv, TypeOK, Conversation, Counted, ConversationsStartOver
<1>. QED  BY SessionInvariant, <1>1, PTL
=============================================================================
