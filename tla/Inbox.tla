-------------------------------- MODULE Inbox --------------------------------
(***************************************************************************)
(* What the orchestrator promises whoever hands it a GitHub event, with no *)
(* locks, threads or database in sight: an accepted delivery is worked on, *)
(* one delivery of a thread at a time and in the order they came, and once *)
(* it is settled it stays settled.  An interruption puts the work that was *)
(* under way back in line; it never settles or forgets a delivery.         *)
(*                                                                         *)
(* DeliveryQueue.tla is the program that implements this.                  *)
(***************************************************************************)
EXTENDS Naturals

CONSTANTS
  Deliveries,   \* the deliveries that may be handed in
  ThreadOf      \* ThreadOf[d]: the issue delivery d belongs to

VARIABLES
  progress,     \* progress[d]: how far delivery d has come
  place         \* place[d]: its place in the line of accepted deliveries, 0 before

inboxVars == <<progress, place>>

Progress == {"out", "waiting", "handling", "settled", "stranded"}

(* The deliveries of d's thread that were accepted before d. *)
Before(d) == {e \in Deliveries : /\ e # d
                                 /\ ThreadOf[e] = ThreadOf[d]
                                 /\ progress[e] # "out"
                                 /\ place[e] < place[d]}

Init ==
  /\ progress = [d \in Deliveries |-> "out"]
  /\ place = [d \in Deliveries |-> 0]

(* A delivery is taken in once, behind everything taken in before it. *)
Accept(d) ==
  /\ progress[d] = "out"
  /\ progress' = [progress EXCEPT ![d] = "waiting"]
  /\ place'[d] \in Nat
  /\ \A e \in Deliveries : place[e] < place'[d]
  /\ place' = [place EXCEPT ![d] = place'[d]]

(* Work on d starts only when nothing of its thread came before it and is  *)
(* still open, a delivery stranded by a bookkeeping failure excepted.      *)
Begin(d) ==
  /\ progress[d] = "waiting"
  /\ \A e \in Before(d) : progress[e] \in {"settled", "stranded"}
  /\ \A e \in Deliveries : ThreadOf[e] = ThreadOf[d] => progress[e] # "handling"
  /\ progress' = [progress EXCEPT ![d] = "handling"]
  /\ UNCHANGED place

Settle(d) ==
  /\ progress[d] = "handling"
  /\ progress' = [progress EXCEPT ![d] = "settled"]
  /\ UNCHANGED place

(* The work was done but its end could not be written down. *)
Strand(d) ==
  /\ progress[d] = "handling"
  /\ progress' = [progress EXCEPT ![d] = "stranded"]
  /\ UNCHANGED place

(* The process went away under the deliveries being handled. *)
Interrupt ==
  /\ progress' = [d \in Deliveries |-> IF progress[d] \in {"handling", "stranded"}
                                       THEN "waiting" ELSE progress[d]]
  /\ UNCHANGED place

Next ==
  \/ \E d \in Deliveries : Accept(d) \/ Begin(d) \/ Settle(d) \/ Strand(d)
  \/ Interrupt

Spec == Init /\ [][Next]_inboxVars
=============================================================================
