--------------------------- MODULE MCDeliveryQueue ---------------------------
(***************************************************************************)
(* DeliveryQueue on small inboxes: an issue event and a Console dispatch   *)
(* of the same issue (whose number is under "inputs"), and a pull request  *)
(* event, which names no issue and so belongs to the repository.           *)
(***************************************************************************)
EXTENDS DeliveryQueue

CONSTANTS d1, d2, d3, d4, none, Size

FromIssue(n)    == [repo |-> "r", issue |-> n, input |-> none]
FromDispatch(n) == [repo |-> "r", issue |-> none, input |-> n]
FromPull        == [repo |-> "r", issue |-> none, input |-> none]

MCDeliveries == IF Size = 3 THEN {d1, d2, d3} ELSE {d1, d2, d3, d4}

MCPayload ==
  [d \in MCDeliveries |-> CASE d = d1 -> FromIssue("7")
                            [] d = d2 -> FromDispatch("7")
                            [] d = d3 -> FromPull
                            [] OTHER  -> FromIssue("7")]
=============================================================================
