---------------------------- MODULE MCRunRecovery ----------------------------
(***************************************************************************)
(* Small instances of RunRecovery: which moves the agents may make.        *)
(***************************************************************************)
EXTENDS RunRecovery

None == [r \in Roles |-> {}]

(* The implementer's stage alone.                                          *)
BuildOnly == [None EXCEPT !["implementer"] = {"in-review"}]

(* The same with its reviewer, whose verdict is not followed further.      *)
BuildThenReview ==
  [None EXCEPT !["implementer"] = {"in-review"}, !["reviewer"] = {"other"}]

(* The document chain.                                                     *)
PlanAndDesign ==
  [None EXCEPT !["planner"] = {"planned"}, !["architect"] = {"other"}]
=============================================================================
