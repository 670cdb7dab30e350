---------------------------- MODULE MCSystemTests ----------------------------
(***************************************************************************)
(* The dependencies of the cases in the checked instances of SystemTests.  *)
(***************************************************************************)
EXTENDS SystemTests

NoDeps == [c \in Cases |-> {}]

(* As the Test Planner writes them: one line per code task.                *)
OneDep == [c \in Cases |-> {1}]
==============================================================================
