------------------------ MODULE MCBuildEnvironments ------------------------
(* Small instances of BuildEnvironments: the jobs the runs are handed.     *)
EXTENDS BuildEnvironments, TLC

CONSTANTS r1, r2, r3

ThreeRuns == {r1, r2, r3}

On(repo, role, number, epic, open) ==
  [repo |-> repo, role |-> role, number |-> number, epic |-> epic,
   shared |-> TRUE, open |-> open]

Epic(repo, number) == [repo |-> repo, number |-> number]

(* Merges of two tasks into their epic's branch, and a run in a repo        *)
(* without issue workspaces.                                               *)
MergeJobs ==
  r1 :> On("api", "release", 2, Epic("api", 1), FALSE)
  @@ r2 :> On("api", "release", 3, Epic("api", 1), FALSE)
  @@ r3 :> [On("api", "qa", 7, None, FALSE) EXCEPT !.shared = FALSE]

(* A release train over two repos: an epic of api with a task in web, an   *)
(* epic of web with a task in api, and the first epic's own release.       *)
TrainJobs ==
  r1 :> On("web", "release", 5, Epic("api", 1), TRUE)
  @@ r2 :> On("api", "release", 6, Epic("web", 4), TRUE)
  @@ r3 :> On("api", "release", 1, None, TRUE)

(* Two runs on one issue and a run in a repo without issue workspaces.     *)
IssueJobs ==
  r1 :> On("api", "implementer", 2, Epic("api", 1), FALSE)
  @@ r2 :> On("api", "reviewer", 2, Epic("api", 1), FALSE)
  @@ r3 :> [On("api", "qa", 7, None, FALSE) EXCEPT !.shared = FALSE]

(* Three releases onto one staging branch. *)
StagingJobs ==
  r1 :> On("api", "release", 1, None, TRUE)
  @@ r2 :> On("api", "release", 8, None, TRUE)
  @@ r3 :> On("api", "release", 2, Epic("api", 1), TRUE)
=============================================================================
