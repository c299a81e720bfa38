---------------------------- MODULE MCSnapshots -----------------------------
(***************************************************************************)
(* Instances of Snapshots for TLC.                                         *)
(***************************************************************************)
EXTENDS Snapshots, TLC

CONSTANTS p1, p2, r1, d1, f1, f2

OneApp == {p1}
TwoApps == {p1, p2}
OneRetriever == {r1}
OneDaemon == {d1}
Nobody == {}
OneFile == {f1}
TwoFiles == {f1, f2}

ReadAndWrite == {"R", "W"}
WriteOnly == {"W"}

\* The files have different names.
OwnNames == [f \in Files |-> f]
=============================================================================
