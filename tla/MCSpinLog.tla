----------------------------- MODULE MCSpinLog ------------------------------
(***************************************************************************)
(* Instances of SpinLog for TLC.                                           *)
(***************************************************************************)
EXTENDS SpinLog

CONSTANTS t1, t2, t3

ThreeThreads == {t1, t2, t3}
AnyCall == {"append", "scan", "destroy"}
=============================================================================
