--------------------------- MODULE MCThreadsList ----------------------------
(***************************************************************************)
(* An instance of ThreadsList for TLC.                                     *)
(***************************************************************************)
EXTENDS ThreadsList

CONSTANTS t1, t2, t3

ThreeThreads == {t1, t2, t3}
=============================================================================
