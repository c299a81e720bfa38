----------------------------- MODULE MCJournal ------------------------------
(***************************************************************************)
(* Instances of Journal for TLC.                                           *)
(***************************************************************************)
EXTENDS Journal, TLC

CONSTANTS p1, p2, f1, f2

TwoProcs == {p1, p2}
OneFile == {f1}
TwoFiles == {f1, f2}

Symmetry == Permutations({p1, p2})

\* One file that is only appended to.
AppendOnly == {[file |-> f1, op |-> "A"]}

\* An append to one file and a read of another.
AppendAndRead == {[file |-> f1, op |-> "A"], [file |-> f2, op |-> "R"]}

Nothing == {}
SignalOnly == {"signal"}
Everything == {"signal", "kill", "remove", "snapfail", "iofail"}
=============================================================================
