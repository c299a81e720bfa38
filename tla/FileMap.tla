------------------------------ MODULE FileMap -------------------------------
(***************************************************************************)
(* What the directory tree promises, whatever its nodes: a journal of      *)
(* operations on files, and for each file the list of the operations that  *)
(* the tree was told of.  An operation is recorded here or by another      *)
(* process.  The lists are forgotten all at once; from then on the entries *)
(* of the journal are recalled in their order, each once, and into the     *)
(* list of its own file and of no other.                                   *)
(***************************************************************************)
EXTENDS Naturals, Sequences

CONSTANTS Files,  \* The absolute paths.
          Ops     \* What an operation is shown as.

VARIABLES journal,   \* Entries [file, op] of all processes.
          shown,     \* For each file, its operations in the tree.
          recalled   \* How many entries were recalled.

mapVars == <<journal, shown, recalled>>

Shows(f, op) == shown' = [shown EXCEPT ![f] = Append(@, op)]

Journals(f, op) == journal' = Append(journal, [file |-> f, op |-> op])

Empty == [f \in Files |-> <<>>]

MapInit == journal = <<>> /\ shown = Empty /\ recalled = 0

Recorded(f, op) == Journals(f, op) /\ Shows(f, op) /\ UNCHANGED recalled

RecordedElsewhere(f, op) == Journals(f, op) /\ UNCHANGED <<shown, recalled>>

Forgotten == shown' = Empty /\ recalled' = 0 /\ UNCHANGED journal

Recalled ==
    /\ recalled < Len(journal)
    /\ recalled' = recalled + 1
    /\ Shows(journal[recalled'].file, journal[recalled'].op)
    /\ UNCHANGED journal

MapNext ==
    \/ \E f \in Files, op \in Ops : Recorded(f, op) \/ RecordedElsewhere(f, op)
    \/ Forgotten
    \/ Recalled

MapSpec == MapInit /\ [][MapNext]_mapVars
=============================================================================
