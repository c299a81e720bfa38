---------------------------- MODULE JournalSpec -----------------------------
(***************************************************************************)
(* What the journalling half of the library promises, with no processes,   *)
(* locks or memory in it: an append-only journal of file operations and a  *)
(* mirror of it (the JSON tree) that is either unreadable or shows         *)
(* operations of the journal, in the journal's order, none of them twice.  *)
(* The promise does not say that the mirror is complete: it is not.        *)
(***************************************************************************)
EXTENDS Naturals, Sequences, SeqEmbedding

CONSTANT Operation

VARIABLES journal, mirror

vars == <<journal, mirror>>

Unreadable == [readable |-> FALSE, ops |-> <<>>]

Init == journal = <<>> /\ mirror = Unreadable

Record(op) == journal' = Append(journal, op) /\ UNCHANGED mirror

Overwrite == mirror' = Unreadable /\ UNCHANGED journal

Publish ==
    /\ mirror' = [readable |-> TRUE, ops |-> mirror'.ops]
    /\ Embeds(mirror'.ops, journal)
    /\ UNCHANGED journal

Next == (\E op \in Operation : Record(op)) \/ Overwrite \/ Publish

Spec == Init /\ [][Next]_vars
=============================================================================
