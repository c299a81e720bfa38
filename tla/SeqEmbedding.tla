---------------------------- MODULE SeqEmbedding ----------------------------
(***************************************************************************)
(* Order-preserving embedding of one sequence into another, the relation   *)
(* between what a process or the JSON file holds and the journal: nothing  *)
(* invented, nothing duplicated, nothing reordered, possibly something     *)
(* missing.                                                                *)
(***************************************************************************)
EXTENDS Naturals, Sequences

\* f sends the positions of s to increasing positions of t that hold the
\* same element.
IsEmbedding(f, s, t) ==
    /\ f \in [1 .. Len(s) -> 1 .. Len(t)]
    /\ \A i, j \in 1 .. Len(s) : i < j => f[i] < f[j]
    /\ \A i \in 1 .. Len(s) : s[i] = t[f[i]]

Embeds(s, t) == \E f \in [1 .. Len(s) -> 1 .. Len(t)] : IsEmbedding(f, s, t)

StartsWith(t, s) ==
    /\ Len(s) <= Len(t)
    /\ \A i \in 1 .. Len(s) : s[i] = t[i]
=============================================================================
