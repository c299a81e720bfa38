---------------------------- MODULE MCTreeFiles -----------------------------
(***************************************************************************)
(* Instances of TreeFiles for TLC.                                         *)
(***************************************************************************)
EXTENDS TreeFiles

AllNames == {"a", "b", "f"}

\* Two files of one name in nested directories, and a file whose name is that
\* of a directory elsewhere, below a directory named like the others.
ThreePaths == {<<"a", "f">>, <<"a", "b", "f">>, <<"f", "b">>}

\* A file in a directory of its own name, and one in a directory beside it.
NamedAlike == {<<"a", "f", "f">>, <<"a", "f", "b", "f">>}
=============================================================================
