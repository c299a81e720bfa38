----------------------------- MODULE TreeFiles ------------------------------
(***************************************************************************)
(* The two files a directory tree is kept in.  absolute_paths.txt is text: *)
(* log_write_abs_path formats a line in a buffer, read_absolute_paths      *)
(* counts and loads the lines, and the replay splits them again; TreeSpec  *)
(* is DirTree with that text beside its journal.  From directory_tree.json *)
(* construct_tree builds a tree again (no program calls it).               *)
(*                                                                         *)
(* A character stands for a path element with its slash, the bar, a digit  *)
(* or the newline.  fgets has room for any line: the bounds let no more    *)
(* lines run together than its 1024 bytes hold.                            *)
(***************************************************************************)
EXTENDS DirTree, Integers, SequencesExt, FiniteSetsExt

CONSTANT LineBuffer  \* Size of the buffer a line is formatted in.

ASSUME LineBufferAssumption == LineBuffer \in Nat /\ LineBuffer > 4

VARIABLE text  \* absolute_paths.txt, by characters.

Bar == "|"
NewLine == "\n"
Digits == <<"0", "1", "2">>

-----------------------------------------------------------------------------
(* Writing and reading the text                                            *)

\* Faulty variant of Line: one character less than the buffer holds.
LineShort(entry) ==
    SubSeq(entry.path \o <<Bar, Digits[entry.type + 1], NewLine>>,
           1, LineBuffer - 2)

\* snprintf writes as much as the buffer holds beside the terminator.
Line(entry) ==
    LET whole == entry.path \o <<Bar, Digits[entry.type + 1], NewLine>>
    IN SubSeq(whole, 1, Min({Len(whole), LineBuffer - 1}))

\* The pieces so far, the last of which the next character goes to.  Separators
\* that follow each other are one if they are merged.
Split(chars, separator, merged) ==
    FoldLeft(LAMBDA parts, c :
                 IF c # separator
                 THEN [parts EXCEPT ![Len(parts)] = Append(@, c)]
                 ELSE IF merged /\ Last(parts) = <<>> THEN parts
                                                      ELSE Append(parts, <<>>),
             << <<>> >>, chars)

\* What is after the last separator is a piece, unless it is nothing.
Pieces(chars, separator, merged) ==
    LET parts == Split(chars, separator, merged)
    IN IF Last(parts) = <<>> THEN Front(parts) ELSE parts

\* The first pass counts newlines; fgets also returns what is after the last.
LineCount(chars) == Cardinality({i \in DOMAIN chars : chars[i] = NewLine})

Lines(chars) == Pieces(chars, NewLine, FALSE)

\* str_split: strtok returns no empty part.
Fields(line) == Pieces(line, Bar, TRUE)

\* atoi of a field: no second digit ever follows the first.
Atoi(field) ==
    IF \E d \in DOMAIN Digits : Digits[d] = Head(field)
    THEN (CHOOSE d \in DOMAIN Digits : Digits[d] = Head(field)) - 1
    ELSE 0

Parsed(line) ==
    [path |-> Fields(line)[1], type |-> Atoi(Fields(line)[2])]

\* Every step of the tree, with the line of what it journals.
TreeInit == Init /\ text = <<>>

TreeNext ==
    /\ Next
    /\ text' = IF log' = log THEN text ELSE text \o Line(Last(log'))

TreeSpec == TreeInit /\ [][TreeNext]_<<vars, text>>

-----------------------------------------------------------------------------
(* From the JSON text back to a tree                                       *)

\* Faulty variant of Collected: children are not descended into.
CollectedAtHead(t) ==
    {t.files[place].absolute_path :
        place \in {p \in DOMAIN t.files : Len(p[1]) <= 1}}

\* collect_absolute_paths.
Collected(t) == {t.files[place].absolute_path : place \in DOMAIN t.files}

\* construct_tree: the order of the paths matters to the head's name only.
Reconstructed(t) ==
    FoldSet(LAMBDA path, acc : AddDirectory(acc, path, -1), NoTree,
            Collected(t))

-----------------------------------------------------------------------------
(* Properties                                                              *)

\* What a line is split at is in no path, and the buffer holds a line of each.
SeparatorsApart == Bar \notin Names /\ NewLine \notin Names
LinesFit == \A path \in Paths : Len(path) + 3 < LineBuffer

\* Safety, of log.c and the replay loops: the array that was allocated for the
\* counted lines has room for what fgets returns, and splitting each line
\* gives back the operation that was journalled; if the buffer holds a line of
\* each path.  Of longer ones the newline goes first, with which lines are told
\* apart, then the operation, then the path.
LinesReadBack ==
    LET lines == Lines(text)
    IN /\ Len(lines) = LineCount(text)
       /\ \A i \in 1 .. Len(lines) : Len(Fields(lines[i])) = 2
       /\ [i \in 1 .. Len(lines) |-> Parsed(lines[i])] = log

\* Where a path is in the first n entries of a journal.
Positions(entries, path, n) == {i \in 1 .. n : entries[i].path = path}

\* The operations are those journalled for the path up to n: as many, and each
\* as far from the first as the journal has it.
Tells(operations, entries, path, n) ==
    /\ Len(operations) = Cardinality(Positions(entries, path, n))
    /\ \A i \in Positions(entries, path, n) :
         operations[Cardinality(Positions(entries, path, i))]
           = <<"R", "W", "A">>[entries[i].type + 1]

\* Safety, what verify_execution.py asks of the two files: the tree that was
\* dumped has the paths that were journalled up to then, and for each path the
\* operations, in the order of the journal.
JsonVerified ==
    LET nodes == json.tree.files
    IN /\ Collected(json.tree) = {log[i].path : i \in 1 .. json.upto}
       /\ \A place \in DOMAIN nodes :
            Tells(nodes[place].operations, log, nodes[place].absolute_path,
                  json.upto)

\* Safety, of construct_tree: the tree it builds has the directories and files
\* of the tree that was dumped, each with its path, and knows no operation.
JsonRestoresNodes ==
    LET new == Reconstructed(tree)
    IN /\ new.dirs = tree.dirs
       /\ DOMAIN new.files = DOMAIN tree.files
       /\ \A place \in DOMAIN new.files :
            /\ new.files[place].absolute_path = tree.files[place].absolute_path
            /\ new.files[place].operations = <<"U">>
=============================================================================
