------------------------------ MODULE DirTree -------------------------------
(***************************************************************************)
(* The directory tree of one process (custom_filesys.c): how               *)
(* add_directory_to_tree files the operations of a journal under directory *)
(* and file nodes, how my_write, my_read and end() rebuild the tree from   *)
(* the journal, and what dir_tree_to_json publishes of it.                 *)
(*                                                                         *)
(* A directory node is known by the walk that leads to it from the head,   *)
(* for add_directory_to_tree creates a child only where none has the name; *)
(* a file node by its directory and its name, for push() is called only    *)
(* where search_for_file_node finds none.  The order of children and of    *)
(* files in their lists is left out, and so are snapshots (Snapshots),     *)
(* other processes' trees, signals and vanished files (Journal): here      *)
(* other processes append to the journal, and a process may end without    *)
(* end() at any step.                                                      *)
(***************************************************************************)
EXTENDS Naturals, Sequences

CONSTANTS Names,   \* The elements of paths.
          Paths,   \* The absolute paths of the files that are operated on.
          NoDir,   \* directory_tree_head == NULL.
          MaxLog   \* Bound: entries of the journal.

ASSUME PathsAssumption == /\ Paths \subseteq Seq(Names)
                          /\ \A path \in Paths : path # <<>>
ASSUME NoDirAssumption == NoDir \notin Names
ASSUME MaxLogAssumption == MaxLog \in Nat

VARIABLES log,    \* The journal: one entry for each operation.
          tree,   \* directory_tree_head and everything below it.
          todo,   \* Entries that were read and are still to be replayed.
          scan,   \* How many entries were read.
          req,    \* The call being served, NoReq in end().
          pc,
          json    \* directory_tree.json.

vars == <<log, tree, todo, scan, req, pc, json>>

READ == 0
WRITE == 1
APPEND == 2

Entry == [path : Paths, type : {READ, WRITE, APPEND}]
NoReq == [path |-> <<>>, type |-> READ]

Letters == {"R", "W", "A", "U"}
FileNode == [absolute_path : Paths, operations : Seq(Letters)]
Places == Seq(Names) \X Names

NoTree == [head |-> NoDir, dirs |-> {}, files |-> [place \in {} |-> <<>>]]

\* Keys of files are places: the walk to the directory, and the file's name.
IsTree(t) ==
    /\ t = [head |-> t.head, dirs |-> t.dirs, files |-> t.files]
    /\ t.head \in Names \cup {NoDir}
    /\ t.dirs \subseteq Seq(Names)
    /\ DOMAIN t.files \subseteq Places
    /\ \A place \in DOMAIN t.files : t.files[place] \in FileNode

\* Types of the variables.
TypeOK ==
    /\ log \in Seq(Entry)
    /\ IsTree(tree)
    /\ todo \in Seq(Entry)
    /\ scan \in 0 .. Len(log)
    /\ req \in Entry \cup {NoReq}
    /\ pc \in {"idle", "replay", "record", "dump"}
    /\ pc = "record" => req \in Entry
    /\ IsTree(json.tree) /\ json.upto \in 0 .. Len(log)

Init ==
    /\ log = <<>>
    /\ tree = NoTree
    /\ todo = <<>>
    /\ scan = 0
    /\ req = NoReq
    /\ pc = "idle"
    /\ json = [tree |-> NoTree, upto |-> 0]

-----------------------------------------------------------------------------
(* add_directory_to_tree                                                   *)

\* get_last_element of the path split at '/'.
FileName(path) == path[Len(path)]

\* Faulty variant of Stop: the walk enters a directory named like the file.
StopNever(path) == Len(path) + 1

\* The walk stops at the first element that is the file's name.
Stop(path) ==
    CHOOSE i \in 1 .. Len(path) :
        /\ path[i] = FileName(path)
        /\ \A j \in 1 .. i - 1 : path[j] # FileName(path)

Place(path) == <<SubSeq(path, 1, Stop(path) - 1), FileName(path)>>

\* The switch in push() and in add_directory_to_tree.
Letter(type) ==
    CASE type = READ   -> "R"
      [] type = WRITE  -> "W"
      [] type = APPEND -> "A"
      [] OTHER         -> "U"

\* Faulty variant of FileAfter: push() without a search for the file's node.
FileAfterPush(t, path, type) ==
    [absolute_path |-> path, operations |-> <<Letter(type)>>]

\* push() for a file that has no node, else one more operation.
FileAfter(t, path, type) ==
    IF Place(path) \in DOMAIN t.files
    THEN [t.files[Place(path)] EXCEPT !.operations = Append(@, Letter(type))]
    ELSE [absolute_path |-> path, operations |-> <<Letter(type)>>]

\* Directories that the walk does not find are created, the head by the first
\* path of all and with the name of its first element, below which the same
\* element is then added as a child.
AddDirectory(t, path, type) ==
    [head  |-> IF t.head = NoDir THEN path[1] ELSE t.head,
     dirs  |-> t.dirs \cup {SubSeq(path, 1, k) : k \in 0 .. Stop(path) - 1},
     files |-> [place \in DOMAIN t.files \cup {Place(path)} |->
                  IF place = Place(path) THEN FileAfter(t, path, type)
                                         ELSE t.files[place]]]

AddToTree(entry) == tree' = AddDirectory(tree, entry.path, entry.type)

-----------------------------------------------------------------------------
(* my_write, my_read and end()                                             *)

\* Faulty variant of ReadJournal: the count of lines starts at one.
ReadJournalFromOne ==
    /\ todo' = log
    /\ scan' = Len(log) + 1
    /\ pc' = "replay"

\* read_absolute_paths.
ReadJournal ==
    /\ todo' = log
    /\ scan' = Len(log)
    /\ pc' = "replay"

\* A call rebuilds the tree first if there is none.
Call(entry) ==
    /\ pc = "idle"
    /\ Len(log) < MaxLog
    /\ req' = entry
    /\ IF tree.head = NoDir THEN ReadJournal
                            ELSE pc' = "record" /\ UNCHANGED <<todo, scan>>
    /\ UNCHANGED <<log, tree, json>>

\* Faulty variant of End: the tree is kept and replayed onto.
EndKeepingTree ==
    /\ pc = "idle"
    /\ req' = NoReq
    /\ ReadJournal
    /\ UNCHANGED <<log, tree, json>>

\* end() forgets the tree and rebuilds it.
End ==
    /\ pc = "idle"
    /\ tree' = NoTree
    /\ req' = NoReq
    /\ ReadJournal
    /\ UNCHANGED <<log, json>>

\* One line of the journal goes into the tree.
Replay ==
    /\ pc = "replay" /\ todo # <<>>
    /\ AddToTree(Head(todo))
    /\ todo' = Tail(todo)
    /\ UNCHANGED <<log, scan, req, pc, json>>

Replayed ==
    /\ pc = "replay" /\ todo = <<>>
    /\ pc' = IF req = NoReq THEN "dump" ELSE "record"
    /\ UNCHANGED <<log, tree, todo, scan, req, json>>

\* The operation is journalled and inserted.
Record ==
    /\ pc = "record" /\ Len(log) < MaxLog
    /\ log' = Append(log, req)
    /\ AddToTree(req)
    /\ req' = NoReq
    /\ pc' = "idle"
    /\ UNCHANGED <<todo, scan, json>>

\* dir_tree_to_json and write_json_to_file.
Dump ==
    /\ pc = "dump" /\ tree.head # NoDir
    /\ json' = [tree |-> tree, upto |-> scan]
    /\ pc' = "idle"
    /\ UNCHANGED <<log, tree, todo, scan, req>>

\* The process ends: after a dump, without one, or because there is nothing to
\* dump (dir_tree_to_json dereferences NULL).  The next has no tree.
Die ==
    /\ tree' = NoTree
    /\ todo' = <<>>
    /\ scan' = 0
    /\ req' = NoReq
    /\ pc' = "idle"
    /\ UNCHANGED <<log, json>>

\* Another process journals an operation.
OtherRecords(entry) ==
    /\ Len(log) < MaxLog
    /\ log' = Append(log, entry)
    /\ UNCHANGED <<tree, todo, scan, req, pc, json>>

Next ==
    \/ \E entry \in Entry : Call(entry) \/ OtherRecords(entry)
    \/ End \/ Replay \/ Replayed \/ Record \/ Dump \/ Die

Spec == Init /\ [][Next]_vars

-----------------------------------------------------------------------------
(* Properties                                                              *)

\* No path has its file's name before its end, as in /a/f/g/f.
ProperPaths ==
    \A path \in Paths :
        \A i \in 1 .. Len(path) - 1 : path[i] # FileName(path)

\* The directories on a walk, from the head on.
Above(dir) == {SubSeq(dir, 1, k) : k \in 0 .. Len(dir)}

\* Safety, of add_directory_to_tree: each file node is where its absolute path
\* says, each directory on the way to it is a node, and there is no directory
\* but on the way to some file.
NodesInPlace ==
    /\ \A place \in DOMAIN tree.files :
         place[1] \o <<place[2]>> = tree.files[place].absolute_path
    /\ tree.dirs = UNION {Above(place[1]) : place \in DOMAIN tree.files}

\* What a tree tells of a file.
ShownOf(t, path) ==
    IF Place(path) \in DOMAIN t.files THEN t.files[Place(path)].operations
                                      ELSE <<>>

\* Refinement: the nodes are a map from files to their operations.  What is
\* done to one file shows at no other, and a rebuilt tree is told each line of
\* the journal once, in order and from an empty tree on.
Map == INSTANCE FileMap WITH
    Files    <- Paths,
    Ops      <- Letters,
    journal  <- [i \in 1 .. Len(log) |-> [file |-> log[i].path,
                                          op |-> Letter(log[i].type)]],
    shown    <- [path \in Paths |-> ShownOf(tree, path)],
    recalled <- scan - Len(todo)

MapsFiles == Map!MapSpec
=============================================================================
