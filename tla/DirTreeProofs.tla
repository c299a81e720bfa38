--------------------------- MODULE DirTreeProofs ----------------------------
(***************************************************************************)
(* Theorems about DirTree and TreeFiles.  For any paths none of which has  *)
(* its file's name before its end: the types, the place of every node, the *)
(* tree as an implementation of FileMap, the published tree beside the     *)
(* journal, and the tree built from it again.  For any paths without       *)
(* separators, and a buffer that holds each line: the journal's text reads *)
(* back.  Folds are shown to exist by the smallest set that has none.      *)
(***************************************************************************)
EXTENDS TreeFiles, FiniteSetTheorems, SequenceTheorems,
        WellFoundedInduction, TLAPS

-----------------------------------------------------------------------------
(* Places                                                                  *)

LEMMA PathsAreSequences ==
    ASSUME NEW path \in Paths
    PROVE  /\ path \in Seq(Names) /\ Len(path) \in Nat \ {0}
           /\ \A i \in 1 .. Len(path) : path[i] \in Names
           /\ FileName(path) \in Names
BY PathsAssumption DEF FileName

LEMMA Prefix ==
    ASSUME NEW S, NEW s \in Seq(S), NEW k \in 0 .. Len(s)
    PROVE  /\ SubSeq(s, 1, k) \in Seq(S) /\ Len(SubSeq(s, 1, k)) = k
           /\ \A i \in 1 .. k : SubSeq(s, 1, k)[i] = s[i]
<1>1. /\ 1 \in Int /\ k \in Int /\ k \in Nat
      /\ \A i \in 1 .. k : s[i] \in S
  BY LenProperties, ElementOfSeq
<1>2. /\ SubSeq(s, 1, k) \in Seq(S)
      /\ Len(SubSeq(s, 1, k)) = IF 1 <= k THEN k - 1 + 1 ELSE 0
      /\ \A i \in 1 .. k - 1 + 1 : SubSeq(s, 1, k)[i] = s[1 + i - 1]
  BY <1>1, SubSeqProperties
<1> HIDE <1>2
<1>3. SubSeq(s, 1, k) \in Seq(S)
  BY <1>2
<1>4. Len(SubSeq(s, 1, k)) = k
  BY <1>1, <1>2
<1>5. ASSUME NEW i \in 1 .. k
      PROVE  SubSeq(s, 1, k)[i] = s[i]
  <2>1. i \in 1 .. k - 1 + 1 /\ 1 + i - 1 = i
    BY <1>1
  <2> QED
    BY <2>1, <1>2
<1> QED
  BY <1>3, <1>4, <1>5

\* The directory of a proper path is the path without its name.
LEMMA DirOfPath ==
    ASSUME NEW path \in Paths
    PROVE  /\ SubSeq(path, 1, Len(path) - 1) \in Seq(Names)
           /\ Len(SubSeq(path, 1, Len(path) - 1)) = Len(path) - 1
           /\ \A i \in 1 .. Len(path) - 1 :
                SubSeq(path, 1, Len(path) - 1)[i] = path[i]
<1>1. path \in Seq(Names) /\ Len(path) - 1 \in 0 .. Len(path)
  BY PathsAreSequences
<1> QED
  BY <1>1, Prefix

\* On a proper path the walk goes to the end.
LEMMA StopAtEnd ==
    ASSUME ProperPaths, NEW path \in Paths
    PROVE  Stop(path) = Len(path)
<1> DEFINE Stops(i) == /\ path[i] = FileName(path)
                       /\ \A j \in 1 .. i - 1 : path[j] # FileName(path)
<1>1. Len(path) \in 1 .. Len(path) /\ Stops(Len(path))
  BY PathsAreSequences DEF ProperPaths, FileName
<1>2. ASSUME NEW i \in 1 .. Len(path), Stops(i)
      PROVE  i = Len(path)
  <2>1. i \in 1 .. Len(path) - 1 => path[i] # FileName(path)
    BY DEF ProperPaths
  <2> QED
    BY <1>2, <2>1, PathsAreSequences
<1>3. Stop(path) = CHOOSE i \in 1 .. Len(path) : Stops(i)
  BY DEF Stop
<1> HIDE DEF Stops
<1> QED
  BY <1>1, <1>2, <1>3

\* The directory and the name make up the path again.
LEMMA PlaceOfPath ==
    ASSUME ProperPaths, NEW path \in Paths
    PROVE  /\ Place(path) \in Places
           /\ Place(path)[1] = SubSeq(path, 1, Len(path) - 1)
           /\ Place(path)[1] \o <<Place(path)[2]>> = path
<1> DEFINE dir == SubSeq(path, 1, Len(path) - 1)
<1>1. Place(path) = <<dir, FileName(path)>>
  BY StopAtEnd DEF Place
<1>2. dir \in Seq(Names) /\ Len(dir) = Len(path) - 1
      /\ \A i \in 1 .. Len(path) - 1 : dir[i] = path[i]
  BY DirOfPath
<1> HIDE DEF dir
<1>3. dir \o <<FileName(path)>> = path
  <2>1. <<FileName(path)>> \in Seq(Names) /\ Len(<<FileName(path)>>) = 1
        /\ <<FileName(path)>>[1] = FileName(path)
    BY PathsAreSequences
  <2>2. /\ dir \o <<FileName(path)>> \in Seq(Names)
        /\ Len(dir \o <<FileName(path)>>) = Len(path)
        /\ \A i \in 1 .. Len(path) :
             (dir \o <<FileName(path)>>)[i]
               = IF i <= Len(dir) THEN dir[i]
                                  ELSE <<FileName(path)>>[i - Len(dir)]
    BY <1>2, <2>1, PathsAreSequences, ConcatProperties
  <2>3. ASSUME NEW i \in 1 .. Len(path)
        PROVE  (dir \o <<FileName(path)>>)[i] = path[i]
    <3>1. CASE i <= Len(path) - 1
      BY <3>1, <2>2, <1>2, PathsAreSequences
    <3>2. CASE i = Len(path)
      BY <3>2, <2>1, <2>2, <1>2, PathsAreSequences DEF FileName
    <3>3. i <= Len(path) - 1 \/ i = Len(path)
      BY PathsAreSequences
    <3> QED
      BY <3>1, <3>2, <3>3
  <2> QED
    BY <2>2, <2>3, PathsAreSequences, SeqEqual
<1>4. Place(path) = <<dir, FileName(path)>>
  BY <1>1 DEF dir
<1>5. Place(path) \in Places
  BY <1>2, <1>4, PathsAreSequences DEF Places
<1>6. Place(path)[1] = SubSeq(path, 1, Len(path) - 1)
  BY <1>4 DEF dir
<1>7. Place(path)[1] \o <<Place(path)[2]>> = path
  BY <1>3, <1>4
<1> QED
  BY <1>5, <1>6, <1>7

\* No two files share a place.
LEMMA PlacesApart ==
    ASSUME ProperPaths, NEW path \in Paths, NEW other \in Paths,
           Place(path) = Place(other)
    PROVE  path = other
BY PlaceOfPath

\* The directories above a file are what the walk to it passes.
LEMMA AbovePlace ==
    ASSUME ProperPaths, NEW path \in Paths
    PROVE  Above(Place(path)[1])
             = {SubSeq(path, 1, k) : k \in 0 .. Stop(path) - 1}
<1> DEFINE dir == SubSeq(path, 1, Len(path) - 1)
<1>1. dir \in Seq(Names) /\ Len(dir) = Len(path) - 1
      /\ \A i \in 1 .. Len(path) - 1 : dir[i] = path[i]
  BY DirOfPath
<1>2. Place(path)[1] = dir /\ Stop(path) = Len(path)
  BY PlaceOfPath, StopAtEnd
<1> HIDE DEF dir
<1>3. ASSUME NEW k \in 0 .. Len(path) - 1
      PROVE  SubSeq(dir, 1, k) = SubSeq(path, 1, k)
  <2>1. k \in 0 .. Len(dir) /\ k \in 0 .. Len(path) /\ k \in Nat
    BY <1>1, PathsAreSequences
  <2>2. /\ SubSeq(dir, 1, k) \in Seq(Names) /\ Len(SubSeq(dir, 1, k)) = k
        /\ \A i \in 1 .. k : SubSeq(dir, 1, k)[i] = dir[i]
    BY <1>1, <2>1, Prefix
  <2>3. /\ SubSeq(path, 1, k) \in Seq(Names) /\ Len(SubSeq(path, 1, k)) = k
        /\ \A i \in 1 .. k : SubSeq(path, 1, k)[i] = path[i]
    BY <2>1, PathsAreSequences, Prefix
  <2>4. ASSUME NEW i \in 1 .. k
        PROVE  SubSeq(dir, 1, k)[i] = SubSeq(path, 1, k)[i]
    <3>1. i \in 1 .. Len(path) - 1
      BY <2>1, PathsAreSequences
    <3> QED
      BY <3>1, <1>1, <2>2, <2>3
  <2> QED
    BY <2>2, <2>3, <2>4, SeqEqual
<1> QED
  BY <1>1, <1>2, <1>3 DEF Above

-----------------------------------------------------------------------------
(* What add_directory_to_tree does to a tree                               *)

LEMMA LetterIsLetter ==
    ASSUME NEW type
    PROVE  Letter(type) \in Letters
BY DEF Letter, Letters

LEMMA FileAfterIsNode ==
    ASSUME ProperPaths, NEW t, IsTree(t), NEW path \in Paths, NEW type
    PROVE  FileAfter(t, path, type) \in FileNode
<1>1. CASE Place(path) \in DOMAIN t.files
  <2>1. t.files[Place(path)] \in FileNode
    BY <1>1 DEF IsTree
  <2>2. Append(t.files[Place(path)].operations, Letter(type)) \in Seq(Letters)
    BY <2>1, LetterIsLetter, AppendProperties DEF FileNode
  <2> QED
    BY <1>1, <2>1, <2>2 DEF FileAfter, FileNode
<1>2. CASE Place(path) \notin DOMAIN t.files
  <2>1. <<Letter(type)>> \in Seq(Letters)
    BY LetterIsLetter
  <2> QED
    BY <1>2, <2>1 DEF FileAfter, FileNode
<1> QED
  BY <1>1, <1>2

LEMMA AddDirectoryKeepsTree ==
    ASSUME ProperPaths, NEW t, IsTree(t), NEW path \in Paths, NEW type
    PROVE  IsTree(AddDirectory(t, path, type))
<1> DEFINE new == AddDirectory(t, path, type)
<1>1. new.head \in Names \cup {NoDir}
  BY PathsAreSequences DEF AddDirectory, IsTree
<1>2. new.dirs \subseteq Seq(Names)
  <2>1. ASSUME NEW k \in 0 .. Stop(path) - 1
        PROVE  SubSeq(path, 1, k) \in Seq(Names)
    <3>1. path \in Seq(Names) /\ k \in 0 .. Len(path)
      BY StopAtEnd, PathsAreSequences
    <3> QED
      BY <3>1, Prefix
  <2>2. t.dirs \subseteq Seq(Names)
    BY DEF IsTree
  <2>3. new.dirs = t.dirs \cup {SubSeq(path, 1, k) : k \in 0 .. Stop(path) - 1}
    BY DEF AddDirectory
  <2> HIDE DEF new
  <2> QED
    BY <2>1, <2>2, <2>3
<1>3. DOMAIN new.files \subseteq Places
  <2>1. DOMAIN new.files = DOMAIN t.files \cup {Place(path)}
    BY DEF AddDirectory
  <2>2. DOMAIN t.files \subseteq Places
    BY DEF IsTree
  <2>3. Place(path) \in Places
    BY PlaceOfPath
  <2> HIDE DEF new
  <2> QED
    BY <2>1, <2>2, <2>3
<1>4. ASSUME NEW place \in DOMAIN new.files
      PROVE  new.files[place] \in FileNode
  BY FileAfterIsNode DEF AddDirectory, IsTree
<1>5. new = [head |-> new.head, dirs |-> new.dirs, files |-> new.files]
  BY DEF AddDirectory
<1>6. IsTree(new)
  <2> HIDE DEF new
  <2> QED
    BY <1>1, <1>2, <1>3, <1>4, <1>5 DEF IsTree
<1> QED
  BY <1>6

LEMMA NoTreeIsTree == IsTree(NoTree)
BY DEF IsTree, NoTree

\* Each node and no other gets one more operation.
LEMMA AddDirectoryShows ==
    ASSUME ProperPaths, NEW t, IsTree(t), NEW path \in Paths, NEW type,
           NEW other \in Paths
    PROVE  ShownOf(AddDirectory(t, path, type), other)
             = IF other = path THEN Append(ShownOf(t, path), Letter(type))
                               ELSE ShownOf(t, other)
<1> DEFINE new == AddDirectory(t, path, type)
<1>1. DOMAIN new.files = DOMAIN t.files \cup {Place(path)}
      /\ \A place \in DOMAIN new.files :
           new.files[place] = IF place = Place(path)
                              THEN FileAfter(t, path, type)
                              ELSE t.files[place]
  BY DEF AddDirectory
<1> HIDE DEF new
<1>2. CASE other = path
  <2>1. ShownOf(new, path) = FileAfter(t, path, type).operations
    BY <1>1 DEF ShownOf
  <2>2. CASE Place(path) \in DOMAIN t.files
    <3>1. t.files[Place(path)] \in FileNode
      BY <2>2 DEF IsTree
    <3>2. FileAfter(t, path, type).operations
            = Append(t.files[Place(path)].operations, Letter(type))
      BY <2>2, <3>1 DEF FileAfter, FileNode
    <3>3. ShownOf(t, path) = t.files[Place(path)].operations
      BY <2>2 DEF ShownOf
    <3> QED
      BY <1>2, <2>1, <3>2, <3>3 DEF new
  <2>3. CASE Place(path) \notin DOMAIN t.files
    <3>1. Append(<<>>, Letter(type)) = <<Letter(type)>>
      OBVIOUS
    <3>2. ShownOf(t, path) = <<>>
      BY <2>3 DEF ShownOf
    <3>3. FileAfter(t, path, type).operations = <<Letter(type)>>
      BY <2>3 DEF FileAfter
    <3> QED
      BY <2>1, <3>1, <3>2, <3>3, <1>2 DEF new
  <2> QED
    BY <2>2, <2>3
<1>3. CASE other # path
  <2>1. Place(other) # Place(path)
    BY <1>3, PlacesApart
  <2> QED
    BY <1>1, <1>3, <2>1 DEF ShownOf, new
<1> QED
  BY <1>2, <1>3

-----------------------------------------------------------------------------
(* Types and places                                                        *)

LEMMA EntryFields ==
    ASSUME NEW entry \in Entry
    PROVE  entry.path \in Paths /\ entry.type \in {READ, WRITE, APPEND}
BY DEF Entry

LEMMA TypeHolds ==
    ASSUME ProperPaths
    PROVE  Spec => []TypeOK
<1>1. Init => TypeOK
  BY NoTreeIsTree DEF Init, TypeOK, NoReq
<1>2. TypeOK /\ [Next]_vars => TypeOK'
  <2> SUFFICES ASSUME TypeOK, [Next]_vars
               PROVE  TypeOK'
    OBVIOUS
  <2> USE DEF TypeOK
  <2>1. ASSUME NEW entry \in Entry, Call(entry)
        PROVE  TypeOK'
    <3>1. CASE tree.head = NoDir
      BY <2>1, <3>1 DEF Call, ReadJournal
    <3>2. CASE tree.head # NoDir
      BY <2>1, <3>2 DEF Call
    <3> QED
      BY <3>1, <3>2
  <2>2. ASSUME NEW entry \in Entry, OtherRecords(entry)
        PROVE  TypeOK'
    <3>1. log' \in Seq(Entry) /\ Len(log') = Len(log) + 1
      BY <2>2, AppendProperties DEF OtherRecords
    <3> QED
      BY <2>2, <3>1 DEF OtherRecords
  <2>3. CASE End
    BY <2>3, NoTreeIsTree DEF End, ReadJournal
  <2>4. CASE Replay
    <3>1. Head(todo) \in Entry /\ todo' \in Seq(Entry)
      BY <2>4, HeadTailProperties DEF Replay
    <3>2. IsTree(tree')
      BY <2>4, <3>1, EntryFields, AddDirectoryKeepsTree DEF Replay, AddToTree
    <3> QED
      BY <2>4, <3>1, <3>2 DEF Replay
  <2>5. CASE Replayed
    BY <2>5 DEF Replayed
  <2>6. CASE Record
    <3>1. req \in Entry
      BY <2>6 DEF Record
    <3>2. log' \in Seq(Entry) /\ Len(log') = Len(log) + 1
      BY <2>6, <3>1, AppendProperties DEF Record
    <3>3. IsTree(tree')
      BY <2>6, <3>1, EntryFields, AddDirectoryKeepsTree DEF Record, AddToTree
    <3> QED
      BY <2>6, <3>2, <3>3 DEF Record
  <2>7. CASE Dump
    BY <2>7 DEF Dump
  <2>8. CASE Die
    BY <2>8, NoTreeIsTree DEF Die
  <2>9. CASE UNCHANGED vars
    BY <2>9 DEF vars
  <2> QED
    BY <2>1, <2>2, <2>3, <2>4, <2>5, <2>6, <2>7, <2>8, <2>9 DEF Next
<1> QED
  BY <1>1, <1>2, PTL DEF Spec

\* The variables keep their types, whatever the proper paths and the bound.
THEOREM TypeCorrect == ProperPaths => (Spec => []TypeOK)
BY TypeHolds

LEMMA AddToTreeInPlace ==
    ASSUME ProperPaths, IsTree(tree), NodesInPlace,
           NEW entry \in Entry, AddToTree(entry)
    PROVE  NodesInPlace'
<1> DEFINE path == entry.path
           place == Place(path)
<1>1. path \in Paths
  BY EntryFields
<1>2. /\ DOMAIN tree'.files = DOMAIN tree.files \cup {place}
      /\ \A p \in DOMAIN tree'.files :
           tree'.files[p] = IF p = place
                            THEN FileAfter(tree, path, entry.type)
                            ELSE tree.files[p]
      /\ tree'.dirs
           = tree.dirs \cup {SubSeq(path, 1, k) : k \in 0 .. Stop(path) - 1}
  BY DEF AddToTree, AddDirectory
<1>3. place[1] \o <<place[2]>> = path
      /\ Above(place[1]) = {SubSeq(path, 1, k) : k \in 0 .. Stop(path) - 1}
  BY <1>1, PlaceOfPath, AbovePlace
<1> HIDE DEF place, path
<1>4. ASSUME NEW p \in DOMAIN tree'.files
      PROVE  p[1] \o <<p[2]>> = tree'.files[p].absolute_path
  <2>1. CASE p \in DOMAIN tree.files
    <3>1. tree'.files[p].absolute_path = tree.files[p].absolute_path
      <4>1. tree.files[p] \in FileNode
        BY <2>1 DEF IsTree
      <4>2. CASE p = place
        BY <1>2, <2>1, <4>1, <4>2 DEF FileAfter, FileNode, place
      <4>3. CASE p # place
        BY <1>2, <4>3
      <4> QED
        BY <4>2, <4>3
    <3> QED
      BY <2>1, <3>1 DEF NodesInPlace
  <2>2. CASE p \notin DOMAIN tree.files
    <3>1. p = place
      BY <1>2, <2>2
    <3>2. tree'.files[p].absolute_path = path
      BY <1>2, <2>2, <3>1 DEF FileAfter, place
    <3> QED
      BY <3>1, <3>2, <1>3
  <2> QED
    BY <2>1, <2>2
<1>5. tree'.dirs = UNION {Above(p[1]) : p \in DOMAIN tree'.files}
  <2>1. tree.dirs = UNION {Above(p[1]) : p \in DOMAIN tree.files}
    BY DEF NodesInPlace
  <2>2. tree'.dirs = tree.dirs \cup Above(place[1])
    BY <1>2, <1>3
  <2> QED
    BY <2>1, <2>2, <1>2
<1> QED
  BY <1>4, <1>5 DEF NodesInPlace

LEMMA NoTreeInPlace ==
    ASSUME tree' = NoTree
    PROVE  NodesInPlace'
<1>1. DOMAIN tree'.files = {} /\ tree'.dirs = {}
  BY DEF NoTree
<1> QED
  BY <1>1 DEF NodesInPlace

\* Each file node is where its absolute path says, and there are no other
\* directories than those above files.
THEOREM FilesInPlace == ProperPaths => (Spec => []NodesInPlace)
<1> SUFFICES ASSUME ProperPaths
             PROVE  Spec => []NodesInPlace
  OBVIOUS
<1>1. Init => NodesInPlace
  <2> SUFFICES ASSUME Init
               PROVE  NodesInPlace
    OBVIOUS
  <2>1. DOMAIN tree.files = {} /\ tree.dirs = {}
    BY DEF Init, NoTree
  <2> QED
    BY <2>1 DEF NodesInPlace
<1>2. TypeOK /\ NodesInPlace /\ [Next]_vars => NodesInPlace'
  <2> SUFFICES ASSUME TypeOK, NodesInPlace, [Next]_vars
               PROVE  NodesInPlace'
    OBVIOUS
  <2>1. ASSUME UNCHANGED tree
        PROVE  NodesInPlace'
    BY <2>1 DEF NodesInPlace
  <2>2. CASE Replay
    <3>1. Head(todo) \in Entry /\ IsTree(tree)
      BY <2>2, HeadTailProperties DEF Replay, TypeOK
    <3> QED
      BY <2>2, <3>1, AddToTreeInPlace DEF Replay
  <2>3. CASE Record
    <3>1. req \in Entry /\ IsTree(tree)
      BY <2>3 DEF Record, TypeOK
    <3> QED
      BY <2>3, <3>1, AddToTreeInPlace DEF Record
  <2>4. CASE End \/ Die
    BY <2>4, NoTreeInPlace DEF End, Die
  <2>5. ASSUME NEW entry \in Entry, Call(entry) \/ OtherRecords(entry)
        PROVE  UNCHANGED tree
    BY <2>5 DEF Call, OtherRecords
  <2>6. CASE Replayed \/ Dump \/ UNCHANGED vars
    BY <2>6, <2>1 DEF Replayed, Dump, vars
  <2> QED
    BY <2>1, <2>2, <2>3, <2>4, <2>5, <2>6 DEF Next
<1>3. Spec => []TypeOK
  BY TypeHolds
<1> QED
  BY <1>1, <1>2, <1>3, PTL DEF Spec

-----------------------------------------------------------------------------
(* The tree as a map from files to operations                              *)

\* What FileMap sees of an entry, of the journal and of a tree.
Seen(entry) == [file |-> entry.path, op |-> Letter(entry.type)]
Journal == [i \in 1 .. Len(log) |-> Seen(log[i])]
Shown == [path \in Paths |-> ShownOf(tree, path)]

SeenEntry == [file : Paths, op : Letters]

\* What is still to be replayed is the end of what was read of the journal, and
\* nothing of it was replayed where an idle process has no tree.
TodoInv ==
    /\ Len(todo) <= scan
    /\ \A i \in 1 .. Len(todo) : todo[i] = log[scan - Len(todo) + i]
    /\ pc = "idle" /\ tree.head = NoDir => scan = Len(todo)

LEMMA LogAppended ==
    ASSUME log \in Seq(Entry), NEW entry \in Entry,
           log' = Append(log, entry)
    PROVE  Journal' = Append(Journal, Seen(entry))
<1>1. /\ log' \in Seq(Entry) /\ Len(log') = Len(log) + 1
      /\ \A i \in 1 .. Len(log) : log'[i] = log[i]
      /\ log'[Len(log) + 1] = entry
  BY AppendProperties
<1>2. \A e \in Entry : Seen(e) \in SeenEntry
  BY LetterIsLetter DEF Entry, Seen, SeenEntry
<1>3. Journal \in Seq(SeenEntry) /\ Len(Journal) = Len(log)
      /\ \A i \in 1 .. Len(log) : Journal[i] = Seen(log[i])
  <2>1. \A i \in 1 .. Len(log) : log[i] \in Entry
    BY ElementOfSeq
  <2>2. Len(log) \in Nat
    BY LenProperties
  <2>3. Journal \in [1 .. Len(log) -> SeenEntry]
    BY <2>1, <1>2 DEF Journal
  <2>4. Journal \in Seq(SeenEntry) /\ Len(Journal) = Len(log)
    BY <2>2, <2>3
  <2> QED
    BY <2>4 DEF Journal
<1>4. Seen(entry) \in SeenEntry
  BY <1>2
<1>5. /\ Append(Journal, Seen(entry)) \in Seq(SeenEntry)
      /\ Len(Append(Journal, Seen(entry))) = Len(log) + 1
      /\ \A i \in 1 .. Len(log) : Append(Journal, Seen(entry))[i] = Journal[i]
      /\ Append(Journal, Seen(entry))[Len(log) + 1] = Seen(entry)
  BY <1>3, <1>4, AppendProperties
<1>6. Len(log) \in Nat /\ Len(log') \in Nat
  BY LenProperties, <1>1
<1>7. /\ Journal' = [i \in 1 .. Len(log) + 1 |-> Seen(log'[i])]
  BY <1>1 DEF Journal, Seen
<1>8. Journal' \in [1 .. Len(log) + 1 -> SeenEntry]
  <2>1. \A i \in 1 .. Len(log) + 1 : log'[i] \in Entry
    BY <1>1, ElementOfSeq
  <2> QED
    BY <2>1, <1>2, <1>7
<1>9. Journal' \in Seq(SeenEntry) /\ Len(Journal') = Len(log) + 1
  BY <1>6, <1>8
<1>10. ASSUME NEW i \in 1 .. Len(log) + 1
       PROVE  Journal'[i] = Append(Journal, Seen(entry))[i]
  <2>1. CASE i \in 1 .. Len(log)
    BY <2>1, <1>1, <1>3, <1>5, <1>7
  <2>2. CASE i = Len(log) + 1
    BY <2>2, <1>1, <1>5, <1>7
  <2>3. i \in 1 .. Len(log) \/ i = Len(log) + 1
    BY <1>6
  <2> QED
    BY <2>1, <2>2, <2>3
<1> QED
  BY <1>5, <1>9, <1>10, SeqEqual

LEMMA TreeShows ==
    ASSUME ProperPaths, IsTree(tree), NEW entry \in Entry, AddToTree(entry)
    PROVE  Shown' = [Shown EXCEPT ![entry.path] =
                       Append(@, Seen(entry).op)]
<1>1. entry.path \in Paths
  BY EntryFields
<1>2. ASSUME NEW path \in Paths
      PROVE  ShownOf(tree', path)
               = IF path = entry.path
                 THEN Append(ShownOf(tree, entry.path), Letter(entry.type))
                 ELSE ShownOf(tree, path)
  <2> DEFINE at == entry.path
             type == entry.type
  <2>1. at \in Paths
    BY <1>1
  <2> HIDE DEF at, type
  <2>2. ShownOf(AddDirectory(tree, at, type), path)
          = IF path = at THEN Append(ShownOf(tree, at), Letter(type))
                         ELSE ShownOf(tree, path)
    BY <2>1, AddDirectoryShows
  <2> QED
    BY <2>2 DEF AddToTree, at, type
<1> QED
  BY <1>1, <1>2 DEF Shown, Seen

LEMMA NothingShows ==
    ASSUME NEW path \in Paths
    PROVE  ShownOf(NoTree, path) = <<>>
BY DEF ShownOf, NoTree

LEMMA TodoHolds ==
    ASSUME ProperPaths
    PROVE  Spec => []TodoInv
<1>1. Init => TodoInv
  BY DEF Init, TodoInv
<1>2. TypeOK /\ TodoInv /\ [Next]_vars => TodoInv'
  <2> SUFFICES ASSUME TypeOK, TodoInv, [Next]_vars
               PROVE  TodoInv'
    OBVIOUS
  <2>0. /\ log \in Seq(Entry) /\ todo \in Seq(Entry)
        /\ Len(log) \in Nat /\ Len(todo) \in Nat /\ scan \in 0 .. Len(log)
    BY LenProperties DEF TypeOK
  <2> DEFINE NoneIdle == pc = "idle" /\ tree.head = NoDir
  <2>1. ASSUME UNCHANGED <<log, todo, scan>>, NoneIdle' => NoneIdle
        PROVE  TodoInv'
    BY <2>1 DEF TodoInv
  <2>2. ASSUME ReadJournal, UNCHANGED log
        PROVE  TodoInv'
    BY <2>0, <2>2 DEF TodoInv, ReadJournal
  <2>3. ASSUME NEW entry \in Entry, log' = Append(log, entry),
               UNCHANGED <<todo, scan>>, NoneIdle' => NoneIdle
        PROVE  TodoInv'
    <3>1. \A i \in 1 .. Len(log) : log'[i] = log[i]
      BY <2>0, <2>3, AppendProperties
    <3>2. ASSUME NEW i \in 1 .. Len(todo)
          PROVE  scan - Len(todo) + i \in 1 .. Len(log)
      BY <2>0 DEF TodoInv
    <3>3. ASSUME NEW i \in 1 .. Len(todo)
          PROVE  todo[i] = log'[scan - Len(todo) + i]
      BY <3>1, <3>2 DEF TodoInv
    <3> QED
      BY <2>3, <3>3 DEF TodoInv
  <2>4. CASE Replay
    <3>1. /\ todo' \in Seq(Entry) /\ Len(todo') = Len(todo) - 1
          /\ \A i \in 1 .. Len(todo') : todo'[i] = todo[i + 1]
      BY <2>0, <2>4, HeadTailProperties DEF Replay
    <3>2. Len(todo') <= scan
      BY <3>1, <2>0 DEF TodoInv
    <3>3. ASSUME NEW i \in 1 .. Len(todo')
          PROVE  todo'[i] = log[scan - Len(todo') + i]
      <4>1. i + 1 \in 1 .. Len(todo)
            /\ scan - Len(todo) + (i + 1) = scan - Len(todo') + i
        BY <3>1, <2>0
      <4>2. todo[i + 1] = log[scan - Len(todo) + (i + 1)]
        BY <4>1 DEF TodoInv
      <4> QED
        BY <3>1, <4>1, <4>2
    <3> QED
      BY <2>4, <3>2, <3>3 DEF TodoInv, Replay
  <2>5. CASE Die
    BY <2>0, <2>5 DEF Die, TodoInv
  <2>6. ASSUME NEW entry \in Entry, Call(entry)
        PROVE  TodoInv'
    BY <2>6, <2>1, <2>2 DEF Call
  <2>7. ASSUME NEW entry \in Entry, OtherRecords(entry)
        PROVE  TodoInv'
    BY <2>7, <2>3 DEF OtherRecords
  <2>8. CASE Record
    <3>1. req \in Entry /\ req.path \in Paths
      BY <2>8, EntryFields DEF Record, TypeOK
    <3>2. tree'.head # NoDir
      <4>1. req.path[1] \in Names
        BY <3>1, PathsAreSequences
      <4>2. tree'.head = IF tree.head = NoDir THEN req.path[1] ELSE tree.head
        BY <2>8 DEF Record, AddToTree, AddDirectory
      <4> QED
        BY <4>1, <4>2, NoDirAssumption
    <3> QED
      BY <2>8, <3>1, <3>2, <2>3 DEF Record
  <2>9. CASE End
    BY <2>9, <2>2 DEF End
  <2>10. CASE Replayed \/ Dump \/ UNCHANGED vars
    BY <2>10, <2>1 DEF Replayed, Dump, vars
  <2> QED
    BY <2>4, <2>5, <2>6, <2>7, <2>8, <2>9, <2>10 DEF Next
<1>3. Spec => []TypeOK
  BY TypeHolds
<1> QED
  BY <1>1, <1>2, <1>3, PTL DEF Spec

\* The nodes of the tree implement the map: what is recorded or replayed for a
\* file is shown at that file and at no other.
THEOREM TreeIsMap == ProperPaths => (Spec => MapsFiles)
<1> SUFFICES ASSUME ProperPaths
             PROVE  Spec => MapsFiles
  OBVIOUS
<1>1. Init => Map!MapInit
  <2> SUFFICES ASSUME Init
               PROVE  Map!MapInit
    OBVIOUS
  <2>1. Journal = <<>>
    BY DEF Init, Journal
  <2>2. Shown = [path \in Paths |-> <<>>]
    BY NothingShows DEF Init, Shown
  <2>3. scan - Len(todo) = 0
    <3>1. scan = 0
      BY DEF Init
    <3>2. Len(todo) = 0
      BY EmptySeq DEF Init
    <3>3. scan \in Nat /\ Len(todo) \in Nat
      BY <3>1, <3>2
    <3> QED
      BY <3>1, <3>2, <3>3
  <2> QED
    BY <2>1, <2>2, <2>3 DEF Map!MapInit, Map!Empty, Journal, Shown, Seen
<1>2. TypeOK /\ TodoInv /\ [Next]_vars => [Map!MapNext]_(Map!mapVars)
  <2> SUFFICES ASSUME TypeOK, TodoInv, [Next]_vars
               PROVE  [Map!MapNext]_(Map!mapVars)
    OBVIOUS
  <2>1. ASSUME UNCHANGED <<log, tree>>,
               scan' - Len(todo') = scan - Len(todo)
        PROVE  UNCHANGED Map!mapVars
    BY <2>1 DEF Map!mapVars
  <2>2. ASSUME tree' = NoTree, scan' - Len(todo') = 0, UNCHANGED log
        PROVE  Map!Forgotten
    <3>1. Journal' = Journal /\ Shown' = [path \in Paths |-> <<>>]
      BY <2>2, NothingShows DEF Journal, Shown
    <3> QED
      BY <2>2, <3>1 DEF Map!Forgotten, Map!Empty, Journal, Shown, Seen
  <2>3. CASE Replay
    <3> DEFINE i == scan - Len(todo) + 1
    <3>1. /\ todo \in Seq(Entry) /\ todo # <<>>
          /\ Len(todo) \in Nat \ {0} /\ Len(log) \in Nat
          /\ scan \in 0 .. Len(log)
      BY <2>3, LenProperties, EmptySeq DEF Replay, TypeOK
    <3>2. i \in 1 .. Len(log) /\ Head(todo) = log[i]
      <4>1. Head(todo) = todo[1] /\ 1 \in 1 .. Len(todo)
        BY <3>1
      <4> QED
        BY <3>1, <4>1 DEF TodoInv
    <3>3. Head(todo) \in Entry
      BY <3>1, HeadTailProperties
    <3> HIDE DEF i
    <3>4. /\ Shown' = [Shown EXCEPT ![log[i].path] = Append(@, Seen(log[i]).op)]
          /\ Journal' = Journal
      BY <2>3, <3>2, <3>3, TreeShows DEF Replay, Journal, TypeOK
    <3>5. Journal[i].file = log[i].path /\ Journal[i].op = Seen(log[i]).op
          /\ DOMAIN Journal = 1 .. Len(log)
      BY <3>2 DEF Journal, Seen
    <3>6. Len(Journal) = Len(log)
      BY <3>1, <3>5
    <3>7. scan' - Len(todo') = i /\ scan - Len(todo) = i - 1
      BY <2>3, <3>1, HeadTailProperties DEF Replay, i
    <3>8. i \in Nat /\ i - 1 < Len(log) /\ i = i - 1 + 1
      BY <3>2, <3>1
    <3>9. Map!Recalled
      BY <3>4, <3>5, <3>6, <3>7, <3>8
         DEF Map!Recalled, Map!Shows, Journal, Shown, Seen
    <3> QED
      BY <3>9 DEF Map!MapNext
  <2>4. CASE Record
    <3>1. req \in Entry /\ log \in Seq(Entry)
      BY <2>4 DEF Record, TypeOK
    <3>2. req.path \in Paths /\ Letter(req.type) \in Letters
      BY <3>1, EntryFields, LetterIsLetter
    <3>3. Journal' = Append(Journal, Seen(req))
      BY <2>4, <3>1, LogAppended DEF Record
    <3>4. Shown' = [Shown EXCEPT ![req.path] = Append(@, Seen(req).op)]
      BY <2>4, <3>1, TreeShows DEF Record, TypeOK
    <3>5. ASSUME NEW file \in Paths, NEW op \in Letters,
                 file = req.path, op = Letter(req.type)
          PROVE  Map!MapNext
      <4>1. Map!Recorded(file, op)
        BY <2>4, <3>3, <3>4, <3>5
           DEF Record, Map!Recorded, Map!Journals, Map!Shows, Journal, Shown,
               Seen
      <4> QED
        BY <4>1 DEF Map!MapNext
    <3> QED
      BY <3>2, <3>5
  <2>5. ASSUME NEW entry \in Entry, OtherRecords(entry)
        PROVE  [Map!MapNext]_(Map!mapVars)
    <3>1. entry.path \in Paths /\ Letter(entry.type) \in Letters
      BY EntryFields, LetterIsLetter
    <3>2. Journal' = Append(Journal, Seen(entry)) /\ Shown' = Shown
      BY <2>5, LogAppended DEF OtherRecords, TypeOK, Shown
    <3>3. Map!RecordedElsewhere(entry.path, Letter(entry.type))
      BY <2>5, <3>2 DEF OtherRecords, Map!RecordedElsewhere, Map!Journals,
                        Journal, Shown, Seen
    <3> QED
      BY <3>1, <3>3 DEF Map!MapNext
  <2>6. CASE End \/ Die
    <3>1. scan' - Len(todo') = 0
      <4>1. Len(log) \in Nat
        BY LenProperties DEF TypeOK
      <4> QED
        BY <2>6, <4>1, EmptySeq DEF End, Die, ReadJournal
    <3> QED
      BY <2>6, <3>1, <2>2 DEF End, Die, Map!MapNext
  <2>7. ASSUME NEW entry \in Entry, Call(entry)
        PROVE  UNCHANGED Map!mapVars
    <3>1. scan' - Len(todo') = scan - Len(todo)
      <4>1. Len(log) \in Nat /\ Len(todo) \in Nat /\ scan \in Nat
        BY LenProperties DEF TypeOK
      <4> QED
        BY <2>7, <4>1 DEF Call, ReadJournal, TodoInv
    <3> QED
      BY <2>7, <3>1, <2>1 DEF Call
  <2>8. CASE Replayed \/ Dump \/ UNCHANGED vars
    BY <2>8, <2>1 DEF Replayed, Dump, vars
  <2> QED
    BY <2>3, <2>4, <2>5, <2>6, <2>7, <2>8 DEF Next
<1>3. Spec => []TypeOK
  BY TypeHolds
<1>4. Spec => []TodoInv
  BY TodoHolds
<1> QED
  BY <1>1, <1>2, <1>3, <1>4, PTL DEF Spec, MapsFiles, Map!MapSpec

-----------------------------------------------------------------------------
(* The dumped tree has the journal, path by path                           *)

LEMMA PositionsFinite ==
    ASSUME NEW entries, NEW path, NEW n \in Nat
    PROVE  /\ IsFiniteSet(Positions(entries, path, n))
           /\ Cardinality(Positions(entries, path, n)) \in Nat
<1>1. IsFiniteSet(1 .. n)
  BY FS_Interval
<1>2. Positions(entries, path, n) \subseteq 1 .. n
  BY DEF Positions
<1> QED
  BY <1>1, <1>2, FS_Subset, FS_CardinalityType

\* Positions up to one of them are among those up to a later one.
LEMMA RankInRange ==
    ASSUME NEW entries, NEW path, NEW n \in Nat,
           NEW i \in Positions(entries, path, n)
    PROVE  Cardinality(Positions(entries, path, i))
             \in 1 .. Cardinality(Positions(entries, path, n))
<1>1. i \in Nat /\ i <= n /\ i >= 1 /\ i \in Positions(entries, path, i)
  BY DEF Positions
<1>2. Positions(entries, path, i) \subseteq Positions(entries, path, n)
  BY <1>1 DEF Positions
<1>3. /\ IsFiniteSet(Positions(entries, path, i))
      /\ Cardinality(Positions(entries, path, i)) \in Nat
      /\ IsFiniteSet(Positions(entries, path, n))
      /\ Cardinality(Positions(entries, path, n)) \in Nat
  BY <1>1, PositionsFinite
<1>4. Cardinality(Positions(entries, path, i)) # 0
  BY <1>1, <1>3, FS_EmptySet
<1>5. Cardinality(Positions(entries, path, i))
        <= Cardinality(Positions(entries, path, n))
  BY <1>2, <1>3, FS_Subset
<1> QED
  BY <1>3, <1>4, <1>5

LEMMA PositionsNext ==
    ASSUME NEW entries, NEW path, NEW n \in Nat
    PROVE  Positions(entries, path, n + 1)
             = IF entries[n + 1].path = path
               THEN Positions(entries, path, n) \cup {n + 1}
               ELSE Positions(entries, path, n)
<1>1. 1 .. n + 1 = (1 .. n) \cup {n + 1}
  OBVIOUS
<1> QED
  BY <1>1 DEF Positions

\* An entry of another path tells nothing new of this one.
LEMMA TellsOther ==
    ASSUME NEW entries, NEW path, NEW n \in Nat, NEW operations,
           Tells(operations, entries, path, n), entries[n + 1].path # path
    PROVE  Tells(operations, entries, path, n + 1)
<1>1. Positions(entries, path, n + 1) = Positions(entries, path, n)
  BY PositionsNext
<1> QED
  BY <1>1 DEF Tells

\* An entry of this path tells one more operation, after the others.
LEMMA TellsNext ==
    ASSUME NEW entries, NEW n \in Nat, entries[n + 1] \in Entry,
           NEW operations \in Seq(Letters),
           Tells(operations, entries, entries[n + 1].path, n)
    PROVE  Tells(Append(operations, Letter(entries[n + 1].type)), entries,
                 entries[n + 1].path, n + 1)
<1> DEFINE path == entries[n + 1].path
           letter == Letter(entries[n + 1].type)
           before == Positions(entries, path, n)
<1>1. /\ letter \in Letters
      /\ letter = <<"R", "W", "A">>[entries[n + 1].type + 1]
  <2>1. entries[n + 1].type \in {0, 1, 2}
    BY DEF Entry, READ, WRITE, APPEND
  <2> QED
    BY <2>1 DEF Letter, Letters, READ, WRITE, APPEND
<1>2. /\ Len(Append(operations, letter)) = Len(operations) + 1
      /\ \A k \in 1 .. Len(operations) :
           Append(operations, letter)[k] = operations[k]
      /\ Append(operations, letter)[Len(operations) + 1] = letter
  BY <1>1, AppendProperties
<1>3. Positions(entries, path, n + 1) = before \cup {n + 1}
  BY PositionsNext
<1>4. n + 1 \notin before
  BY DEF Positions
<1>5. Cardinality(before \cup {n + 1}) = Len(operations) + 1
  <2>1. IsFiniteSet(before) /\ Cardinality(before) = Len(operations)
    BY PositionsFinite DEF Tells
  <2> HIDE DEF before
  <2> QED
    BY <1>4, <2>1, FS_AddElement
<1>6. ASSUME NEW i \in before
      PROVE  Append(operations, letter)[Cardinality(Positions(entries, path, i))]
               = <<"R", "W", "A">>[entries[i].type + 1]
  <2>1. Cardinality(Positions(entries, path, i)) \in 1 .. Len(operations)
    BY RankInRange DEF Tells
  <2>2. operations[Cardinality(Positions(entries, path, i))]
          = <<"R", "W", "A">>[entries[i].type + 1]
    BY DEF Tells
  <2> QED
    BY <1>2, <2>1, <2>2
<1> HIDE DEF path, letter, before
<1>7. Tells(Append(operations, letter), entries, path, n + 1)
  BY <1>1, <1>2, <1>3, <1>5, <1>6 DEF Tells, letter
<1> QED
  BY <1>7 DEF path, letter

\* File nodes are where their paths go.
Placed(t) ==
    \A place \in DOMAIN t.files : Place(t.files[place].absolute_path) = place

\* A tree that has the first n entries of a journal.
TreeTells(t, entries, n) ==
    /\ Placed(t)
    /\ \A place \in DOMAIN t.files :
         Tells(t.files[place].operations, entries,
               t.files[place].absolute_path, n)
    /\ Collected(t) = {entries[i].path : i \in 1 .. n}

LEMMA NoTreeCollects == Placed(NoTree) /\ Collected(NoTree) = {}
BY DEF Placed, NoTree, Collected

LEMMA NoTreeTells ==
    ASSUME NEW entries
    PROVE  TreeTells(NoTree, entries, 0)
<1>1. DOMAIN NoTree.files = {}
  BY DEF NoTree
<1>2. {entries[i].path : i \in 1 .. 0} = {}
  OBVIOUS
<1> QED
  BY <1>1, <1>2, NoTreeCollects DEF TreeTells

LEMMA PlacedNodes ==
    ASSUME NEW t, IsTree(t), Placed(t), NEW place \in DOMAIN t.files
    PROVE  /\ t.files[place] \in FileNode
           /\ t.files[place].absolute_path \in Paths
           /\ t.files[place].operations \in Seq(Letters)
           /\ Place(t.files[place].absolute_path) = place
BY DEF IsTree, FileNode, Placed

\* The node at the place of a path is that path's, before and after.
LEMMA AddDirectoryCollects ==
    ASSUME ProperPaths, NEW t, IsTree(t), Placed(t), NEW path \in Paths,
           NEW type
    PROVE  /\ Placed(AddDirectory(t, path, type))
           /\ Collected(AddDirectory(t, path, type)) = Collected(t) \cup {path}
           /\ Place(path) \in DOMAIN t.files
                => t.files[Place(path)].absolute_path = path
           /\ FileAfter(t, path, type).absolute_path = path
<1> DEFINE new == AddDirectory(t, path, type)
<1>1. /\ DOMAIN new.files = DOMAIN t.files \cup {Place(path)}
      /\ \A place \in DOMAIN new.files :
           new.files[place] = IF place = Place(path)
                              THEN FileAfter(t, path, type)
                              ELSE t.files[place]
  BY DEF AddDirectory
<1> HIDE DEF new
<1>2. Place(path) \in DOMAIN t.files
        => t.files[Place(path)].absolute_path = path
  BY PlacedNodes, PlacesApart
<1>3. FileAfter(t, path, type).absolute_path = path
  BY <1>2, PlacedNodes DEF FileAfter, FileNode
<1>4. Placed(new)
  BY <1>1, <1>3 DEF Placed
<1>5. Collected(new) = Collected(t) \cup {path}
  BY <1>1, <1>2, <1>3 DEF Collected
<1> QED
  BY <1>2, <1>3, <1>4, <1>5 DEF new

\* add_directory_to_tree tells the next entry of its path, and of no other.
LEMMA AddDirectoryTells ==
    ASSUME ProperPaths, NEW t, IsTree(t), NEW entries, NEW n \in Nat,
           TreeTells(t, entries, n), entries[n + 1] \in Entry
    PROVE  TreeTells(AddDirectory(t, entries[n + 1].path, entries[n + 1].type),
                     entries, n + 1)
<1> DEFINE path == entries[n + 1].path
           type == entries[n + 1].type
           new == AddDirectory(t, path, type)
<1>1. path \in Paths /\ Placed(t)
  BY EntryFields DEF TreeTells
<1>2. /\ DOMAIN new.files = DOMAIN t.files \cup {Place(path)}
      /\ \A place \in DOMAIN new.files :
           new.files[place] = IF place = Place(path)
                              THEN FileAfter(t, path, type)
                              ELSE t.files[place]
  BY DEF AddDirectory
<1>3. /\ Placed(new)
      /\ Collected(new) = Collected(t) \cup {path}
      /\ Place(path) \in DOMAIN t.files
           => t.files[Place(path)].absolute_path = path
      /\ FileAfter(t, path, type).absolute_path = path
  BY <1>1, AddDirectoryCollects
<1> HIDE DEF new
<1>4. Tells(FileAfter(t, path, type).operations, entries, path, n + 1)
  <2>1. CASE Place(path) \in DOMAIN t.files
    <3> DEFINE node == t.files[Place(path)]
    <3>1. /\ FileAfter(t, path, type).operations
               = Append(node.operations, Letter(type))
          /\ node.operations \in Seq(Letters)
      BY <1>1, <2>1, PlacedNodes DEF FileAfter, FileNode
    <3>2. Tells(node.operations, entries, path, n)
      BY <1>3, <2>1 DEF TreeTells
    <3>3. Tells(Append(node.operations, Letter(type)), entries, path, n + 1)
      BY <3>1, <3>2, TellsNext
    <3> QED
      BY <3>1, <3>3
  <2>2. CASE Place(path) \notin DOMAIN t.files
    <3>1. path \notin Collected(t)
      BY <1>1, <2>2, PlacedNodes DEF Collected
    <3>2. Positions(entries, path, n) = {}
      BY <3>1 DEF TreeTells, Positions
    <3>3. <<>> \in Seq(Letters) /\ Tells(<<>>, entries, path, n)
      BY <3>2, FS_EmptySet DEF Tells
    <3>4. Tells(Append(<<>>, Letter(type)), entries, path, n + 1)
      BY <3>3, TellsNext
    <3>5. Append(<<>>, Letter(type)) = <<Letter(type)>>
      OBVIOUS
    <3> QED
      BY <2>2, <3>4, <3>5 DEF FileAfter
  <2> QED
    BY <2>1, <2>2
<1>5. ASSUME NEW place \in DOMAIN new.files
      PROVE  Tells(new.files[place].operations, entries,
                   new.files[place].absolute_path, n + 1)
  <2>1. CASE place = Place(path)
    BY <1>2, <1>3, <1>4, <2>1
  <2>2. CASE place # Place(path)
    <3>1. place \in DOMAIN t.files /\ new.files[place] = t.files[place]
      BY <1>2, <2>2
    <3>2. t.files[place].absolute_path # path
      BY <1>1, <2>2, <3>1, PlacedNodes
    <3>3. Tells(t.files[place].operations, entries,
                t.files[place].absolute_path, n)
      BY <3>1 DEF TreeTells
    <3> QED
      BY <3>1, <3>2, <3>3, TellsOther
  <2> QED
    BY <2>1, <2>2
<1>6. Collected(new) = {entries[i].path : i \in 1 .. n + 1}
  <2>1. 1 .. n + 1 = (1 .. n) \cup {n + 1}
    OBVIOUS
  <2> QED
    BY <1>3, <2>1 DEF TreeTells
<1>7. TreeTells(new, entries, n + 1)
  BY <1>3, <1>5, <1>6 DEF TreeTells
<1> QED
  BY <1>7 DEF new

\* What other processes append does not matter.
LEMMA TellsStill ==
    ASSUME NEW t, NEW entries, NEW more, NEW n \in Nat,
           \A i \in 1 .. n : more[i] = entries[i], TreeTells(t, entries, n)
    PROVE  TreeTells(t, more, n)
<1>1. \A path : \A k \in 0 .. n :
        Positions(more, path, k) = Positions(entries, path, k)
  BY DEF Positions
<1>2. \A path : \A i \in Positions(entries, path, n) : i \in 0 .. n /\ i \in 1 .. n
  BY DEF Positions
<1>3. ASSUME NEW path, NEW operations, Tells(operations, entries, path, n)
      PROVE  Tells(operations, more, path, n)
  BY <1>1, <1>2, <1>3 DEF Tells
<1> QED
  BY <1>3 DEF TreeTells

\* What end() has rebuilt, and what was dumped, tells the journal so far.
JsonInv ==
    /\ TreeTells(json.tree, log, json.upto)
    /\ pc \in {"replay", "dump"} /\ req = NoReq
         => TreeTells(tree, log, scan - Len(todo))
    /\ pc = "dump" => todo = <<>> /\ req = NoReq

LEMMA JsonTells ==
    ASSUME ProperPaths, TypeOK, TodoInv, JsonInv, [Next]_vars
    PROVE  JsonInv'
<1>0. /\ log \in Seq(Entry) /\ todo \in Seq(Entry) /\ IsTree(tree)
      /\ Len(log) \in Nat /\ Len(todo) \in Nat
      /\ scan \in Nat /\ scan <= Len(log)
      /\ json.upto \in Nat /\ json.upto <= Len(log)
      /\ scan - Len(todo) \in Nat
  BY LenProperties DEF TypeOK, TodoInv
<1>1. ASSUME NEW entry \in Entry, log' = Append(log, entry)
      PROVE  /\ TreeTells(json.tree, log', json.upto)
             /\ TreeTells(tree, log, scan - Len(todo))
                  => TreeTells(tree, log', scan - Len(todo))
  <2>1. \A i \in 1 .. Len(log) : log'[i] = log[i]
    BY <1>0, <1>1, AppendProperties
  <2>2. /\ \A i \in 1 .. json.upto : log'[i] = log[i]
        /\ \A i \in 1 .. scan - Len(todo) : log'[i] = log[i]
    BY <1>0, <2>1
  <2> QED
    BY <1>0, <2>2, TellsStill DEF JsonInv
<1>2. \A entry \in Entry : entry # NoReq
  BY PathsAssumption DEF Entry, NoReq
<1>3. ASSUME NEW entry \in Entry, Call(entry) PROVE JsonInv'
  BY <1>2, <1>3 DEF Call, ReadJournal, JsonInv
<1>4. ASSUME NEW entry \in Entry, OtherRecords(entry) PROVE JsonInv'
  BY <1>1, <1>4 DEF OtherRecords, JsonInv
<1>5. CASE End
  <2>1. TreeTells(NoTree, log, 0)
    BY NoTreeTells
  <2>2. scan' - Len(todo') = 0
    BY <1>0, <1>5 DEF End, ReadJournal
  <2> QED
    BY <1>5, <2>1, <2>2 DEF End, ReadJournal, JsonInv
<1>6. CASE Replay
  <2> DEFINE n == scan - Len(todo)
  <2>1. todo # <<>> /\ pc = "replay"
    BY <1>6 DEF Replay
  <2>2. /\ n \in Nat /\ Head(todo) = log[n + 1] /\ log[n + 1] \in Entry
        /\ scan' - Len(todo') = n + 1
    <3>1. Head(todo) = todo[1] /\ 1 \in 1 .. Len(todo)
          /\ Head(todo) \in Entry /\ Len(Tail(todo)) = Len(todo) - 1
      BY <1>0, <2>1
    <3>2. todo[1] = log[n + 1]
      BY <3>1 DEF TodoInv
    <3> QED
      BY <1>0, <1>6, <3>1, <3>2 DEF Replay
  <2> HIDE DEF n
  <2>3. TreeTells(tree, log, n)
          => TreeTells(AddDirectory(tree, log[n + 1].path, log[n + 1].type),
                       log, n + 1)
    BY <1>0, <2>2, AddDirectoryTells
  <2>4. /\ tree' = AddDirectory(tree, log[n + 1].path, log[n + 1].type)
        /\ UNCHANGED <<log, req, pc, json>>
    BY <1>6, <2>2 DEF Replay, AddToTree
  <2> QED
    BY <2>1, <2>2, <2>3, <2>4 DEF JsonInv, n
<1>7. CASE Replayed
  BY <1>7 DEF Replayed, JsonInv
<1>8. CASE Record
  <2>1. req \in Entry /\ log' = Append(log, req) /\ pc' = "idle"
        /\ UNCHANGED json
    BY <1>8 DEF Record, TypeOK
  <2> QED
    BY <1>1, <2>1 DEF JsonInv
<1>9. CASE Dump
  <2>1. todo = <<>> /\ TreeTells(tree, log, scan - Len(todo))
    BY <1>9 DEF Dump, JsonInv
  <2>2. scan - Len(todo) = scan
    BY <1>0, <2>1
  <2> QED
    BY <1>9, <2>1, <2>2 DEF Dump, JsonInv
<1>10. CASE Die
  BY <1>10 DEF Die, JsonInv
<1>11. CASE UNCHANGED vars
  BY <1>11 DEF vars, JsonInv
<1> QED
  BY <1>3, <1>4, <1>5, <1>6, <1>7, <1>8, <1>9, <1>10, <1>11 DEF Next

\* The published tree has the paths journalled up to its scan and no others,
\* and for each its operations in the order of the journal, if no path has its
\* file's name before its end.
THEOREM JsonIsJournal == ProperPaths => (Spec => []JsonVerified)
<1> SUFFICES ASSUME ProperPaths
             PROVE  Spec => []JsonVerified
  OBVIOUS
<1>1. Init => JsonInv
  BY NoTreeTells DEF Init, JsonInv
<1>2. TypeOK /\ TodoInv /\ JsonInv /\ [Next]_vars => JsonInv'
  BY JsonTells
<1>3. JsonInv => JsonVerified
  BY DEF JsonInv, TreeTells, JsonVerified
<1>4. Spec => []TypeOK
  BY TypeHolds
<1>5. Spec => []TodoInv
  BY TodoHolds
<1> QED
  BY <1>1, <1>2, <1>3, <1>4, <1>5, PTL DEF Spec

-----------------------------------------------------------------------------
(* The tree that is built from the JSON text                               *)

LEMMA NatMin ==
    ASSUME NEW S \in SUBSET Nat, S # {}
    PROVE  \E m \in S : \A n \in S : m <= n
<1>1. PICK m \in S : \A n \in S : ~(<<n, m>> \in OpToRel(<, Nat))
  BY NatLessThanWellFounded, WFMin, Zenon
<1>2. \A n \in S : ~(n < m)
  <2>1. \A n \in S : <<n, m>> \in Nat \X Nat
    OBVIOUS
  <2> QED
    BY <1>1, <2>1 DEF OpToRel
<1> QED
  BY <1>2

\* The fold of construct_tree over sets of paths, by what it says of one set.
Chosen(s) == CHOOSE path \in s : TRUE

Built(trees, s) ==
    IF s = {} THEN NoTree
              ELSE AddDirectory(trees[s \ {Chosen(s)}], Chosen(s), -1)

Trees(S) == CHOOSE trees : trees = [s \in SUBSET S |-> Built(trees, s)]

LEMMA ReconstructedFold ==
    ASSUME NEW t
    PROVE  Reconstructed(t) = Trees(Collected(t))[Collected(t)]
BY DEF Reconstructed, FoldSet, MapThenFoldSet, Trees, Built, Chosen

\* Less than all of a finite set.
LEMMA OneLess ==
    ASSUME NEW S, IsFiniteSet(S), NEW s \in SUBSET S, s # {}
    PROVE  /\ Chosen(s) \in s /\ s \ {Chosen(s)} \in SUBSET S
           /\ Cardinality(s) \in Nat /\ Cardinality(s \ {Chosen(s)}) \in Nat
           /\ Cardinality(s \ {Chosen(s)}) = Cardinality(s) - 1
<1>1. Chosen(s) \in s
  BY DEF Chosen
<1>2. IsFiniteSet(s)
  BY FS_Subset
<1> QED
  BY <1>1, <1>2, FS_RemoveElement, FS_CardinalityType

\* Folds exist: those over sets of up to n paths extend to n + 1.
LEMMA TreesExist ==
    ASSUME NEW S, IsFiniteSet(S)
    PROVE  Trees(S) = [s \in SUBSET S |-> Built(Trees(S), s)]
<1> DEFINE Upto(trees, n) ==
             \A s \in SUBSET S :
                Cardinality(s) <= n => trees[s] = Built(trees, s)
           Missing == {n \in Nat : ~\E trees : Upto(trees, n)}
<1>1. \A s \in SUBSET S : IsFiniteSet(s) /\ Cardinality(s) \in Nat
  BY FS_Subset, FS_CardinalityType
<1>2. Missing = {}
  <2> SUFFICES ASSUME Missing # {} PROVE FALSE
    OBVIOUS
  <2>1. PICK m \in Missing : \A n \in Missing : m <= n
    BY NatMin
  <2>2. m # 0
    <3> DEFINE none == [s \in SUBSET S |-> NoTree]
    <3>1. ASSUME NEW s \in SUBSET S, Cardinality(s) <= 0
          PROVE  none[s] = Built(none, s)
      <4>1. s = {}
        BY <1>1, <3>1, FS_EmptySet
      <4> QED
        BY <4>1 DEF Built
    <3>2. Upto(none, 0)
      BY <3>1
    <3> QED
      BY <3>2
  <2>3. m - 1 \in Nat /\ m - 1 \notin Missing
    BY <2>1, <2>2
  <2>4. PICK trees : Upto(trees, m - 1)
    BY <2>3
  <2> DEFINE more == [s \in SUBSET S |->
                        IF Cardinality(s) <= m - 1 THEN trees[s]
                                                   ELSE Built(trees, s)]
  <2>5. ASSUME NEW s \in SUBSET S, Cardinality(s) <= m
        PROVE  more[s] = Built(more, s)
    <3>1. more[s] = Built(trees, s)
      BY <2>4
    <3>2. CASE s = {}
      BY <3>1, <3>2 DEF Built
    <3>3. CASE s # {}
      <4>1. /\ s \ {Chosen(s)} \in SUBSET S
            /\ Cardinality(s \ {Chosen(s)}) <= m - 1
        BY <2>5, <3>3, OneLess
      <4>2. more[s \ {Chosen(s)}] = trees[s \ {Chosen(s)}]
        BY <4>1
      <4> HIDE DEF more
      <4> QED
        BY <3>1, <3>3, <4>2 DEF Built
    <3> QED
      BY <3>2, <3>3
  <2>6. Upto(more, m)
    BY <2>5
  <2> QED
    BY <2>6
<1>3. PICK trees : Upto(trees, Cardinality(S))
  <2>1. Cardinality(S) \in Nat
    BY FS_CardinalityType
  <2> QED
    BY <1>2, <2>1
<1> DEFINE fold == [s \in SUBSET S |-> trees[s]]
<1>4. ASSUME NEW s \in SUBSET S
      PROVE  fold[s] = Built(fold, s)
  <2>1. trees[s] = Built(trees, s)
    BY <1>3, FS_Subset
  <2>2. s # {} => s \ {Chosen(s)} \in SUBSET S
    OBVIOUS
  <2> QED
    BY <2>1, <2>2 DEF Built
<1>5. fold = [s \in SUBSET S |-> Built(fold, s)]
  BY <1>4
<1> HIDE DEF fold
<1> QED
  BY <1>5 DEF Trees

\* A tree that has the paths of a set, their directories and nothing else.
Restores(t, s) ==
    /\ t.dirs = UNION {Above(Place(path)[1]) : path \in s}
    /\ DOMAIN t.files = {Place(path) : path \in s}
    /\ \A path \in s : t.files[Place(path)] = [absolute_path |-> path,
                                               operations |-> <<"U">>]

LEMMA RestoresMore ==
    ASSUME ProperPaths, NEW s \in SUBSET Paths, NEW t, Restores(t, s),
           NEW path \in Paths, path \notin s
    PROVE  Restores(AddDirectory(t, path, -1), s \cup {path})
<1> DEFINE new == AddDirectory(t, path, -1)
<1>1. \A other \in s : Place(other) # Place(path)
  BY PlacesApart
<1>2. FileAfter(t, path, -1) = [absolute_path |-> path, operations |-> <<"U">>]
  <2>1. Letter(-1) = "U"
    BY DEF Letter, READ, WRITE, APPEND
  <2>2. Place(path) \notin DOMAIN t.files
    BY <1>1 DEF Restores
  <2> QED
    BY <2>1, <2>2 DEF FileAfter
<1>3. /\ new.dirs = t.dirs \cup {SubSeq(path, 1, k) : k \in 0 .. Stop(path) - 1}
      /\ DOMAIN new.files = DOMAIN t.files \cup {Place(path)}
      /\ \A place \in DOMAIN new.files :
           new.files[place] = IF place = Place(path)
                              THEN FileAfter(t, path, -1)
                              ELSE t.files[place]
  BY DEF AddDirectory
<1> HIDE DEF new
<1>4. new.dirs = UNION {Above(Place(p)[1]) : p \in s \cup {path}}
  <2>1. {SubSeq(path, 1, k) : k \in 0 .. Stop(path) - 1} = Above(Place(path)[1])
    BY AbovePlace
  <2> QED
    BY <1>3, <2>1 DEF Restores
<1>5. DOMAIN new.files = {Place(p) : p \in s \cup {path}}
  BY <1>3 DEF Restores
<1>6. ASSUME NEW p \in s \cup {path}
      PROVE  new.files[Place(p)] = [absolute_path |-> p, operations |-> <<"U">>]
  BY <1>1, <1>2, <1>3, <1>5 DEF Restores
<1> QED
  BY <1>4, <1>5, <1>6 DEF Restores, new

\* Each fold has the paths of its set: there is no smallest one that has not.
LEMMA TreesRestore ==
    ASSUME ProperPaths, NEW S \in SUBSET Paths, IsFiniteSet(S)
    PROVE  Restores(Trees(S)[S], S)
<1> DEFINE Bad == {s \in SUBSET S : ~Restores(Trees(S)[s], s)}
           Sizes == {Cardinality(s) : s \in Bad}
<1>1. \A s \in SUBSET S : Cardinality(s) \in Nat
  BY FS_Subset, FS_CardinalityType
<1>2. \A s \in SUBSET S : Trees(S)[s] = Built(Trees(S), s)
  BY TreesExist
<1>3. Bad = {}
  <2> SUFFICES ASSUME Bad # {} PROVE FALSE
    OBVIOUS
  <2>1. Sizes \in SUBSET Nat /\ Sizes # {}
    BY <1>1
  <2>2. PICK n \in Sizes : \A m \in Sizes : n <= m
    BY <2>1, NatMin
  <2>3. PICK s \in Bad : Cardinality(s) = n
    BY <2>2
  <2>4. CASE s = {}
    <3>1. Trees(S)[s] = NoTree
      BY <1>2, <2>3, <2>4 DEF Built
    <3>2. Restores(NoTree, {})
      BY DEF Restores, NoTree
    <3> QED
      BY <2>3, <2>4, <3>1, <3>2
  <2>5. CASE s # {}
    <3> DEFINE path == Chosen(s)
               less == s \ {path}
    <3>1. /\ path \in s /\ less \in SUBSET S
          /\ Cardinality(less) = Cardinality(s) - 1
      BY <2>3, <2>5, OneLess
    <3>2. less \notin Bad
      <4>1. Cardinality(less) < n
        BY <1>1, <2>3, <3>1
      <4>2. Cardinality(less) \in Nat /\ n \in Nat
        BY <1>1, <2>1, <2>2, <3>1
      <4> QED
        BY <2>2, <4>1, <4>2
    <3>3. Restores(Trees(S)[less], less)
      BY <3>1, <3>2
    <3>4. Trees(S)[s] = AddDirectory(Trees(S)[less], path, -1)
      BY <1>2, <2>3, <2>5 DEF Built
    <3>5. path \in Paths /\ less \in SUBSET Paths /\ path \notin less
          /\ less \cup {path} = s
      BY <3>1
    <3> HIDE DEF path, less
    <3>6. Restores(AddDirectory(Trees(S)[less], path, -1), s)
      BY <3>3, <3>5, RestoresMore
    <3> QED
      BY <2>3, <3>4, <3>6
  <2> QED
    BY <2>4, <2>5
<1> QED
  BY <1>3

\* What is in the tree can be collected: finitely many paths, each in place.
CollectInv == Placed(tree) /\ IsFiniteSet(Collected(tree))

LEMMA CollectKept ==
    ASSUME ProperPaths, TypeOK, CollectInv, [Next]_vars
    PROVE  CollectInv'
<1>1. ASSUME NEW entry \in Entry, AddToTree(entry)
      PROVE  CollectInv'
  <2>1. entry.path \in Paths /\ IsTree(tree)
    BY EntryFields DEF TypeOK
  <2>2. /\ Placed(tree')
        /\ Collected(tree') = Collected(tree) \cup {entry.path}
    BY <1>1, <2>1, AddDirectoryCollects DEF AddToTree, CollectInv
  <2>3. IsFiniteSet(Collected(tree) \cup {entry.path})
    BY FS_AddElement DEF CollectInv
  <2> QED
    BY <2>2, <2>3 DEF CollectInv
<1>2. ASSUME tree' = NoTree PROVE CollectInv'
  BY <1>2, NoTreeCollects, FS_EmptySet DEF CollectInv
<1>3. ASSUME UNCHANGED tree PROVE CollectInv'
  BY <1>3 DEF CollectInv
<1>4. CASE Replay
  <2>1. todo # <<>> /\ todo \in Seq(Entry)
    BY <1>4 DEF Replay, TypeOK
  <2>2. Head(todo) \in Entry
    BY <2>1
  <2> QED
    BY <1>1, <1>4, <2>2 DEF Replay
<1>5. CASE Record
  <2>1. req \in Entry
    BY <1>5 DEF Record, TypeOK
  <2> QED
    BY <1>1, <1>5, <2>1 DEF Record
<1>6. CASE End \/ Die
  BY <1>2, <1>6 DEF End, Die
<1>7. ASSUME NEW entry \in Entry, Call(entry) \/ OtherRecords(entry)
      PROVE  CollectInv'
  BY <1>3, <1>7 DEF Call, OtherRecords
<1>8. CASE Replayed \/ Dump \/ UNCHANGED vars
  BY <1>3, <1>8 DEF Replayed, Dump, vars
<1> QED
  BY <1>4, <1>5, <1>6, <1>7, <1>8 DEF Next

\* construct_tree gives a tree with the directories and the files of the one
\* whose paths were collected, each file with its path and none of its
\* operations, if no path has its file's name before its end.
THEOREM JsonRestoresTree == ProperPaths => (Spec => []JsonRestoresNodes)
<1> SUFFICES ASSUME ProperPaths
             PROVE  Spec => []JsonRestoresNodes
  OBVIOUS
<1>1. Init => CollectInv
  BY NoTreeCollects, FS_EmptySet DEF Init, CollectInv
<1>2. TypeOK /\ CollectInv /\ [Next]_vars => CollectInv'
  BY CollectKept
<1>3. TypeOK /\ CollectInv /\ NodesInPlace => JsonRestoresNodes
  <2> SUFFICES ASSUME TypeOK, CollectInv, NodesInPlace
               PROVE  JsonRestoresNodes
    OBVIOUS
  <2> DEFINE paths == Collected(tree)
             new == Reconstructed(tree)
  <2>1. IsTree(tree) /\ Placed(tree)
    BY DEF TypeOK, CollectInv
  <2>2. paths \in SUBSET Paths
    BY <2>1, PlacedNodes DEF Collected
  <2>3. Restores(new, paths)
    BY <2>2, TreesRestore, ReconstructedFold DEF CollectInv
  <2>4. DOMAIN tree.files = {Place(path) : path \in paths}
    BY <2>1 DEF Placed, Collected
  <2> HIDE DEF new, paths
  <2>5. DOMAIN new.files = DOMAIN tree.files
    BY <2>3, <2>4 DEF Restores
  <2>6. new.dirs = tree.dirs
    <3>1. UNION {Above(Place(path)[1]) : path \in paths}
            = UNION {Above(place[1]) : place \in DOMAIN tree.files}
      BY <2>4
    <3> QED
      BY <2>3, <3>1 DEF Restores, NodesInPlace
  <2>7. ASSUME NEW place \in DOMAIN new.files
        PROVE  /\ new.files[place].absolute_path
                    = tree.files[place].absolute_path
               /\ new.files[place].operations = <<"U">>
    <3>1. PICK path \in paths : place = Place(path)
      BY <2>4, <2>5
    <3>2. new.files[place] = [absolute_path |-> path, operations |-> <<"U">>]
      BY <2>3, <3>1 DEF Restores
    <3>3. PICK other \in DOMAIN tree.files :
             path = tree.files[other].absolute_path
      BY <3>1 DEF paths, Collected
    <3>4. other = place
      BY <2>1, <3>1, <3>3 DEF Placed
    <3> QED
      BY <3>2, <3>3, <3>4
  <2> QED
    BY <2>5, <2>6, <2>7 DEF JsonRestoresNodes, new
<1>4. Spec => []TypeOK
  BY TypeHolds
<1>5. Spec => []NodesInPlace
  BY FilesInPlace
<1> QED
  BY <1>1, <1>2, <1>3, <1>4, <1>5, PTL DEF Spec

-----------------------------------------------------------------------------
(* The text of the journal reads back                                      *)

\* The step of Split, and its fold over the positions of a sequence.
Fed(parts, c, separator, merged) ==
    IF c # separator
    THEN [parts EXCEPT ![Len(parts)] = Append(@, c)]
    ELSE IF merged /\ Last(parts) = <<>> THEN parts ELSE Append(parts, <<>>)

Folded(folds, s, chars, separator, merged) ==
    IF s = {} THEN << <<>> >>
              ELSE Fed(folds[s \ {Max(s)}], chars[Max(s)], separator, merged)

Splits(chars, separator, merged) ==
    CHOOSE folds : folds = [s \in SUBSET DOMAIN chars |->
                              Folded(folds, s, chars, separator, merged)]

LEMMA SplitFold ==
    ASSUME NEW chars, NEW separator, NEW merged
    PROVE  Split(chars, separator, merged)
             = Splits(chars, separator, merged)[DOMAIN chars]
BY DEF Split, FoldLeft, MapThenFoldSet, Splits, Folded, Fed

LEMMA MaxOfRange ==
    ASSUME NEW n \in Nat
    PROVE  /\ Max(1 .. n + 1) = n + 1
           /\ (1 .. n + 1) \ {n + 1} = 1 .. n
<1>1. n + 1 \in 1 .. n + 1 /\ \A i \in 1 .. n + 1 : n + 1 >= i
  OBVIOUS
<1>2. \A x \in 1 .. n + 1 : (\A i \in 1 .. n + 1 : x >= i) => x = n + 1
  OBVIOUS
<1> QED
  BY <1>1, <1>2 DEF Max

LEMMA RangeIsFinite ==
    ASSUME NEW n \in Nat, NEW s \in SUBSET (1 .. n)
    PROVE  IsFiniteSet(s) /\ Cardinality(s) \in Nat /\ Cardinality(s) <= n
<1>1. 1 \in Int /\ n \in Int
  OBVIOUS
<1>2. IsFiniteSet(1 .. n) /\ Cardinality(1 .. n) = n
  BY <1>1, FS_Interval
<1>3. IsFiniteSet(s) /\ Cardinality(s) <= Cardinality(1 .. n)
  BY <1>2, FS_Subset
<1> QED
  BY <1>2, <1>3, FS_CardinalityType

LEMMA MaxIsIn ==
    ASSUME NEW n \in Nat, NEW s \in SUBSET (1 .. n), s # {}
    PROVE  /\ Max(s) \in s /\ s \ {Max(s)} \in SUBSET (1 .. n)
           /\ Cardinality(s) \in Nat /\ Cardinality(s \ {Max(s)}) \in Nat
           /\ Cardinality(s \ {Max(s)}) = Cardinality(s) - 1
<1> DEFINE Below == {n - x : x \in s}
<1>1. Below \in SUBSET Nat /\ Below # {}
  <2>1. \A x \in s : n - x \in Nat
    OBVIOUS
  <2> QED
    BY <2>1
<1>2. PICK m \in Below : \A k \in Below : m <= k
  BY <1>1, NatMin
<1>3. PICK x \in s : m = n - x
  BY <1>2
<1>4. \A y \in s : x >= y
  <2>1. \A y \in s : n - x <= n - y
    BY <1>2, <1>3
  <2> QED
    BY <2>1
<1>5. Max(s) \in s
  BY <1>4 DEF Max
<1>6. IsFiniteSet(s)
  BY RangeIsFinite
<1> QED
  BY <1>5, <1>6, FS_RemoveElement, FS_CardinalityType

LEMMA SplitsExist ==
    ASSUME NEW n \in Nat, NEW chars, DOMAIN chars = 1 .. n, NEW separator,
           NEW merged
    PROVE  \A s \in SUBSET DOMAIN chars :
             Splits(chars, separator, merged)[s]
               = Folded(Splits(chars, separator, merged), s, chars, separator,
                        merged)
<1> DEFINE S == SUBSET (1 .. n)
           F(folds, s) == Folded(folds, s, chars, separator, merged)
           Upto(folds, k) == \A s \in S : Cardinality(s) <= k => folds[s] = F(folds, s)
           Missing == {k \in Nat : ~\E folds : Upto(folds, k)}
<1>1. \A s \in S : IsFiniteSet(s) /\ Cardinality(s) \in Nat
  BY RangeIsFinite
<1>2. Missing = {}
  <2> SUFFICES ASSUME Missing # {} PROVE FALSE
    OBVIOUS
  <2>1. PICK m \in Missing : \A k \in Missing : m <= k
    BY NatMin
  <2>2. m # 0
    <3> DEFINE none == [s \in S |-> << <<>> >>]
    <3>1. ASSUME NEW s \in S, Cardinality(s) <= 0
          PROVE  none[s] = F(none, s)
      <4>1. IsFiniteSet(s) /\ Cardinality(s) = 0
        <5> HIDE DEF none
        <5>1. IsFiniteSet(s) /\ Cardinality(s) \in Nat
          BY <1>1
        <5> QED
          BY <3>1, <5>1
      <4>2. s = {}
        BY <4>1, FS_EmptySet
      <4> QED
        BY <4>2 DEF Folded
    <3>2. Upto(none, 0)
      BY <3>1
    <3> QED
      BY <3>2
  <2>3. m - 1 \in Nat /\ m - 1 \notin Missing
    <3>1. m \in Nat
      OBVIOUS
    <3>2. m - 1 \in Nat /\ ~(m <= m - 1)
      BY <2>2, <3>1
    <3> QED
      BY <2>1, <3>2
  <2>4. PICK folds : Upto(folds, m - 1)
    BY <2>3
  <2> DEFINE more == [s \in S |-> IF Cardinality(s) <= m - 1 THEN folds[s]
                                                             ELSE F(folds, s)]
  <2>5. ASSUME NEW s \in S, Cardinality(s) <= m
        PROVE  more[s] = F(more, s)
    <3>1. more[s] = F(folds, s)
      BY <2>4
    <3>2. CASE s = {}
      BY <3>1, <3>2 DEF Folded
    <3>3. CASE s # {}
      <4>1. s \ {Max(s)} \in S /\ Cardinality(s \ {Max(s)}) <= m - 1
        BY <2>5, <3>3, MaxIsIn
      <4>2. more[s \ {Max(s)}] = folds[s \ {Max(s)}]
        BY <4>1
      <4> HIDE DEF more
      <4> QED
        BY <3>1, <3>3, <4>2 DEF Folded
    <3> QED
      BY <3>2, <3>3
  <2>6. Upto(more, m)
    BY <2>5
  <2> QED
    BY <2>6
<1>3. PICK folds : Upto(folds, n)
  BY <1>2
<1> DEFINE fold == [s \in S |-> folds[s]]
<1>4. ASSUME NEW s \in S
      PROVE  fold[s] = F(fold, s)
  <2>1. Cardinality(s) <= n
    BY RangeIsFinite
  <2>2. folds[s] = F(folds, s)
    BY <1>3, <2>1
  <2>3. CASE s = {}
    BY <2>2, <2>3 DEF Folded
  <2>4. CASE s # {}
    <3>1. s \ {Max(s)} \in S
      BY <2>4, MaxIsIn
    <3>2. fold[s] = folds[s] /\ fold[s \ {Max(s)}] = folds[s \ {Max(s)}]
      BY <3>1
    <3> HIDE DEF fold
    <3> QED
      BY <2>2, <2>4, <3>2 DEF Folded
  <2> QED
    BY <2>3, <2>4
<1>5. fold = [s \in S |-> F(fold, s)]
  BY <1>4
<1> HIDE DEF fold
<1>6. Splits(chars, separator, merged)
        = [s \in S |-> F(Splits(chars, separator, merged), s)]
  BY <1>5 DEF Splits
<1> HIDE DEF F
<1>7. ASSUME NEW s \in S
      PROVE  Splits(chars, separator, merged)[s]
               = F(Splits(chars, separator, merged), s)
  BY <1>6
<1> QED
  BY <1>7 DEF F

\* Split of no characters, and of one more.
LEMMA SplitEmpty ==
    ASSUME NEW separator, NEW merged
    PROVE  Split(<<>>, separator, merged) = << <<>> >>
<1>1. DOMAIN <<>> = 1 .. 0 /\ 1 .. 0 = {}
  OBVIOUS
<1>2. \A s \in SUBSET DOMAIN <<>> :
        Splits(<<>>, separator, merged)[s]
          = Folded(Splits(<<>>, separator, merged), s, <<>>, separator, merged)
  BY <1>1, SplitsExist
<1> QED
  BY <1>1, <1>2, SplitFold DEF Folded

LEMMA SplitNext ==
    ASSUME NEW C, NEW chars \in Seq(C), NEW c \in C, NEW separator, NEW merged
    PROVE  Split(Append(chars, c), separator, merged)
             = Fed(Split(chars, separator, merged), c, separator, merged)
<1> DEFINE more == Append(chars, c)
           n == Len(chars)
           A == Splits(chars, separator, merged)
           B == Splits(more, separator, merged)
           Apart == {k \in 0 .. n : A[1 .. k] # B[1 .. k]}
<1>1. /\ n \in Nat /\ DOMAIN chars = 1 .. n
      /\ more \in Seq(C) /\ DOMAIN more = 1 .. n + 1
      /\ \A i \in 1 .. n : more[i] = chars[i]
      /\ more[n + 1] = c
  BY AppendProperties, LenProperties
<1>2. \A s \in SUBSET (1 .. n) :
        A[s] = Folded(A, s, chars, separator, merged)
  <2> HIDE DEF more, n
  <2> QED
    BY <1>1, SplitsExist
<1>3. \A s \in SUBSET (1 .. n + 1) :
        B[s] = Folded(B, s, more, separator, merged)
  <2>1. n + 1 \in Nat
    BY <1>1
  <2> HIDE DEF more
  <2> QED
    BY <1>1, <2>1, SplitsExist
<1>4. Split(chars, separator, merged) = A[1 .. n]
      /\ Split(more, separator, merged) = B[1 .. n + 1]
  BY <1>1, SplitFold
<1> HIDE DEF A, B, more
<1>5. Apart = {}
  <2> SUFFICES ASSUME Apart # {} PROVE FALSE
    OBVIOUS
  <2>1. PICK k \in Apart : \A j \in Apart : k <= j
    <3>1. Apart \in SUBSET Nat
      BY <1>1
    <3> QED
      BY <3>1, NatMin
  <2>2. CASE k = 0
    <3>1. 1 .. k = {}
      BY <2>2
    <3> QED
      BY <1>2, <1>3, <2>1, <3>1 DEF Folded
  <2>3. CASE k # 0
    <3> DEFINE j == k - 1
    <3>1. j \in Nat /\ j + 1 = k /\ j \in 0 .. n /\ j \notin Apart
      BY <1>1, <2>1, <2>3
    <3>2. A[1 .. j] = B[1 .. j]
      BY <3>1
    <3>3. Max(1 .. k) = k /\ (1 .. k) \ {k} = 1 .. j
      BY <3>1, MaxOfRange
    <3>4. /\ 1 .. k \in SUBSET (1 .. n) /\ 1 .. k \in SUBSET (1 .. n + 1)
          /\ 1 .. k # {} /\ k \in 1 .. n
      <4>1. k \in Nat /\ k <= n /\ k >= 1
        BY <1>1, <2>1, <2>3
      <4>2. k \in 1 .. n /\ k \in 1 .. k
        BY <1>1, <4>1
      <4>3. \A i \in 1 .. k : i \in 1 .. n /\ i \in 1 .. n + 1
        BY <1>1, <4>1
      <4> QED
        BY <4>2, <4>3
    <3> HIDE DEF j
    <3>5. /\ A[1 .. k] = Fed(A[1 .. j], chars[k], separator, merged)
          /\ B[1 .. k] = Fed(B[1 .. j], more[k], separator, merged)
      BY <1>2, <1>3, <3>3, <3>4 DEF Folded
    <3> QED
      BY <1>1, <2>1, <3>2, <3>4, <3>5
  <2> QED
    BY <2>2, <2>3
<1>6. A[1 .. n] = B[1 .. n]
  BY <1>1, <1>5
<1>7. B[1 .. n + 1] = Fed(B[1 .. n], c, separator, merged)
  <2>1. 1 .. n + 1 # {} /\ 1 .. n + 1 \in SUBSET (1 .. n + 1)
    BY <1>1
  <2>2. Max(1 .. n + 1) = n + 1 /\ (1 .. n + 1) \ {n + 1} = 1 .. n
    BY <1>1, MaxOfRange
  <2>3. B[1 .. n + 1] = Folded(B, 1 .. n + 1, more, separator, merged)
    BY <1>3, <2>1
  <2> HIDE DEF n
  <2> QED
    BY <1>1, <2>1, <2>2, <2>3 DEF Folded
<1> QED
  BY <1>4, <1>6, <1>7 DEF more

\* One element more, and one sequence after another: what the next lemmas say,
\* without Append and \o.
IsNext(longer, s, x) == longer = Append(s, x)
IsJoined(longer, s, t) == longer = s \o t

LEMMA SplitIsNext ==
    ASSUME NEW C, NEW chars \in Seq(C), NEW c \in C, NEW more,
           IsNext(more, chars, c), NEW separator, NEW merged
    PROVE  Split(more, separator, merged)
             = Fed(Split(chars, separator, merged), c, separator, merged)
<1>1. more = Append(chars, c)
  BY DEF IsNext
<1>2. Split(Append(chars, c), separator, merged)
        = Fed(Split(chars, separator, merged), c, separator, merged)
  BY SplitNext
<1> QED
  BY <1>1, <1>2

\* A character goes to the last piece.
LEMMA FedLast ==
    ASSUME NEW C, NEW front \in Seq(Seq(C)), NEW piece \in Seq(C), NEW c \in C,
           NEW parts, NEW more,
           NEW separator, c # separator, NEW merged,
           IsNext(parts, front, piece), IsNext(more, piece, c)
    PROVE  IsNext(Fed(parts, c, separator, merged), front, more)
<1>0. parts = Append(front, piece) /\ more = Append(piece, c)
  BY DEF IsNext
<1>1. /\ parts \in Seq(Seq(C)) /\ Len(parts) = Len(front) + 1
      /\ parts[Len(parts)] = piece /\ Len(parts) \in DOMAIN parts
      /\ \A i \in 1 .. Len(front) : parts[i] = front[i]
  BY <1>0, AppendProperties
<1>2. more \in Seq(C)
  BY <1>0, AppendProperties
<1>3. [parts EXCEPT ![Len(parts)] = more] = Append(front, more)
  <2> DEFINE left == [parts EXCEPT ![Len(parts)] = more]
             right == Append(front, more)
  <2>1. /\ left \in Seq(Seq(C)) /\ Len(left) = Len(front) + 1
        /\ \A i \in 1 .. Len(front) : left[i] = front[i]
        /\ left[Len(front) + 1] = more
    BY <1>1, <1>2, ExceptSeq, LenProperties
  <2>2. /\ right \in Seq(Seq(C)) /\ Len(right) = Len(front) + 1
        /\ \A i \in 1 .. Len(front) : right[i] = front[i]
        /\ right[Len(front) + 1] = more
    BY <1>2, AppendProperties
  <2> HIDE DEF left, right
  <2>3. \A i \in 1 .. Len(front) + 1 : left[i] = right[i]
    <3>1. Len(front) \in Nat
      BY LenProperties
    <3>2. \A i \in 1 .. Len(front) + 1 : i \in 1 .. Len(front) \/ i = Len(front) + 1
      BY <3>1
    <3> QED
      BY <2>1, <2>2, <3>2
  <2>4. left = right
    BY <2>1, <2>2, <2>3, SeqEqual
  <2> QED
    BY <2>4 DEF left, right
<1>4. Fed(parts, c, separator, merged) = [parts EXCEPT ![Len(parts)] = more]
  <2>1. Append(parts[Len(parts)], c) = more
    BY <1>0, <1>1
  <2> QED
    BY <2>1 DEF Fed
<1> QED
  BY <1>3, <1>4 DEF IsNext

LEMMA ConcatNext ==
    ASSUME NEW C, NEW s \in Seq(C), NEW t \in Seq(C), NEW c \in C
    PROVE  s \o Append(t, c) = Append(s \o t, c)
<1>1. Append(t, c) = t \o <<c>> /\ <<c>> \in Seq(C)
  BY AppendIsConcat
<1>2. s \o t \in Seq(C)
  BY ConcatProperties
<1>3. Append(s \o t, c) = (s \o t) \o <<c>>
  BY <1>2, AppendIsConcat
<1> QED
  BY <1>1, <1>3, ConcatAssociative

LEMMA CutNext ==
    ASSUME NEW C, NEW s \in Seq(C), NEW j \in Nat, j + 1 <= Len(s)
    PROVE  SubSeq(s, 1, j + 1) = Append(SubSeq(s, 1, j), s[j + 1])
OBVIOUS

\* Characters that are no separators go to the last piece.
LEMMA SplitPiece ==
    ASSUME NEW C, NEW chars \in Seq(C), NEW front \in Seq(Seq(C)),
           NEW piece \in Seq(C), NEW separator, NEW merged, NEW all,
           \A i \in 1 .. Len(piece) : piece[i] # separator,
           IsJoined(all, chars, piece),
           IsNext(Split(chars, separator, merged), front, <<>>)
    PROVE  IsNext(Split(all, separator, merged), front, piece)
<1>0. /\ all = chars \o piece
      /\ Split(chars, separator, merged) = Append(front, <<>>)
  BY DEF IsNext, IsJoined
<1> DEFINE Cut(k) == SubSeq(piece, 1, k)
           Bad == {k \in 0 .. Len(piece) :
                     Split(chars \o Cut(k), separator, merged)
                       # Append(front, Cut(k))}
<1>1. Len(piece) \in Nat
  BY LenProperties
<1>2. Bad = {}
  <2> SUFFICES ASSUME Bad # {} PROVE FALSE
    OBVIOUS
  <2>1. PICK k \in Bad : \A j \in Bad : k <= j
    <3>1. Bad \in SUBSET Nat
      BY <1>1
    <3> QED
      BY <3>1, NatMin
  <2>2. CASE k = 0
    <3>1. Cut(k) = <<>> /\ chars \o <<>> = chars
      BY <2>2
    <3> QED
      BY <1>0, <2>1, <3>1
  <2>3. CASE k # 0
    <3> DEFINE j == k - 1
    <3>1. /\ j \in Nat /\ j \in 0 .. Len(piece) /\ k \in 1 .. Len(piece)
          /\ k = j + 1 /\ ~(k <= j)
      BY <1>1, <2>1, <2>3
    <3>2. Split(chars \o Cut(j), separator, merged) = Append(front, Cut(j))
      BY <2>1, <3>1
    <3>3. ASSUME NEW before, before = Cut(j), NEW c, c = piece[k],
                 NEW old, old = chars \o before, NEW new, new = chars \o Cut(k)
          PROVE  Split(new, separator, merged) = Append(front, Cut(k))
      <4>1. before \in Seq(C) /\ c \in C /\ c # separator
        <5>1. Cut(j) \in Seq(C)
          BY <3>1
        <5>2. piece[k] \in C /\ piece[k] # separator
          BY <3>1, ElementOfSeq
        <5> QED
          BY <3>3, <5>1, <5>2
      <4>2. Cut(k) = Append(before, c)
        <5> HIDE DEF j
        <5>1. SubSeq(piece, 1, j + 1) = Append(SubSeq(piece, 1, j), piece[j + 1])
          BY <3>1, CutNext
        <5> QED
          BY <3>1, <3>3, <5>1
      <4>3. old \in Seq(C)
        BY <3>3, <4>1, ConcatProperties
      <4>4. chars \o Append(before, c) = Append(chars \o before, c)
        <5> HIDE DEF Bad, Cut, j
        <5> QED
          BY <4>1, ConcatNext
      <4>5. IsNext(Split(old, separator, merged), front, before)
        BY <3>2, <3>3 DEF IsNext
      <4>6. IsNext(Cut(k), before, c) /\ IsNext(new, old, c)
        <5> HIDE DEF Cut
        <5> QED
          BY <3>3, <4>2, <4>4 DEF IsNext
      <4> HIDE DEF Cut, j, Bad
      <4>7. Split(new, separator, merged)
              = Fed(Split(old, separator, merged), c, separator, merged)
        BY <4>1, <4>3, <4>6, SplitIsNext
      <4>8. IsNext(Split(new, separator, merged), front, Cut(k))
        BY <4>1, <4>5, <4>6, <4>7, FedLast
      <4> QED
        BY <4>8 DEF IsNext
    <3> QED
      BY <2>1, <3>3
  <2> QED
    BY <2>2, <2>3
<1>3. Split(chars \o Cut(Len(piece)), separator, merged)
        = Append(front, Cut(Len(piece)))
  BY <1>1, <1>2
<1>4. Cut(Len(piece)) = piece
  OBVIOUS
<1> QED
  BY <1>0, <1>3, <1>4 DEF IsNext

Chars == Names \cup {Bar, NewLine, "0", "1", "2"}

Digit(entry) == Digits[entry.type + 1]

\* A line without its newline.
Bare(entry) == Append(Append(entry.path, Bar), Digit(entry))

LEMMA DigitIsDigit ==
    ASSUME NEW entry \in Entry
    PROVE  /\ Digit(entry) \in {"0", "1", "2"} /\ Digit(entry) \in Chars
           /\ Digit(entry) # Bar /\ Digit(entry) # NewLine
           /\ Atoi(<<Digit(entry)>>) = entry.type
<1>1. entry.type \in {0, 1, 2}
  BY DEF Entry, READ, WRITE, APPEND
<1>2. DOMAIN Digits = {1, 2, 3} /\ Digits[1] = "0" /\ Digits[2] = "1"
      /\ Digits[3] = "2"
  BY DEF Digits
<1>3. Digit(entry) \in {"0", "1", "2"}
  BY <1>1, <1>2 DEF Digit
<1>4. \A d \in DOMAIN Digits : Digits[d] = Digit(entry) => d = entry.type + 1
  BY <1>1, <1>2 DEF Digit
<1>5. entry.type + 1 \in DOMAIN Digits
  BY <1>1, <1>2
<1>6. Head(<<Digit(entry)>>) = Digit(entry)
  OBVIOUS
<1>7. (CHOOSE d \in DOMAIN Digits : Digits[d] = Digit(entry)) = entry.type + 1
  BY <1>4, <1>5 DEF Digit
<1>8. Atoi(<<Digit(entry)>>) = entry.type
  <2> DEFINE field == <<Digit(entry)>>
  <2>1. Head(field) = Digit(entry)
    BY <1>6
  <2>2. Digits[entry.type + 1] = Digit(entry)
    BY DEF Digit
  <2> HIDE DEF field
  <2>3. Atoi(field) = (entry.type + 1) - 1
    BY <1>5, <1>7, <2>1, <2>2 DEF Atoi
  <2> QED
    BY <1>1, <2>3 DEF field
<1> QED
  BY <1>3, <1>8 DEF Chars, Bar, NewLine

LEMMA PathChars ==
    ASSUME SeparatorsApart, NEW path \in Paths
    PROVE  /\ path \in Seq(Chars) /\ path # <<>>
           /\ \A i \in 1 .. Len(path) : path[i] # Bar /\ path[i] # NewLine
<1>1. path \in Seq(Names) /\ path # <<>>
  BY PathsAssumption
<1>2. path \in Seq(Chars)
  BY <1>1, SeqMonotonic DEF Chars
<1> QED
  BY <1>1, <1>2, ElementOfSeq DEF SeparatorsApart

LEMMA BareLine ==
    ASSUME SeparatorsApart, NEW entry \in Entry
    PROVE  /\ Bare(entry) \in Seq(Chars) /\ Len(Bare(entry)) = Len(entry.path) + 2
           /\ \A i \in 1 .. Len(Bare(entry)) : Bare(entry)[i] # NewLine
<1> DEFINE path == entry.path
           front == Append(path, Bar)
<1>1. path \in Seq(Chars) /\ \A i \in 1 .. Len(path) : path[i] # NewLine
  BY PathChars, EntryFields
<1>2. Bar \in Chars /\ Bar # NewLine
  BY DEF Chars, Bar, NewLine
<1>3. Digit(entry) \in Chars /\ Digit(entry) # NewLine
  BY DigitIsDigit
<1>4. Len(path) \in Nat
  BY <1>1, LenProperties
<1> HIDE DEF path
<1>5. /\ front \in Seq(Chars) /\ Len(front) = Len(path) + 1
      /\ \A i \in 1 .. Len(front) : front[i] # NewLine
  <2>1. /\ front \in Seq(Chars) /\ Len(front) = Len(path) + 1
        /\ \A i \in 1 .. Len(path) : front[i] = path[i]
        /\ front[Len(path) + 1] = Bar
    BY <1>1, <1>2, AppendProperties
  <2> HIDE DEF front
  <2>2. \A i \in 1 .. Len(path) + 1 : i \in 1 .. Len(path) \/ i = Len(path) + 1
    BY <1>4
  <2> QED
    BY <1>1, <1>2, <2>1, <2>2
<1> HIDE DEF front
<1>6. /\ Bare(entry) \in Seq(Chars) /\ Len(Bare(entry)) = Len(front) + 1
      /\ \A i \in 1 .. Len(front) : Bare(entry)[i] = front[i]
      /\ Bare(entry)[Len(front) + 1] = Digit(entry)
  BY <1>3, <1>5, AppendProperties DEF Bare, front, path
<1>7. \A i \in 1 .. Len(front) + 1 : i \in 1 .. Len(front) \/ i = Len(front) + 1
  BY <1>4, <1>5
<1>8. \A i \in 1 .. Len(Bare(entry)) : Bare(entry)[i] # NewLine
  BY <1>3, <1>5, <1>6, <1>7
<1> QED
  BY <1>4, <1>5, <1>6, <1>8 DEF path

LEMMA LineOfEntry ==
    ASSUME SeparatorsApart, LinesFit, NEW entry \in Entry
    PROVE  Line(entry) = Append(Bare(entry), NewLine)
<1> DEFINE path == entry.path
           d == Digit(entry)
           whole == path \o <<Bar, d, NewLine>>
<1>1. path \in Seq(Chars) /\ Len(path) \in Nat /\ path \in Paths
  BY PathChars, EntryFields, LenProperties
<1>2. Bar \in Chars /\ NewLine \in Chars /\ d \in Chars
  BY DigitIsDigit DEF Chars
<1> HIDE DEF path, d
<1>3. <<Bar, d, NewLine>> \in Seq(Chars) /\ Len(<<Bar, d, NewLine>>) = 3
  BY <1>2
<1>4. whole \in Seq(Chars) /\ Len(whole) = Len(path) + 3
  BY <1>1, <1>3, ConcatProperties
<1>5. Min({Len(whole), LineBuffer - 1}) = Len(whole)
  <2>1. Len(path) + 3 <= LineBuffer - 1 /\ LineBuffer \in Nat
    BY <1>1, LineBufferAssumption DEF LinesFit
  <2>2. /\ Len(whole) \in Int /\ LineBuffer - 1 \in Int
        /\ Len(whole) <= LineBuffer - 1
    BY <1>1, <1>4, <2>1
  <2> HIDE DEF whole
  <2> QED
    BY <2>2 DEF Min
<1>6. SubSeq(whole, 1, Len(whole)) = whole
  BY <1>4, SubSeqFull
<1>7. whole = Append(Append(Append(path, Bar), d), NewLine)
  <2>1. whole = path \o Append(Append(<<Bar>>, d), NewLine)
    OBVIOUS
  <2>2. <<Bar>> \in Seq(Chars) /\ Append(<<Bar>>, d) \in Seq(Chars)
    BY <1>2
  <2>3. path \o Append(Append(<<Bar>>, d), NewLine)
          = Append(path \o Append(<<Bar>>, d), NewLine)
    BY <1>1, <1>2, <2>2, ConcatNext
  <2>4. path \o Append(<<Bar>>, d) = Append(path \o <<Bar>>, d)
    BY <1>1, <1>2, <2>2, ConcatNext
  <2>5. path \o <<Bar>> = Append(path, Bar)
    BY <1>1, <1>2, AppendIsConcat
  <2> QED
    BY <2>1, <2>3, <2>4, <2>5
<1>8. Line(entry) = SubSeq(whole, 1, Min({Len(whole), LineBuffer - 1}))
  BY DEF Line, path, d, Digit
<1> QED
  BY <1>5, <1>6, <1>7, <1>8 DEF Bare, path, d

LEMMA TwoOf ==
    ASSUME NEW x, NEW y
    PROVE  IsNext(<<x, y>>, <<x>>, y) /\ IsNext(<<x>>, <<>>, x)
BY DEF IsNext

\* A line has two fields, those it was formatted from.
LEMMA FieldsOfEntry ==
    ASSUME SeparatorsApart, NEW entry \in Entry
    PROVE  Fields(Bare(entry)) = << entry.path, <<Digit(entry)>> >>
<1> DEFINE d == Digit(entry)
<1>0. SUFFICES ASSUME NEW merged, merged = TRUE,
                      NEW path, path = entry.path,
                      NEW front, front = Append(path, Bar),
                      NEW last, last = <<d>>
               PROVE  Pieces(Append(front, d), Bar, merged) = << path, last >>
  BY DEF Fields, Bare
<1>1. /\ path \in Seq(Chars) /\ path # <<>>
      /\ \A i \in 1 .. Len(path) : path[i] # Bar
  BY <1>0, PathChars, EntryFields
<1>2. Bar \in Chars /\ d \in Chars /\ d # Bar
  BY DigitIsDigit DEF Chars
<1> HIDE DEF d
<1>3. /\ last \in Seq(Chars) /\ Len(last) = 1 /\ last[1] = d /\ last # <<>>
      /\ <<path>> \in Seq(Seq(Chars)) /\ <<>> \in Seq(Chars)
      /\ <<>> \in Seq(Seq(Chars))
  BY <1>0, <1>1, <1>2
<1>4. front \in Seq(Chars) /\ IsNext(front, path, Bar)
  BY <1>0, <1>1, <1>2, AppendProperties DEF IsNext
<1>5. IsNext(Split(path, Bar, merged), <<>>, path)
  <2>1. IsNext(Split(<<>>, Bar, merged), <<>>, <<>>)
    BY SplitEmpty, TwoOf
  <2>2. IsJoined(path, <<>>, path)
    BY <1>1, ConcatEmptySeq DEF IsJoined
  <2> QED
    BY <1>1, <1>3, <2>1, <2>2, SplitPiece
<1>6. Split(path, Bar, merged) = <<path>>
  BY <1>5 DEF IsNext
<1>7. IsNext(Split(front, Bar, merged), <<path>>, <<>>)
  <2>1. Split(front, Bar, merged) = Fed(Split(path, Bar, merged), Bar, Bar, merged)
    BY <1>1, <1>2, <1>4, SplitIsNext
  <2>2. Last(<<path>>) = path
    BY DEF Last
  <2>3. Fed(<<path>>, Bar, Bar, merged) = Append(<<path>>, <<>>)
    BY <1>0, <1>1, <2>2 DEF Fed
  <2> QED
    BY <1>6, <2>1, <2>3 DEF IsNext
<1>8. ASSUME NEW all, all = Append(front, d)
      PROVE  Pieces(all, Bar, merged) = <<path, last>>
  <2>1. IsJoined(all, front, last)
    BY <1>0, <1>2, <1>4, <1>8, AppendIsConcat DEF IsJoined
  <2>2. \A i \in 1 .. Len(last) : last[i] # Bar
    BY <1>2, <1>3
  <2>3. IsNext(Split(all, Bar, merged), <<path>>, last)
    BY <1>3, <1>4, <1>7, <2>1, <2>2, SplitPiece
  <2>4. Split(all, Bar, merged) = <<path, last>>
    BY <2>3, TwoOf DEF IsNext
  <2>5. Last(<<path, last>>) = last
    BY DEF Last
  <2> QED
    BY <1>3, <2>4, <2>5 DEF Pieces
<1> QED
  BY <1>8

\* The journal is one of entries, and what is about to be journalled is one.
LogInv ==
    /\ log \in Seq(Entry)
    /\ req \in Entry \cup {NoReq}
    /\ pc = "record" => req \in Entry

LEMMA LogKept ==
    ASSUME LogInv, [Next]_vars
    PROVE  /\ LogInv'
           /\ log' = log \/ \E entry \in Entry : log' = Append(log, entry)
<1>1. ASSUME NEW entry \in Entry, Call(entry)
      PROVE  LogInv' /\ log' = log
  BY <1>1 DEF Call, ReadJournal, LogInv
<1>2. ASSUME NEW entry \in Entry, OtherRecords(entry)
      PROVE  LogInv' /\ log' = Append(log, entry)
  BY <1>2, AppendProperties DEF OtherRecords, LogInv
<1>3. CASE End \/ Die
  BY <1>3 DEF End, Die, ReadJournal, LogInv
<1>4. CASE Replay \/ Replayed \/ Dump
  BY <1>4 DEF Replay, Replayed, Dump, LogInv
<1>5. CASE Record
  <2>1. req \in Entry /\ log' = Append(log, req) /\ log \in Seq(Entry)
    BY <1>5 DEF Record, LogInv
  <2>2. log' \in Seq(Entry) /\ req' = NoReq /\ pc' = "idle"
    BY <1>5, <2>1, AppendProperties DEF Record
  <2> QED
    BY <2>1, <2>2 DEF LogInv
<1>6. CASE UNCHANGED vars
  BY <1>6 DEF vars, LogInv
<1> QED
  BY <1>1, <1>2, <1>3, <1>4, <1>5, <1>6 DEF Next

\* The text is split into the lines of the journal, and nothing after them.
Bares(entries) == [i \in 1 .. Len(entries) |-> Bare(entries[i])]

TextInv ==
    /\ text \in Seq(Chars)
    /\ \A merged : IsNext(Split(text, NewLine, merged), Bares(log), <<>>)
    /\ LineCount(text) = Len(log)

LEMMA BaresNext ==
    ASSUME SeparatorsApart, NEW entries \in Seq(Entry)
    PROVE  /\ Bares(entries) \in Seq(Seq(Chars))
           /\ Len(Bares(entries)) = Len(entries)
           /\ \A entry \in Entry :
                IsNext(Bares(Append(entries, entry)), Bares(entries), Bare(entry))
<1>1. Len(entries) \in Nat /\ \A i \in 1 .. Len(entries) : entries[i] \in Entry
  BY LenProperties, ElementOfSeq
<1>2. \A i \in 1 .. Len(entries) : Bare(entries[i]) \in Seq(Chars)
  BY <1>1, BareLine
<1>3. Bares(entries) \in Seq(Seq(Chars)) /\ Len(Bares(entries)) = Len(entries)
  BY <1>1, <1>2 DEF Bares
<1>4. ASSUME NEW entry \in Entry
      PROVE  Bares(Append(entries, entry)) = Append(Bares(entries), Bare(entry))
  <2>1. /\ Len(Append(entries, entry)) = Len(entries) + 1
        /\ \A i \in 1 .. Len(entries) : Append(entries, entry)[i] = entries[i]
        /\ Append(entries, entry)[Len(entries) + 1] = entry
    BY AppendProperties
  <2>2. Bare(entry) \in Seq(Chars)
    BY BareLine
  <2> DEFINE left == Bares(Append(entries, entry))
             right == Append(Bares(entries), Bare(entry))
  <2>3. /\ DOMAIN left = 1 .. Len(entries) + 1
        /\ \A i \in 1 .. Len(entries) + 1 : left[i] = Bare(Append(entries, entry)[i])
    BY <2>1 DEF Bares
  <2>4. /\ right \in Seq(Seq(Chars)) /\ Len(right) = Len(entries) + 1
        /\ \A i \in 1 .. Len(entries) : right[i] = Bares(entries)[i]
        /\ right[Len(entries) + 1] = Bare(entry)
    BY <1>3, <2>2, AppendProperties
  <2>5. \A i \in 1 .. Len(entries) : Bares(entries)[i] = Bare(entries[i])
    BY DEF Bares
  <2>6. \A i \in 1 .. Len(entries) + 1 :
          i \in 1 .. Len(entries) \/ i = Len(entries) + 1
    BY <1>1
  <2>7. left = [i \in 1 .. Len(entries) + 1 |-> left[i]]
    BY <2>1 DEF Bares
  <2>8. right = [i \in 1 .. Len(entries) + 1 |-> right[i]]
    BY <2>4, LenProperties
  <2> HIDE DEF left, right
  <2>9. \A i \in 1 .. Len(entries) + 1 : left[i] = right[i]
    BY <2>1, <2>3, <2>4, <2>5, <2>6
  <2>10. left = right
    BY <2>7, <2>8, <2>9
  <2> QED
    BY <2>10 DEF left, right
<1> QED
  BY <1>3, <1>4 DEF IsNext

LEMMA LineCounts ==
    ASSUME SeparatorsApart, NEW chars \in Seq(Chars), NEW entry \in Entry
    PROVE  /\ LineCount(chars) \in Nat
           /\ LineCount(Append(chars \o Bare(entry), NewLine))
                = LineCount(chars) + 1
<1> DEFINE all == Append(chars \o Bare(entry), NewLine)
           Ends(cs) == {i \in DOMAIN cs : cs[i] = NewLine}
           k == Len(chars)
           l == Len(Bare(entry))
<1>1. /\ k \in Nat /\ DOMAIN chars = 1 .. k /\ l \in Nat
      /\ Bare(entry) \in Seq(Chars)
      /\ \A i \in 1 .. l : Bare(entry)[i] # NewLine
  BY BareLine, LenProperties
<1>2. /\ chars \o Bare(entry) \in Seq(Chars)
      /\ Len(chars \o Bare(entry)) = k + l
      /\ \A i \in 1 .. k + l :
           (chars \o Bare(entry))[i] = IF i <= k THEN chars[i]
                                       ELSE Bare(entry)[i - k]
  BY <1>1, ConcatProperties
<1>3. NewLine \in Chars
  BY DEF Chars
<1>4. /\ DOMAIN all = 1 .. k + l + 1
      /\ \A i \in 1 .. k + l : all[i] = (chars \o Bare(entry))[i]
      /\ all[k + l + 1] = NewLine
  BY <1>1, <1>2, <1>3, AppendProperties, LenProperties
<1> HIDE DEF all, k, l
<1>5. Ends(all) = Ends(chars) \cup {k + l + 1}
  <2>1. ASSUME NEW i \in 1 .. k + l + 1
        PROVE  all[i] = NewLine <=> i \in Ends(chars) \/ i = k + l + 1
    <3>1. CASE i <= k
      BY <1>1, <1>2, <1>4, <3>1
    <3>2. CASE i > k /\ i <= k + l
      <4>1. i - k \in 1 .. l /\ i \in 1 .. k + l
        BY <1>1, <3>2
      <4>2. all[i] = Bare(entry)[i - k]
        BY <1>1, <1>2, <1>4, <3>2, <4>1
      <4>3. i \notin Ends(chars) /\ i # k + l + 1
        BY <1>1, <3>2
      <4> QED
        BY <1>1, <4>1, <4>2, <4>3
    <3>3. CASE i = k + l + 1
      BY <1>4, <3>3
    <3> QED
      BY <1>1, <3>1, <3>2, <3>3
  <2>2. Ends(chars) \subseteq 1 .. k + l + 1 /\ k + l + 1 \in 1 .. k + l + 1
    BY <1>1
  <2> QED
    BY <1>4, <2>1, <2>2
<1>6. k + l + 1 \notin Ends(chars)
  BY <1>1
<1>7. IsFiniteSet(Ends(chars)) /\ Cardinality(Ends(chars)) \in Nat
  BY <1>1, RangeIsFinite
<1> HIDE DEF Ends
<1>8. Cardinality(Ends(all)) = Cardinality(Ends(chars)) + 1
  BY <1>5, <1>6, <1>7, FS_AddElement
<1> QED
  BY <1>7, <1>8 DEF LineCount, Ends, all

\* One line more of text is one piece more.
LEMMA TextGrows ==
    ASSUME SeparatorsApart, log \in Seq(Entry), TextInv, NEW entry \in Entry,
           log' = Append(log, entry),
           text' = Append(text \o Bare(entry), NewLine)
    PROVE  TextInv'
<1> DEFINE bare == Bare(entry)
           front == Bares(log)
<1>1. /\ bare \in Seq(Chars) /\ bare # <<>>
      /\ \A i \in 1 .. Len(bare) : bare[i] # NewLine
  <2>1. Len(bare) = Len(entry.path) + 2 /\ Len(entry.path) \in Nat
    BY BareLine, EntryFields, PathChars, LenProperties
  <2> QED
    BY <2>1, BareLine, EmptySeq
<1>2. /\ front \in Seq(Seq(Chars)) /\ IsNext(Bares(log'), front, bare)
      /\ text \in Seq(Chars) /\ NewLine \in Chars
  BY BaresNext DEF TextInv, Chars
<1>3. /\ LineCount(text') = LineCount(text) + 1
      /\ Len(log') = Len(log) + 1
  BY LineCounts, AppendProperties DEF TextInv
<1>4. PICK mid : IsJoined(mid, text, bare) /\ IsNext(text', mid, NewLine)
  BY DEF IsJoined, IsNext
<1> HIDE DEF bare, front
<1>5. mid \in Seq(Chars)
  BY <1>1, <1>2, <1>4, ConcatProperties DEF IsJoined
<1>6. text' \in Seq(Chars)
  BY <1>2, <1>4, <1>5, AppendProperties DEF IsNext
<1>7. ASSUME NEW merged
      PROVE  IsNext(Split(text', NewLine, merged), Bares(log'), <<>>)
  <2>1. IsNext(Split(text, NewLine, merged), front, <<>>)
    BY DEF TextInv, front
  <2>2. IsNext(Split(mid, NewLine, merged), front, bare)
    BY <1>1, <1>2, <1>4, <2>1, SplitPiece
  <2>3. Split(mid, NewLine, merged) = Bares(log')
    BY <1>2, <2>2 DEF IsNext
  <2>4. Split(text', NewLine, merged)
          = Fed(Bares(log'), NewLine, NewLine, merged)
    BY <1>2, <1>4, <1>5, <2>3, SplitIsNext
  <2>5. Last(Bares(log')) # <<>>
    <3>1. Append(front, bare)[Len(Append(front, bare))] = bare
      BY <1>1, <1>2, AppendProperties
    <3> QED
      BY <1>1, <1>2, <3>1 DEF IsNext, Last
  <2>6. Split(text', NewLine, merged) = Append(Bares(log'), <<>>)
    BY <2>4, <2>5 DEF Fed
  <2> QED
    BY <2>6 DEF IsNext
<1> QED
  BY <1>3, <1>6, <1>7 DEF TextInv

LEMMA TextKept ==
    ASSUME SeparatorsApart, LinesFit, LogInv, TextInv,
           [TreeNext]_<<vars, text>>
    PROVE  LogInv' /\ TextInv'
<1>1. [Next]_vars
  BY DEF TreeNext
<1>2. LogInv' /\ (log' = log \/ \E entry \in Entry : log' = Append(log, entry))
  BY <1>1, LogKept
<1>3. CASE log' = log
  <2>1. text' = text
    BY <1>3 DEF TreeNext
  <2> QED
    BY <1>2, <1>3, <2>1 DEF TextInv
<1>4. ASSUME NEW entry \in Entry, log' = Append(log, entry)
      PROVE  TextInv'
  <2>1. /\ log \in Seq(Entry) /\ Len(log) \in Nat
        /\ Len(log') = Len(log) + 1 /\ log'[Len(log) + 1] = entry
    BY <1>4, AppendProperties, LenProperties DEF LogInv
  <2>2. log' # log
    BY <2>1
  <2>3. Last(log') = entry
    BY <2>1 DEF Last
  <2>4. text' = text \o Line(entry)
    BY <2>2, <2>3 DEF TreeNext, vars
  <2>5. Line(entry) = Append(Bare(entry), NewLine)
    BY LineOfEntry
  <2>6. text' = Append(text \o Bare(entry), NewLine)
    <3>1. text \in Seq(Chars) /\ Bare(entry) \in Seq(Chars) /\ NewLine \in Chars
      BY BareLine DEF TextInv, Chars
    <3> QED
      BY <2>4, <2>5, <3>1, ConcatNext
  <2> QED
    BY <1>4, <2>1, <2>6, TextGrows
<1> QED
  BY <1>2, <1>3, <1>4

\* The lines are counted right, and split into the fields of the entries.
LEMMA TextReadsBack ==
    ASSUME SeparatorsApart, LogInv, TextInv
    PROVE  LinesReadBack
<1>1. /\ log \in Seq(Entry) /\ Len(log) \in Nat
      /\ \A i \in 1 .. Len(log) : log[i] \in Entry
      /\ Bares(log) \in Seq(Seq(Chars)) /\ Len(Bares(log)) = Len(log)
  BY BaresNext, LenProperties, ElementOfSeq DEF LogInv
<1>2. Lines(text) = Bares(log)
  <2>0. SUFFICES ASSUME NEW merged, merged = FALSE
                 PROVE  Pieces(text, NewLine, merged) = Bares(log)
    BY DEF Lines
  <2>1. Split(text, NewLine, merged) = Append(Bares(log), <<>>)
    BY DEF TextInv, IsNext
  <2>2. PICK front : front = Bares(log)
    OBVIOUS
  <2>3. front \in Seq(Seq(Chars)) /\ <<>> \in Seq(Chars)
    BY <1>1, <2>2, EmptySeq
  <2>4. Last(Append(front, <<>>)) = <<>> /\ Front(Append(front, <<>>)) = front
    <3>1. /\ Append(front, <<>>) \in Seq(Seq(Chars))
          /\ Len(Append(front, <<>>)) = Len(front) + 1
          /\ \A i \in 1 .. Len(front) : Append(front, <<>>)[i] = front[i]
          /\ Append(front, <<>>)[Len(front) + 1] = <<>>
      BY <2>3, AppendProperties
    <3>2. Len(front) \in Nat /\ (Len(front) + 1) - 1 = Len(front)
      BY <2>3, LenProperties
    <3>3. SubSeq(Append(front, <<>>), 1, Len(front)) = front
      BY <2>3
    <3> QED
      BY <3>1, <3>2, <3>3 DEF Last, Front
  <2> QED
    BY <2>1, <2>2, <2>4 DEF Pieces
<1>3. ASSUME NEW i \in 1 .. Len(log)
      PROVE  /\ Len(Fields(Bares(log)[i])) = 2
             /\ Parsed(Bares(log)[i]) = log[i]
  <2>1. Bares(log)[i] = Bare(log[i]) /\ log[i] \in Entry
    BY <1>1 DEF Bares
  <2> DEFINE fields == << log[i].path, <<Digit(log[i])>> >>
  <2>2. Fields(Bares(log)[i]) = fields
    BY <2>1, FieldsOfEntry
  <2>3. Len(fields) = 2 /\ fields[1] = log[i].path
        /\ fields[2] = <<Digit(log[i])>>
    OBVIOUS
  <2> HIDE DEF fields
  <2>4. Parsed(Bares(log)[i]) = [path |-> log[i].path, type |-> log[i].type]
    BY <2>1, <2>2, <2>3, DigitIsDigit DEF Parsed
  <2>5. log[i] = [path |-> log[i].path, type |-> log[i].type]
    BY <2>1 DEF Entry
  <2> QED
    BY <2>2, <2>3, <2>4, <2>5
<1>4. [i \in 1 .. Len(log) |-> Parsed(Bares(log)[i])] = log
  <2>1. log = [i \in 1 .. Len(log) |-> log[i]]
    BY <1>1, LenProperties
  <2> QED
    BY <1>3, <2>1
<1>5. Len(Lines(text)) = LineCount(text)
  BY <1>1, <1>2 DEF TextInv
<1> QED
  BY <1>1, <1>2, <1>3, <1>4, <1>5 DEF LinesReadBack

\* What log_write_abs_path writes, the two passes of read_absolute_paths and
\* the replay loops read back as it was: as many lines, of two fields each, with
\* the paths and operations of the journal, if no path has a separator in it and
\* the buffer holds each line.
THEOREM JournalReadsBack ==
    SeparatorsApart /\ LinesFit => (TreeSpec => []LinesReadBack)
<1> SUFFICES ASSUME SeparatorsApart, LinesFit
             PROVE  TreeSpec => []LinesReadBack
  OBVIOUS
<1>1. TreeInit => LogInv /\ TextInv
  <2> SUFFICES ASSUME TreeInit
               PROVE  LogInv /\ TextInv
    OBVIOUS
  <2>1. log = <<>> /\ text = <<>> /\ req = NoReq /\ pc = "idle"
    BY DEF TreeInit, Init
  <2>2. LogInv
    BY <2>1, EmptySeq DEF LogInv
  <2>3. LineCount(text) = 0 /\ Len(log) = 0
    <3>1. {i \in DOMAIN text : text[i] = NewLine} = {}
      BY <2>1
    <3> QED
      BY <2>1, <3>1, FS_EmptySet DEF LineCount
  <2>4. ASSUME NEW merged
        PROVE  IsNext(Split(text, NewLine, merged), Bares(log), <<>>)
    <3>1. Bares(log) = <<>>
      BY <2>1 DEF Bares
    <3> QED
      BY <2>1, <3>1, SplitEmpty, TwoOf
  <2> QED
    BY <2>1, <2>2, <2>3, <2>4, EmptySeq DEF TextInv
<1>2. LogInv /\ TextInv /\ [TreeNext]_<<vars, text>> => LogInv' /\ TextInv'
  BY TextKept
<1>3. LogInv /\ TextInv => LinesReadBack
  BY TextReadsBack
<1> QED
  BY <1>1, <1>2, <1>3, PTL DEF TreeSpec

\* The run is of TreeSpec, and the theorems on nodes are about its journal and
\* tree.
LEMMA TreeRuns == TreeSpec => Spec
<1>1. TreeInit => Init
  BY DEF TreeInit
<1>2. [TreeNext]_<<vars, text>> => [Next]_vars
  BY DEF TreeNext
<1> QED
  BY <1>1, <1>2, PTL DEF TreeSpec, Spec
=============================================================================
