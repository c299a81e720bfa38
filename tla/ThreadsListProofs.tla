------------------------- MODULE ThreadsListProofs --------------------------
(***************************************************************************)
(* What get_linked_list_instance and the two mutexes of operational.c      *)
(* guarantee to any number of threads.                                     *)
(***************************************************************************)
EXTENDS ThreadsList, SequenceTheorems, TLAPS

\* The types every step keeps.
THEOREM TypeCorrect == Spec => []TypeOK
<1>1. Init => TypeOK
  <2> SUFFICES ASSUME Init PROVE TypeOK
    OBVIOUS
  <2>1. /\ zeroed \in BOOLEAN /\ global_head \in BOOLEAN
        /\ crashed \in BOOLEAN /\ early \in BOOLEAN
    BY Zenon DEF Init
  <2>2. nodes \in Seq(Threads)
    BY EmptySeq DEF Init
  <2>3. pc \in [Threads -> Labels]
    BY DEF Init, Labels
  <2> QED BY <2>1, <2>2, <2>3 DEF Init, TypeOK
<1>2. TypeOK /\ [Next]_vars => TypeOK'
  <2> SUFFICES ASSUME TypeOK, [Next]_vars PROVE TypeOK'
    OBVIOUS
  <2>1. ASSUME NEW t \in Threads, Begin(t) PROVE TypeOK'
    BY <2>1 DEF TypeOK, Labels, Begin, Goto, made, linked
  <2>2. ASSUME NEW t \in Threads, EndLocks(t) PROVE TypeOK'
    <3>1. CASE ~global_head \/ ~Usable
      BY <2>2, <3>1 DEF TypeOK, Labels, EndLocks, Fault, made, linked
    <3>2. CASE ~(~global_head \/ ~Usable)
      BY <2>2, <3>2 DEF TypeOK, Labels, EndLocks, Goto, made
    <3> QED BY <3>1, <3>2
  <2>3. ASSUME NEW t \in Threads, InitStep(t) PROVE TypeOK'
    <3> USE DEF TypeOK, Labels, Goto, made, linked
    <3>1. CASE Insert(t)
      BY <3>1 DEF Insert
    <3>2. CASE Look(t)
      BY <3>2 DEF Look
    <3>3. CASE LockHead(t)
      BY <3>3 DEF LockHead
    <3>4. CASE LookAgain(t)
      BY <3>4 DEF LookAgain
    <3>5. CASE Malloc(t)
      BY <3>5 DEF Malloc
    <3>6. CASE NoList(t)
      BY <3>6 DEF NoList
    <3>7. CASE SetHead(t)
      BY <3>7 DEF SetHead
    <3>8. CASE SetMutex(t)
      BY <3>8 DEF SetMutex
    <3>9. CASE UnlockHead(t)
      BY <3>9 DEF UnlockHead
    <3>10. CASE Node(t) \/ NoNode(t)
      <4>1. global_head' \in BOOLEAN /\ early' \in BOOLEAN
        BY <3>10, Zenon DEF Node, NoNode, GetList
      <4> QED BY <3>10, <4>1 DEF Node, NoNode, GetList
    <3>11. CASE LockList(t)
      BY <3>11 DEF LockList
    <3>12. CASE UseGarbage(t)
      BY <3>12 DEF UseGarbage, Fault
    <3>13. CASE Link(t)
      <4>1. nodes' \in Seq(Threads)
        BY <3>13, AppendProperties DEF Link
      <4> QED BY <3>13, <4>1 DEF Link
    <3>14. CASE UnlockList(t)
      BY <3>14 DEF UnlockList
    <3> QED BY <2>3, <3>1, <3>2, <3>3, <3>4, <3>5, <3>6, <3>7, <3>8, <3>9,
               <3>10, <3>11, <3>12, <3>13, <3>14 DEF InitStep
  <2>4. ASSUME NEW t \in Threads, EndStep(t) PROVE TypeOK'
    <3>1. CASE Remove(t) /\ nodes = <<>>
      BY <3>1 DEF TypeOK, Labels, Remove, Fault, made
    <3>2. CASE Remove(t) /\ nodes # <<>>
      BY <3>2 DEF TypeOK, Labels, Remove, Goto, made
    <3>3. CASE Report(t)
      BY <3>3 DEF TypeOK, Labels, Report, Goto, made, linked
    <3> QED BY <2>4, <3>1, <3>2, <3>3 DEF EndStep
  <2>5. CASE Finished \/ UNCHANGED vars
    BY <2>5 DEF TypeOK, Finished, vars
  <2> QED BY <2>1, <2>2, <2>3, <2>4, <2>5 DEF Next, Step
<1> QED BY <1>1, <1>2, PTL DEF Spec

-----------------------------------------------------------------------------
(* One list                                                                *)

\* The mutex of the pointer excludes.
HeadInv ==
    \A t \in Threads :
        pc[t] \in {"again", "malloc", "sethead", "setmutex", "unlockhead"}
            => head_mutex = t

\* The pointer tells how far its one list is.
MadeInv ==
    /\ lists = IF list = "NULL" THEN 0 ELSE 1
    /\ \A t \in Threads :
         /\ pc[t] = "malloc" => list = "NULL"
         /\ pc[t] = "sethead" => list = "raw"
         /\ pc[t] = "setmutex" => list = "headed"

LEMMA MadeKept ==
    ASSUME TypeOK, HeadInv, MadeInv, [Next]_vars
    PROVE  (HeadInv /\ MadeInv)'
<1> USE DEF HeadInv, MadeInv, TypeOK, Goto, made, linked
<1>1. ASSUME NEW t \in Threads,
             \/ Begin(t) \/ EndLocks(t) \/ Insert(t) \/ Look(t) \/ Node(t)
             \/ NoNode(t) \/ LockList(t) \/ UseGarbage(t) \/ Link(t)
             \/ UnlockList(t) \/ Remove(t) \/ Report(t)
      PROVE  (HeadInv /\ MadeInv)'
  <2>1. UNCHANGED <<list, lists, head_mutex>>
    BY <1>1 DEF Begin, EndLocks, Insert, Look, Node, NoNode, GetList,
                LockList, UseGarbage, Link, UnlockList, Remove, Report
  <2>2. /\ \A u \in Threads \ {t} : pc'[u] = pc[u]
        /\ pc'[t] = pc[t] \/ pc'[t] \notin {"again", "malloc", "sethead",
                                          "setmutex", "unlockhead"}
    <3>1. CASE Begin(t) \/ Insert(t) \/ Look(t)
      BY <3>1 DEF Begin, Insert, Look
    <3>2. CASE EndLocks(t)
      BY <3>2 DEF EndLocks
    <3>3. CASE Node(t) \/ NoNode(t)
      BY <3>3 DEF Node, NoNode
    <3>4. CASE LockList(t) \/ UseGarbage(t) \/ Link(t) \/ UnlockList(t)
      BY <3>4 DEF LockList, UseGarbage, Link, UnlockList
    <3>5. CASE Remove(t) \/ Report(t)
      BY <3>5 DEF Remove, Report
    <3> QED BY <1>1, <3>1, <3>2, <3>3, <3>4, <3>5
  <2> QED BY <2>1, <2>2
<1>2. ASSUME NEW t \in Threads, LockHead(t) \/ LookAgain(t)
      PROVE  (HeadInv /\ MadeInv)'
  <2>1. CASE LockHead(t)
    BY <2>1, NobodyAssumption DEF LockHead
  <2>2. CASE LookAgain(t)
    BY <2>2 DEF LookAgain
  <2> QED BY <1>2, <2>1, <2>2
<1>3. ASSUME NEW t \in Threads,
             Malloc(t) \/ NoList(t) \/ SetHead(t) \/ SetMutex(t)
      PROVE  (HeadInv /\ MadeInv)'
  <2>1. \A u \in Threads \ {t} :
          pc[u] \notin {"again", "malloc", "sethead", "setmutex", "unlockhead"}
    BY <1>3 DEF Malloc, NoList, SetHead, SetMutex
  <2>2. CASE Malloc(t)
    BY <2>1, <2>2 DEF Malloc
  <2>3. CASE NoList(t)
    BY <2>1, <2>3 DEF NoList
  <2>4. CASE SetHead(t)
    BY <2>1, <2>4 DEF SetHead
  <2>5. CASE SetMutex(t)
    BY <2>1, <2>5 DEF SetMutex
  <2> QED BY <1>3, <2>2, <2>3, <2>4, <2>5
<1>4. ASSUME NEW t \in Threads, UnlockHead(t)
      PROVE  (HeadInv /\ MadeInv)'
  <2>1. \A u \in Threads \ {t} :
          pc[u] \notin {"again", "malloc", "sethead", "setmutex", "unlockhead"}
    BY <1>4 DEF UnlockHead
  <2> QED BY <1>4, <2>1 DEF UnlockHead
<1>5. CASE Finished \/ UNCHANGED vars
  BY <1>5 DEF Finished, vars
<1> QED BY <1>1, <1>2, <1>3, <1>4, <1>5 DEF Next, Step, InitStep, EndStep

\* Whatever threads look for it, get_linked_list_instance makes one list.
THEOREM ListIsOne == Spec => []OneList
<1>1. Init => HeadInv /\ MadeInv
  BY DEF Init, HeadInv, MadeInv
<1>2. TypeOK /\ HeadInv /\ MadeInv /\ [Next]_vars => (HeadInv /\ MadeInv)'
  BY MadeKept
<1>3. MadeInv => OneList
  BY DEF MadeInv, OneList
<1> QED BY <1>1, <1>2, <1>3, TypeCorrect, PTL DEF Spec

-----------------------------------------------------------------------------
(* One thread at a time in the list                                        *)

\* Threads that got the list and went on to use it.
Users == {"locklist", "link", "unlocklist", "listed", "remove",
          "unlockremoved", "report", "done"}

\* Unless a thread got the list early, nobody uses it before it is made, and
\* its mutex tells who is in it.
ListInv ==
    ~early =>
        /\ list # "made" => ~global_head /\ \A t \in Threads : pc[t] \notin Users
        /\ \A t \in Threads : InList(t) => mutex = t

LEMMA ListKept ==
    ASSUME TypeOK, MadeInv, ListInv, [Next]_vars
    PROVE  ListInv'
<1> SUFFICES ASSUME ~early' PROVE ListInv'
  BY DEF ListInv
<1>0. ~early
  BY Zenon DEF Next, Step, InitStep, EndStep, Begin, Insert, Look, LockHead,
        LookAgain, Malloc, NoList, SetHead, SetMutex, UnlockHead, Node,
        NoNode, GetList, LockList, UseGarbage, Link, UnlockList, EndLocks,
        Remove, Report, Finished, made, vars
<1> USE <1>0 DEF ListInv, Users, InList, TypeOK, Goto, made, linked
<1>1. ASSUME NEW t \in Threads,
             \/ Begin(t) \/ Insert(t) \/ Look(t) \/ LockHead(t)
             \/ LookAgain(t) \/ NoList(t) \/ UnlockHead(t)
      PROVE  ListInv'
  <2>1. UNCHANGED <<list, global_head, mutex>>
    BY <1>1 DEF Begin, Insert, Look, LockHead, LookAgain, NoList, UnlockHead
  <2>2. /\ \A u \in Threads \ {t} : pc'[u] = pc[u]
        /\ pc'[t] \notin Users
    BY <1>1 DEF Begin, Insert, Look, LockHead, LookAgain, NoList, UnlockHead
  <2> QED BY <2>1, <2>2
<1>2. ASSUME NEW t \in Threads, Malloc(t) \/ SetHead(t) \/ SetMutex(t)
      PROVE  ListInv'
  <2>1. list # "made"
    BY <1>2 DEF Malloc, SetHead, SetMutex, MadeInv
  <2>2. \A u \in Threads : pc'[u] \notin Users
    BY <1>2, <2>1 DEF Malloc, SetHead, SetMutex
  <2>3. global_head' = global_head
    BY <1>2 DEF Malloc, SetHead, SetMutex
  <2> QED BY <2>1, <2>2, <2>3
<1>3. ASSUME NEW t \in Threads, Node(t) \/ NoNode(t)
      PROVE  ListInv'
  <2>1. list = "NULL" \/ list = "made"
    BY <1>3 DEF Node, NoNode, GetList
  <2>2. CASE list = "made"
    BY <1>3, <2>2 DEF Node, NoNode, GetList
  <2>3. CASE list = "NULL"
    BY <1>3, <2>3 DEF Node, NoNode, GetList
  <2> QED BY <2>1, <2>2, <2>3
<1>4. ASSUME NEW t \in Threads, LockList(t)
      PROVE  ListInv'
  BY <1>4, NobodyAssumption DEF LockList
<1>5. ASSUME NEW t \in Threads, UseGarbage(t)
      PROVE  ListInv'
  BY <1>5 DEF UseGarbage
<1>6. ASSUME NEW t \in Threads, Link(t)
      PROVE  ListInv'
  BY <1>6 DEF Link
<1>7. ASSUME NEW t \in Threads, UnlockList(t)
      PROVE  ListInv'
  BY <1>7 DEF UnlockList
<1>8. ASSUME NEW t \in Threads, EndLocks(t)
      PROVE  ListInv'
  <2>1. CASE ~global_head \/ ~Usable
    BY <1>8, <2>1 DEF EndLocks
  <2>2. CASE ~(~global_head \/ ~Usable)
    BY <1>8, <2>2, NobodyAssumption DEF EndLocks
  <2> QED BY <2>1, <2>2
<1>9. ASSUME NEW t \in Threads, Remove(t) \/ Report(t)
      PROVE  ListInv'
  <2>1. CASE Remove(t)
    BY <2>1 DEF Remove
  <2>2. CASE Report(t)
    BY <2>2 DEF Report
  <2> QED BY <1>9, <2>1, <2>2
<1>10. CASE Finished \/ UNCHANGED vars
  BY <1>10 DEF Finished, vars
<1> QED BY <1>1, <1>2, <1>3, <1>4, <1>5, <1>6, <1>7, <1>8, <1>9, <1>10
        DEF Next, Step, InitStep, EndStep

LEMMA ListInvHolds == Spec => [](MadeInv /\ ListInv)
<1>1. Init => HeadInv /\ MadeInv /\ ListInv
  BY DEF Init, HeadInv, MadeInv, ListInv, Users, InList
<1>2. TypeOK /\ HeadInv /\ MadeInv /\ ListInv /\ [Next]_vars
        => (HeadInv /\ MadeInv /\ ListInv)'
  BY MadeKept, ListKept
<1> QED BY <1>1, <1>2, TypeCorrect, PTL DEF Spec

\* Unless a thread got the list before it was made, the mutex in the list
\* excludes any number of threads that insert and remove.
THEOREM ListMutexExcludes == Spec => []ListExcludes
<1>1. TypeOK /\ ListInv => ListExcludes
  BY NobodyAssumption DEF ListInv, ListExcludes
<1> QED BY <1>1, ListInvHolds, TypeCorrect, PTL

-----------------------------------------------------------------------------
(* No node is lost                                                         *)

LEMMA NodeAdded ==
    ASSUME nodes \in Seq(Threads), NEW t \in Threads \ Listed,
           \A i, j \in 1 .. Len(nodes) : nodes[i] = nodes[j] => i = j,
           nodes' = Append(nodes, t)
    PROVE  /\ Listed' = Listed \cup {t}
           /\ \A i, j \in 1 .. Len(nodes') : nodes'[i] = nodes'[j] => i = j
<1>1. /\ Len(nodes') = Len(nodes) + 1 /\ Len(nodes) \in Nat
      /\ \A i \in 1 .. Len(nodes) : nodes'[i] = nodes[i]
      /\ nodes'[Len(nodes) + 1] = t
  BY AppendProperties, LenProperties
<1>2. \A i \in 1 .. Len(nodes') : i \in 1 .. Len(nodes) \/ i = Len(nodes) + 1
  BY <1>1
<1>3. Listed' = Listed \cup {t}
  <2>1. ASSUME NEW u \in Listed' PROVE u \in Listed \cup {t}
    BY <1>1, <1>2, <2>1 DEF Listed
  <2>2. ASSUME NEW u \in Listed PROVE u \in Listed'
    <3>1. PICK i \in 1 .. Len(nodes) : u = nodes[i]
      BY <2>2 DEF Listed
    <3>2. i \in 1 .. Len(nodes') /\ u = nodes'[i]
      BY <1>1, <3>1
    <3> QED BY <3>2 DEF Listed
  <2>3. t \in Listed'
    <3>1. Len(nodes) + 1 \in 1 .. Len(nodes')
      BY <1>1
    <3> QED BY <1>1, <3>1 DEF Listed
  <2> QED BY <2>1, <2>2, <2>3
<1>4. ASSUME NEW i \in 1 .. Len(nodes'), NEW j \in 1 .. Len(nodes'),
             nodes'[i] = nodes'[j]
      PROVE  i = j
  <2>1. \A k \in 1 .. Len(nodes) : nodes[k] # t
    BY DEF Listed
  <2> QED BY <1>1, <1>2, <1>4, <2>1
<1> QED BY <1>3, <1>4

LEMMA NoneLostKept ==
    ASSUME TypeOK, MadeInv, ListInv, NoneLost, [Next]_vars
    PROVE  NoneLost'
<1> SUFFICES ASSUME ~early', \A t \in Threads : pc'[t] \notin Ending
             PROVE  NoneLost'
  BY DEF NoneLost, Ending
<1>0. ~early
  BY Zenon DEF Next, Step, InitStep, EndStep, Begin, Insert, Look, LockHead,
        LookAgain, Malloc, NoList, SetHead, SetMutex, UnlockHead, Node,
        NoNode, GetList, LockList, UseGarbage, Link, UnlockList, EndLocks,
        Remove, Report, Finished, made, vars
\* What is left to show of a step, once nobody is known to be ending.
<1>1. ASSUME \A t \in Threads : pc[t] \notin Ending
      PROVE  /\ Listed = Linked
             /\ \A i, j \in 1 .. Len(nodes) : nodes[i] = nodes[j] => i = j
  BY <1>0, <1>1 DEF NoneLost, Ending, Listed, Linked
<1>2. ASSUME \A t \in Threads : pc[t] \notin Ending,
             nodes' = nodes, Linked' = Linked
      PROVE  NoneLost'
  <2>1. Listed' = Listed
    BY <1>2 DEF Listed
  <2> QED BY <1>1, <1>2, <2>1 DEF NoneLost, Listed, Linked
<1> USE DEF TypeOK, Goto, made, linked
<1>3. ASSUME NEW t \in Threads,
             \/ Begin(t) \/ Insert(t) \/ Look(t) \/ LockHead(t) \/ LookAgain(t)
             \/ Malloc(t) \/ NoList(t) \/ SetMutex(t) \/ UnlockHead(t)
      PROVE  NoneLost'
  <2>1. nodes' = nodes
    BY <1>3 DEF Begin, Insert, Look, LockHead, LookAgain, Malloc, NoList,
                SetMutex, UnlockHead
  <2>2. /\ \A u \in Threads \ {t} : pc'[u] = pc[u]
        /\ pc[t] \notin Ending \cup {"unlocklist", "listed"}
        /\ pc'[t] \notin {"unlocklist", "listed"}
    BY <1>3 DEF Begin, Insert, Look, LockHead, LookAgain, Malloc, NoList,
                SetMutex, UnlockHead, Ending
  <2> QED BY <1>2, <2>1, <2>2 DEF Linked
<1>4. ASSUME NEW t \in Threads,
             Node(t) \/ NoNode(t) \/ LockList(t) \/ UseGarbage(t)
      PROVE  NoneLost'
  <2>1. nodes' = nodes
    BY <1>4 DEF Node, NoNode, GetList, LockList, UseGarbage
  <2>2. /\ \A u \in Threads \ {t} : pc'[u] = pc[u]
        /\ pc[t] \notin Ending \cup {"unlocklist", "listed"}
        /\ pc'[t] \notin {"unlocklist", "listed"}
    BY <1>4 DEF Node, NoNode, LockList, UseGarbage, Ending
  <2> QED BY <1>2, <2>1, <2>2 DEF Linked
<1>5. ASSUME NEW t \in Threads, SetHead(t)
      PROVE  NoneLost'
  <2>1. \A u \in Threads : pc[u] \notin Users
    BY <1>5, <1>0 DEF SetHead, MadeInv, ListInv
  <2>2. Linked' = {}
    BY <1>5, <2>1 DEF SetHead, Users, Linked
  <2>3. nodes' = <<>> /\ Len(nodes') = 0
    BY <1>5, EmptySeq DEF SetHead
  <2>4. Listed' = {}
    BY <2>3 DEF Listed
  <2> QED BY <2>2, <2>3, <2>4 DEF NoneLost, Listed, Linked
<1>6. ASSUME NEW t \in Threads, Link(t)
      PROVE  NoneLost'
  <2>1. /\ \A u \in Threads \ {t} : pc'[u] = pc[u]
        /\ pc[t] = "link" /\ pc'[t] = "unlocklist"
    BY <1>6 DEF Link
  <2>2. \A u \in Threads : pc[u] \notin Ending
    BY <2>1 DEF Ending
  <2>3. t \notin Listed /\ Linked' = Linked \cup {t}
    BY <1>1, <2>1, <2>2 DEF Linked
  <2>4. /\ Listed' = Listed \cup {t}
        /\ \A i, j \in 1 .. Len(nodes') : nodes'[i] = nodes'[j] => i = j
    BY <1>1, <1>6, <2>2, <2>3, NodeAdded DEF Link
  <2> QED BY <1>1, <2>2, <2>3, <2>4 DEF NoneLost, Listed, Linked
<1>7. ASSUME NEW t \in Threads, UnlockList(t)
      PROVE  NoneLost'
  <2>1. /\ \A u \in Threads \ {t} : pc'[u] = pc[u]
        /\ \/ pc[t] = "unlocklist" /\ pc'[t] = "listed"
           \/ pc[t] = "unlockremoved" /\ pc'[t] = "report"
        /\ nodes' = nodes
    BY <1>7 DEF UnlockList
  <2>2. pc[t] = "unlocklist" /\ pc'[t] = "listed"
    BY <2>1 DEF Ending
  <2> QED BY <1>2, <2>1, <2>2 DEF Linked, Ending
<1>8. ASSUME NEW t \in Threads, EndLocks(t)
      PROVE  NoneLost'
  <2>1. CASE ~global_head \/ ~Usable
    BY <1>8, <1>2, <2>1 DEF EndLocks, Linked
  <2>2. CASE ~(~global_head \/ ~Usable)
    <3>1. pc'[t] = "remove"
      BY <1>8, <2>2 DEF EndLocks
    <3> QED BY <3>1 DEF Ending
  <2> QED BY <2>1, <2>2
<1>9. ASSUME NEW t \in Threads, Remove(t) \/ Report(t)
      PROVE  NoneLost'
  <2>1. pc'[t] \in Ending
    <3>1. CASE Remove(t)
      BY <3>1 DEF Remove, Ending
    <3>2. CASE Report(t)
      BY <3>2 DEF Report, Ending
    <3> QED BY <1>9, <3>1, <3>2
  <2> QED BY <2>1
<1>10. CASE Finished \/ UNCHANGED vars
  BY <1>10, <1>2 DEF Finished, vars, Linked
<1> QED BY <1>3, <1>4, <1>5, <1>6, <1>7, <1>8, <1>9, <1>10
        DEF Next, Step, InitStep, EndStep

\* Unless a thread got the list before it was made, no insertion is lost or
\* doubled before the first removal.
THEOREM InsertionsKept == Spec => []NoneLost
<1>1. Init => NoneLost
  <2> SUFFICES ASSUME Init PROVE NoneLost
    OBVIOUS
  <2>1. nodes = <<>> /\ Len(nodes) = 0
    BY EmptySeq DEF Init
  <2>2. Linked = {} /\ Listed = {}
    BY <2>1 DEF Init, Linked, Listed
  <2> QED BY <2>1, <2>2 DEF NoneLost, Linked, Listed
<1>2. TypeOK /\ MadeInv /\ ListInv /\ NoneLost /\ [Next]_vars => NoneLost'
  BY NoneLostKept
<1> QED BY <1>1, <1>2, ListInvHolds, TypeCorrect, PTL DEF Spec
=============================================================================
