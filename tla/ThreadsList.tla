----------------------------- MODULE ThreadsList ----------------------------
(***************************************************************************)
(* The list of threads of operational.c, as the threads of one process use *)
(* it: each calls init(), which makes the list if there is none and links  *)
(* a node to it, and later end(), which removes nodes.  The nodes carry    *)
(* getpid(), the same for all threads.                                     *)
(*                                                                         *)
(* get_linked_list_instance stores the pointer to the list before it fills *)
(* in the list, and looks at the pointer outside its mutex: a thread may   *)
(* get a list whose memory is what malloc returned (LookEarly).  The walk  *)
(* along the nodes is one step, for nothing but that breaks into it.       *)
(***************************************************************************)
EXTENDS Naturals, Sequences

CONSTANTS Threads,
          Nobody   \* A mutex that is free.

ASSUME NobodyAssumption == Nobody \notin Threads

VARIABLES
    list,         \* The static pointer: NULL, or how far its list is made.
    zeroed,       \* Is the memory of the list zero before it is filled in?
    head_mutex,   \* Its holder.
    mutex,        \* The mutex in the list: its holder.
    nodes,        \* The nodes from list->head on, each by its thread.
    global_head,  \* Has the global pointer been set to the list?
    pc,
    crashed,      \* A fault: what follows is undefined.
    lists,        \* History: the lists that were allocated.
    early         \* History: a thread got the list before it was made.

vars == <<list, zeroed, head_mutex, mutex, nodes, global_head, pc, crashed,
          lists, early>>

Labels == {"new", "insert", "look", "lockhead", "again", "malloc", "sethead",
           "setmutex", "unlockhead", "node", "locklist", "link",
           "unlocklist", "listed", "nodeless", "remove", "unlockremoved",
           "report", "done"}

\* Types of the variables.
TypeOK ==
    /\ list \in {"NULL", "raw", "headed", "made"}
    /\ zeroed \in BOOLEAN
    /\ head_mutex \in Threads \cup {Nobody}
    /\ mutex \in Threads \cup {Nobody}
    /\ nodes \in Seq(Threads)
    /\ global_head \in BOOLEAN
    /\ pc \in [Threads -> Labels]
    /\ crashed \in BOOLEAN
    /\ lists \in Nat
    /\ early \in BOOLEAN

Init ==
    /\ list = "NULL"
    /\ zeroed \in BOOLEAN
    /\ head_mutex = Nobody
    /\ mutex = Nobody
    /\ nodes = <<>>
    /\ global_head = FALSE
    /\ pc = [t \in Threads |-> "new"]
    /\ crashed = FALSE
    /\ lists = 0
    /\ early = FALSE

Goto(t, from, to) == pc[t] = from /\ pc' = [pc EXCEPT ![t] = to]

Fault == crashed' = TRUE

made == <<list, zeroed, head_mutex, lists, early>>
linked == <<mutex, nodes>>

-----------------------------------------------------------------------------
(* init(): get_linked_list_instance                                        *)

\* handler_init() touches nothing here.
Begin(t) ==
    /\ Goto(t, "new", "insert")
    /\ UNCHANGED <<made, linked, global_head, crashed>>

Insert(t) ==
    /\ Goto(t, "insert", IF global_head THEN "node" ELSE "look")
    /\ UNCHANGED <<made, linked, global_head, crashed>>

\* The check without the mutex.
Look(t) ==
    /\ Goto(t, "look", IF list = "NULL" THEN "lockhead" ELSE "node")
    /\ UNCHANGED <<made, linked, global_head, crashed>>

LockHead(t) ==
    /\ head_mutex = Nobody
    /\ Goto(t, "lockhead", "again")
    /\ head_mutex' = t
    /\ UNCHANGED <<list, zeroed, lists, early, linked, global_head, crashed>>

\* Faulty variant of LookAgain: what was seen outside the mutex is trusted.
LookOnce(t) ==
    /\ Goto(t, "again", "malloc")
    /\ UNCHANGED <<made, linked, global_head, crashed>>

LookAgain(t) ==
    /\ Goto(t, "again", IF list = "NULL" THEN "malloc" ELSE "unlockhead")
    /\ UNCHANGED <<made, linked, global_head, crashed>>

\* The pointer is stored; the list's head and mutex are what was in the memory.
Malloc(t) ==
    /\ Goto(t, "malloc", "sethead")
    /\ list' = "raw"
    /\ lists' = lists + 1
    /\ UNCHANGED <<zeroed, head_mutex, early, linked, global_head, crashed>>

\* There is no memory for a list.
NoList(t) ==
    /\ Goto(t, "malloc", "unlockhead")
    /\ UNCHANGED <<made, linked, global_head, crashed>>

SetHead(t) ==
    /\ Goto(t, "sethead", "setmutex")
    /\ list' = "headed"
    /\ nodes' = <<>>
    /\ UNCHANGED <<zeroed, head_mutex, lists, early, mutex, global_head,
                   crashed>>

SetMutex(t) ==
    /\ Goto(t, "setmutex", "unlockhead")
    /\ list' = "made"
    /\ mutex' = Nobody
    /\ UNCHANGED <<zeroed, head_mutex, lists, early, nodes, global_head,
                   crashed>>

\* Faulty variant of UnlockHead: the mutex is kept where there is a list.
UnlockHeadIfNull(t) ==
    /\ Goto(t, "unlockhead", "node")
    /\ head_mutex' = IF list = "NULL" THEN Nobody ELSE head_mutex
    /\ UNCHANGED <<list, zeroed, lists, early, linked, global_head, crashed>>

UnlockHead(t) ==
    /\ Goto(t, "unlockhead", "node")
    /\ head_mutex' = Nobody
    /\ UNCHANGED <<list, zeroed, lists, early, linked, global_head, crashed>>

-----------------------------------------------------------------------------
(* init(): insert_thread                                                   *)

\* The pointer is read again and assigned to *list.
GetList ==
    /\ global_head' = (list # "NULL")
    /\ early' = (early \/ list \in {"raw", "headed"})
    /\ UNCHANGED <<list, zeroed, head_mutex, lists, linked, crashed>>

Node(t) ==
    /\ list # "NULL"
    /\ Goto(t, "node", "locklist")
    /\ GetList

\* There is no list, or no memory for the node.
NoNode(t) ==
    /\ Goto(t, "node", "nodeless")
    /\ GetList

\* A list that is not made is used as it is: zeros are a free mutex.
Usable == list = "made" \/ zeroed

\* Faulty variant of LockList: the mutex is not waited for.
LockListBlind(t) ==
    /\ Goto(t, "locklist", "link")
    /\ mutex' = t
    /\ UNCHANGED <<made, nodes, global_head, crashed>>

LockList(t) ==
    /\ Usable /\ mutex = Nobody
    /\ Goto(t, "locklist", "link")
    /\ mutex' = t
    /\ UNCHANGED <<made, nodes, global_head, crashed>>

\* What else the memory holds is no mutex and no node.  What follows is
\* undefined, and the model stops there.
UseGarbage(t) ==
    /\ pc[t] \in {"locklist", "link"} /\ ~Usable
    /\ Fault
    /\ UNCHANGED <<made, linked, global_head, pc>>

\* Faulty variants of Link: the node is for whoever holds the mutex; a list
\* that is not empty is cut off.
LinkHolder(t) ==
    /\ Usable
    /\ Goto(t, "link", "unlocklist")
    /\ nodes' = Append(nodes, mutex)
    /\ UNCHANGED <<made, mutex, global_head, crashed>>

LinkFirst(t) ==
    /\ Goto(t, "link", "unlocklist")
    /\ nodes' = <<t>>
    /\ UNCHANGED <<made, mutex, global_head, crashed>>

Link(t) ==
    /\ Usable
    /\ Goto(t, "link", "unlocklist")
    /\ nodes' = Append(nodes, t)
    /\ UNCHANGED <<made, mutex, global_head, crashed>>

UnlockList(t) ==
    /\ \/ Goto(t, "unlocklist", "listed")
       \/ Goto(t, "unlockremoved", "report")
    /\ mutex' = Nobody
    /\ UNCHANGED <<made, nodes, global_head, crashed>>

-----------------------------------------------------------------------------
(* end(): remove_thread_node                                               *)

\* Without a list nothing is removed, and the report dereferences NULL.
EndLocks(t) ==
    /\ IF ~global_head \/ ~Usable
       THEN /\ pc[t] \in {"listed", "nodeless"}
            /\ Fault
            /\ UNCHANGED <<linked, pc>>
       ELSE /\ mutex = Nobody
            /\ Goto(t, "listed", "remove") \/ Goto(t, "nodeless", "remove")
            /\ mutex' = t
            /\ UNCHANGED <<nodes, crashed>>
    /\ UNCHANGED <<made, global_head>>

\* (*list)->head->next is read before head is compared with NULL.  Every node
\* of the process has the PID, and goes.
Remove(t) ==
    /\ IF nodes = <<>>
       THEN /\ pc[t] = "remove"
            /\ Fault
            /\ UNCHANGED <<nodes, pc>>
       ELSE /\ Goto(t, "remove", "unlockremoved")
            /\ nodes' = <<>>
            /\ UNCHANGED crashed
    /\ UNCHANGED <<made, mutex, global_head>>

\* Which of the two messages is printed is not modelled.
Report(t) ==
    /\ Goto(t, "report", "done")
    /\ UNCHANGED <<made, linked, global_head, crashed>>

-----------------------------------------------------------------------------
InitStep(t) ==
    \/ Insert(t) \/ Look(t) \/ LockHead(t) \/ LookAgain(t) \/ Malloc(t)
    \/ NoList(t) \/ SetHead(t) \/ SetMutex(t) \/ UnlockHead(t) \/ Node(t)
    \/ NoNode(t) \/ LockList(t) \/ UseGarbage(t) \/ Link(t) \/ UnlockList(t)

EndStep(t) == Remove(t) \/ Report(t)

Step(t) == ~crashed /\ (InitStep(t) \/ EndStep(t))

\* The process is over, or all its threads are done.
Finished ==
    /\ crashed \/ \A t \in Threads : pc[t] = "done"
    /\ UNCHANGED vars

Next ==
    \/ \E t \in Threads : Step(t)
    \/ ~crashed /\ \E t \in Threads : Begin(t) \/ EndLocks(t)
    \/ Finished

Spec == Init /\ [][Next]_vars

\* The scheduler runs every thread inside init() and end(); when it calls them
\* is its own affair.
FairSpec == Spec /\ \A t \in Threads : WF_vars(Step(t))

-----------------------------------------------------------------------------
(* Properties                                                              *)

InList(t) == pc[t] \in {"link", "unlocklist", "remove", "unlockremoved"}

\* Safety, of get_linked_list_instance: whatever threads come first, there is
\* one list at most.
OneList == lists <= 1

\* Safety: one thread at a time between lock and unlock of the list, as long as
\* nobody got the list early.
ListExcludes ==
    ~early => \A t, u \in Threads : InList(t) /\ InList(u) => t = u

\* The threads that have linked their nodes, those the list has, and where
\* those are that are removing nodes or have.
Linked == {t \in Threads : pc[t] \in {"unlocklist", "listed"}}
Listed == {nodes[i] : i \in 1 .. Len(nodes)}
Ending == {"remove", "unlockremoved", "report", "done"}

\* Safety: before the first removal, and as long as nobody got the list early,
\* the list has each thread that linked its node, once, and no other.
NoneLost ==
    ~early /\ (\A t \in Threads : pc[t] \notin Ending)
        => /\ Listed = Linked
           /\ \A i, j \in 1 .. Len(nodes) : nodes[i] = nodes[j] => i = j

\* Liveness: init() and the removal in end() come to an end.
CallsEnd ==
    \A t \in Threads :
        /\ pc[t] = "insert" ~> crashed \/ pc[t] \in {"listed", "nodeless"}
        /\ pc[t] = "remove" ~> crashed \/ pc[t] = "done"
=============================================================================
