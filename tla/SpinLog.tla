------------------------------ MODULE SpinLog -------------------------------
(***************************************************************************)
(* The journal file of log.c as the threads of one process use it: appends *)
(* (log_write_abs_path) and two-pass scans (read_absolute_paths) under a   *)
(* spin lock that the first caller to find a flag unset initialises.       *)
(* log_write has the same shape as the append, with a lock of its own, and *)
(* custom_filesys.c has a third lock of this kind around tree_write.       *)
(*                                                                         *)
(* Nothing in the library creates threads: this is the promise log.c makes *)
(* to an application that does.                                            *)
(***************************************************************************)
EXTENDS Naturals

CONSTANTS
    Threads,
    Calls,      \* what threads do: "append", "scan", "destroy"
    MaxCalls    \* bound: calls made by one thread

ASSUME CallsAssumption == Calls \subseteq {"append", "scan", "destroy"}
ASSUME MaxCallsAssumption == MaxCalls \in Nat

VARIABLES
    is_tree_lock_initialized,
    tree_lock,      \* is the lock word "taken"
    line_total,     \* lines of absolute_paths.txt
    pc,
    call,           \* the call a thread is in
    count,          \* the first pass of a scan: pointers allocated
    stored,         \* the second pass: lines stored through them
    calls,          \* calls made
    raced           \* history: a thread initialised the lock while another was
                    \*   in a call, and some thread has been in one ever since

vars == <<is_tree_lock_initialized, tree_lock, line_total, pc, call, count,
          stored, calls, raced>>
file == <<line_total, count, stored>>

Labels == {"idle", "check", "init", "setflag", "spin", "append", "count",
           "load", "release"}

\* Types of the variables.
TypeOK ==
    /\ is_tree_lock_initialized \in BOOLEAN
    /\ tree_lock \in BOOLEAN
    /\ line_total \in Nat
    /\ pc \in [Threads -> Labels]
    /\ call \in [Threads -> {"append", "scan"}]
    /\ count \in [Threads -> Nat]
    /\ stored \in [Threads -> Nat]
    /\ calls \in [Threads -> 0 .. MaxCalls]
    /\ raced \in BOOLEAN

Init ==
    /\ is_tree_lock_initialized = FALSE
    /\ raced = FALSE
    /\ tree_lock = FALSE
    /\ line_total = 0
    /\ pc = [t \in Threads |-> "idle"]
    /\ call = [t \in Threads |-> "append"]
    /\ count = [t \in Threads |-> 0]
    /\ stored = [t \in Threads |-> 0]
    /\ calls = [t \in Threads |-> 0]

\* A thread initialises the lock and is not the only one in a call.
Racing ==
    \E t, u \in Threads :
        t # u /\ pc[t] \in {"init", "setflag"} /\ pc[u] # "idle"

AllIdle == \A t \in Threads : pc[t] = "idle"

Track == raced' = (Racing' \/ (raced /\ ~AllIdle'))

Goto(t, from, to) == pc[t] = from /\ pc' = [pc EXCEPT ![t] = to]

Begin(t, c) ==
    /\ calls[t] < MaxCalls
    /\ Goto(t, "idle", "check")
    /\ call' = [call EXCEPT ![t] = c]
    /\ calls' = [calls EXCEPT ![t] = @ + 1]
    /\ UNCHANGED <<is_tree_lock_initialized, tree_lock, file>>
    /\ Track

\* destroy_spinlock_dir_tree: pthread_spin_destroy leaves the word alone.
Destroy(t) ==
    /\ pc[t] = "idle"
    /\ calls[t] < MaxCalls
    /\ is_tree_lock_initialized' = FALSE
    /\ calls' = [calls EXCEPT ![t] = @ + 1]
    /\ UNCHANGED <<tree_lock, file, pc, call>>
    /\ Track

-----------------------------------------------------------------------------
(* acquire_spinlock_dir_tree and release_spinlock_dir_tree                 *)

Check(t) ==
    /\ Goto(t, "check", IF is_tree_lock_initialized THEN "spin" ELSE "init")
    /\ UNCHANGED <<is_tree_lock_initialized, tree_lock, file, call, calls>>

\* pthread_spin_init makes the word "free", whoever holds the lock.
InitLock(t) ==
    /\ Goto(t, "init", "setflag")
    /\ tree_lock' = FALSE
    /\ UNCHANGED <<is_tree_lock_initialized, file, call, calls>>

SetFlag(t) ==
    /\ Goto(t, "setflag", "spin")
    /\ is_tree_lock_initialized' = TRUE
    /\ UNCHANGED <<tree_lock, file, call, calls>>

\* Faulty variant of SpinLock: the word is set, and not looked at.
SpinLockBlind(t) ==
    /\ Goto(t, "spin", IF call[t] = "append" THEN "append" ELSE "count")
    /\ tree_lock' = TRUE
    /\ UNCHANGED <<is_tree_lock_initialized, file, call, calls>>

SpinLock(t) ==
    /\ ~tree_lock
    /\ Goto(t, "spin", IF call[t] = "append" THEN "append" ELSE "count")
    /\ tree_lock' = TRUE
    /\ UNCHANGED <<is_tree_lock_initialized, file, call, calls>>

\* Faulty variant of Release: an early return that skips the unlock.
ReleaseForgotten(t) ==
    /\ Goto(t, "release", "idle")
    /\ UNCHANGED <<is_tree_lock_initialized, tree_lock, file, call, calls>>

Release(t) ==
    /\ Goto(t, "release", "idle")
    /\ tree_lock' = FALSE
    /\ UNCHANGED <<is_tree_lock_initialized, file, call, calls>>

-----------------------------------------------------------------------------
(* The critical sections                                                   *)

\* open() or fopen() fails: the section is left without the file.
OpenFails(t) ==
    /\ pc[t] \in {"append", "count"}
    /\ Goto(t, pc[t], "release")
    /\ count' = [count EXCEPT ![t] = 0]
    /\ stored' = [stored EXCEPT ![t] = 0]
    /\ UNCHANGED <<is_tree_lock_initialized, tree_lock, line_total, call,
                   calls>>

AppendLine(t) ==
    /\ Goto(t, "append", "release")
    /\ line_total' = line_total + 1
    /\ UNCHANGED <<is_tree_lock_initialized, tree_lock, call, count, stored,
                   calls>>

\* Faulty variants of CountLines: the count starts at -1; the lock is dropped
\* between the passes.
CountLinesShort(t) ==
    /\ Goto(t, "count", "load")
    /\ count' = [count EXCEPT ![t] = line_total - 1]
    /\ UNCHANGED <<is_tree_lock_initialized, tree_lock, line_total, call,
                   stored, calls>>

CountLinesUnlocking(t) ==
    /\ Goto(t, "count", "load")
    /\ count' = [count EXCEPT ![t] = line_total]
    /\ tree_lock' = FALSE
    /\ UNCHANGED <<is_tree_lock_initialized, line_total, call, stored, calls>>

CountLines(t) ==
    /\ Goto(t, "count", "load")
    /\ count' = [count EXCEPT ![t] = line_total]
    /\ UNCHANGED <<is_tree_lock_initialized, tree_lock, line_total, call,
                   stored, calls>>

\* fgets to the end of the file, lines[i] for each.
LoadLines(t) ==
    /\ Goto(t, "load", "release")
    /\ stored' = [stored EXCEPT ![t] = line_total]
    /\ UNCHANGED <<is_tree_lock_initialized, tree_lock, line_total, call,
                   count, calls>>

-----------------------------------------------------------------------------
Step(t) ==
    /\ \/ Check(t) \/ InitLock(t) \/ SetFlag(t) \/ SpinLock(t)
       \/ OpenFails(t) \/ AppendLine(t) \/ CountLines(t) \/ LoadLines(t)
       \/ Release(t)
    /\ Track

\* All calls made.
Finished ==
    /\ \A t \in Threads : pc[t] = "idle" /\ calls[t] = MaxCalls
    /\ UNCHANGED vars

Next ==
    \/ \E t \in Threads :
         \/ \E c \in Calls \ {"destroy"} : Begin(t, c)
         \/ "destroy" \in Calls /\ Destroy(t)
         \/ Step(t)
    \/ Finished

Spec == Init /\ [][Next]_vars

\* The scheduler runs every runnable thread.
FairSpec == Spec /\ \A t \in Threads : WF_vars(Step(t))

-----------------------------------------------------------------------------
(* Properties                                                              *)

InSection(t) == pc[t] \in {"append", "count", "load", "release"}

\* One thread at a time between acquire and release, from the first call of
\* the process on and across destructions of the lock: the thread that finds
\* the flag unset makes the lock for all.  This fails only while those are in
\* their calls that were in one as a thread initialised the lock.
MutualExclusion ==
    ~raced => \A t, u \in Threads : InSection(t) /\ InSection(u) => t = u

\* But for the same cases, a scan stores no more lines than it allocated
\* pointers for.
ScanFits ==
    ~raced => \A t \in Threads : pc[t] = "release" /\ call[t] = "scan"
                                    => stored[t] <= count[t]

\* Some thread gets the lock as long as one wants it: nobody leaves with it.
LockIsGiven ==
    (\E t \in Threads : pc[t] = "spin") ~> (\E t \in Threads : InSection(t))

=============================================================================
