------------------------------ MODULE Journal -------------------------------
(***************************************************************************)
(* The journalling core of the library (custom_filesys.c, log.c), as run   *)
(* by several single-threaded processes (exec, demo, an application) that  *)
(* share nothing but files:                                                *)
(*                                                                         *)
(*   absolute_paths.txt   the journal, appended to by every operation      *)
(*   log.txt              one line per write, with the writer's PID        *)
(*   directory_tree.json  the tree, dumped under flock() by end() and by   *)
(*                        the signal handler                               *)
(*                                                                         *)
(* Each process keeps the tree in memory.  The tree is modelled by the     *)
(* sequence of operations inserted into it since directory_tree_head was   *)
(* last NULL; its shape is not modelled here.  The spin locks of log.c are *)
(* private to a process, so between processes they order nothing, and the  *)
(* one thread of a process never finds them taken.                         *)
(*                                                                         *)
(* A process may be signalled at any step (the handler runs on top of the  *)
(* interrupted frame and never returns to it), or killed with SIGKILL.     *)
(***************************************************************************)
EXTENDS Naturals, Sequences, FiniteSets, SeqEmbedding

CONSTANTS
    Procs,          \* processes that link the library
    Files,          \* paths of files, all below directories that exist
    NoProc, NoFile, \* sentinels: nobody holds the lock; no file operated on
    Requests,       \* the operations the applications may ask for
    MaxOps,         \* bound: operations started by one process
    MaxSpin,        \* MAX_SPIN_ATTEMPTS
    Environment     \* what goes wrong: "signal", "kill", "remove", "snapfail",
                    \*   "iofail" (a call on a file the code looks after fails)

Entry == [file : Files, op : {"R", "W", "A"}]
NoReq == [file |-> NoFile, op |-> "none"]

ASSUME SentinelAssumption == NoProc \notin Procs /\ NoFile \notin Files
ASSUME RequestsAssumption == Requests \subseteq Entry
ASSUME BoundsAssumption == MaxOps \in Nat /\ MaxSpin \in Nat \ {0}
ASSUME EnvironmentAssumption ==
    Environment \subseteq {"signal", "kill", "remove", "snapfail", "iofail"}

VARIABLES
    log,        \* absolute_paths.txt, a sequence of entries
    writeLog,   \* log.txt: how many of its lines carry the process's PID
    json,       \* directory_tree.json and what can be parsed from it
    flock,      \* the process whose descriptor of the JSON file is flock()ed
    revlock,    \* for each file, the process with a rollback of it under way
    present,    \* the files that exist
    snapped,    \* the files with a snapshot under /home/snapshots/<hash>
    tree,       \* directory_tree_head, as its sequence of insertions
    curr,       \* current_file_path_operated_on
    req,        \* the call being served: arguments of my_write or my_read
    line_count, \* line_count and the lines not yet replayed, the locals of
    lines,      \*   the loop over read_absolute_paths
    spins,      \* spin_attempts
    pc,         \* where the program is, or was when a signal caught it
    hpc,        \* where the signal handler is
    status,     \* "live", "handler", "exited" or "died"
    issued      \* history: the operations whose system call was made

files == <<log, writeLog, json, flock, revlock, present, snapped>>
memory == <<tree, curr, req, line_count, lines>>
control == <<spins, pc, hpc, status>>
vars == <<log, writeLog, json, flock, revlock, present, snapped, tree, curr,
          req, line_count, lines, spins, pc, hpc, status, issued>>

MainLabels == {"idle", "resolve", "count", "load", "replay", "logwrite",
               "journal", "insert", "io", "lock", "dump", "write", "unlock",
               "unsaved"}
HandlerLabels == {"none", "find", "ask", "flock", "unlink", "copy", "lock",
                  "dump", "write", "unlock", "unsaved"}

Readable(ops) == [readable |-> TRUE, ops |-> ops]
Torn == [readable |-> FALSE, ops |-> <<>>]
JsonContents == [readable : BOOLEAN, ops : Seq(Entry)]

\* Types of the variables.
TypeOK ==
    /\ log \in Seq(Entry)
    /\ writeLog \in [Procs -> Nat]
    /\ json \in JsonContents
    /\ flock \in Procs \cup {NoProc}
    /\ revlock \in [Files -> Procs \cup {NoProc}]
    /\ present \subseteq Files
    /\ snapped \subseteq Files
    /\ tree \in [Procs -> Seq(Entry)]
    /\ curr \in [Procs -> Files \cup {NoFile}]
    /\ req \in [Procs -> Entry \cup {NoReq}]
    /\ line_count \in [Procs -> Nat]
    /\ lines \in [Procs -> Seq(Entry)]
    /\ spins \in [Procs -> 0 .. MaxSpin]
    /\ pc \in [Procs -> MainLabels]
    /\ hpc \in [Procs -> HandlerLabels]
    /\ status \in [Procs -> {"live", "handler", "exited", "died"}]
    /\ issued \in [Procs -> Seq(Entry)]

\* A first run: an empty journal, no tree, no snapshots; the files of some user.
Init ==
    /\ log = <<>>
    /\ writeLog = [p \in Procs |-> 0]
    /\ json = Torn
    /\ flock = NoProc
    /\ revlock = [f \in Files |-> NoProc]
    /\ present \in SUBSET Files
    /\ snapped = {}
    /\ tree = [p \in Procs |-> <<>>]
    /\ curr = [p \in Procs |-> NoFile]
    /\ req = [p \in Procs |-> NoReq]
    /\ line_count = [p \in Procs |-> 0]
    /\ lines = [p \in Procs |-> <<>>]
    /\ spins = [p \in Procs |-> 0]
    /\ pc = [p \in Procs |-> "idle"]
    /\ hpc = [p \in Procs |-> "none"]
    /\ status = [p \in Procs |-> "live"]
    /\ issued = [p \in Procs |-> <<>>]

-----------------------------------------------------------------------------
(* Frames: the program's own, and the handler's on top of it.              *)

At(p, label) == \/ status[p] = "live" /\ pc[p] = label
                \/ status[p] = "handler" /\ hpc[p] = label

Goto(p, label) ==
    IF status[p] = "live"
    THEN pc' = [pc EXCEPT ![p] = label] /\ UNCHANGED <<hpc, status>>
    ELSE hpc' = [hpc EXCEPT ![p] = label] /\ UNCHANGED <<pc, status>>

\* The kernel closes the descriptors of a process that is gone, and with
\* them go their locks.  pc still tells how far the program had come.
Gone(p, how) ==
    /\ status' = [status EXCEPT ![p] = how]
    /\ flock' = IF flock = p THEN NoProc ELSE flock
    /\ revlock' = [f \in Files |-> IF revlock[f] = p THEN NoProc
                                                   ELSE revlock[f]]
    /\ spins' = [spins EXCEPT ![p] = 0]
    /\ hpc' = [hpc EXCEPT ![p] = "none"]
    /\ UNCHANGED pc

\* exit() also flushes stdio: a dump cut off by a signal between its
\* fprintf and its fclose reaches the file then, one cut off between its
\* fopen and its fprintf does not, nor one that had no file open.
Exit(p, how) ==
    /\ Gone(p, how)
    /\ \/ UNCHANGED json
       \/ /\ flock = p
          /\ pc[p] \notin {"dump", "unlock", "unsaved"}
          /\ ~json.readable
          /\ json' = Readable(tree[p])

\* A signal while the handler runs restarts the handler on top of itself.
\* The interrupted frames never resume, but they keep their locks.
CatchSignal(p) ==
    IF curr[p] = NoFile
    THEN Exit(p, "died")
    ELSE /\ status' = [status EXCEPT ![p] = "handler"]
         /\ hpc' = [hpc EXCEPT ![p] = "find"]
         /\ spins' = [spins EXCEPT ![p] = 0]
         /\ UNCHANGED <<pc, flock, revlock, json>>

\* SIGSEGV or SIGABRT raised by the program itself.  Raised inside the
\* handler it recurs with the signal blocked and ends the process.
Fault(p) ==
    IF status[p] = "live"
    THEN CatchSignal(p)
    ELSE Gone(p, "died") /\ UNCHANGED json

-----------------------------------------------------------------------------
(* my_write and my_read                                                    *)

Idle(p) == status[p] = "live" /\ pc[p] = "idle" /\ Len(issued[p]) < MaxOps

\* write_to_file opens with O_CREAT before it calls my_write.
StartWrite(p) ==
    /\ Idle(p)
    /\ \E r \in Requests :
         /\ r.op \in {"W", "A"}
         /\ req' = [req EXCEPT ![p] = r]
         /\ present' = present \cup {r.file}
    /\ Goto(p, "resolve")
    /\ UNCHANGED <<log, writeLog, json, flock, revlock, snapped, tree, curr,
                   line_count, lines, spins, issued>>

\* read_from_file returns early when open() finds no file.
StartRead(p) ==
    /\ Idle(p)
    /\ \E r \in Requests :
         /\ r.op = "R"
         /\ r.file \in present
         /\ req' = [req EXCEPT ![p] = r]
    /\ Goto(p, "resolve")
    /\ UNCHANGED <<files, tree, curr, line_count, lines, spins, issued>>

\* What follows the replay of the journal: nothing of a call (end()), the
\* write's line in log.txt, or the journal entry.
AfterReplay(p) ==
    CASE req[p] = NoReq -> "lock"
      [] req[p].op = "R" -> "journal"
      [] OTHER -> "logwrite"

\* realpath() succeeds; an empty tree is rebuilt first.
Resolve(p) ==
    /\ At(p, "resolve")
    /\ req[p].file \in present
    /\ curr' = IF req[p].op = "R"
               THEN curr
               ELSE [curr EXCEPT ![p] = req[p].file]
    /\ Goto(p, IF tree[p] = <<>> THEN "count" ELSE AfterReplay(p))
    /\ UNCHANGED <<files, tree, req, line_count, lines, spins, issued>>

\* realpath() fails: a read reports it and returns; a write passes NULL to
\* strdup before it looks, and faults with the previous file still current.
ResolveMissing(p) ==
    /\ At(p, "resolve")
    /\ req[p].file \notin present
    /\ IF req[p].op = "R"
       THEN /\ Goto(p, "idle")
            /\ req' = [req EXCEPT ![p] = NoReq]
            /\ UNCHANGED <<json, flock, revlock, spins>>
       ELSE Fault(p) /\ UNCHANGED req
    /\ UNCHANGED <<log, writeLog, present, snapped, tree, curr, line_count,
                   lines, issued>>

\* log_write appends to log.txt (writes only), before the journal.
LogWrite(p) ==
    /\ At(p, "logwrite")
    /\ writeLog' = [writeLog EXCEPT ![p] = @ + 1]
    /\ Goto(p, "journal")
    /\ UNCHANGED <<log, json, flock, revlock, present, snapped, memory, spins, issued>>

\* Faulty variant of JournalOp: the file opened with O_TRUNC.
JournalOpTruncating(p) ==
    /\ At(p, "journal")
    /\ log' = <<req[p]>>
    /\ Goto(p, "insert")
    /\ UNCHANGED <<writeLog, json, flock, revlock, present, snapped, memory, spins,
                   issued>>

\* log_write_abs_path: one O_APPEND write.
JournalOp(p) ==
    /\ At(p, "journal")
    /\ log' = Append(log, req[p])
    /\ Goto(p, "insert")
    /\ UNCHANGED <<writeLog, json, flock, revlock, present, snapped, memory, spins,
                   issued>>

\* add_directory_to_tree finds a node for the file, or creates one.
HasNode(p, f) == \E i \in 1 .. Len(tree[p]) : tree[p][i].file = f

\* A new node is stat()ed and snapshot; an old one only has a snapshot
\* pushed, and only when the flag is 1 (the process's own writes).
NeedsFile(p, e, flag) == ~HasNode(p, e.file) \/ flag = 1

OwnFlag(p) == IF req[p].op = "R" THEN 0 ELSE 1

AddToTree(p, e, flag) ==
    /\ NeedsFile(p, e, flag) => e.file \in present
    /\ tree' = [tree EXCEPT ![p] = Append(@, e)]
    /\ snapped' = IF NeedsFile(p, e, flag)
                  THEN snapped \cup {e.file}
                  ELSE snapped

\* The file is gone, or create_snapshot returned NULL (a directory created
\* by another process since stat(), a failed cp): strdup(NULL).
CannotAddToTree(p, e, flag) ==
    /\ NeedsFile(p, e, flag)
    /\ e.file \notin present \/ "snapfail" \in Environment
    /\ Fault(p)

Insert(p) ==
    /\ At(p, "insert")
    /\ AddToTree(p, req[p], OwnFlag(p))
    /\ Goto(p, "io")
    /\ UNCHANGED <<log, writeLog, json, flock, revlock, present, curr, req,
                   line_count, lines, spins, issued>>

InsertFaults(p) ==
    /\ At(p, "insert")
    /\ CannotAddToTree(p, req[p], OwnFlag(p))
    /\ UNCHANGED <<log, writeLog, present, snapped, memory, issued>>

\* Faulty variant of SystemCall: made before the operation is journalled.
SystemCallFirst(p) ==
    /\ At(p, "journal")
    /\ issued' = [issued EXCEPT ![p] = Append(@, req[p])]
    /\ req' = [req EXCEPT ![p] = NoReq]
    /\ Goto(p, "idle")
    /\ UNCHANGED <<files, tree, curr, line_count, lines, spins>>

\* The original read or write, looked up with dlsym.
SystemCall(p) ==
    /\ At(p, "io")
    /\ issued' = [issued EXCEPT ![p] = Append(@, req[p])]
    /\ req' = [req EXCEPT ![p] = NoReq]
    /\ Goto(p, "idle")
    /\ UNCHANGED <<files, tree, curr, line_count, lines, spins>>

-----------------------------------------------------------------------------
(* read_absolute_paths and the replay loop of my_write, my_read and end    *)

\* Faulty variant of End: the tree is kept and replayed onto.
EndKeepingTree(p) ==
    /\ At(p, "idle")
    /\ Goto(p, "count")
    /\ UNCHANGED <<files, memory, spins, issued>>

\* end() forgets the tree and always reads the journal again.
End(p) ==
    /\ At(p, "idle")
    /\ tree' = [tree EXCEPT ![p] = <<>>]
    /\ Goto(p, "count")
    /\ UNCHANGED <<files, curr, req, line_count, lines, spins, issued>>

\* Faulty variant of CountLines: the last line is not counted.
CountLinesShort(p) ==
    /\ At(p, "count")
    /\ line_count' = [line_count EXCEPT ![p] = IF log = <<>> THEN 0
                                               ELSE Len(log) - 1]
    /\ Goto(p, "load")
    /\ UNCHANGED <<files, tree, curr, req, lines, spins, issued>>

\* First pass: count the lines, allocate one pointer for each.
CountLines(p) ==
    /\ At(p, "count")
    /\ line_count' = [line_count EXCEPT ![p] = Len(log)]
    /\ Goto(p, "load")
    /\ UNCHANGED <<files, tree, curr, req, lines, spins, issued>>

\* Faulty variant of LoadLines: the caller loops over what it finds.
LoadAllLines(p) ==
    /\ At(p, "load")
    /\ lines' = [lines EXCEPT ![p] = log]
    /\ Goto(p, "replay")
    /\ UNCHANGED <<files, tree, curr, req, line_count, spins, issued>>

\* Second pass: read every line there is by now; the caller loops over the
\* first line_count of them.
LoadLines(p) ==
    /\ At(p, "load")
    /\ lines' = [lines EXCEPT ![p] = SubSeq(log, 1, line_count[p])]
    /\ Goto(p, "replay")
    /\ UNCHANGED <<files, tree, curr, req, line_count, spins, issued>>

\* Lines appended since the first pass are stored beyond the array.  That
\* may go unnoticed (LoadLines) or be caught as heap corruption.
LoadOverrun(p) ==
    /\ At(p, "load")
    /\ Len(log) > line_count[p]
    /\ Fault(p)
    /\ UNCHANGED <<log, writeLog, present, snapped, memory, issued>>

\* realpath() of a line whose file is gone is NULL, and strdup(NULL) faults.
Replay(p) ==
    /\ At(p, "replay")
    /\ lines[p] # <<>>
    /\ Head(lines[p]).file \in present
    /\ AddToTree(p, Head(lines[p]), 0)
    /\ lines' = [lines EXCEPT ![p] = Tail(@)]
    /\ UNCHANGED <<log, writeLog, json, flock, revlock, present, curr, req,
                   line_count, control, issued>>

ReplayFaults(p) ==
    /\ At(p, "replay")
    /\ lines[p] # <<>>
    /\ \/ Head(lines[p]).file \notin present /\ Fault(p)
       \/ CannotAddToTree(p, Head(lines[p]), 0)
    /\ UNCHANGED <<log, writeLog, present, snapped, memory, issued>>

ReplayDone(p) ==
    /\ At(p, "replay")
    /\ lines[p] = <<>>
    /\ Goto(p, AfterReplay(p))
    /\ spins' = [spins EXCEPT ![p] = 0]
    /\ UNCHANGED <<files, memory, issued>>

-----------------------------------------------------------------------------
(* extract_tree_to_json, called by end() and by the handler                *)

\* Faulty variant of TryLock: LOCK_SH for LOCK_EX.
TryLockShared(p) ==
    /\ At(p, "lock")
    /\ spins[p] < MaxSpin
    /\ flock' = p
    /\ Goto(p, "dump")
    /\ UNCHANGED <<log, writeLog, json, revlock, present, snapped, memory,
                   spins, issued>>

\* flock(fd, LOCK_EX | LOCK_NB) on a descriptor opened by this call: also
\* refused when an interrupted frame of the same process holds the lock.
TryLock(p) ==
    /\ At(p, "lock")
    /\ spins[p] < MaxSpin
    /\ flock = NoProc
    /\ flock' = p
    /\ Goto(p, "dump")
    /\ UNCHANGED <<log, writeLog, json, revlock, present, snapped, memory,
                   spins, issued>>

\* Faulty variant of Spin: no bound on the attempts.
SpinUnbounded(p) ==
    /\ At(p, "lock")
    /\ flock # NoProc
    /\ spins' = [spins EXCEPT ![p] = @ + 1]
    /\ UNCHANGED <<files, memory, pc, hpc, status, issued>>

Spin(p) ==
    /\ At(p, "lock")
    /\ spins[p] < MaxSpin
    /\ flock # NoProc
    /\ spins' = [spins EXCEPT ![p] = @ + 1]
    /\ UNCHANGED <<files, memory, pc, hpc, status, issued>>

Over(p) == IF status[p] = "live" THEN "exited" ELSE "died"

\* Faulty variants of GiveUp: lock_acquired is not looked at; start over.
GiveUpDumpsAnyway(p) ==
    /\ At(p, "lock")
    /\ spins[p] = MaxSpin
    /\ Goto(p, "dump")
    /\ UNCHANGED <<files, memory, spins, issued>>

GiveUpRetries(p) ==
    /\ At(p, "lock")
    /\ spins[p] = MaxSpin
    /\ spins' = [spins EXCEPT ![p] = 0]
    /\ UNCHANGED <<files, memory, pc, hpc, status, issued>>

\* The attempts are used up, or open() had failed before the first: -1 is
\* returned, nobody looks at it, and the process exits.
GiveUp(p) ==
    /\ At(p, "lock")
    /\ \/ spins[p] = MaxSpin
       \/ spins[p] = 0 /\ "iofail" \in Environment
    /\ Exit(p, Over(p))
    /\ UNCHANGED <<log, writeLog, present, snapped, memory, issued>>

\* A frame cut off inside add_directory_to_tree may leave a root without files.
Inserting(p) ==
    /\ status[p] = "handler"
    /\ \/ pc[p] = "insert"
       \/ pc[p] = "replay" /\ lines[p] # <<>>

\* dir_tree_to_json, then fopen(..., "w") truncates the file.
Dump(p) ==
    /\ At(p, "dump")
    /\ tree[p] # <<>> \/ Inserting(p)
    /\ json' = Torn
    /\ Goto(p, "write")
    /\ UNCHANGED <<log, writeLog, flock, revlock, present, snapped, memory, spins,
                   issued>>

\* dir_tree_to_json(NULL)
DumpFaults(p) ==
    /\ At(p, "dump")
    /\ tree[p] = <<>>
    /\ Fault(p)
    /\ UNCHANGED <<log, writeLog, present, snapped, memory, issued>>

WriteJson(p) ==
    /\ At(p, "write")
    /\ json' = Readable(tree[p])
    /\ Goto(p, "unlock")
    /\ UNCHANGED <<log, writeLog, flock, revlock, present, snapped, memory, spins,
                   issued>>

\* fopen returns NULL, or what fprintf and fclose could not write is missing
\* in the file: write_json_to_file comes back all the same.
SaveFails(p) ==
    /\ "iofail" \in Environment
    /\ \/ At(p, "write")
       \/ /\ At(p, "dump")
          /\ tree[p] # <<>> \/ Inserting(p)
    /\ Goto(p, "unsaved")
    /\ UNCHANGED <<files, memory, spins, issued>>

\* Unlock, close, and return to a caller that exits.
Unlock(p) ==
    /\ At(p, "unlock") \/ At(p, "unsaved")
    /\ Gone(p, Over(p))
    /\ UNCHANGED <<log, writeLog, json, present, snapped, memory, issued>>

-----------------------------------------------------------------------------
(* custom_signal_handler                                                   *)

\* get_most_recent_snapshot_for_file, then the prompt.
FindSnapshot(p) ==
    /\ At(p, "find")
    /\ curr[p] \in present
    /\ Goto(p, "ask")
    /\ UNCHANGED <<files, memory, spins, issued>>

\* realpath() is NULL, or the path of the snapshot was never assigned.
FindFaults(p) ==
    /\ At(p, "find")
    /\ curr[p] \notin present \cap snapped
    /\ Fault(p)
    /\ UNCHANGED <<log, writeLog, present, snapped, memory, issued>>

\* The user says no, or revert_to_previous_version fails before it removes
\* anything.
KeepFile(p) ==
    /\ At(p, "ask")
    /\ Goto(p, "lock")
    /\ UNCHANGED <<files, memory, spins, issued>>

\* The user says yes: revert_to_previous_version opens the file and its
\* newest snapshot ...
RevertOpen(p) ==
    /\ At(p, "ask")
    /\ curr[p] \in present \cap snapped
    /\ Goto(p, "flock")
    /\ UNCHANGED <<files, memory, spins, issued>>

\* ... waits for its locks on them: those of another process, or those that
\* an interrupted frame of its own took and will never give back ...
RevertLock(p) ==
    /\ At(p, "flock")
    /\ revlock[curr[p]] = NoProc
    /\ revlock' = [revlock EXCEPT ![curr[p]] = p]
    /\ Goto(p, "unlink")
    /\ UNCHANGED <<log, writeLog, json, flock, present, snapped, memory, spins,
                   issued>>

\* ... unlinks the file ...
RevertUnlink(p) ==
    /\ At(p, "unlink")
    /\ curr[p] \in present
    /\ present' = present \ {curr[p]}
    /\ Goto(p, "copy")
    /\ UNCHANGED <<log, writeLog, json, flock, revlock, snapped, memory, spins,
                   issued>>

\* ... and cp puts the snapshot in its place, or fails.  The locks are given
\* back in both cases.
RevertCopy(p) ==
    /\ At(p, "copy")
    /\ \/ present' = present \cup {curr[p]}
       \/ UNCHANGED present
    /\ revlock' = [revlock EXCEPT ![curr[p]] = NoProc]
    /\ Goto(p, "lock")
    /\ UNCHANGED <<log, writeLog, json, flock, snapped, memory, spins,
                   issued>>

\* The early returns: flock() fails, or unlink() does (somebody removed the
\* file, say), which gives the locks back.
RevertFails(p) ==
    /\ \/ /\ At(p, "flock")
          /\ "iofail" \in Environment
          /\ UNCHANGED revlock
       \/ /\ At(p, "unlink")
          /\ curr[p] \notin present \/ "iofail" \in Environment
          /\ revlock' = [revlock EXCEPT ![curr[p]] = NoProc]
    /\ Goto(p, "lock")
    /\ UNCHANGED <<log, writeLog, json, flock, present, snapped, memory, spins,
                   issued>>

-----------------------------------------------------------------------------
(* The environment                                                         *)

Running(p) == status[p] \in {"live", "handler"}

\* cp is a process of its own, which the end of the frame that waits for it
\* does not stop.
CopyGoesOn(p) ==
    IF At(p, "copy")
    THEN present' \in {present, present \cup {curr[p]}}
    ELSE UNCHANGED present

\* SIGTERM, SIGINT, ...: caught.
Signal(p) ==
    /\ "signal" \in Environment
    /\ Running(p)
    /\ CatchSignal(p)
    /\ CopyGoesOn(p)
    /\ UNCHANGED <<log, writeLog, snapped, memory, issued>>

\* SIGKILL: signal() cannot install a handler for it.
Kill(p) ==
    /\ "kill" \in Environment
    /\ Running(p)
    /\ Gone(p, "died")
    /\ CopyGoesOn(p)
    /\ UNCHANGED <<log, writeLog, json, snapped, memory, issued>>

\* Some other program removes a file.
Remove(f) ==
    /\ "remove" \in Environment
    /\ f \in present
    /\ present' = present \ {f}
    /\ UNCHANGED <<log, writeLog, json, flock, revlock, snapped, memory,
                   control, issued>>

AllGone ==
    /\ \A p \in Procs : ~Running(p)
    /\ UNCHANGED vars

-----------------------------------------------------------------------------
Call(p) == StartWrite(p) \/ StartRead(p) \/ End(p)

Operate(p) ==
    \/ Resolve(p) \/ ResolveMissing(p)
    \/ LogWrite(p) \/ JournalOp(p)
    \/ Insert(p) \/ InsertFaults(p)
    \/ SystemCall(p)

Rebuild(p) ==
    \/ CountLines(p)
    \/ LoadLines(p) \/ LoadOverrun(p)
    \/ Replay(p) \/ ReplayFaults(p) \/ ReplayDone(p)

Extract(p) ==
    \/ TryLock(p) \/ Spin(p) \/ GiveUp(p)
    \/ Dump(p) \/ DumpFaults(p)
    \/ WriteJson(p) \/ SaveFails(p) \/ Unlock(p)

Answer(p) == KeepFile(p) \/ RevertOpen(p)

Handle(p) ==
    \/ FindSnapshot(p) \/ FindFaults(p)
    \/ RevertLock(p) \/ RevertUnlink(p) \/ RevertCopy(p) \/ RevertFails(p)

\* What the processor runs without being asked; the calls of the
\* application and the answer at the prompt may never come.
Work(p) == Operate(p) \/ Rebuild(p) \/ Extract(p) \/ Handle(p)

Next ==
    \/ \E p \in Procs : Call(p) \/ Work(p) \/ Answer(p) \/ Signal(p) \/ Kill(p)
    \/ \E f \in Files : Remove(f)
    \/ AllGone

Spec == Init /\ [][Next]_vars

\* The scheduler runs every runnable process.
FairSpec == Spec /\ \A p \in Procs : WF_vars(Work(p))
-----------------------------------------------------------------------------
(* Properties                                                              *)

Occurrences(e, s) == Cardinality({i \in 1 .. Len(s) : s[i] = e})

\* Journalled, but the system call has not been made (or never will be).
InFlight(p, e) == pc[p] \in {"insert", "io"} /\ req[p] = e

IssuedBy(e) ==
    {x \in Procs \X (1 .. MaxOps) :
        x[2] <= Len(issued[x[1]]) /\ issued[x[1]][x[2]] = e}

WritesAnnounced(p) ==
    Cardinality({i \in 1 .. Len(issued[p]) : issued[p][i].op # "R"})
    + IF pc[p] \in {"journal", "insert", "io"} /\ req[p].op # "R" THEN 1 ELSE 0

\* The journal is a write-ahead journal: it holds exactly the operations
\* whose system call was made and those on their way to it (forever, when a
\* signal or a fault came between), each once and every process's in its own
\* order; log.txt holds the writes of each process, one line each.
WriteAhead ==
    /\ \A e \in Requests :
         Occurrences(e, log) = Cardinality(IssuedBy(e))
                               + Cardinality({p \in Procs : InFlight(p, e)})
    /\ \A p \in Procs : Embeds(issued[p], log)
    /\ \A p \in Procs : writeLog[p] = WritesAnnounced(p)

\* The tree a process holds in memory shows operations of the journal, in the
\* journal's order and none of them twice, although it is put together from a
\* replay of the journal and from the process's own operations, and although
\* both append while others do.
TreeFollowsJournal == \A p \in Procs : Embeds(tree[p], log)

\* Wherever a dump was interrupted, whoever is between taking the lock and
\* releasing it (in either frame) is the one holder of the lock.
DumpLabels == {"dump", "write", "unlock", "unsaved"}

InDump(p) ==
    /\ Running(p)
    /\ \/ pc[p] \in DumpLabels
       \/ status[p] = "handler" /\ hpc[p] \in DumpLabels

DumpersHoldLock == \A p \in Procs : InDump(p) => flock = p

\* The tree that end() is about to publish is the journal as it was counted,
\* not one line more (overrun) or less, whatever was appended meanwhile.
EndTreeIsScan ==
    \A p \in Procs :
        status[p] = "live" /\ pc[p] \in {"lock"} \cup DumpLabels
            => tree[p] = SubSeq(log, 1, line_count[p])

\* What end() publishes is a prefix of the journal that has every operation
\* of the process itself.
EndPublishesOwnOps ==
    [][\A p \in Procs :
         status[p] = "live" /\ pc[p] = "write" /\ pc'[p] = "unlock"
            => StartsWith(log, json'.ops) /\ Embeds(issued[p], json'.ops)]_vars

\* Whoever gives the lock up after a dump that succeeded, end() or the handler,
\* leaves a file that parses and tells the tree it holds, nobody having come
\* in between.  The lock is given up otherwise only after a dump that failed
\* in silence, or when a process dies in the middle of one.
UnlockLeavesTree ==
    [][\A p \in Procs :
         flock = p /\ flock' # p
            => IF At(p, "unlock")
               THEN json' = Readable(tree[p])
               ELSE At(p, "unsaved") \/ status'[p] = "died"]_vars

\* In a call of the library, or in the handler on its way to the prompt or to
\* the end of the process, and not waiting for another rollback of the file.
\* Such a rollback may never end: it sits at a prompt with its locks, perhaps
\* in a frame of the same process that this handler interrupted.
WaitsForRollback(p) == hpc[p] = "flock" /\ revlock[curr[p]] # NoProc

Busy(p) ==
    \/ status[p] = "live" /\ pc[p] # "idle"
    \/ status[p] = "handler" /\ hpc[p] # "ask" /\ ~WaitsForRollback(p)

\* Calls come back and handlers end, even when others sit at their prompts
\* with the lock of the JSON file held, or when a handler interrupted a dump of
\* its own process, and waits for a lock that this process itself holds: the
\* attempts at the lock are counted.
CallsReturn == \A p \in Procs : []<>~Busy(p)

-----------------------------------------------------------------------------
(* What documents and comments of the repository say, and the code does    *)
(* not do                                                                  *)

\* verify_execution.py: when everything has run, the operations logged are
\* those in the final directory tree.
VerifiedConsistent ==
    (\A p \in Procs : status[p] = "exited")
        => /\ json.readable
           /\ \A e \in Requests :
                Occurrences(e, json.ops) = Occurrences(e, log)

\* custom_filesys.c, of the handler: upon a crash the current status of the
\* system is preserved in the JSON file, so at least what this process did.
CrashKeepsStatus ==
    \A p \in Procs :
        status[p] = "handler" /\ hpc[p] = "unlock"
            => Embeds(issued[p], json.ops)

-----------------------------------------------------------------------------
\* The journalling core implements the abstract journal and its mirror.
Abstract == INSTANCE JournalSpec
                WITH journal <- log, mirror <- json, Operation <- Requests

MirrorsJournal == Abstract!Spec
=============================================================================
