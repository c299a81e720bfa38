------------------------------ MODULE Snapshots -----------------------------
(***************************************************************************)
(* The snapshot store /home/snapshots/<hash of path>/<second>_<name> and   *)
(* everything that touches it while files change:                          *)
(*                                                                         *)
(*   applications  snapshot a file with cp before they write it, and once  *)
(*                 per file whenever they rebuild their tree               *)
(*   the handler   puts the most recent snapshot back when a signal comes  *)
(*   snap_ret      puts back a snapshot its user names                     *)
(*   cleanup       removes all snapshots of a directory but one            *)
(*                                                                         *)
(* Contents are versions: which file was written, by whom, in which of its *)
(* calls.  The clock has seconds, because names of snapshots have seconds. *)
(* The journal is here the order in which files were first operated on,    *)
(* all that a rebuild's snapshots depend on; its races are in Journal.     *)
(***************************************************************************)
EXTENDS Naturals, Sequences

CONSTANTS
    Apps,       \* processes that link the library
    Retrievers, \* runs of snap_ret
    Daemons,    \* runs of cleanup
    Files,
    BaseName,   \* the last element of a file's path
    Operations, \* what applications do: "R", "W"
    MaxOps,     \* bound: operations of one application
    MaxTime,    \* bound: seconds that go by
    Delay,      \* applications let a second go by before each of their calls
    Signals,    \* signals other than SIGKILL occur
    NoProc, NoFile, NoTime, Absent, Blank  \* sentinels

Procs == Apps \cup Retrievers
Times == 0 .. MaxTime
Versions == Files \X (Apps \cup {NoProc}) \X (0 .. MaxOps)
Contents == Versions \cup {Blank}

ASSUME ProcsAssumption ==
    /\ Apps \cap Retrievers = {}
    /\ NoProc \notin Procs
    /\ NoFile \notin Files
ASSUME SnapshotBounds == MaxOps \in Nat /\ MaxTime \in Nat
ASSUME SentinelAssumption ==
    NoTime \notin Times /\ Absent \notin Contents /\ Blank \notin Versions
ASSUME OperationsAssumption == Operations \subseteq {"R", "W"}
ASSUME SwitchAssumption == Delay \in BOOLEAN /\ Signals \in BOOLEAN

VARIABLES
    clock,
    exists, content, inode, \* the files: there or not, data, inode number
    dirs, snaps,            \* directories made; data by file and second
    journal,                \* files in the order of their first operation
    known,                  \* files with a node in a process's tree
    curr,                   \* current_file_path_operated_on
    req, fd,                \* the call: file, operation; the inode it opened
    todo,                   \* files a rebuild has still to insert
    job,                    \* the insertion at hand: file, copies left, whose
    stamp, held,            \* its timestamp, the data its cp has read
    made, slept,            \* calls made; has a second gone by since
    pc, status,
    rpc, target, chosen, rnode, \* the rollback: file, snapshot, inode opened
    locks,                  \* flock()ed inodes of files, and snapshots
    dpc, dleft, ddir, dchosen, dlist,   \* a cleanup run
    overwritten, replaced   \* history: versions lost to completed writes

disk == <<exists, content, inode>>
store == <<dirs, snaps>>
calls == <<known, curr, req, fd, todo, made, slept>>
insertion == <<job, stamp, held>>
rollback == <<rpc, target, chosen, rnode, locks>>
cleanup == <<dpc, dleft, ddir, dchosen, dlist>>
history == <<overwritten, replaced>>
vars == <<clock, disk, store, journal, calls, insertion, pc, status, rollback,
          cleanup, history>>

NoReq == [file |-> NoFile, op |-> "none"]
NoJob == [file |-> NoFile, copies |-> 0, own |-> FALSE]
NoSnap == [file |-> NoFile, time |-> NoTime]

FileLock(p, f, n) == [kind |-> "file", proc |-> p, file |-> f, key |-> n]
SnapLock(p, s) ==
    [kind |-> "snap", proc |-> p, file |-> s.file, key |-> s.time]

\* Types of the variables.
TypeOK ==
    /\ clock \in Times
    /\ exists \subseteq Files
    /\ content \in [Files -> Contents]
    /\ inode \in [Files -> Nat]
    /\ dirs \subseteq Files
    /\ snaps \in [Files -> [Times -> Contents \cup {Absent}]]
    /\ journal \in Seq([file : Files, op : {"R", "W"}])
    /\ known \in [Apps -> SUBSET Files]
    /\ curr \in [Apps -> Files \cup {NoFile}]
    /\ req \in [Apps -> [file : Files, op : {"R", "W"}] \cup {NoReq}]
    /\ fd \in [Apps -> Nat]
    /\ todo \in [Apps -> Seq([file : Files, op : {"R", "W"}])]
    /\ job \in [Apps -> [file : Files, copies : 0 .. 2, own : BOOLEAN]
                            \cup {NoJob}]
    /\ stamp \in [Apps -> Times]
    /\ held \in [Apps -> Contents]
    /\ made \in [Apps -> 0 .. MaxOps]
    /\ slept \in [Apps -> BOOLEAN]
    /\ pc \in [Apps -> {"idle", "resolve", "replay", "record", "stat",
                        "mkdir", "copy", "fill", "link", "io"}]
    /\ status \in [Procs -> {"live", "handler", "exited", "died"}]
    /\ rpc \in [Procs -> {"none", "find", "search", "ask", "lockfile",
                          "locksnap", "unlink", "put", "done"}]
    /\ target \in [Procs -> Files \cup {NoFile}]
    /\ chosen \in [Procs -> [file : Files, time : Times] \cup {NoSnap}]
    /\ rnode \in [Procs -> Nat]
    /\ locks \subseteq [kind : {"file", "snap"}, proc : Procs, file : Files,
                        key : Nat]
    /\ dpc \in [Daemons -> {"sleep", "next", "list", "remove", "done"}]
    /\ dleft \in [Daemons -> SUBSET Files]
    /\ ddir \in [Daemons -> Files \cup {NoFile}]
    /\ dchosen \in [Daemons -> Times \cup {NoTime}]
    /\ dlist \in [Daemons -> SUBSET Times]
    /\ overwritten \in [Files -> SUBSET Contents]
    /\ replaced \in [Apps -> Contents \cup {Absent}]

\* Files of some user, no snapshots, nothing journalled.
Init ==
    /\ clock = 0
    /\ exists \in SUBSET Files
    /\ content = [f \in Files |->
                    IF f \in exists THEN <<f, NoProc, 0>> ELSE Blank]
    /\ inode = [f \in Files |-> 0]
    /\ dirs = {}
    /\ snaps = [f \in Files |-> [t \in Times |-> Absent]]
    /\ journal = <<>>
    /\ known = [p \in Apps |-> {}]
    /\ curr = [p \in Apps |-> NoFile]
    /\ req = [p \in Apps |-> NoReq]
    /\ fd = [p \in Apps |-> 0]
    /\ todo = [p \in Apps |-> <<>>]
    /\ job = [p \in Apps |-> NoJob]
    /\ stamp = [p \in Apps |-> 0]
    /\ held = [p \in Apps |-> Blank]
    /\ made = [p \in Apps |-> 0]
    /\ slept = [p \in Apps |-> TRUE]
    /\ pc = [p \in Apps |-> "idle"]
    /\ status = [p \in Procs |-> "live"]
    /\ rpc = [p \in Procs |-> "none"]
    /\ target = [p \in Procs |-> NoFile]
    /\ chosen = [p \in Procs |-> NoSnap]
    /\ rnode = [p \in Procs |-> 0]
    /\ locks = {}
    /\ dpc = [d \in Daemons |-> "sleep"]
    /\ dleft = [d \in Daemons |-> {}]
    /\ ddir = [d \in Daemons |-> NoFile]
    /\ dchosen = [d \in Daemons |-> NoTime]
    /\ dlist = [d \in Daemons |-> {}]
    /\ overwritten = [f \in Files |-> {}]
    /\ replaced = [p \in Apps |-> Absent]

-----------------------------------------------------------------------------
(* The store                                                               *)

Stamps(f) == {t \in Times : snaps[f][t] # Absent}

Newest(S) == CHOOSE t \in S : \A u \in S : u <= t

Put(f, t, data) == snaps' = [snaps EXCEPT ![f][t] = data]

-----------------------------------------------------------------------------
(* Processes                                                               *)

Live(p, label) == status[p] = "live" /\ pc[p] = label

Goto(p, label) == pc' = [pc EXCEPT ![p] = label] /\ UNCHANGED status

\* Locks go with the descriptors of the process.
Leave(p, how) ==
    /\ status' = [status EXCEPT ![p] = how]
    /\ locks' = {l \in locks : l.proc # p}
    /\ UNCHANGED <<pc, rpc, target, chosen, rnode>>

\* custom_signal_handler on top of the frame at pc, which never resumes.
CatchSignal(p) ==
    IF curr[p] = NoFile
    THEN Leave(p, "died")
    ELSE /\ status' = [status EXCEPT ![p] = "handler"]
         /\ rpc' = [rpc EXCEPT ![p] = "find"]
         /\ target' = [target EXCEPT ![p] = curr[p]]
         /\ UNCHANGED <<pc, chosen, rnode, locks>>

-----------------------------------------------------------------------------
(* An operation: rebuild, record, insert, write                            *)

\* demo sleeps after all but three of its calls, exec after none.
MayCall(p) == Live(p, "idle") /\ (Delay => slept[p])

\* Writers open with O_CREAT, which makes an empty file; readers do not.
Start(p) ==
    /\ MayCall(p)
    /\ made[p] < MaxOps
    /\ \E f \in Files, op \in Operations :
         /\ op = "R" => f \in exists
         /\ req' = [req EXCEPT ![p] = [file |-> f, op |-> op]]
         /\ fd' = [fd EXCEPT ![p] = inode[f]]
         /\ exists' = exists \cup {f}
         /\ content' = IF f \in exists THEN content
                                       ELSE [content EXCEPT ![f] = Blank]
    /\ Goto(p, "resolve")
    /\ UNCHANGED <<clock, inode, store, journal, known, curr, todo, made, slept,
                   insertion, rollback, cleanup, history>>

\* An empty tree is rebuilt first.
Resolve(p) ==
    /\ Live(p, "resolve")
    /\ req[p].file \in exists
    /\ curr' = IF req[p].op = "R" THEN curr
                                  ELSE [curr EXCEPT ![p] = req[p].file]
    /\ todo' = [todo EXCEPT ![p] = IF known[p] = {} THEN journal ELSE <<>>]
    /\ Goto(p, "replay")
    /\ UNCHANGED <<clock, disk, store, journal, known, req, fd, made, slept,
                   insertion, rollback, cleanup, history>>

\* A file that is gone since it was opened: strdup(NULL) when writing.
ResolveMissing(p) ==
    /\ Live(p, "resolve")
    /\ req[p].file \notin exists
    /\ IF req[p].op = "R"
       THEN Goto(p, "idle") /\ UNCHANGED rollback
       ELSE CatchSignal(p)
    /\ UNCHANGED <<clock, disk, store, journal, calls, insertion, cleanup,
                   history>>

\* end() forgets the tree and rebuilds it, whatever it was.
End(p) ==
    /\ MayCall(p)
    /\ known' = [known EXCEPT ![p] = {}]
    /\ todo' = [todo EXCEPT ![p] = journal]
    /\ req' = [req EXCEPT ![p] = NoReq]
    /\ Goto(p, "replay")
    /\ UNCHANGED <<clock, disk, store, journal, curr, fd, made, slept,
                   insertion, rollback, cleanup, history>>

\* push() copies the file twice unless the operation is a read.
Copies(op) == IF op = "R" THEN 1 ELSE 2

\* realpath() of a journalled path whose file is gone is NULL.
Replay(p) ==
    /\ Live(p, "replay")
    /\ todo[p] # <<>>
    /\ LET e == Head(todo[p]) IN
         IF e.file \in exists
         THEN /\ job' = [job EXCEPT ![p] = [file |-> e.file, own |-> FALSE,
                                            copies |-> Copies(e.op)]]
              /\ todo' = [todo EXCEPT ![p] = Tail(@)]
              /\ Goto(p, "stat")
              /\ UNCHANGED rollback
         ELSE CatchSignal(p) /\ UNCHANGED <<job, todo>>
    /\ UNCHANGED <<clock, disk, store, journal, known, curr, req, fd, made,
                   slept, stamp, held, cleanup, history>>

\* Nothing left to replay: an operation goes on, end() is over.
Replayed(p) ==
    /\ Live(p, "replay")
    /\ todo[p] = <<>>
    /\ IF req[p] = NoReq
       THEN Leave(p, "exited")
       ELSE Goto(p, "record") /\ UNCHANGED rollback
    /\ UNCHANGED <<clock, disk, store, journal, calls, insertion, cleanup,
                   history>>

\* log_write_abs_path, then add_directory_to_tree: a file without a node is
\* pushed, a file with one is copied once more, and only for writes.
Record(p) ==
    /\ Live(p, "record")
    /\ LET f == req[p].file
           new == \A i \in 1 .. Len(journal) : journal[i].file # f
       IN  /\ journal' = IF new THEN Append(journal, req[p]) ELSE journal
           /\ IF f \in known[p] /\ req[p].op = "R"
              THEN Goto(p, "io") /\ UNCHANGED job
              ELSE /\ Goto(p, "stat")
                   /\ job' = [job EXCEPT ![p] =
                        [file |-> f, own |-> TRUE,
                         copies |-> IF f \in known[p] THEN 1
                                                      ELSE Copies(req[p].op)]]
    /\ UNCHANGED <<clock, disk, store, calls, stamp, held, rollback, cleanup,
                   history>>

\* Through the descriptor the application opened: the write is lost to the
\* path when a rollback has put another inode there.
SystemCall(p) ==
    /\ Live(p, "io")
    /\ LET f == req[p].file
           lands == req[p].op # "R" /\ fd[p] = inode[f]
       IN  /\ content' = IF lands
                         THEN [content EXCEPT ![f] = <<f, p, made[p] + 1>>]
                         ELSE content
           /\ overwritten' = IF lands
                             THEN [overwritten EXCEPT ![f] =
                                     @ \cup {content[f]}]
                             ELSE overwritten
           /\ replaced' = IF req[p].op = "R" THEN replaced
                          ELSE [replaced EXCEPT ![p] =
                                  IF lands THEN content[f] ELSE Absent]
    /\ made' = [made EXCEPT ![p] = @ + 1]
    /\ slept' = [slept EXCEPT ![p] = FALSE]
    /\ req' = [req EXCEPT ![p] = NoReq]
    /\ Goto(p, "idle")
    /\ UNCHANGED <<clock, exists, inode, store, journal, known, curr, fd, todo,
                   insertion, rollback, cleanup>>

-----------------------------------------------------------------------------
(* create_snapshot                                                         *)


\* The timestamp is taken once for all copies of an insertion.
Stat(p) ==
    /\ Live(p, "stat")
    /\ stamp' = [stamp EXCEPT ![p] = clock]
    /\ Goto(p, IF job[p].file \in dirs THEN "copy" ELSE "mkdir")
    /\ UNCHANGED <<clock, disk, store, journal, calls, job, held, rollback,
                   cleanup, history>>

\* mkdir() fails if somebody made the directory since stat(): NULL is
\* returned, and strdup(NULL) faults.
Mkdir(p) ==
    /\ Live(p, "mkdir")
    /\ IF job[p].file \in dirs
       THEN CatchSignal(p)
       ELSE Goto(p, "copy") /\ UNCHANGED rollback
    /\ dirs' = dirs \cup {job[p].file}
    /\ UNCHANGED <<clock, disk, snaps, journal, calls, insertion, cleanup,
                   history>>

\* cp creates or truncates the snapshot and reads the file ...
Copy(p) ==
    /\ Live(p, "copy")
    /\ LET f == job[p].file IN
         IF f \in exists
         THEN /\ Put(f, stamp[p], Blank)
              /\ held' = [held EXCEPT ![p] = content[f]]
              /\ Goto(p, "fill")
              /\ UNCHANGED rollback
         ELSE CatchSignal(p) /\ UNCHANGED <<snaps, held>>
    /\ UNCHANGED <<clock, disk, dirs, journal, calls, job, stamp, cleanup,
                   history>>

\* Faulty variant of Fill: the copies are not counted to the last.
FillForever(p) ==
    /\ pc[p] = "fill"
    /\ Put(job[p].file, stamp[p], held[p])
    /\ job' = [job EXCEPT ![p].copies = @ - 1]
    /\ Goto(p, "copy")
    /\ UNCHANGED <<clock, disk, dirs, journal, calls, stamp, held, rollback,
                   cleanup, history>>

\* ... and writes what it read, to nowhere if cleanup removed the snapshot.
\* cp is another process: it goes on when a signal catches its parent.
Fill(p) ==
    /\ pc[p] = "fill"
    /\ LET f == job[p].file IN
         IF stamp[p] \in Stamps(f) THEN Put(f, stamp[p], held[p])
                                  ELSE UNCHANGED snaps
    /\ job' = [job EXCEPT ![p].copies = @ - 1]
    /\ Goto(p, IF job[p].copies = 1 THEN "link" ELSE "copy")
    /\ UNCHANGED <<clock, disk, dirs, journal, calls, stamp, held, rollback,
                   cleanup, history>>

\* The node is linked into the tree.
Link(p) ==
    /\ Live(p, "link")
    /\ known' = [known EXCEPT ![p] = @ \cup {job[p].file}]
    /\ job' = [job EXCEPT ![p] = NoJob]
    /\ Goto(p, IF job[p].own THEN "io" ELSE "replay")
    /\ UNCHANGED <<clock, disk, store, journal, curr, req, fd, todo, made, slept,
                   stamp, held, rollback, cleanup, history>>

-----------------------------------------------------------------------------
(* Choosing a snapshot: the handler and snap_ret                           *)

RollingBack(p, label) == status[p] \in {"live", "handler"} /\ rpc[p] = label

Then(p, label) == rpc' = [rpc EXCEPT ![p] = label]

Unmoved == UNCHANGED <<clock, dirs, journal, calls, insertion, pc, cleanup,
                       history>>

\* get_most_recent_snapshot_for_file, in the handler.  Without snapshots the
\* result is whatever the uninitialised pointer names: nothing, at best.
FindSnapshot(p) ==
    /\ RollingBack(p, "find")
    /\ target[p] \in exists
    /\ chosen' = [chosen EXCEPT ![p] =
         IF Stamps(target[p]) = {}
         THEN NoSnap
         ELSE [file |-> target[p], time |-> Newest(Stamps(target[p]))]]
    /\ Then(p, "ask")
    /\ UNCHANGED <<disk, snaps, status, target, rnode, locks>>
    /\ Unmoved

\* ... or realpath() is NULL, and the process faults in its handler.
FindFaults(p) ==
    /\ RollingBack(p, "find")
    /\ target[p] \notin exists \/ Stamps(target[p]) = {}
    /\ Leave(p, "died")
    /\ UNCHANGED <<disk, snaps>>
    /\ Unmoved

\* snap_ret lists the snapshots of a file and its user names one.
Retrieve(p) ==
    /\ RollingBack(p, "none")
    /\ p \in Retrievers
    /\ \E f \in exists :
         /\ target' = [target EXCEPT ![p] = f]
         /\ \E t \in Stamps(f) :
              chosen' = [chosen EXCEPT ![p] = [file |-> f, time |-> t]]
    /\ Then(p, "search")
    /\ UNCHANGED <<disk, snaps, status, rnode, locks>>
    /\ Unmoved

\* get_snapshot looks for the name in all directories, in no given order.
Search(p) ==
    /\ RollingBack(p, "search")
    /\ \E g \in Files :
         /\ BaseName[g] = BaseName[chosen[p].file]
         /\ chosen[p].time \in Stamps(g)
         /\ chosen' = [chosen EXCEPT ![p].file = g]
    /\ Then(p, "ask")
    /\ UNCHANGED <<disk, snaps, status, target, rnode, locks>>
    /\ Unmoved

\* The user says no; the snapshot named is in no directory any more; the file
\* or the snapshot does not open.
Decline(p) ==
    /\ RollingBack(p, "ask") \/ RollingBack(p, "search")
    /\ Leave(p, "exited")
    /\ UNCHANGED <<disk, snaps>>
    /\ Unmoved

-----------------------------------------------------------------------------
(* revert_to_previous_version                                              *)

Present(s) == s # NoSnap /\ snaps[s.file][s.time] # Absent

\* The user says yes; the file and the snapshot are opened.
Open(p) ==
    /\ RollingBack(p, "ask")
    /\ target[p] \in exists
    /\ Present(chosen[p])
    /\ rnode' = [rnode EXCEPT ![p] = inode[target[p]]]
    /\ Then(p, "lockfile")
    /\ UNCHANGED <<disk, snaps, status, target, chosen, locks>>
    /\ Unmoved

\* Faulty variant of LockFile: LOCK_SH for LOCK_EX.
LockFileShared(p) ==
    /\ RollingBack(p, "lockfile")
    /\ locks' = locks \cup {FileLock(p, target[p], rnode[p])}
    /\ Then(p, "locksnap")
    /\ UNCHANGED <<disk, snaps, status, target, chosen, rnode>>
    /\ Unmoved

\* flock() waits for the inode, not for the path.
LockFile(p) ==
    /\ RollingBack(p, "lockfile")
    /\ \A q \in Procs : FileLock(q, target[p], rnode[p]) \notin locks
    /\ locks' = locks \cup {FileLock(p, target[p], rnode[p])}
    /\ Then(p, "locksnap")
    /\ UNCHANGED <<disk, snaps, status, target, chosen, rnode>>
    /\ Unmoved

LockSnap(p) ==
    /\ RollingBack(p, "locksnap")
    /\ \A q \in Procs : SnapLock(q, chosen[p]) \notin locks
    /\ locks' = locks \cup {SnapLock(p, chosen[p])}
    /\ Then(p, "unlink")
    /\ UNCHANGED <<disk, snaps, status, target, chosen, rnode>>
    /\ Unmoved

\* unlink() removes what is at the path now.
Unlink(p) ==
    /\ RollingBack(p, "unlink")
    /\ target[p] \in exists
    /\ exists' = exists \ {target[p]}
    /\ inode' = [inode EXCEPT ![target[p]] = @ + 1]
    /\ Then(p, "put")
    /\ UNCHANGED <<content, snaps, status, target, chosen, rnode, locks>>
    /\ Unmoved

\* cp puts the snapshot at the path, over a file that an application created
\* there in between.
PutBack(p) ==
    /\ RollingBack(p, "put")
    /\ Present(chosen[p])
    /\ exists' = exists \cup {target[p]}
    /\ content' = [content EXCEPT ![target[p]] =
                     snaps[chosen[p].file][chosen[p].time]]
    /\ Then(p, "done")
    /\ status' = [status EXCEPT ![p] = "exited"]
    /\ locks' = {l \in locks : l.proc # p}
    /\ UNCHANGED <<inode, snaps, target, chosen, rnode>>
    /\ Unmoved

\* A call or the command fails, for whatever reason: flock() of the file or
\* of the snapshot; unlink(); or system(), before cp, after cp made the file,
\* or, with the file put back, at chown.  The locks are released, -1 is
\* returned, and the process exits.
RevertFails(p) ==
    /\ \/ /\ \E l \in {"lockfile", "locksnap", "unlink", "put"} :
               RollingBack(p, l)
          /\ UNCHANGED disk
       \/ /\ RollingBack(p, "put")
          /\ Present(chosen[p])
          /\ exists' = exists \cup {target[p]}
          /\ \E data \in {Blank, snaps[chosen[p].file][chosen[p].time]} :
               content' = [content EXCEPT ![target[p]] = data]
          /\ UNCHANGED inode
    /\ Leave(p, "exited")
    /\ UNCHANGED snaps
    /\ Unmoved

-----------------------------------------------------------------------------
(* init_cleanup_daemon, after its sleep: one pass over the directories     *)

Sweep(d) ==
    /\ dpc[d] = "sleep"
    /\ dpc' = [dpc EXCEPT ![d] = "next"]
    /\ dleft' = [dleft EXCEPT ![d] = dirs]
    /\ UNCHANGED <<clock, disk, store, journal, calls, insertion, pc, status,
                   rollback, ddir, dchosen, dlist, history>>

\* get_most_recent_snapshot: nothing but an uninitialised pointer for a
\* directory without snapshots.
ChooseKept(d) ==
    /\ dpc[d] = "next"
    /\ \E f \in dleft[d] :
         /\ ddir' = [ddir EXCEPT ![d] = f]
         /\ dleft' = [dleft EXCEPT ![d] = @ \ {f}]
         /\ dchosen' = [dchosen EXCEPT ![d] =
              IF Stamps(f) = {} THEN NoTime ELSE Newest(Stamps(f))]
    /\ dpc' = [dpc EXCEPT ![d] = "list"]
    /\ UNCHANGED <<clock, disk, store, journal, calls, insertion, pc, status,
                   rollback, dlist, history>>

\* remove_old_files opens the directory again.
List(d) ==
    /\ dpc[d] = "list"
    /\ dlist' = [dlist EXCEPT ![d] = Stamps(ddir[d])]
    /\ dpc' = [dpc EXCEPT ![d] = "remove"]
    /\ UNCHANGED <<clock, disk, store, journal, calls, insertion, pc, status,
                   rollback, dleft, ddir, dchosen, history>>

\* Faulty variant of RemoveOld: the most recent snapshot is not skipped.
RemoveAll(d) ==
    /\ dpc[d] = "remove"
    /\ \E t \in dlist[d] :
         /\ t \in Stamps(ddir[d])
         /\ Put(ddir[d], t, Absent)
         /\ dlist' = [dlist EXCEPT ![d] = @ \ {t}]
    /\ UNCHANGED <<clock, disk, dirs, journal, calls, insertion, pc, status,
                   rollback, dpc, dleft, ddir, dchosen, history>>

RemoveOld(d) ==
    /\ dpc[d] = "remove"
    /\ \E t \in dlist[d] \ {dchosen[d]} :
         /\ t \in Stamps(ddir[d])
         /\ Put(ddir[d], t, Absent)
         /\ dlist' = [dlist EXCEPT ![d] = @ \ {t}]
    /\ UNCHANGED <<clock, disk, dirs, journal, calls, insertion, pc, status,
                   rollback, dpc, dleft, ddir, dchosen, history>>

\* Another cleanup removed it first, or the name compared with is garbage.
RemoveFails(d) ==
    /\ dpc[d] = "remove"
    /\ \E t \in dlist[d] \ {dchosen[d]} :
         t \notin Stamps(ddir[d]) \/ dchosen[d] = NoTime
    /\ dpc' = [dpc EXCEPT ![d] = "done"]
    /\ UNCHANGED <<clock, disk, store, journal, calls, insertion, pc, status,
                   rollback, dleft, ddir, dchosen, dlist, history>>

Removed(d) ==
    /\ dpc[d] = "remove"
    /\ dlist[d] \subseteq {dchosen[d]}
    /\ dpc' = [dpc EXCEPT ![d] = "next"]
    /\ UNCHANGED <<clock, disk, store, journal, calls, insertion, pc, status,
                   rollback, dleft, ddir, dchosen, dlist, history>>

Swept(d) ==
    /\ dpc[d] = "next"
    /\ dleft[d] = {}
    /\ dpc' = [dpc EXCEPT ![d] = "done"]
    /\ UNCHANGED <<clock, disk, store, journal, calls, insertion, pc, status,
                   rollback, dleft, ddir, dchosen, dlist, history>>

-----------------------------------------------------------------------------
(* The environment                                                         *)

Tick ==
    /\ clock < MaxTime
    /\ clock' = clock + 1
    /\ slept' = [p \in Apps |-> TRUE]
    /\ UNCHANGED <<disk, store, journal, known, curr, req, fd, todo, made,
                   insertion, pc, status, rollback, cleanup, history>>

\* A signal in the handler itself is left to Journal.
Signal(p) ==
    /\ Signals
    /\ status[p] = "live"
    /\ CatchSignal(p)
    /\ UNCHANGED <<clock, disk, store, journal, calls, insertion, cleanup,
                   history>>

\* Out of calls or of seconds, or waiting at the end of the model's time.
AtRest ==
    /\ clock = MaxTime
    /\ \A p \in Apps : status[p] # "live" \/ pc[p] = "idle"
    /\ \A p \in Procs : status[p] # "handler"
    /\ UNCHANGED vars

-----------------------------------------------------------------------------
Operate(p) ==
    \/ Start(p) \/ Resolve(p) \/ ResolveMissing(p) \/ End(p)
    \/ Replay(p) \/ Replayed(p) \/ Record(p) \/ SystemCall(p)
    \/ Stat(p) \/ Mkdir(p) \/ Copy(p) \/ Fill(p) \/ Link(p)

RollBack(p) ==
    \/ FindSnapshot(p) \/ FindFaults(p)
    \/ Retrieve(p) \/ Search(p) \/ Decline(p)
    \/ Open(p) \/ LockFile(p) \/ LockSnap(p)
    \/ Unlink(p) \/ PutBack(p) \/ RevertFails(p)

Cleanup(d) ==
    \/ Sweep(d) \/ ChooseKept(d) \/ List(d)
    \/ RemoveOld(d) \/ RemoveFails(d) \/ Removed(d) \/ Swept(d)

Next ==
    \/ \E p \in Apps : Operate(p) \/ Signal(p)
    \/ \E p \in Procs : RollBack(p)
    \/ \E d \in Daemons : Cleanup(d)
    \/ Tick
    \/ AtRest

Spec == Init /\ [][Next]_vars

-----------------------------------------------------------------------------
(* Properties                                                              *)

\* Every version that a completed write replaced is in the store: README.md,
\* snapshots of file contents before each operation.  True of a single
\* application that lets a second go by before each call and before end();
\* without the second one snapshot overwrites the other.
BeforeImages ==
    \A f \in Files :
        \A v \in overwritten[f] : \E t \in Stamps(f) : snaps[f][t] = v

\* A rollback by the handler of a process that was between two calls, of a
\* file that still has what that process wrote last, puts back what that
\* write replaced: README.md, the previous version of the latest file that
\* was operated on.  It does not: cp may fail when the file is unlinked; and
\* the most recent snapshot may be one that somebody's rebuild has taken
\* since the write, or one that cp has not filled yet.
CanUndo(p) ==
    /\ pc[p] = "idle" /\ rpc[p] = "put"
    /\ replaced[p] # Absent
    /\ content[target[p]] \in {target[p]} \X {p} \X (0 .. MaxOps)

RollbackUndoesLastWrite ==
    [][\A p \in Apps :
         CanUndo(p) /\ status'[p] # status[p]
            => /\ target[p] \in exists'
               /\ content'[target[p]] = replaced[p]]_vars

\* One cleanup never empties a directory that had a snapshot when it chose
\* the one to keep, although it lists the directory again after that, and
\* snapshots come in between.
NeverEmptied ==
    [][\A f \in Files :
         Stamps(f) # {} /\ (\A t \in Times : snaps'[f][t] = Absent)
            => \E d \in Daemons : ddir[d] = f /\ dchosen[d] = NoTime]_vars

\* Of two rollbacks that opened the same inode only one is at work on it.
AtWork(p) == RollingBack(p, "unlink") \/ RollingBack(p, "put")

RevertsExclude ==
    \A p, q \in Procs :
        AtWork(p) /\ AtWork(q) /\ target[p] = target[q] /\ rnode[p] = rnode[q]
            => p = q

=============================================================================
