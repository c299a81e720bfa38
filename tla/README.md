# Verification of the custom file system

TLA+ models of the library in `custom_filesys.c`, `log.c`, `operational.c` and
`cleanup_daemon.c` and of the programs built on it, TLC configurations that
check them on small instances, and TLAPS proofs for every instance.

## 1. The system

Applications replace `write` and `read` by `my_write` and `my_read`. Before the
system call these journal the operation, insert the file into a tree kept in
memory, and copy the file into a snapshot store. `end()` publishes the tree as
JSON. Processes share nothing but files below `/home/snapshots`.

| component | state | operations | interacts with |
|---|---|---|---|
| operations (`my_write`, `my_read`) | `directory_tree_head`, `current_file_path_operated_on` | rebuild the tree from the journal if it is NULL, log, journal, insert, system call | journal, store, handler |
| `end()` | the same tree | forget the tree, replay the journal, dump | journal, dump |
| journal (`log.c`) | `absolute_paths.txt`, `log.txt`, one spin lock each per process | append a line; read all lines in two passes | every other process appends to the same files |
| dump (`extract_tree_to_json`) | `directory_tree.json`, its `flock` | at most 10000 attempts at the lock, truncate, write, unlock | `end()`, handler, other processes |
| handler (`custom_signal_handler`) | nothing of its own | find the latest snapshot, ask, roll back, dump, exit | runs on top of any interrupted step |
| snapshots (`create_snapshot`, `push`) | directory per file, a file per second | stat, mkdir, cp | cleanup, rollback |
| rollback (`revert_to_previous_version`) | `flock` on file and snapshot | open, lock, unlink, cp | applications with the file open |
| `snap_ret` | none | list, find a snapshot by name, roll back | store |
| `cleanup` | none | per directory: choose the newest, list again, remove the rest | writers of snapshots |
| tree (`add_directory_to_tree`) | nodes, file lists | insert, convert to JSON | dump |
| JSON readers (`construct_tree`) | the tree | build nodes from a published tree | not called |
| thread registry (`operational.c`) | list of PIDs, two mutexes | make the list, insert, remove | not built, not called |

What is hard here: every step interleaves with other processes, because the
locks of `log.c` are private to a process; a signal may come at any statement
and runs a handler that uses the interrupted data; several operations are
check-then-act on the file system (stat/mkdir, choose/remove, unlink/cp, count
then load); names have the resolution of a second; and failures are reported to
callers that do not look.

What makes the components correct:

- journal: every operation whose system call was made is in the journal once, in
  the order of its process, and nothing else is but operations cut short;
- tree: what a process shows are journalled operations in journal order, none
  twice; what `end()` publishes has at least the process's own;
- dump: one process at a time; a dump that succeeds leaves the tree it was given,
  and one that does not says so;
- snapshots: the contents before each write can be had back;
- rollback: undoes the last write, mixes no files, loses no file;
- cleanup: leaves the newest snapshot of each file, and never none;
- nodes: each file has one node, where its path says, with its own operations;
- text: a line of the journal and a published tree give back what was put in;
- registry: one list, and no registration is lost;
- calls and handlers end, whatever other processes do.

## 2. Modules

| module | what it is |
|---|---|
| `SeqEmbedding` | `Embeds(s, t)`: s is what is left of t when entries are dropped; `StartsWith` |
| `JournalSpec` | the abstract promise: an append-only journal and a mirror that is unreadable or shows an embedded selection of it |
| `Journal` | `my_write`, `my_read`, `end`, `log.c` between processes, the dump, the handler |
| `MCJournal` | its instances |
| `SeqEmbeddingTheorems`, `JournalProofs`, `WriteAheadProofs` | lemmas on embeddings; the theorems about `Journal` |
| `SpinLog`, `MCSpinLog`, `SpinLogProofs` | `log.c` between threads of one process: the lazily initialised spin lock |
| `Snapshots`, `MCSnapshots` | the snapshot store, rollback, `snap_ret`, `cleanup` |
| `SnapshotsProofs` | the theorems about `Snapshots` |
| `FileMap` | the abstract promise of the tree: a journal, and a map from files to their operations that is told of entries in order |
| `DirTree` | directory and file nodes, as operations and replays build them |
| `TreeFiles`, `MCTreeFiles` | the text of the journal beside `DirTree`, and trees rebuilt from JSON |
| `DirTreeProofs` | the theorems about `DirTree` and `TreeFiles` |
| `ThreadsList`, `MCThreadsList`, `ThreadsListProofs` | `operational.c`: the list of threads |

`Journal` and `DirTree` share the insertions: `Journal` keeps them in the order
they were made, among processes that interrupt each other, `DirTree` keeps the
nodes they make, in one process; `MapsFiles` says that nothing but the order of
insertions to different files is lost between the two. `SpinLog` is about the
steps inside one read or append of `DirTree`.

`Journal` and `Snapshots` meet in the handler and in the operations. `Journal` has
no contents: a file exists and has a snapshot, or not. It has the dump in full,
and the steps of the rollback with their locks, all of which a signal may
interrupt. `Snapshots` has the contents, the store, the rollbacks of several
processes and every way they fail; it treats the dump as nothing, and leaves the
signals that come to a handler to `Journal`.

### How `Journal` corresponds to the code

`pc` names the statement a process is at: `resolve` (realpath), `count` and
`load` (the two passes of `read_absolute_paths`), `replay` (the loop over its
result), `logwrite`, `journal`, `insert`, `io`, and `lock`, `dump`, `write`,
`unlock` for `extract_tree_to_json` (`unsaved` when `write_json_to_file` came back
without having written). `hpc` is the same for the handler, with `ask`, `flock`,
`unlink` and `copy` for the rollback; the handler
runs while `status` is `"handler"`; `pc` then stays where the signal came, and
only tells what was interrupted.

- The tree is the sequence of insertions since it was last NULL. Its shape is
  the subject of `DirTree`.
- A fault (`strdup(NULL)`, a heap found corrupt) is `Fault`: it raises a signal;
  inside the handler it ends the process, for the fault recurs while its signal
  is blocked. Interrupted inside `add_directory_to_tree`, a process may have a
  root without files: `Inserting`.
- `exit()` flushes stdio: a dump cut off after `fprintf` still reaches the file
  (`Exit`); one that the kernel ended does not (`Gone`).
- Lines stored beyond the array (`LoadOverrun`) fault or go unnoticed.
- Snapshots fail as the environment decides (`"snapfail"`), and so do `open` and
  `fopen` of the JSON file, `fprintf`, `flock` and `unlink` (`"iofail"`).
- `revlock` stands for both locks of a rollback, on the file and on its newest
  snapshot. A second rollback meets one of them at least: the first unless the
  file was replaced, the second unless a newer snapshot was taken as well. That
  they are locks of an inode and of one snapshot is in `Snapshots`.
- A `cp` whose parent is caught or killed has put the file back at that moment or
  never (`CopyGoesOn`); one that lands later is left out.
- `my_write` or `my_read` called with a wrong operation type return at once and
  are left out, as is a journal file that cannot be opened or created.
- Initially the journal file exists and is empty. Files are opened
  the way `exec` and `demo` do, writers with `O_CREAT`; the process exits
  after `end()`, as they do.
- A process has one thread here; threads are the subject of `SpinLog`.

### How `Snapshots` corresponds to the code

`snaps[f][t]` is the content of the snapshot of `f` named by second `t`;
contents are versions (file, writer, number of the call). `cp` into the store is
two steps, for the copy exists before it is filled, and it goes on when a signal
catches its parent. `inode` changes at `unlink`, so that a write through an old
descriptor, and a lock on an old inode, are what they are. `rpc` is the place in
the handler or in `snap_ret` up to the end of the rollback. A rollback may fail at
each of its calls, for whatever reason (`RevertFails`): before `cp` without a file,
after it with an empty one, at `chown` with the file put back. Simplifications:
`cp` reads its source when it creates its target; the `cp` of a rollback is one
step; reading a directory is one step, except that `remove_old_files` removes
entry by entry; the handler itself is not interrupted.

`Delay` makes an application wait for the next second before each call and before
`end()`. It is what `BeforeImages` needs, and more than the programs do: `exec`
never waits, and `demo` does not between its calls at demo.c:134 and 135, at 137
and 138, and before its `end()`.

### How `DirTree` and `TreeFiles` correspond to the code

A path is the sequence of its elements. A directory node is the walk that leads
to it (`dirs`), a file node is at a place: a walk and a name (`files`).
`add_directory_to_tree` is `AddDirectory`: the walk stops at the first element
that equals the file's name (`Stop`), creates what is missing on its way, and
the file is searched for by name in the directory reached. The root node is
named after the first element of the first path, and has the same element as a
child once more; `SubSeq(path, 1, 0)` is the root. A call is `Call` (rebuild if
there is no tree), `Replay` per line, `Record`; `end()` is `End`, `Replay`,
`Dump`. Other processes append at any time (`OtherRecords`), and a process may
end at any step (`Die`). The index variable `scan` is `line_count`.

`TreeFiles` runs `DirTree` with the text of `absolute_paths.txt` beside its
journal: `Line` is `snprintf` into the buffer, `LineCount` and `Lines` are the
two passes of `read_absolute_paths`, `Fields` and `Atoi` the loop body of the
replay. `fgets` and `strtok` both return what is between separators (`Pieces`),
but `strtok` takes separators in a row for one. A character stands for a path element, the bar, the digit or the
newline. `LinesReadBack` then says that the text always reads back as the
journal. It holds as long as lines fit the buffer, as they do in
`MCTreeFiles.cfg`; with `LineBuffer` one smaller the longest line loses its
newline and the property fails. In the code paths of 253 bytes lose the newline,
of 254 the digit too, and from 255 on the bar as well; what follows in the file
is glued to them. `Reconstructed` is `construct_tree`.

### How `ThreadsList` corresponds to the code

Each label of `pc` is a statement of `get_linked_list_instance`, `insert_thread`
or `remove_thread_node` that another thread may come before. `list` tells how
far the list has been filled in: `raw` after `malloc`, whose memory is zero or
not (`zeroed`), `headed` after `head` is set, `made` after the mutex is. Using a
list that is neither made nor zero is a fault, and the model stops there. The
walk along the nodes is one step, for it is under the mutex. All nodes have
`getpid()`, which is the same in all threads.

## 3. Runs

| run | instance | what it shows |
|---|---|---|
| `journal_faults` | 2 processes, 2 files, an append to one, a read of the other, one operation each; signals, SIGKILL, removed files, failing snapshots and failing calls | `TypeOK`, `WriteAhead`, `TreeFollowsJournal`, `DumpersHoldLock`, `EndTreeIsScan`, `EndPublishesOwnOps`, `UnlockLeavesTree`, `MirrorsJournal` (the refinement) |
| `journal_live` | 2 processes, 1 file, one append each, signals, fairness | `CallsReturn` |
| `journal_verified` | as above without faults, more attempts at the lock than anybody needs | **violated**: `VerifiedConsistent` |
| `journal_crash` | two appends, signals | **violated**: `CrashKeepsStatus` |
| `spinlog` | 3 threads, two calls each, the flag unset at first, destroys, fairness | `TypeOK`, `MutualExclusion`, `ScanFits`, `LockIsGiven` |
| `snap_delayed` | an application with a second between calls, a `snap_ret`, 2 files, signals, failing rollbacks | `TypeOK`, `BeforeImages`, `RevertsExclude` |
| `snap_cleanup` | 2 applications without delays, 1 cleanup | `NeverEmptied` |
| `snap_exec` | one write, `end()` | **violated**: `BeforeImages` |
| `snap_undo` | 2 applications, signals | **violated**: `RollbackUndoesLastWrite` |
| `tree` | 3 paths of three names, 3 journal entries | `TypeOK`, `NodesInPlace`, `LinesReadBack`, `JsonVerified`, `JsonRestoresNodes`, `MapsFiles` (the refinement) |
| `tree_alike` | `/a/f/f` and `/a/f/b/f` | **violated**: `JsonVerified` |
| `threads` | 3 threads, fairness | `TypeOK`, `OneList`, `ListExcludes`, `NoneLost`, `CallsEnd` |

The largest are `snap_delayed` (3.5 million distinct states), `journal_faults`
(1.0, with symmetry) and `snap_cleanup` (1.7).

Why these bounds: each hazard needs two actors, one of which stands between two
of its steps while the other completes one of its own, and two operations in one
process at most (one to be completed, one to be interrupted). `MaxSpin = 1` makes
giving up happen next to every other step; the number itself does not matter to
any property but `VerifiedConsistent`, for which it is set beyond what two
processes can use up, so that the violation is not one of giving up. Two seconds
tell equal from different timestamps; the delayed run has four. Symmetry is used
for safety only. The paths of `tree` have two files of one name, a file named
like a directory elsewhere, and two different first elements; three entries make
two operations of one file around one of another, with a rebuild between any
two. Three threads are needed in `threads` for one that makes the list, one that
waits for it and one that comes in the middle.

What the properties of the passing runs leave out, and what then happens in the
code, is named in them and told below: `BeforeImages` is only true of one
application that waits a second before each call and before `end()` (`snap_exec`
shows the programs as they are); `NeverEmptied` has one cleanup; `MutualExclusion`
and `ScanFits` start from the flag unset, as the code does, and except what
follows a race for its initialisation until all threads have left; `NoneLost` and
`ListExcludes` except a thread that got the list before it was made; `CallsReturn`
excepts a handler that waits for another rollback of its file.

`Spec` lets everything stop. Deadlock is checked everywhere; the disjuncts
`AllGone`, `Finished` and `AtRest` are the states where all work is done.

Fairness (`FairSpec`) is weak fairness of the steps a runnable process or thread
takes by itself: the scheduler runs it. No fairness is assumed of the
application (it may never call again), of signals, or of the user, who may leave
the prompt of the handler for ever, with the lock of the JSON file held. The
answer at the prompt (`Answer`) is the user's; what follows it is the handler's. In
`ThreadsList` a thread is run inside `init()` and `end()`, and calls them, or
does not, when it likes; each thread takes either mutex a bounded number of times,
so that weak fairness is enough for the one that waits.

### What the violated runs show

1. `journal_verified`: `end()` reads the journal, then waits for the lock, then
   writes. The process that read earlier may write later; the final JSON then
   lacks an operation of the other although nothing failed.
2. `journal_crash`: a signal in the replay of `end()` lets the handler publish a
   part of the tree, without operations that this process had completed.
3. `snap_exec`: the snapshot that `end()` takes of the written file has the name
   of the one taken before the write, if both fall into one second. The run ends
   where `cp` truncates it; the next step fills it with the written contents.
4. `snap_undo`: a rollback unlinks the file before it knows whether `cp` will
   succeed, and when it does not, the file is gone. With two applications the
   property fails in another way too: the rebuild of the other one takes a
   snapshot after the write, and the rollback to that one undoes nothing.
5. `tree_alike`: the file `/a/f/f` is filed under `/a`, because its directory has
   its name, and so is `/a/f/b/f`. They share a node, which has the path of the
   one that came first: the published tree does not have the other path, and
   shows its operations as those of the first.

Without runs of their own, though the models have them:

- SIGKILL cannot be caught, although `handler_init` installs a handler for it
  (`Kill` in `Journal`);
- another process appends between the two passes of `read_absolute_paths`, and the
  second pass stores more lines than the first one made room for (`LoadOverrun`);
- the path of a file that is gone stays in the journal, and every process that
  replays it faults there (`ReplayFaults`);
- a dump whose `fopen` or `fprintf` fails returns 0 all the same (`SaveFails`);
- a signal between `flock` and `unlink` of a rollback starts the handler again; if
  the user says yes again, it waits for a lock that its own interrupted frame holds
  and never gives back (`RevertLock`);
- two threads may both find the flag of the spin lock unset; the second
  `pthread_spin_init` frees the lock under the first, whose scan then meets an
  append (`raced`);
- of two processes that snapshot a file for the first time the second may fail at
  `mkdir`, and faults (`Mkdir`);
- `snap_ret` looks for a name in all directories and may restore the snapshot of
  another file of that name and second (`Search`);
- only rollbacks take the locks of `revert_to_previous_version`, and they lock
  inodes: writers change the file under them (`SystemCall`, `Start`);
- one cleanup may remove a snapshot made after it chose the one to keep, although
  README.md:44 of the repository says it removes all but the most recent; two
  cleanups at a time may leave none;
- a thread may link its node to a list whose head is then set to NULL (`early`);
  and the first `end()` removes the nodes of all threads, so that the next one
  faults at operational.c:126.

## 4. Proofs

For any number of processes, files, operations and attempts (`JournalProofs`):

- `TypeCorrect`: `Spec => []TypeOK`;
- `DumpMutualExclusion`: `Spec => []DumpersHoldLock`;
- `TreesFollowJournal`: `Spec => []TreeFollowsJournal`;
- `EndTreesAreScans`: `Spec => []EndTreeIsScan`;
- `EndsPublishOwnOps`: `Spec => EndPublishesOwnOps`;
- `UnlocksLeaveTree`: `Spec => UnlockLeavesTree`;
- `CoreImplementsJournal`: `Spec => MirrorsJournal`, the refinement.

They use the assumptions on constants that `Journal` names, and nothing else:
any environment is allowed. `IndInv` is inductive: `TypeInv`, `LockInv` (frames
in the dump hold the lock, the handler's and the interrupted one), `ScanInv` and
`JsonFollowsJournal`. `TreeFollowsJournal` alone is not inductive, because an
insertion is embedded only for what surrounds it: between the journal entry and
the insertion the tree must embed into the journal without its own last entry,
and during a replay the tree followed by the lines still to come must embed into
the journal. `ScanInv` says so for every `pc`. `StepEffect` sums up what a step
may do to each process's part of the state, so that each part of the invariant
is proved once per effect and not once per action. The lemmas of
`SeqEmbeddingTheorems` are about explicit embeddings (increasing functions on
indices), for inductions over sequences are not available.

`UnlocksLeaveTree` needs `HoldInv`: a process that holds the lock of the JSON file
and was not interrupted is in its dump, and whoever stands before the unlock of a
dump that succeeded has its tree in the file. A process that was interrupted in
its dump may hold the lock over a torn file, but then it can only die with it.

`WriteAheadProofs` proves `JournalsAreAhead`: `Spec => []WriteAhead`, by counting.
`CountInv` says that the operations made and those on their way to being made
are finitely many for each entry, and as many as the journal has of it
(`CountOK`), that `log.txt` has a line for each write made or announced
(`AnnouncedOK`), and that a call only begins with room for one more operation
(`RoomInv`). `StepCounts` sorts the steps by what they do to the counts: a step
is `Quiet`, `Announces` a write in `log.txt`, `Enters` an operation into the
journal or `Issues` one that is there. A process that dies on its way leaves its
entry behind, and stays on its way for the count.

For any number of threads and calls (`SpinLogProofs`), from the flag unset on as in
the code: `TypeCorrect`, `LockExcludes` and `ScansFit`. The last two except what
follows a race: a thread initialises the lock while another one is in a call
(`Racing`). `raced` records it until all threads have left; after that the
promise holds again, which is what the proof has to show when the last one leaves.
`LockInv` says that a race is on record while it lasts, and that without one
whoever is in the section has taken the word; `ScansFit` needs that a count does
not age while its thread is in the section.

For any names and any set of paths none of which has its file's name before its
end (`ProperPaths`, a premise of each theorem but the last; `tree_alike` shows
what happens without it), and any length of the journal (`DirTreeProofs`):

- `TypeCorrect`: `Spec => []TypeOK`;
- `FilesInPlace`: `Spec => []NodesInPlace`;
- `TreeIsMap`: `Spec => MapsFiles`, the refinement;
- `JsonIsJournal`: `Spec => []JsonVerified`;
- `JsonRestoresTree`: `Spec => []JsonRestoresNodes`;
- `JournalReadsBack`: `TreeSpec => []LinesReadBack`, when no path contains a bar
  or a newline (`SeparatorsApart`) and the buffer holds a line of each
  (`LinesFit`: in the code, paths of at most 252 bytes).

The key is `StopAtEnd`: on a proper path the walk goes to the end, so that
different paths have different places. `AddDirectoryShows` then says what one
insertion does to what every other file shows. The refinement needs `TodoInv`:
what is still to be replayed is the part of the journal that ends where the scan
ended, also after other processes have appended.

`JsonInv` says that the tree tells the journal so far (`TreeTells`) while `end()`
replays, and that the published tree does up to the place it was read to. A
node tells the operations of its path when it has as many as the journal has
entries of the path, each at the position that its entry has among them
(`Tells`), so that an entry more is an operation more (`TellsNext`). In a call the
tree need not tell the journal: other processes' entries are never inserted.

`Reconstructed` and `Split` are folds of the community modules, which are
recursive functions: what they return is only known when such a function exists.
`TreesExist` and `SplitsExist` show that it does, by the smallest size of a set
that it does not exist for, and `TreesRestore` and `SplitPiece` say in the same
way what it returns; `NatMin` gives the smallest. `TextInv` then says that the
text splits into the journal's lines and nothing after them. `TreeRuns` carries
the theorems on `Spec` over to `TreeSpec`, which the run checks.

For any number of threads (`ThreadsListProofs`): `TypeCorrect`, `ListIsOne`,
`ListMutexExcludes` and `InsertionsKept`. `OneList` needs `HeadInv` (who is
between lock and unlock of `head_mutex` holds it) and `MadeInv` (where the thread
that makes the list stands is how far the list is); `ListExcludes` needs
`ListInv`: unless somebody was early, nobody is anywhere near a list that is not
made, and who is inside holds its mutex. `NoneLost` is then inductive.

For any number of applications, retrievers, cleanups and files, and any bounds
(`SnapshotsProofs`):

- `TypeCorrect`: `Spec => []TypeOK`;
- `RevertsExcluded`: `Spec => []RevertsExclude`, by `LocksInv`: from its second
  `flock` on a rollback holds the lock of the inode it opened, which no other has;
- `OneCleanupKeeps`: with one cleanup at a time (`OneCleanup`),
  `Spec => NeverEmptied`, by `KeptInv`: what it chose is still in the store while
  it removes the rest. This is the assumption that the C code needs and does not
  establish;
- `FilesKeepNames`: a file only ever gets contents of files that have its name,
  which is all that `get_snapshot` compares, without any hypothesis. `NamesInv`
  follows a content through `cp` into the store, where it may arrive after its
  caller was interrupted, and back through a rollback that may fail half-way.

`TypeOK` of `Snapshots` is not inductive: `TypeInv` adds that a call is being
served, and an insertion made, where `pc` says so, and that a rollback has a file
and a snapshot where `rpc` says so. `NewestIsGreatest` proves that the choice of
the most recent snapshot is defined, from the well-foundedness of the naturals.

Only model-checked: liveness (`CallsReturn`, `LockIsGiven`,
`CallsEnd`), for fairness and leads-to are beyond the prover's backends; and
`BeforeImages`, which is false of the programs as they are and only holds of an
application that waits. Every other property of a passing run is a theorem.

## 5. Not modelled, and the plan

Not modelled: file metadata and hashes (pure functions of a path or of
`stat()`), the text of `log.txt` (nobody reads it), the Python scripts (drivers; what
`verify_execution.py` asserts is `VerifiedConsistent` and `JsonVerified`), the C
library under the handler, the sleep of `init_cleanup_daemon` (cleanup starts at
any time).

Facts met while reading that no property is about:

- a bar in a file's name splits its journal line in the wrong place, and the
  replay takes another path and operation;
- `str_split` stores a NULL one past its array when the string does not end in
  the delimiter and does not start with it, as for every journal line;
- a last line without newline is stored by `read_absolute_paths` but not counted,
  one pointer beyond the array;
- a byte 0xFF in a path equals EOF in a signed char, and ends the count early;
- `time * 30 * 24 * 3600` wraps in 32 bits from 1657 months on, and an unknown
  flag is announced as a sleep of two hours and does not sleep at all; `cleanup`
  without arguments says that flag 4 is years, and `init_cleanup_daemon` takes it
  for months;
- a path without a directory (`str_split` returns NULL) cannot reach the tree,
  because `realpath` puts one in front.

Planned:

1. a `cp` that lands after the signal that caught its parent, in `Journal`;
2. the conversions of the cleanup's sleep, with their width.
