-------------------------- MODULE SnapshotsProofs --------------------------
(***************************************************************************)
(* Proofs about Snapshots, for any applications, retrievers, files, bounds *)
(* and switches: type correctness, that two rollbacks never work on one    *)
(* inode, that contents stay with files of one name, and that one cleanup  *)
(* leaves every directory a snapshot.                                      *)
(***************************************************************************)
EXTENDS Snapshots, WellFoundedInduction, TLAPS

-----------------------------------------------------------------------------
(* The newest of some timestamps                                           *)

\* Times are bounded, so every set of them that is not empty has a greatest
\* element: the one with the least distance from MaxTime.
LEMMA NewestIsGreatest ==
    ASSUME NEW S \in SUBSET Times, S # {}
    PROVE  Newest(S) \in S /\ \A u \in S : u <= Newest(S)
<1> DEFINE Distances == {MaxTime - t : t \in S}
<1>1. MaxTime \in Nat /\ \A t \in S : t \in Nat /\ t <= MaxTime
  BY SnapshotBounds DEF Times
<1>2. Distances \subseteq Nat
  <2>1. \A t \in S : MaxTime - t \in Nat
    BY <1>1
  <2> QED
    BY <2>1
<1>3. Distances # {}
  OBVIOUS
<1>4. PICK m \in Distances :
        \A n \in Distances : ~(<<n, m>> \in OpToRel(<, Nat))
  BY <1>2, <1>3, NatLessThanWellFounded, WFMin
<1>5. \A n \in Distances : ~(n < m)
  <2>1. \A n \in Distances : <<n, m>> \in Nat \X Nat
    BY <1>2
  <2> QED
    BY <1>4, <2>1 DEF OpToRel
<1>6. PICK t \in S : m = MaxTime - t
  OBVIOUS
<1>7. \A u \in S : u <= t
  <2> SUFFICES ASSUME NEW u \in S PROVE u <= t
    OBVIOUS
  <2>1. ~(MaxTime - u < MaxTime - t)
    BY <1>5, <1>6
  <2> QED
    BY <1>1, <2>1
<1> QED
  BY <1>6, <1>7 DEF Newest

-----------------------------------------------------------------------------
(* Type correctness                                                        *)

Request == [file : Files, op : {"R", "W"}]
Insertion == [file : Files, copies : 0 .. 2, own : BOOLEAN]
Snapshot == [file : Files, time : Times]

\* TypeOK in groups of variables, each with what its actions need to know of
\* each other to keep it.

FilesOK ==
    /\ clock \in Times
    /\ exists \subseteq Files
    /\ content \in [Files -> Contents]
    /\ inode \in [Files -> Nat]
    /\ dirs \subseteq Files
    /\ snaps \in [Files -> [Times -> Contents \cup {Absent}]]
    /\ journal \in Seq(Request)
    /\ overwritten \in [Files -> SUBSET Contents]

\* A call is served where one is, and an insertion made where one is; a call
\* being served is within the bound.
ServingOK(p) ==
    /\ req[p] # NoReq => made[p] < MaxOps
    /\ pc[p] \in {"resolve", "record", "io"} => req[p] # NoReq
    /\ pc[p] \in {"stat", "mkdir", "copy", "fill"}
         => job[p] # NoJob /\ job[p].copies > 0
    /\ pc[p] = "link" => job[p] # NoJob
    /\ pc[p] \in {"idle", "resolve", "replay", "record", "io"}
         => job[p] = NoJob
    /\ job[p].own => req[p] # NoReq

AppTypes ==
    /\ known \in [Apps -> SUBSET Files]
    /\ curr \in [Apps -> Files \cup {NoFile}]
    /\ req \in [Apps -> Request \cup {NoReq}]
    /\ fd \in [Apps -> Nat]
    /\ todo \in [Apps -> Seq(Request)]
    /\ job \in [Apps -> Insertion \cup {NoJob}]
    /\ stamp \in [Apps -> Times]
    /\ held \in [Apps -> Contents]
    /\ made \in [Apps -> 0 .. MaxOps]
    /\ slept \in [Apps -> BOOLEAN]
    /\ pc \in [Apps -> {"idle", "resolve", "replay", "record", "stat",
                        "mkdir", "copy", "fill", "link", "io"}]
    /\ replaced \in [Apps -> Contents \cup {Absent}]

AppsOK == AppTypes /\ \A p \in Apps : ServingOK(p)

\* A rollback has a file, and from its search on a snapshot.
RevertingOK(p) ==
    /\ rpc[p] # "none" => target[p] \in Files
    /\ rpc[p] \in {"search", "lockfile", "locksnap", "unlink", "put"}
         => chosen[p] # NoSnap

ProcsOK ==
    /\ status \in [Procs -> {"live", "handler", "exited", "died"}]
    /\ rpc \in [Procs -> {"none", "find", "search", "ask", "lockfile",
                          "locksnap", "unlink", "put", "done"}]
    /\ target \in [Procs -> Files \cup {NoFile}]
    /\ chosen \in [Procs -> Snapshot \cup {NoSnap}]
    /\ rnode \in [Procs -> Nat]
    /\ locks \subseteq [kind : {"file", "snap"}, proc : Procs, file : Files,
                        key : Nat]
    /\ \A p \in Procs : RevertingOK(p)

DaemonsOK ==
    /\ dpc \in [Daemons -> {"sleep", "next", "list", "remove", "done"}]
    /\ dleft \in [Daemons -> SUBSET Files]
    /\ ddir \in [Daemons -> Files \cup {NoFile}]
    /\ dchosen \in [Daemons -> Times \cup {NoTime}]
    /\ dlist \in [Daemons -> SUBSET Times]
    /\ \A d \in Daemons : dpc[d] \in {"list", "remove"} => ddir[d] \in Files

TypeInv == FilesOK /\ AppsOK /\ ProcsOK /\ DaemonsOK

LEMMA TypeInvTypes == TypeInv => TypeOK
BY DEF TypeInv, FilesOK, AppsOK, AppTypes, ProcsOK, DaemonsOK, TypeOK,
       Request, Insertion, Snapshot

LEMMA InitTyped == Init => TypeInv
<1> SUFFICES ASSUME Init PROVE TypeInv
  OBVIOUS
<1> USE SnapshotBounds
<1>1. FilesOK
  BY DEF Init, FilesOK, Contents, Versions, Times
<1>2. AppsOK
  BY DEF Init, AppsOK, AppTypes, ServingOK, Contents, NoReq, NoJob, Times
<1>3. ProcsOK
  BY DEF Init, ProcsOK, RevertingOK
<1>4. DaemonsOK
  BY DEF Init, DaemonsOK
<1> QED
  BY <1>1, <1>2, <1>3, <1>4 DEF TypeInv

LEMMA StampsAreTimes == \A f \in Files : Stamps(f) \in SUBSET Times
BY DEF Stamps

LEMMA PutTyped ==
    ASSUME snaps \in [Files -> [Times -> Contents \cup {Absent}]],
           NEW f \in Files, NEW t \in Times, NEW data \in Contents \cup {Absent},
           Put(f, t, data)
    PROVE  snaps' \in [Files -> [Times -> Contents \cup {Absent}]]
<1>1. [snaps[f] EXCEPT ![t] = data] \in [Times -> Contents \cup {Absent}]
  OBVIOUS
<1>2. snaps' = [snaps EXCEPT ![f] = [snaps[f] EXCEPT ![t] = data]]
  BY DEF Put
<1> QED
  BY <1>1, <1>2

LEMMA LeaveTyped ==
    ASSUME ProcsOK, NEW p \in Procs, NEW how \in {"exited", "died"},
           Leave(p, how)
    PROVE  ProcsOK'
BY DEF ProcsOK, RevertingOK, Leave

LEMMA CatchTyped ==
    ASSUME AppsOK, ProcsOK, NEW p \in Apps, CatchSignal(p)
    PROVE  ProcsOK' /\ UNCHANGED pc
<1>0. p \in Procs
  BY DEF Procs
<1>1. CASE curr[p] = NoFile
  BY <1>0, <1>1, LeaveTyped DEF CatchSignal, Leave
<1>2. CASE curr[p] # NoFile
  <2>1. curr[p] \in Files
    BY <1>2 DEF AppsOK, AppTypes
  <2>2. /\ status' = [status EXCEPT ![p] = "handler"]
        /\ rpc' = [rpc EXCEPT ![p] = "find"]
        /\ target' = [target EXCEPT ![p] = curr[p]]
        /\ UNCHANGED <<pc, chosen, rnode, locks>>
    BY <1>2 DEF CatchSignal
  <2> QED
    BY <1>0, <2>1, <2>2 DEF ProcsOK, RevertingOK
<1> QED
  BY <1>1, <1>2

\* A move of the program leaves its rollback, and its locks, alone.
LEMMA GotoTyped ==
    ASSUME ProcsOK, NEW p \in Apps, NEW label, Goto(p, label),
           UNCHANGED rollback
    PROVE  ProcsOK'
BY DEF ProcsOK, RevertingOK, Goto, rollback

\* A request is no NoReq, and an insertion no NoJob.
LEMMA SentinelsApart == NoReq \notin Request /\ NoJob \notin Insertion
BY ProcsAssumption DEF NoReq, NoJob, Request, Insertion

LEMMA InCall ==
    ASSUME AppsOK, NEW p \in Apps, pc[p] \in {"resolve", "record", "io"}
    PROVE  /\ req[p] \in Request
           /\ req[p].file \in Files /\ req[p].op \in {"R", "W"}
           /\ made[p] \in 0 .. MaxOps /\ made[p] < MaxOps
           /\ job[p] = NoJob
<1>1. /\ req[p] \in Request /\ made[p] \in 0 .. MaxOps
      /\ made[p] < MaxOps /\ job[p] = NoJob
  BY DEF AppsOK, AppTypes, ServingOK
<1> QED
  BY <1>1 DEF Request

LEMMA InInsertion ==
    ASSUME AppsOK, NEW p \in Apps,
           pc[p] \in {"stat", "mkdir", "copy", "fill", "link"}
    PROVE  /\ job[p] \in Insertion
           /\ job[p].file \in Files /\ job[p].own \in BOOLEAN
           /\ job[p].copies \in 0 .. 2
           /\ pc[p] # "link" => job[p].copies > 0
           /\ job[p].own => req[p] # NoReq
<1>1. /\ job[p] \in Insertion
      /\ pc[p] # "link" => job[p].copies > 0
      /\ job[p].own => req[p] # NoReq
  BY DEF AppsOK, AppTypes, ServingOK
<1> QED
  BY <1>1 DEF Insertion

\* Only the process that moves has its call and insertion to keep in order.
LEMMA ServingKept ==
    ASSUME AppsOK, NEW p \in Apps,
           \A q \in Apps \ {p} : /\ req'[q] = req[q] /\ made'[q] = made[q]
                                 /\ pc'[q] = pc[q] /\ job'[q] = job[q],
           AppTypes', ServingOK(p)'
    PROVE  AppsOK'
<1> SUFFICES ASSUME NEW q \in Apps PROVE ServingOK(q)'
  BY DEF AppsOK
<1>1. CASE q = p
  BY <1>1
<1>2. CASE q # p
  BY <1>2 DEF AppsOK, ServingOK
<1> QED
  BY <1>1, <1>2

\* The program's own steps.
LEMMA OperateTyped ==
    ASSUME TypeInv, NEW p \in Apps, Operate(p)
    PROVE  TypeInv'
<1> USE DEF TypeInv
<1>1. CASE Start(p)
  <2>0. PICK f \in Files, op \in {"R", "W"} :
          /\ req' = [req EXCEPT ![p] = [file |-> f, op |-> op]]
          /\ fd' = [fd EXCEPT ![p] = inode[f]]
          /\ exists' = exists \cup {f}
          /\ content' = IF f \in exists THEN content
                                        ELSE [content EXCEPT ![f] = Blank]
    BY <1>1, OperationsAssumption DEF Start
  <2>a. [file |-> f, op |-> op] \in Request /\ inode[f] \in Nat
    BY DEF Request, FilesOK
  <2>1. FilesOK'
    BY <1>1, <2>0 DEF Start, FilesOK, disk, store, history, Contents
  <2>2. AppTypes'
    <3>1. req' \in [Apps -> Request \cup {NoReq}]
      BY <2>0, <2>a DEF AppsOK, AppTypes
    <3>2. fd' \in [Apps -> Nat]
      BY <2>0, <2>a DEF AppsOK, AppTypes
    <3>3. pc' \in [Apps -> {"idle", "resolve", "replay", "record", "stat",
                            "mkdir", "copy", "fill", "link", "io"}]
      BY <1>1 DEF Start, Goto, AppsOK, AppTypes
    <3> QED
      BY <1>1, <3>1, <3>2, <3>3
      DEF Start, AppsOK, AppTypes, insertion, history
  <2>3. AppsOK'
    <3>1. ServingOK(p)'
      <4>1. req'[p] # NoReq /\ pc'[p] = "resolve" /\ job[p] = NoJob
        BY <1>1, <2>0, <2>a, SentinelsApart
        DEF Start, MayCall, Live, Goto, AppsOK, AppTypes, ServingOK
      <4>2. made'[p] < MaxOps /\ job' = job
        BY <1>1 DEF Start, insertion
      <4> QED
        BY <4>1, <4>2 DEF ServingOK
    <3> QED
      BY <1>1, <2>0, <2>2, <3>1, ServingKept
      DEF Start, Goto, AppsOK, AppTypes, insertion
  <2>4. ProcsOK'
    BY <1>1, GotoTyped DEF Start
  <2>5. DaemonsOK'
    BY <1>1 DEF Start, DaemonsOK, cleanup
  <2> QED
    BY <2>1, <2>3, <2>4, <2>5
<1>2. CASE Resolve(p)
  <2>0. /\ req[p] \in Request /\ req[p].file \in Files
        /\ req[p].op \in {"R", "W"} /\ made[p] \in 0 .. MaxOps
        /\ made[p] < MaxOps /\ job[p] = NoJob
    BY <1>2, InCall DEF Resolve, Live
  <2>1. FilesOK'
    BY <1>2 DEF Resolve, FilesOK, disk, store, history
  <2>2. AppTypes'
    BY <1>2, <2>0
    DEF Resolve, AppsOK, AppTypes, FilesOK, Live, Goto, calls, insertion,
        history
  <2>3. AppsOK'
    BY <1>2, <2>0, <2>2, ServingKept
    DEF Resolve, AppsOK, AppTypes, ServingOK, Live, Goto, calls, insertion
  <2>4. ProcsOK'
    BY <1>2, GotoTyped DEF Resolve
  <2>5. DaemonsOK'
    BY <1>2 DEF Resolve, DaemonsOK, cleanup
  <2> QED
    BY <2>1, <2>3, <2>4, <2>5
<1>3. CASE ResolveMissing(p)
  <2>0. /\ req[p] \in Request /\ req[p].file \in Files
        /\ req[p].op \in {"R", "W"} /\ made[p] \in 0 .. MaxOps
        /\ made[p] < MaxOps /\ job[p] = NoJob
    BY <1>3, InCall DEF ResolveMissing, Live
  <2>1. FilesOK'
    BY <1>3 DEF ResolveMissing, FilesOK, disk, store, history
  <2>2. AppTypes'
    BY <1>3, <2>0
    DEF ResolveMissing, AppsOK, AppTypes, FilesOK, Live, Goto, calls,
        insertion, history, CatchSignal, Leave
  <2>3. AppsOK'
    BY <1>3, <2>0, <2>2, ServingKept
    DEF ResolveMissing, AppsOK, AppTypes, ServingOK, Live, Goto, calls,
        insertion, CatchSignal, Leave
  <2>4. ProcsOK'
    BY <1>3, CatchTyped, GotoTyped DEF ResolveMissing
  <2>5. DaemonsOK'
    BY <1>3 DEF ResolveMissing, DaemonsOK, cleanup
  <2> QED
    BY <2>1, <2>3, <2>4, <2>5
<1>4. CASE End(p)
  <2>1. FilesOK'
    BY <1>4 DEF End, FilesOK, disk, store, history
  <2>2. AppTypes'
    BY <1>4
    DEF End, AppsOK, AppTypes, FilesOK, Live, Goto, calls, insertion, history
  <2>3. AppsOK'
    <3>1. job[p] = NoJob
      BY <1>4 DEF End, MayCall, Live, AppsOK, ServingOK
    <3>2. ServingOK(p)'
      BY <1>4, <3>1
      DEF End, Goto, NoJob, AppsOK, AppTypes, ServingOK, insertion
    <3> QED
      BY <1>4, <2>2, <3>2, ServingKept
      DEF End, Goto, AppsOK, AppTypes, insertion
  <2>4. ProcsOK'
    BY <1>4, GotoTyped DEF End
  <2>5. DaemonsOK'
    BY <1>4 DEF End, DaemonsOK, cleanup
  <2> QED
    BY <2>1, <2>3, <2>4, <2>5
<1>5. CASE Replay(p)
  <2> DEFINE e == Head(todo[p])
             new == [file |-> e.file, own |-> FALSE, copies |-> Copies(e.op)]
  <2>0. e \in Request /\ Tail(todo[p]) \in Seq(Request)
    BY <1>5 DEF Replay, AppsOK, AppTypes
  <2>a. new \in Insertion /\ Copies(e.op) \in {1, 2}
    BY <2>0 DEF Request, Insertion, Copies
  <2>b. pc[p] = "replay" /\ job[p] = NoJob
    BY <1>5 DEF Replay, Live, AppsOK, ServingOK
  <2>c. \/ /\ job' = [job EXCEPT ![p] = new]
           /\ todo' = [todo EXCEPT ![p] = Tail(@)]
           /\ Goto(p, "stat")
        \/ UNCHANGED <<job, todo, pc>>
    <3>1. CASE e.file \in exists
      BY <1>5, <3>1 DEF Replay
    <3>2. CASE e.file \notin exists
      <4>1. CatchSignal(p) /\ UNCHANGED <<job, todo>>
        BY <1>5, <3>2 DEF Replay
      <4> QED
        BY <4>1 DEF CatchSignal, Leave
    <3> QED
      BY <3>1, <3>2
  <2>d. UNCHANGED <<known, curr, req, fd, made, slept, stamp, held, replaced>>
    BY <1>5 DEF Replay, history
  <2> HIDE DEF e, new
  <2>1. FilesOK'
    BY <1>5 DEF Replay, FilesOK, disk, store, history
  <2>2. AppTypes'
    <3>1. todo' \in [Apps -> Seq(Request)]
      BY <2>0, <2>c DEF AppsOK, AppTypes
    <3>2. job' \in [Apps -> Insertion \cup {NoJob}]
      BY <2>a, <2>c DEF AppsOK, AppTypes
    <3> QED
      BY <2>c, <2>d, <3>1, <3>2 DEF Goto, AppsOK, AppTypes
  <2>3. AppsOK'
    <3>1. CASE UNCHANGED <<job, todo, pc>>
      BY <2>2, <2>d, <3>1 DEF AppsOK, ServingOK
    <3>2. CASE /\ job' = [job EXCEPT ![p] = new]
               /\ Goto(p, "stat")
      <4>1. job'[p] = new /\ new # NoJob /\ pc'[p] = "stat"
        BY <2>a, <3>2, SentinelsApart DEF Goto, AppsOK, AppTypes
      <4>2. ServingOK(p)'
        BY <2>a, <2>d, <4>1 DEF new, AppsOK, ServingOK
      <4> QED
        BY <2>2, <2>d, <3>2, <4>2, ServingKept DEF Goto, AppsOK, AppTypes
    <3> QED
      BY <2>c, <3>1, <3>2
  <2>4. ProcsOK'
    BY <1>5, CatchTyped, GotoTyped DEF Replay
  <2>5. DaemonsOK'
    BY <1>5 DEF Replay, DaemonsOK, cleanup
  <2> QED
    BY <2>1, <2>3, <2>4, <2>5
<1>6. CASE Replayed(p)
  <2>1. FilesOK'
    BY <1>6 DEF Replayed, FilesOK, disk, store, history
  <2>2. AppTypes'
    BY <1>6
    DEF Replayed, AppsOK, AppTypes, FilesOK, Live, Goto, calls, insertion,
        history, Leave
  <2>3. AppsOK'
    BY <1>6, <2>2, ServingKept
    DEF Replayed, AppsOK, AppTypes, ServingOK, Live, Goto, calls, insertion,
        Leave
  <2>4. ProcsOK'
    BY <1>6, LeaveTyped, GotoTyped DEF Replayed, Procs
  <2>5. DaemonsOK'
    BY <1>6 DEF Replayed, DaemonsOK, cleanup
  <2> QED
    BY <2>1, <2>3, <2>4, <2>5
<1>7. CASE Record(p)
  <2>0. /\ req[p] \in Request /\ req[p].file \in Files
        /\ req[p].op \in {"R", "W"} /\ made[p] \in 0 .. MaxOps
        /\ made[p] < MaxOps /\ job[p] = NoJob
    BY <1>7, InCall DEF Record, Live
  <2> DEFINE new == [file |-> req[p].file, own |-> TRUE,
                     copies |-> IF req[p].file \in known[p]
                                THEN 1 ELSE Copies(req[p].op)]
  <2>a. new \in Insertion
    BY <2>0 DEF Insertion, Copies
  <2>b. \/ Goto(p, "io") /\ UNCHANGED job
        \/ Goto(p, "stat") /\ job' = [job EXCEPT ![p] = new]
    BY <1>7 DEF Record
  <2>c. UNCHANGED <<known, curr, req, fd, todo, made, slept, stamp, held,
                    replaced>>
    BY <1>7 DEF Record, calls, history
  <2>d. req[p] # NoReq
    BY <2>0, SentinelsApart
  <2> HIDE DEF new
  <2>1. FilesOK'
    BY <1>7, <2>0 DEF Record, FilesOK, disk, store, history
  <2>2. AppTypes'
    <3>1. pc' \in [Apps -> {"idle", "resolve", "replay", "record", "stat",
                          "mkdir", "copy", "fill", "link", "io"}]
      BY <2>b DEF Goto, AppsOK, AppTypes
    <3>2. job' \in [Apps -> Insertion \cup {NoJob}]
      BY <2>a, <2>b DEF AppsOK, AppTypes
    <3> QED
      BY <2>c, <3>1, <3>2 DEF AppsOK, AppTypes
  <2>3. AppsOK'
    <3>1. ServingOK(p)'
      <4>1. CASE Goto(p, "io") /\ UNCHANGED job
        BY <2>0, <2>c, <2>d, <4>1 DEF Goto, NoJob, AppsOK, AppTypes, ServingOK
      <4>2. CASE Goto(p, "stat") /\ job' = [job EXCEPT ![p] = new]
        <5>1. job'[p] = new /\ new # NoJob /\ pc'[p] = "stat"
          BY <2>a, <4>2, SentinelsApart DEF Goto, AppsOK, AppTypes
        <5>2. new.copies > 0
          BY DEF new, Copies
        <5> QED
          BY <2>0, <2>c, <2>d, <5>1, <5>2 DEF ServingOK
      <4> QED
        BY <2>b, <4>1, <4>2
    <3> QED
      BY <2>2, <2>b, <2>c, <3>1, ServingKept DEF Goto, AppsOK, AppTypes
  <2>4. ProcsOK'
    BY <1>7, GotoTyped DEF Record
  <2>5. DaemonsOK'
    BY <1>7 DEF Record, DaemonsOK, cleanup
  <2> QED
    BY <2>1, <2>3, <2>4, <2>5
<1>8. CASE SystemCall(p)
  <2>0. /\ req[p] \in Request /\ req[p].file \in Files
        /\ req[p].op \in {"R", "W"} /\ made[p] \in 0 .. MaxOps
        /\ made[p] < MaxOps /\ job[p] = NoJob
    BY <1>8, InCall DEF SystemCall, Live
  <2>a. <<req[p].file, p, made[p] + 1>> \in Contents
    BY <2>0, SnapshotBounds DEF Contents, Versions
  <2>b. content[req[p].file] \in Contents
    BY <2>0 DEF FilesOK
  <2>1. FilesOK'
    BY <1>8, <2>0, <2>a, <2>b DEF SystemCall, FilesOK, store
  <2>2. AppTypes'
    <3>1. replaced' \in [Apps -> Contents \cup {Absent}]
      BY <1>8, <2>b DEF SystemCall, AppsOK, AppTypes
    <3>2. made' \in [Apps -> 0 .. MaxOps]
      BY <1>8, <2>0, SnapshotBounds DEF SystemCall, AppsOK, AppTypes
    <3> QED
      BY <1>8, <3>1, <3>2 DEF SystemCall, Goto, AppsOK, AppTypes, insertion
  <2>3. AppsOK'
    <3>1. ServingOK(p)'
      BY <1>8, <2>0
      DEF SystemCall, Goto, NoJob, AppsOK, AppTypes, ServingOK, insertion
    <3> QED
      BY <1>8, <2>2, <3>1, ServingKept
      DEF SystemCall, Goto, AppsOK, AppTypes, insertion
  <2>4. ProcsOK'
    BY <1>8, GotoTyped DEF SystemCall
  <2>5. DaemonsOK'
    BY <1>8 DEF SystemCall, DaemonsOK, cleanup
  <2> QED
    BY <2>1, <2>3, <2>4, <2>5
<1>9. CASE Stat(p)
  <2>0. /\ job[p] \in Insertion /\ job[p].file \in Files
        /\ job[p].own \in BOOLEAN /\ job[p].copies \in 0 .. 2
        /\ pc[p] # "link" => job[p].copies > 0
        /\ job[p].own => req[p] # NoReq
    BY <1>9, InInsertion DEF Stat, Live
  <2>1. FilesOK'
    BY <1>9 DEF Stat, FilesOK, disk, store, history
  <2>2. AppTypes'
    BY <1>9, <2>0
    DEF Stat, AppsOK, AppTypes, FilesOK, Live, Goto, calls, insertion, history
  <2>3. AppsOK'
    BY <1>9, <2>0, <2>2, ServingKept
    DEF Stat, AppsOK, AppTypes, ServingOK, Live, Goto, calls, insertion
  <2>4. ProcsOK'
    BY <1>9, GotoTyped DEF Stat
  <2>5. DaemonsOK'
    BY <1>9 DEF Stat, DaemonsOK, cleanup
  <2> QED
    BY <2>1, <2>3, <2>4, <2>5
<1>10. CASE Mkdir(p)
  <2>0. /\ job[p] \in Insertion /\ job[p].file \in Files
        /\ job[p].own \in BOOLEAN /\ job[p].copies \in 0 .. 2
        /\ pc[p] # "link" => job[p].copies > 0
        /\ job[p].own => req[p] # NoReq
    BY <1>10, InInsertion DEF Mkdir, Live
  <2>1. FilesOK'
    BY <1>10, <2>0 DEF Mkdir, FilesOK, disk, store, history
  <2>2. AppTypes'
    BY <1>10, <2>0
    DEF Mkdir, AppsOK, AppTypes, FilesOK, Live, Goto, calls, insertion,
        history, CatchSignal, Leave
  <2>3. AppsOK'
    BY <1>10, <2>0, <2>2, ServingKept
    DEF Mkdir, AppsOK, AppTypes, ServingOK, Live, Goto, calls, insertion,
        CatchSignal, Leave
  <2>4. ProcsOK'
    BY <1>10, CatchTyped, GotoTyped DEF Mkdir
  <2>5. DaemonsOK'
    BY <1>10 DEF Mkdir, DaemonsOK, cleanup
  <2> QED
    BY <2>1, <2>3, <2>4, <2>5
<1>11. CASE Copy(p)
  <2>0. /\ job[p] \in Insertion /\ job[p].file \in Files
        /\ job[p].own \in BOOLEAN /\ job[p].copies \in 0 .. 2
        /\ pc[p] # "link" => job[p].copies > 0
        /\ job[p].own => req[p] # NoReq
    BY <1>11, InInsertion DEF Copy, Live
  <2>a. stamp[p] \in Times /\ content[job[p].file] \in Contents
    BY <2>0 DEF FilesOK, AppsOK, AppTypes
  <2>b. \/ Put(job[p].file, stamp[p], Blank)
           /\ held' = [held EXCEPT ![p] = content[job[p].file]]
           /\ Goto(p, "fill")
        \/ UNCHANGED <<snaps, held, pc>>
    BY <1>11 DEF Copy, CatchSignal, Leave
  <2>1. FilesOK'
    <3>1. Blank \in Contents
      BY DEF Contents
    <3>2. snaps' \in [Files -> [Times -> Contents \cup {Absent}]]
      BY <2>0, <2>a, <2>b, <3>1, PutTyped DEF FilesOK
    <3> QED
      BY <1>11, <3>2 DEF Copy, FilesOK, disk, history
  <2>2. AppTypes'
    BY <1>11, <2>a, <2>b DEF Copy, Goto, AppsOK, AppTypes, calls, history
  <2>3. AppsOK'
    <3>1. ServingOK(p)'
      BY <1>11, <2>b
      DEF Copy, Live, Goto, AppsOK, AppTypes, ServingOK, calls
    <3> QED
      BY <1>11, <2>2, <2>b, <3>1, ServingKept
      DEF Copy, Goto, AppsOK, AppTypes, calls
  <2>4. ProcsOK'
    BY <1>11, CatchTyped, GotoTyped DEF Copy
  <2>5. DaemonsOK'
    BY <1>11 DEF Copy, DaemonsOK, cleanup
  <2> QED
    BY <2>1, <2>3, <2>4, <2>5
<1>12. CASE Fill(p)
  <2>0. /\ job[p] \in Insertion /\ job[p].file \in Files
        /\ job[p].own \in BOOLEAN /\ job[p].copies \in 0 .. 2
        /\ pc[p] # "link" => job[p].copies > 0
        /\ job[p].own => req[p] # NoReq
    BY <1>12, InInsertion DEF Fill, Live
  <2>a. stamp[p] \in Times /\ held[p] \in Contents
    BY DEF AppsOK, AppTypes
  <2> DEFINE left == [job[p] EXCEPT !.copies = @ - 1]
  <2>b. /\ pc[p] = "fill" /\ job' = [job EXCEPT ![p] = left]
        /\ Goto(p, IF job[p].copies = 1 THEN "link" ELSE "copy")
    <3>1. pc[p] = "fill" /\ job' = [job EXCEPT ![p].copies = @ - 1]
      BY <1>12 DEF Fill
    <3>2. Goto(p, IF job[p].copies = 1 THEN "link" ELSE "copy")
      BY <1>12 DEF Fill
    <3> QED
      BY <3>1, <3>2
  <2>c. /\ left \in Insertion /\ left.copies = job[p].copies - 1
        /\ left.own = job[p].own
    <3>1. job[p].copies - 1 \in 0 .. 2
      BY <2>0, <2>b
    <3>2. left.copies = job[p].copies - 1 /\ left.own = job[p].own
      BY <2>0 DEF Insertion
    <3>3. left \in Insertion
      BY <2>0, <3>1 DEF Insertion
    <3> QED
      BY <3>2, <3>3
  <2>d. UNCHANGED <<known, curr, req, fd, todo, made, slept, stamp, held,
                    replaced>>
    BY <1>12 DEF Fill, calls, history
  <2> HIDE DEF left
  <2>1. FilesOK'
    <3>1. snaps' \in [Files -> [Times -> Contents \cup {Absent}]]
      BY <1>12, <2>0, <2>a, PutTyped DEF Fill, FilesOK
    <3> QED
      BY <1>12, <3>1 DEF Fill, FilesOK, disk, history
  <2>2. AppTypes'
    BY <2>b, <2>c, <2>d DEF Goto, AppsOK, AppTypes
  <2>3. AppsOK'
    <3>1. ServingOK(p)'
      <4>1. job'[p] = left /\ left # NoJob
        BY <2>b, <2>c, SentinelsApart DEF AppsOK, AppTypes
      <4>2. pc'[p] = IF job[p].copies = 1 THEN "link" ELSE "copy"
        BY <2>b DEF Goto, AppsOK, AppTypes
      <4> QED
        BY <2>0, <2>b, <2>c, <2>d, <4>1, <4>2 DEF AppsOK, ServingOK
    <3> QED
      BY <2>2, <2>b, <2>d, <3>1, ServingKept DEF Goto, AppsOK, AppTypes
  <2>4. ProcsOK'
    BY <1>12, GotoTyped DEF Fill
  <2>5. DaemonsOK'
    BY <1>12 DEF Fill, DaemonsOK, cleanup
  <2> QED
    BY <2>1, <2>3, <2>4, <2>5
<1>13. CASE Link(p)
  <2>0. /\ job[p] \in Insertion /\ job[p].file \in Files
        /\ job[p].own \in BOOLEAN /\ job[p].copies \in 0 .. 2
        /\ pc[p] # "link" => job[p].copies > 0
        /\ job[p].own => req[p] # NoReq
    BY <1>13, InInsertion DEF Link, Live
  <2>1. FilesOK'
    BY <1>13 DEF Link, FilesOK, disk, store, history
  <2>2. AppTypes'
    BY <1>13, <2>0
    DEF Link, AppsOK, AppTypes, FilesOK, Live, Goto, calls, insertion, history
  <2>3. AppsOK'
    <3>1. ServingOK(p)'
      <4>1. job'[p] = NoJob /\ UNCHANGED <<req, made>>
        BY <1>13 DEF Link, AppsOK, AppTypes
      <4>2. pc'[p] = IF job[p].own THEN "io" ELSE "replay"
        BY <1>13 DEF Link, Goto, AppsOK, AppTypes
      <4> QED
        BY <2>0, <4>1, <4>2 DEF NoJob, AppsOK, ServingOK
    <3> QED
      BY <1>13, <2>2, <3>1, ServingKept DEF Link, Goto, AppsOK, AppTypes
  <2>4. ProcsOK'
    BY <1>13, GotoTyped DEF Link
  <2>5. DaemonsOK'
    BY <1>13 DEF Link, DaemonsOK, cleanup
  <2> QED
    BY <2>1, <2>3, <2>4, <2>5
<1> QED
  BY <1>1, <1>2, <1>3, <1>4, <1>5, <1>6, <1>7, <1>8, <1>9, <1>10, <1>11,
     <1>12, <1>13
  DEF Operate

\* Rollbacks leave the program's frame, and cleanups, where they are.
LEMMA UnmovedTyped ==
    ASSUME AppsOK, DaemonsOK, Unmoved
    PROVE  AppsOK' /\ DaemonsOK'
<1>1. AppsOK'
  BY DEF AppsOK, AppTypes, ServingOK, Unmoved, calls, insertion, history
<1>2. DaemonsOK'
  BY DEF DaemonsOK, Unmoved, cleanup
<1> QED
  BY <1>1, <1>2

LEMMA FilesUnmoved ==
    ASSUME FilesOK, Unmoved, UNCHANGED <<disk, snaps>>
    PROVE  FilesOK'
BY DEF FilesOK, Unmoved, disk, history

LEMMA SnapshotTyped ==
    ASSUME NEW f \in Files, NEW t \in Times
    PROVE  [file |-> f, time |-> t] \in Snapshot
BY DEF Snapshot

LEMMA NoSnapApart == NoSnap \notin Snapshot
BY ProcsAssumption DEF NoSnap, Snapshot

\* The steps of a rollback.
LEMMA RollBackTyped ==
    ASSUME TypeInv, NEW p \in Procs, RollBack(p)
    PROVE  TypeInv'
<1> USE DEF TypeInv
<1>1. CASE FindSnapshot(p)
  <2>1. FilesOK'
    BY <1>1, FilesUnmoved DEF FindSnapshot
  <2>2. AppsOK' /\ DaemonsOK'
    BY <1>1, UnmovedTyped DEF FindSnapshot
  <2>3. ProcsOK'
    <3>1. target[p] \in Files
      BY <1>1 DEF FindSnapshot, RollingBack, ProcsOK, RevertingOK, FilesOK
    <3>2. \/ chosen' = [chosen EXCEPT ![p] = NoSnap]
          \/ /\ Stamps(target[p]) # {}
             /\ chosen' = [chosen EXCEPT ![p] =
                  [file |-> target[p], time |-> Newest(Stamps(target[p]))]]
      BY <1>1 DEF FindSnapshot
    <3>3. Stamps(target[p]) # {}
            => [file |-> target[p], time |-> Newest(Stamps(target[p]))]
                  \in Snapshot
      BY <3>1, StampsAreTimes, NewestIsGreatest, SnapshotTyped
    <3>4. chosen' \in [Procs -> Snapshot \cup {NoSnap}]
      BY <3>2, <3>3 DEF ProcsOK
    <3> QED
      BY <1>1, <3>4 DEF FindSnapshot, RollingBack, Then, ProcsOK, RevertingOK
  <2> QED
    BY <2>1, <2>2, <2>3
<1>2. CASE FindFaults(p)
  <2>1. FilesOK'
    BY <1>2, FilesUnmoved DEF FindFaults
  <2>2. AppsOK' /\ DaemonsOK'
    BY <1>2, UnmovedTyped DEF FindFaults
  <2>3. ProcsOK'
    BY <1>2, LeaveTyped DEF FindFaults
  <2> QED
    BY <2>1, <2>2, <2>3
<1>3. CASE Retrieve(p)
  <2>1. FilesOK'
    BY <1>3, FilesUnmoved DEF Retrieve
  <2>2. AppsOK' /\ DaemonsOK'
    BY <1>3, UnmovedTyped DEF Retrieve
  <2>3. ProcsOK'
    <3>1. PICK f \in Files, t \in Times :
            /\ target' = [target EXCEPT ![p] = f]
            /\ chosen' = [chosen EXCEPT ![p] = [file |-> f, time |-> t]]
      BY <1>3 DEF Retrieve, FilesOK, Stamps
    <3>2. [file |-> f, time |-> t] \in Snapshot
      BY SnapshotTyped
    <3> QED
      BY <1>3, <3>1, <3>2, NoSnapApart DEF Retrieve, Then, ProcsOK, RevertingOK
  <2> QED
    BY <2>1, <2>2, <2>3
<1>4. CASE Search(p)
  <2>1. FilesOK'
    BY <1>4, FilesUnmoved DEF Search
  <2>2. AppsOK' /\ DaemonsOK'
    BY <1>4, UnmovedTyped DEF Search
  <2>3. ProcsOK'
    <3>1. PICK g \in Files :
            /\ chosen[p].time \in Stamps(g)
            /\ chosen' = [chosen EXCEPT ![p].file = g]
      BY <1>4 DEF Search
    <3>2. chosen[p] \in Snapshot
      BY <1>4 DEF Search, RollingBack, ProcsOK, RevertingOK
    <3>3. [chosen[p] EXCEPT !.file = g] \in Snapshot
      BY <3>2 DEF Snapshot
    <3>4. chosen' = [chosen EXCEPT ![p] = [chosen[p] EXCEPT !.file = g]]
      BY <3>1
    <3> QED
      BY <1>4, <3>3, <3>4, NoSnapApart
      DEF Search, RollingBack, Then, ProcsOK, RevertingOK
  <2> QED
    BY <2>1, <2>2, <2>3
<1>5. CASE Decline(p)
  <2>1. FilesOK'
    BY <1>5, FilesUnmoved DEF Decline
  <2>2. AppsOK' /\ DaemonsOK'
    BY <1>5, UnmovedTyped DEF Decline
  <2>3. ProcsOK'
    BY <1>5, LeaveTyped DEF Decline
  <2> QED
    BY <2>1, <2>2, <2>3
<1>6. CASE Open(p)
  <2>1. FilesOK'
    BY <1>6, FilesUnmoved DEF Open
  <2>2. AppsOK' /\ DaemonsOK'
    BY <1>6, UnmovedTyped DEF Open
  <2>3. ProcsOK'
    <3>1. inode[target[p]] \in Nat /\ chosen[p] # NoSnap /\ target[p] \in Files
      BY <1>6 DEF Open, Present, FilesOK
    <3> QED
      BY <1>6, <3>1 DEF Open, Then, ProcsOK, RevertingOK
  <2> QED
    BY <2>1, <2>2, <2>3
<1>7. CASE LockFile(p)
  <2>1. FilesOK'
    BY <1>7, FilesUnmoved DEF LockFile
  <2>2. AppsOK' /\ DaemonsOK'
    BY <1>7, UnmovedTyped DEF LockFile
  <2>3. ProcsOK'
    <3>1. target[p] \in Files /\ rnode[p] \in Nat
      BY <1>7 DEF LockFile, RollingBack, ProcsOK, RevertingOK
    <3> QED
      BY <1>7, <3>1
      DEF LockFile, FileLock, RollingBack, Then, ProcsOK, RevertingOK
  <2> QED
    BY <2>1, <2>2, <2>3
<1>8. CASE LockSnap(p)
  <2>1. FilesOK'
    BY <1>8, FilesUnmoved DEF LockSnap
  <2>2. AppsOK' /\ DaemonsOK'
    BY <1>8, UnmovedTyped DEF LockSnap
  <2>3. ProcsOK'
    <3>1. chosen[p] \in Snapshot
      BY <1>8 DEF LockSnap, RollingBack, ProcsOK, RevertingOK
    <3>2. chosen[p].file \in Files /\ chosen[p].time \in Nat
      BY <3>1, SnapshotBounds DEF Snapshot, Times
    <3> QED
      BY <1>8, <3>2
      DEF LockSnap, SnapLock, RollingBack, Then, ProcsOK, RevertingOK
  <2> QED
    BY <2>1, <2>2, <2>3
<1>9. CASE Unlink(p)
  <2>1. FilesOK'
    BY <1>9 DEF Unlink, Unmoved, FilesOK, history
  <2>2. AppsOK' /\ DaemonsOK'
    BY <1>9, UnmovedTyped DEF Unlink
  <2>3. ProcsOK'
    BY <1>9 DEF Unlink, RollingBack, Then, ProcsOK, RevertingOK
  <2> QED
    BY <2>1, <2>2, <2>3
<1>10. CASE PutBack(p)
  <2>1. FilesOK'
    <3>1. target[p] \in Files /\ chosen[p] \in Snapshot
      BY <1>10 DEF PutBack, RollingBack, ProcsOK, RevertingOK
    <3>2. /\ snaps[chosen[p].file][chosen[p].time] \in Contents \cup {Absent}
          /\ snaps[chosen[p].file][chosen[p].time] # Absent
      BY <1>10, <3>1 DEF PutBack, Present, FilesOK, Snapshot
    <3> QED
      BY <1>10, <3>1, <3>2 DEF PutBack, Unmoved, FilesOK, history
  <2>2. AppsOK' /\ DaemonsOK'
    BY <1>10, UnmovedTyped DEF PutBack
  <2>3. ProcsOK'
    BY <1>10 DEF PutBack, RollingBack, Then, ProcsOK, RevertingOK
  <2> QED
    BY <2>1, <2>2, <2>3
<1>11. CASE RevertFails(p)
  <2>1. FilesOK'
    <3>1. CASE UNCHANGED disk
      BY <1>11, <3>1, FilesUnmoved DEF RevertFails
    <3>2. CASE ~UNCHANGED disk
      <4>1. PICK data \in {Blank, snaps[chosen[p].file][chosen[p].time]} :
              /\ content' = [content EXCEPT ![target[p]] = data]
              /\ exists' = exists \cup {target[p]}
              /\ Present(chosen[p]) /\ RollingBack(p, "put")
              /\ UNCHANGED <<inode, snaps>> /\ Unmoved
        BY <1>11, <3>2 DEF RevertFails
      <4>2. target[p] \in Files /\ chosen[p] \in Snapshot
        BY <4>1 DEF RollingBack, ProcsOK, RevertingOK
      <4>3. data \in Contents
        BY <4>1, <4>2 DEF Present, FilesOK, Snapshot, Contents
      <4> QED
        BY <4>1, <4>2, <4>3 DEF Unmoved, FilesOK, history
    <3> QED
      BY <3>1, <3>2
  <2>2. AppsOK' /\ DaemonsOK'
    BY <1>11, UnmovedTyped DEF RevertFails
  <2>3. ProcsOK'
    BY <1>11, LeaveTyped DEF RevertFails
  <2> QED
    BY <2>1, <2>2, <2>3
<1> QED
  BY <1>1, <1>2, <1>3, <1>4, <1>5, <1>6, <1>7, <1>8, <1>9, <1>10, <1>11
  DEF RollBack

\* A cleanup changes nothing of others but the store.
LEMMA CleanupTyped ==
    ASSUME TypeInv, NEW d \in Daemons, Cleanup(d)
    PROVE  TypeInv'
<1> USE DEF TypeInv
<1>1. AppsOK' /\ ProcsOK'
  <2>1. UNCHANGED <<calls, insertion, pc, status, rollback, history>>
    BY DEF Cleanup, Sweep, ChooseKept, List, RemoveOld, RemoveFails, Removed,
           Swept
  <2>2. AppsOK'
    BY <2>1 DEF AppsOK, AppTypes, ServingOK, calls, insertion, history
  <2>3. ProcsOK'
    BY <2>1 DEF ProcsOK, RevertingOK, rollback
  <2> QED
    BY <2>2, <2>3
<1>2. CASE RemoveOld(d)
  <2>1. PICK t \in Times : /\ Put(ddir[d], t, Absent)
                           /\ dlist' = [dlist EXCEPT ![d] = @ \ {t}]
    BY <1>2 DEF RemoveOld, DaemonsOK
  <2>2. ddir[d] \in Files
    BY <1>2 DEF RemoveOld, DaemonsOK
  <2>3. FilesOK'
    BY <1>2, <2>1, <2>2, PutTyped DEF RemoveOld, FilesOK, disk, history
  <2>4. DaemonsOK'
    BY <1>2, <2>1 DEF RemoveOld, DaemonsOK
  <2> QED
    BY <1>1, <2>3, <2>4
<1>3. CASE ~RemoveOld(d)
  <2>1. FilesOK'
    BY <1>3
    DEF Cleanup, Sweep, ChooseKept, List, RemoveFails, Removed, Swept,
        FilesOK, disk, store, history
  <2>2. DaemonsOK'
    <3>1. CASE Sweep(d)
      BY <3>1 DEF Sweep, FilesOK, DaemonsOK
    <3>2. CASE ChooseKept(d)
      <4>1. PICK f \in dleft[d] :
              /\ ddir' = [ddir EXCEPT ![d] = f]
              /\ dleft' = [dleft EXCEPT ![d] = @ \ {f}]
              /\ dchosen' = [dchosen EXCEPT ![d] =
                   IF Stamps(f) = {} THEN NoTime ELSE Newest(Stamps(f))]
        BY <3>2 DEF ChooseKept
      <4>2. f \in Files
        BY DEF DaemonsOK
      <4>3. (IF Stamps(f) = {} THEN NoTime ELSE Newest(Stamps(f)))
              \in Times \cup {NoTime}
        BY <4>2, StampsAreTimes, NewestIsGreatest
      <4> QED
        BY <3>2, <4>1, <4>2, <4>3 DEF ChooseKept, DaemonsOK
    <3>3. CASE List(d)
      BY <3>3, StampsAreTimes DEF List, DaemonsOK
    <3>4. CASE RemoveFails(d) \/ Removed(d) \/ Swept(d)
      BY <3>4 DEF RemoveFails, Removed, Swept, DaemonsOK
    <3> QED
      BY <1>3, <3>1, <3>2, <3>3, <3>4 DEF Cleanup
  <2> QED
    BY <1>1, <2>1, <2>2
<1> QED
  BY <1>2, <1>3

LEMMA Typing == TypeInv /\ [Next]_vars => TypeInv'
<1> SUFFICES ASSUME TypeInv, [Next]_vars PROVE TypeInv'
  OBVIOUS
<1>1. ASSUME NEW p \in Apps, Operate(p) PROVE TypeInv'
  BY <1>1, OperateTyped
<1>2. ASSUME NEW p \in Apps, Signal(p) PROVE TypeInv'
  <2>1. ProcsOK' /\ UNCHANGED pc
    BY <1>2, CatchTyped DEF Signal, TypeInv
  <2>2. FilesOK'
    BY <1>2 DEF Signal, TypeInv, FilesOK, disk, store, history
  <2>3. AppsOK'
    BY <1>2, <2>1
    DEF Signal, TypeInv, AppsOK, AppTypes, ServingOK, calls, insertion, history
  <2>4. DaemonsOK'
    BY <1>2 DEF Signal, TypeInv, DaemonsOK, cleanup
  <2> QED
    BY <2>1, <2>2, <2>3, <2>4 DEF TypeInv
<1>3. ASSUME NEW p \in Procs, RollBack(p) PROVE TypeInv'
  BY <1>3, RollBackTyped
<1>4. ASSUME NEW d \in Daemons, Cleanup(d) PROVE TypeInv'
  BY <1>4, CleanupTyped
<1>5. CASE Tick
  <2>1. FilesOK'
    BY <1>5, SnapshotBounds
    DEF Tick, TypeInv, FilesOK, Times, disk, store, history
  <2>2. AppsOK'
    BY <1>5
    DEF Tick, TypeInv, AppsOK, AppTypes, ServingOK, insertion, history
  <2>3. ProcsOK' /\ DaemonsOK'
    BY <1>5
    DEF Tick, TypeInv, ProcsOK, RevertingOK, DaemonsOK, rollback, cleanup
  <2> QED
    BY <2>1, <2>2, <2>3 DEF TypeInv
<1>6. CASE UNCHANGED vars
  BY <1>6
  DEF vars, disk, store, calls, insertion, rollback, cleanup, history,
      TypeInv, FilesOK, AppsOK, AppTypes, ServingOK, ProcsOK, RevertingOK,
      DaemonsOK
<1> QED
  BY <1>1, <1>2, <1>3, <1>4, <1>5, <1>6 DEF Next, AtRest

\* In every run, for any instance, every variable has the type TypeOK gives it.
THEOREM TypeCorrect == Spec => []TypeOK
<1> QED
  BY InitTyped, Typing, TypeInvTypes, PTL DEF Spec

-----------------------------------------------------------------------------
(* Two rollbacks exclude each other on an inode                            *)

\* From its second flock() on, a rollback holds the lock of the inode it
\* opened; and no inode is locked by two.
LockHeld ==
    \A p \in Procs :
        RollingBack(p, "locksnap") \/ AtWork(p)
            => FileLock(p, target[p], rnode[p]) \in locks

LockSole ==
    \A p, q \in Procs, f \in Files, n \in Nat :
        FileLock(p, f, n) \in locks /\ FileLock(q, f, n) \in locks => p = q

LocksInv == LockHeld /\ LockSole

\* What the program's own steps, and signals, do to rollbacks.
AppMove(p) ==
    \/ UNCHANGED <<rollback, status>>
    \/ Leave(p, "exited")
    \/ Leave(p, "died")
    \/ CatchSignal(p) /\ curr[p] # NoFile

LEMMA OperateMoves ==
    ASSUME NEW p \in Apps, Operate(p) \/ Signal(p)
    PROVE  AppMove(p)
BY DEF Operate, Start, Resolve, ResolveMissing, End, Replay, Replayed, Record,
       SystemCall, Stat, Mkdir, Copy, Fill, Link, Signal, Goto, CatchSignal,
       AppMove

LEMMA LocksLeave ==
    ASSUME ProcsOK, LocksInv, NEW p \in Procs, NEW how \in {"exited", "died"},
           Leave(p, how)
    PROVE  LocksInv'
<1>1. /\ status' = [status EXCEPT ![p] = how]
      /\ locks' = {l \in locks : l.proc # p}
      /\ UNCHANGED <<rpc, target, rnode>>
  BY DEF Leave
<1>2. LockHeld'
  BY <1>1 DEF ProcsOK, LocksInv, LockHeld, AtWork, RollingBack, FileLock
<1>3. LockSole'
  BY <1>1 DEF LocksInv, LockSole
<1> QED
  BY <1>2, <1>3 DEF LocksInv

\* A rollback that goes on, without the locks changing, to where none is
\* needed, or further where it has one.
LEMMA LocksThen ==
    ASSUME ProcsOK, LocksInv, NEW p \in Procs, NEW label,
           UNCHANGED <<status, locks>>,
           rpc' = [rpc EXCEPT ![p] = label],
           \A q \in Procs \ {p} : target'[q] = target[q] /\ rnode'[q] = rnode[q],
           \/ label \notin {"locksnap", "unlink", "put"}
           \/ AtWork(p) /\ UNCHANGED <<target, rnode>>
    PROVE  LocksInv'
<1>1. LockHeld'
  BY DEF ProcsOK, LocksInv, LockHeld, AtWork, RollingBack
<1>2. LockSole'
  BY DEF LocksInv, LockSole
<1> QED
  BY <1>1, <1>2 DEF LocksInv

LEMMA LocksUnchanged ==
    ASSUME LocksInv, UNCHANGED <<rollback, status>>
    PROVE  LocksInv'
BY DEF LocksInv, LockHeld, LockSole, AtWork, RollingBack, rollback

LEMMA Excluding == TypeInv /\ LocksInv /\ [Next]_vars => LocksInv'
<1> SUFFICES ASSUME TypeInv, LocksInv, [Next]_vars PROVE LocksInv'
  OBVIOUS
<1> USE DEF TypeInv
<1>1. ASSUME NEW p \in Apps, Operate(p) \/ Signal(p) PROVE LocksInv'
  <2>1. p \in Procs
    BY DEF Procs
  <2>2. CASE UNCHANGED <<rollback, status>>
    BY <2>2, LocksUnchanged
  <2>3. CASE Leave(p, "exited") \/ Leave(p, "died")
    BY <2>1, <2>3, LocksLeave
  <2>4. CASE CatchSignal(p) /\ curr[p] # NoFile
    <3>1. /\ status' = [status EXCEPT ![p] = "handler"]
          /\ rpc' = [rpc EXCEPT ![p] = "find"]
          /\ target' = [target EXCEPT ![p] = curr[p]]
          /\ UNCHANGED <<rnode, locks>>
      BY <2>4 DEF CatchSignal
    <3>2. LockHeld'
      BY <2>1, <3>1 DEF ProcsOK, LocksInv, LockHeld, AtWork, RollingBack
    <3>3. LockSole'
      BY <3>1 DEF LocksInv, LockSole
    <3> QED
      BY <3>2, <3>3 DEF LocksInv
  <2> QED
    BY <1>1, <2>2, <2>3, <2>4, OperateMoves DEF AppMove
<1>2. ASSUME NEW p \in Procs, RollBack(p) PROVE LocksInv'
  <2>1. CASE FindFaults(p) \/ Decline(p) \/ RevertFails(p)
    BY <2>1, LocksLeave DEF FindFaults, Decline, RevertFails
  <2>0. CASE PutBack(p)
    <3>1. /\ status' = [status EXCEPT ![p] = "exited"]
          /\ locks' = {l \in locks : l.proc # p}
          /\ rpc' = [rpc EXCEPT ![p] = "done"]
          /\ UNCHANGED <<target, rnode>>
      BY <2>0 DEF PutBack, Then
    <3>2. LockHeld'
      BY <3>1 DEF ProcsOK, LocksInv, LockHeld, AtWork, RollingBack, FileLock
    <3>3. LockSole'
      BY <3>1 DEF LocksInv, LockSole
    <3> QED
      BY <3>2, <3>3 DEF LocksInv
  <2>2. CASE FindSnapshot(p)
    BY <2>2, LocksThen DEF FindSnapshot, Then
  <2>3. CASE Retrieve(p)
    <3>1. \A q \in Procs \ {p} : target'[q] = target[q]
      BY <2>3 DEF Retrieve, ProcsOK
    <3> QED
      BY <2>3, <3>1, LocksThen DEF Retrieve, Then
  <2>4. CASE Search(p)
    BY <2>4, LocksThen DEF Search, Then
  <2>5. CASE Open(p)
    <3>1. \A q \in Procs \ {p} : rnode'[q] = rnode[q]
      BY <2>5 DEF Open, ProcsOK
    <3> QED
      BY <2>5, <3>1, LocksThen DEF Open, Then
  <2>6. CASE LockFile(p)
    <3>1. /\ \A q \in Procs : FileLock(q, target[p], rnode[p]) \notin locks
          /\ locks' = locks \cup {FileLock(p, target[p], rnode[p])}
          /\ rpc' = [rpc EXCEPT ![p] = "locksnap"]
          /\ UNCHANGED <<status, target, rnode>>
      BY <2>6 DEF LockFile, Then
    <3>2. LockHeld'
      BY <3>1 DEF ProcsOK, LocksInv, LockHeld, AtWork, RollingBack
    <3>3. LockSole'
      BY <3>1 DEF LocksInv, LockSole, FileLock
    <3> QED
      BY <3>2, <3>3 DEF LocksInv
  <2>7. CASE LockSnap(p)
    <3>1. /\ rpc[p] = "locksnap" /\ RollingBack(p, "locksnap")
          /\ locks' = locks \cup {SnapLock(p, chosen[p])}
          /\ rpc' = [rpc EXCEPT ![p] = "unlink"]
          /\ UNCHANGED <<status, target, rnode>>
      BY <2>7 DEF LockSnap, Then, RollingBack
    <3>2. LockHeld'
      BY <3>1 DEF ProcsOK, LocksInv, LockHeld, AtWork, RollingBack
    <3>3. \A q \in Procs, f \in Files, n \in Nat :
            FileLock(q, f, n) # SnapLock(p, chosen[p])
      BY DEF FileLock, SnapLock
    <3>4. LockSole'
      BY <3>1, <3>3 DEF LocksInv, LockSole
    <3> QED
      BY <3>2, <3>4 DEF LocksInv
  <2>8. CASE Unlink(p)
    BY <2>8, LocksThen DEF Unlink, Then, AtWork
  <2> QED
    BY <1>2, <2>0, <2>1, <2>2, <2>3, <2>4, <2>5, <2>6, <2>7, <2>8 DEF RollBack
<1>3. ASSUME NEW d \in Daemons, Cleanup(d) PROVE LocksInv'
  <2>1. UNCHANGED <<rollback, status>>
    BY <1>3
    DEF Cleanup, Sweep, ChooseKept, List, RemoveOld, RemoveFails, Removed,
        Swept
  <2> QED
    BY <2>1, LocksUnchanged
<1>4. CASE Tick \/ UNCHANGED vars
  BY <1>4, LocksUnchanged DEF Tick, vars
<1> QED
  BY <1>1, <1>2, <1>3, <1>4 DEF Next, AtRest

\* In every run, of all the rollbacks that opened an inode one at most is
\* between its locks and its end.
THEOREM RevertsExcluded == Spec => []RevertsExclude
<1>1. Init => TypeInv /\ LocksInv
  BY InitTyped
  DEF Init, LocksInv, LockHeld, LockSole, AtWork, RollingBack
<1>2. TypeInv /\ LocksInv => RevertsExclude
  BY DEF TypeInv, ProcsOK, RevertingOK, LocksInv, LockHeld, LockSole,
         RevertsExclude, AtWork, RollingBack
<1> QED
  BY <1>1, <1>2, Typing, Excluding, PTL DEF Spec

-----------------------------------------------------------------------------
(* One cleanup leaves every directory a snapshot                           *)

\* What a cleanup means to keep stays in the store while it removes others.
KeptInv ==
    \A d \in Daemons :
        dpc[d] \in {"list", "remove"}
            => dchosen[d] = NoTime \/ dchosen[d] \in Stamps(ddir[d])

\* Snapshots only ever go when a cleanup removes them.
OnlyAdds == \A f \in Files : Stamps(f) \subseteq Stamps(f)'

LEMMA PutAdds ==
    ASSUME FilesOK, NEW f \in Files, NEW t \in Times, NEW data \in Contents,
           Put(f, t, data)
    PROVE  OnlyAdds
<1>1. data # Absent
  BY SentinelAssumption
<1>2. snaps' = [snaps EXCEPT ![f] = [snaps[f] EXCEPT ![t] = data]]
  BY DEF Put
<1>3. \A g \in Files, u \in Times :
        snaps'[g][u] = IF g = f /\ u = t THEN data ELSE snaps[g][u]
  BY <1>2 DEF FilesOK
<1> QED
  BY <1>1, <1>3 DEF OnlyAdds, Stamps

LEMMA OthersAdd ==
    ASSUME TypeInv, [Next]_vars
    PROVE  \/ OnlyAdds /\ UNCHANGED cleanup
           \/ \E d \in Daemons : Cleanup(d)
<1> DEFINE Adds == OnlyAdds /\ UNCHANGED cleanup
<1> USE DEF TypeInv
<1>0. UNCHANGED snaps => OnlyAdds
  BY DEF OnlyAdds, Stamps
<1>1. ASSUME NEW p \in Apps, Operate(p) PROVE Adds
  <2>1. UNCHANGED cleanup
    BY <1>1
    DEF Operate, Start, Resolve, ResolveMissing, End, Replay, Replayed,
        Record, SystemCall, Stat, Mkdir, Copy, Fill, Link
  <2>2. CASE Copy(p) \/ Fill(p)
    <3>1. /\ job[p].file \in Files /\ stamp[p] \in Times
          /\ held[p] \in Contents /\ Blank \in Contents
      BY <2>2, InInsertion
      DEF Copy, Fill, Live, AppsOK, AppTypes, Contents
    <3>2. \/ Put(job[p].file, stamp[p], Blank)
          \/ Put(job[p].file, stamp[p], held[p])
          \/ UNCHANGED snaps
      BY <2>2 DEF Copy, Fill
    <3> QED
      BY <1>0, <2>1, <3>1, <3>2, PutAdds
  <2>3. CASE ~(Copy(p) \/ Fill(p))
    <3>1. UNCHANGED snaps
      BY <1>1, <2>3
      DEF Operate, Start, Resolve, ResolveMissing, End, Replay, Replayed,
          Record, SystemCall, Stat, Mkdir, Link, store
    <3> QED
      BY <1>0, <2>1, <3>1
  <2> QED
    BY <2>2, <2>3
<1>2. ASSUME NEW p \in Apps, Signal(p) PROVE Adds
  BY <1>0, <1>2 DEF Signal, store
<1>3. ASSUME NEW p \in Procs, RollBack(p) PROVE Adds
  <2>1. UNCHANGED snaps /\ Unmoved
    BY <1>3
    DEF RollBack, FindSnapshot, FindFaults, Retrieve, Search, Decline, Open,
        LockFile, LockSnap, Unlink, PutBack, RevertFails
  <2> QED
    BY <1>0, <2>1 DEF Unmoved
<1>4. CASE Tick \/ UNCHANGED vars
  BY <1>0, <1>4 DEF Tick, vars, store
<1> QED
  BY <1>1, <1>2, <1>3, <1>4 DEF Next, AtRest

OneCleanup == \A d, e \in Daemons : d = e

\* With one cleanup, the one snapshot it skips is there to the end.
LEMMA Keeping ==
    ASSUME OneCleanup, TypeInv, KeptInv, [Next]_vars
    PROVE  KeptInv'
<1> USE DEF TypeInv
<1>1. CASE OnlyAdds /\ UNCHANGED cleanup
  BY <1>1 DEF KeptInv, OnlyAdds, DaemonsOK, cleanup
<1>2. ASSUME NEW d \in Daemons, Cleanup(d) PROVE KeptInv'
  <2> SUFFICES ASSUME dpc'[d] \in {"list", "remove"}
               PROVE  (dchosen[d] = NoTime \/ dchosen[d] \in Stamps(ddir[d]))'
    BY DEF OneCleanup, KeptInv
  <2>1. CASE Sweep(d) \/ RemoveFails(d) \/ Removed(d) \/ Swept(d)
    BY <2>1 DEF Sweep, RemoveFails, Removed, Swept, DaemonsOK
  <2>2. CASE ChooseKept(d)
    <3>1. PICK f \in dleft[d] :
            /\ ddir' = [ddir EXCEPT ![d] = f]
            /\ dchosen' = [dchosen EXCEPT ![d] =
                 IF Stamps(f) = {} THEN NoTime ELSE Newest(Stamps(f))]
            /\ UNCHANGED store
      BY <2>2 DEF ChooseKept
    <3>2. f \in Files /\ ddir'[d] = f /\ Stamps(f)' = Stamps(f)
      BY <3>1 DEF DaemonsOK, Stamps, store
    <3>3. dchosen'[d] = NoTime \/ dchosen'[d] \in Stamps(f)
      BY <3>1, <3>2, StampsAreTimes, NewestIsGreatest DEF DaemonsOK
    <3> QED
      BY <3>2, <3>3
  <2>3. CASE List(d)
    BY <2>3 DEF List, KeptInv, Stamps, store
  <2>4. CASE RemoveOld(d)
    <3>1. PICK t \in Times : t # dchosen[d] /\ Put(ddir[d], t, Absent)
      BY <2>4 DEF RemoveOld, DaemonsOK
    <3>2. ddir[d] \in Files /\ dpc[d] = "remove"
      BY <2>4 DEF RemoveOld, DaemonsOK
    <3>3. UNCHANGED <<ddir, dchosen>>
      BY <2>4 DEF RemoveOld
    <3>4. \A u \in Times :
            u # t => snaps'[ddir[d]][u] = snaps[ddir[d]][u]
      BY <3>1, <3>2 DEF Put, FilesOK
    <3> QED
      BY <3>1, <3>2, <3>3, <3>4 DEF KeptInv, Stamps
  <2> QED
    BY <1>2, <2>1, <2>2, <2>3, <2>4 DEF Cleanup
<1> QED
  BY <1>1, <1>2, OthersAdd

\* In every run with one cleanup, whatever applications and rollbacks do
\* meanwhile, no directory loses its last snapshot, unless the cleanup found
\* none in it when it chose and had an uninitialised pointer to go by.
THEOREM OneCleanupKeeps == ASSUME OneCleanup PROVE Spec => NeverEmptied
<1> DEFINE Never ==
        \A f \in Files :
            Stamps(f) # {} /\ (\A t \in Times : snaps'[f][t] = Absent)
               => \E d \in Daemons : ddir[d] = f /\ dchosen[d] = NoTime
<1>1. Init => TypeInv /\ KeptInv
  BY InitTyped DEF Init, KeptInv
<1>2. TypeInv /\ KeptInv /\ [Next]_vars => KeptInv'
  BY OneCleanup, Keeping
<1>3. TypeInv /\ KeptInv /\ [Next]_vars
        => [Never]_vars
  <2> SUFFICES ASSUME TypeInv, KeptInv, [Next]_vars, NEW f \in Files,
                      Stamps(f) # {}, \A t \in Times : snaps'[f][t] = Absent
               PROVE  \E d \in Daemons : ddir[d] = f /\ dchosen[d] = NoTime
    OBVIOUS
  <2>1. ~OnlyAdds
    BY DEF OnlyAdds, Stamps
  <2>2. PICK d \in Daemons : Cleanup(d)
    BY <2>1, OthersAdd
  <2>3. RemoveOld(d)
    BY <2>2
    DEF Cleanup, Sweep, ChooseKept, List, RemoveFails, Removed, Swept,
        Stamps, store
  <2>4. PICK t \in Times : t # dchosen[d] /\ Put(ddir[d], t, Absent)
    BY <2>3 DEF RemoveOld, TypeInv, DaemonsOK
  <2>5. ddir[d] \in Files /\ dpc[d] = "remove"
    BY <2>3 DEF RemoveOld, TypeInv, DaemonsOK
  <2>6. ddir[d] = f
    BY <2>4, <2>5 DEF Put, Stamps, TypeInv, FilesOK
  <2>7. dchosen[d] \in Stamps(f) => snaps'[f][dchosen[d]] # Absent
    BY <2>4, <2>5, <2>6 DEF Put, Stamps, TypeInv, FilesOK
  <2> QED
    BY <2>5, <2>6, <2>7 DEF KeptInv, Stamps
<1> QED
  BY <1>1, <1>2, <1>3, Typing, PTL DEF Spec, NeverEmptied

-----------------------------------------------------------------------------
(* Contents stay with the files of one name                                *)

\* v is a version of a file that has the name of f.
Named(v, f) == v = Blank \/ BaseName[v[1]] = BaseName[f]

ContentNamed == \A f \in Files : Named(content[f], f)

StoreNamed ==
    \A f \in Files, t \in Times : t \in Stamps(f) => Named(snaps[f][t], f)

\* What a cp has read is a version for the file it copies, also when it
\* outlives the call that started it.
HeldNamed ==
    \A p \in Apps : pc[p] = "fill" => Named(held[p], job[p].file)

\* A rollback has chosen a snapshot of a file with the name of its own.
ChoiceNamed ==
    \A p \in Procs :
        rpc[p] \in {"search", "ask", "lockfile", "locksnap", "unlink", "put"}
            => \/ chosen[p] = NoSnap
               \/ BaseName[chosen[p].file] = BaseName[target[p]]

NamesInv == ContentNamed /\ StoreNamed /\ HeldNamed /\ ChoiceNamed

LEMMA VersionsNamed ==
    ASSUME NEW f \in Files, NEW p, NEW n
    PROVE  Named(<<f, p, n>>, f)
BY DEF Named

LEMMA BlankNamed == \A f \in Files : Named(Blank, f)
BY DEF Named

LEMMA InitNamed == Init => NamesInv
<1> SUFFICES ASSUME Init PROVE NamesInv
  OBVIOUS
<1>1. ContentNamed
  BY VersionsNamed, BlankNamed DEF Init, ContentNamed
<1>2. StoreNamed /\ HeldNamed /\ ChoiceNamed
  BY DEF Init, StoreNamed, Stamps, HeldNamed, ChoiceNamed
<1> QED
  BY <1>1, <1>2 DEF NamesInv

\* A file is given contents by O_CREAT, by a write and by a rollback.
LEMMA ContentKept == TypeInv /\ NamesInv /\ [Next]_vars => ContentNamed'
<1> SUFFICES ASSUME TypeInv, NamesInv, [Next]_vars PROVE ContentNamed'
  OBVIOUS
<1> USE DEF TypeInv, NamesInv
<1>1. CASE UNCHANGED content
  BY <1>1 DEF ContentNamed
<1>2. ASSUME NEW p \in Apps, Start(p) PROVE ContentNamed'
  <2>1. PICK f \in Files : content' = IF f \in exists THEN content
                                      ELSE [content EXCEPT ![f] = Blank]
    BY <1>2 DEF Start
  <2> QED
    BY <2>1, BlankNamed DEF ContentNamed, FilesOK
<1>3. ASSUME NEW p \in Apps, SystemCall(p) PROVE ContentNamed'
  <2> DEFINE f == req[p].file
             new == <<f, p, made[p] + 1>>
  <2>1. f \in Files
    BY <1>3, InCall DEF SystemCall, Live
  <2>2. Named(new, f)
    BY <2>1, VersionsNamed
  <2>3. content' = content \/ content' = [content EXCEPT ![f] = new]
    BY <1>3 DEF SystemCall
  <2> HIDE DEF f, new
  <2> QED
    BY <2>1, <2>2, <2>3 DEF ContentNamed, FilesOK
<1>4. ASSUME NEW p \in Procs, PutBack(p) \/ RevertFails(p)
      PROVE  ContentNamed'
  <2>1. CASE ~UNCHANGED content
    <3>1. PICK data \in {Blank, snaps[chosen[p].file][chosen[p].time]} :
            /\ content' = [content EXCEPT ![target[p]] = data]
            /\ Present(chosen[p]) /\ RollingBack(p, "put")
      BY <1>4, <2>1 DEF PutBack, RevertFails, disk
    <3>2. /\ target[p] \in Files /\ chosen[p] \in Snapshot
          /\ BaseName[chosen[p].file] = BaseName[target[p]]
      BY <3>1 DEF Present, RollingBack, ProcsOK, RevertingOK, ChoiceNamed
    <3>3. Named(snaps[chosen[p].file][chosen[p].time], chosen[p].file)
      BY <3>1, <3>2 DEF Present, StoreNamed, Stamps, Snapshot
    <3>4. Named(data, target[p])
      BY <3>1, <3>2, <3>3 DEF Named
    <3> QED
      BY <3>1, <3>2, <3>4 DEF ContentNamed, FilesOK
  <2> QED
    BY <1>1, <2>1
<1>5. ASSUME NEW p \in Apps, Operate(p), ~Start(p), ~SystemCall(p)
      PROVE  UNCHANGED content
  BY <1>5
  DEF Operate, Resolve, ResolveMissing, End, Replay, Replayed, Record, Stat,
      Mkdir, Copy, Fill, Link, disk
<1>6. ASSUME NEW p \in Procs, RollBack(p), ~PutBack(p), ~RevertFails(p)
      PROVE  UNCHANGED content
  BY <1>6
  DEF RollBack, FindSnapshot, FindFaults, Retrieve, Search, Decline, Open,
      LockFile, LockSnap, Unlink, disk
<1>7. ASSUME NEW d \in Daemons, Cleanup(d) PROVE UNCHANGED content
  BY <1>7
  DEF Cleanup, Sweep, ChooseKept, List, RemoveOld, RemoveFails, Removed,
      Swept, disk
<1>8. ASSUME NEW p \in Apps, Signal(p) PROVE UNCHANGED content
  BY <1>8 DEF Signal, disk
<1>9. CASE Tick \/ UNCHANGED vars
  BY <1>1, <1>9 DEF Tick, vars, disk
<1> QED
  BY <1>1, <1>2, <1>3, <1>4, <1>5, <1>6, <1>7, <1>8, <1>9 DEF Next, AtRest

LEMMA PutNamed ==
    ASSUME FilesOK, StoreNamed, NEW f \in Files, NEW t \in Times, NEW data,
           Put(f, t, data), data = Absent \/ Named(data, f)
    PROVE  StoreNamed'
<1>1. snaps' = [snaps EXCEPT ![f] = [snaps[f] EXCEPT ![t] = data]]
  BY DEF Put
<1>2. \A g \in Files, u \in Times :
        snaps'[g][u] = IF g = f /\ u = t THEN data ELSE snaps[g][u]
  BY <1>1 DEF FilesOK
<1> QED
  BY <1>2 DEF StoreNamed, Stamps

\* The store is changed by a cp's two steps and by cleanup.
LEMMA StoreKept == TypeInv /\ NamesInv /\ [Next]_vars => StoreNamed'
<1> SUFFICES ASSUME TypeInv, NamesInv, [Next]_vars PROVE StoreNamed'
  OBVIOUS
<1> USE DEF TypeInv, NamesInv
<1>1. CASE UNCHANGED snaps
  BY <1>1 DEF StoreNamed, Stamps
<1>2. ASSUME NEW p \in Apps, Copy(p) \/ Fill(p) PROVE StoreNamed'
  <2>1. job[p].file \in Files /\ stamp[p] \in Times
    BY <1>2, InInsertion DEF Copy, Fill, Live, AppsOK, AppTypes
  <2>2. \/ Put(job[p].file, stamp[p], Blank)
        \/ Put(job[p].file, stamp[p], held[p]) /\ pc[p] = "fill"
        \/ UNCHANGED snaps
    BY <1>2 DEF Copy, Fill
  <2>3. pc[p] = "fill" => Named(held[p], job[p].file)
    BY DEF HeldNamed
  <2> QED
    BY <1>1, <2>1, <2>2, <2>3, BlankNamed, PutNamed
<1>3. ASSUME NEW d \in Daemons, RemoveOld(d) PROVE StoreNamed'
  <2>1. PICK t \in Times : Put(ddir[d], t, Absent)
    BY <1>3 DEF RemoveOld, DaemonsOK
  <2>2. ddir[d] \in Files
    BY <1>3 DEF RemoveOld, DaemonsOK
  <2> QED
    BY <2>1, <2>2, PutNamed
<1>4. ASSUME NEW p \in Apps, Operate(p), ~Copy(p), ~Fill(p)
      PROVE  UNCHANGED snaps
  BY <1>4
  DEF Operate, Start, Resolve, ResolveMissing, End, Replay, Replayed, Record,
      SystemCall, Stat, Mkdir, Link, store
<1>5. ASSUME NEW p \in Procs, RollBack(p) PROVE UNCHANGED snaps
  BY <1>5
  DEF RollBack, FindSnapshot, FindFaults, Retrieve, Search, Decline, Open,
      LockFile, LockSnap, Unlink, PutBack, RevertFails
<1>6. ASSUME NEW d \in Daemons, Cleanup(d), ~RemoveOld(d)
      PROVE  UNCHANGED snaps
  BY <1>6
  DEF Cleanup, Sweep, ChooseKept, List, RemoveFails, Removed, Swept, store
<1>7. ASSUME NEW p \in Apps, Signal(p) PROVE UNCHANGED snaps
  BY <1>7 DEF Signal, store
<1>8. CASE Tick \/ UNCHANGED vars
  BY <1>1, <1>8 DEF Tick, vars, store
<1> QED
  BY <1>1, <1>2, <1>3, <1>4, <1>5, <1>6, <1>7, <1>8 DEF Next, AtRest

\* Only Copy gets to the second step of a cp, and the insertion it is for
\* does not change before that step.
LEMMA HeldKept == TypeInv /\ NamesInv /\ [Next]_vars => HeldNamed'
<1> SUFFICES ASSUME TypeInv, NamesInv, [Next]_vars PROVE HeldNamed'
  OBVIOUS
<1> USE DEF TypeInv, NamesInv
<1>1. CASE UNCHANGED <<pc, job, held>>
  BY <1>1 DEF HeldNamed
<1>2. ASSUME NEW p \in Apps, pc'[p] # "fill",
             \A q \in Apps \ {p} : /\ pc'[q] = pc[q] /\ job'[q] = job[q]
                                   /\ held'[q] = held[q]
      PROVE  HeldNamed'
  BY <1>2 DEF HeldNamed
<1>3. ASSUME NEW p \in Apps, Copy(p) PROVE HeldNamed'
  <2>1. CASE UNCHANGED <<pc, job, held>>
    BY <1>1, <2>1
  <2>2. CASE /\ held' = [held EXCEPT ![p] = content[job[p].file]]
             /\ Goto(p, "fill") /\ UNCHANGED job
    <3>1. job[p].file \in Files
      BY <1>3, InInsertion DEF Copy, Live
    <3>2. Named(content[job[p].file], job[p].file)
      BY <3>1 DEF ContentNamed
    <3> QED
      BY <2>2, <3>2 DEF Goto, HeldNamed, AppsOK, AppTypes
  <2> QED
    BY <1>3, <2>1, <2>2 DEF Copy, CatchSignal, Leave
<1>4. ASSUME NEW p \in Apps, Fill(p) PROVE HeldNamed'
  <2>1. UNCHANGED held
        /\ job' = [job EXCEPT ![p] = [job[p] EXCEPT !.copies = @ - 1]]
    BY <1>4 DEF Fill
  <2>2. Goto(p, IF job[p].copies = 1 THEN "link" ELSE "copy")
    BY <1>4 DEF Fill
  <2> QED
    BY <1>2, <2>1, <2>2 DEF Goto, AppsOK, AppTypes
<1>5. ASSUME NEW p \in Apps,
             Start(p) \/ Resolve(p) \/ End(p) \/ Record(p) \/ SystemCall(p)
                \/ Stat(p) \/ Link(p)
      PROVE  HeldNamed'
  <2>1. pc'[p] # "fill" /\ \A q \in Apps \ {p} : pc'[q] = pc[q]
    BY <1>5
    DEF Start, Resolve, End, Record, SystemCall, Stat, Link, Goto, AppsOK,
        AppTypes
  <2>2. held' = held /\ \A q \in Apps \ {p} : job'[q] = job[q]
    BY <1>5
    DEF Start, Resolve, End, Record, SystemCall, Stat, Link, AppsOK,
        AppTypes, insertion
  <2> QED
    BY <1>2, <2>1, <2>2
<1>6. ASSUME NEW p \in Apps,
             ResolveMissing(p) \/ Replay(p) \/ Replayed(p) \/ Mkdir(p)
      PROVE  HeldNamed'
  <2>1. CASE UNCHANGED <<pc, job, held>>
    BY <1>1, <2>1
  <2>2. CASE ~UNCHANGED <<pc, job, held>>
    <3>1. CASE ResolveMissing(p)
      BY <1>2, <2>2, <3>1
      DEF ResolveMissing, Goto, CatchSignal, Leave, AppsOK, AppTypes, insertion
    <3>2. CASE Replay(p)
      BY <1>2, <2>2, <3>2
      DEF Replay, Goto, CatchSignal, Leave, AppsOK, AppTypes
    <3>3. CASE Replayed(p) \/ Mkdir(p)
      BY <1>2, <2>2, <3>3
      DEF Replayed, Mkdir, Goto, CatchSignal, Leave, AppsOK, AppTypes,
          insertion
    <3> QED
      BY <1>6, <3>1, <3>2, <3>3
  <2> QED
    BY <2>1, <2>2
<1>7. ASSUME NEW p \in Apps, Signal(p) PROVE HeldNamed'
  BY <1>1, <1>7 DEF Signal, CatchSignal, Leave, insertion
<1>8. ASSUME NEW p \in Procs, RollBack(p) PROVE HeldNamed'
  <2>1. Unmoved
    BY <1>8
    DEF RollBack, FindSnapshot, FindFaults, Retrieve, Search, Decline, Open,
        LockFile, LockSnap, Unlink, PutBack, RevertFails
  <2> QED
    BY <1>1, <2>1 DEF Unmoved, insertion
<1>9. ASSUME NEW d \in Daemons, Cleanup(d) PROVE HeldNamed'
  <2>1. UNCHANGED <<pc, insertion>>
    BY <1>9
    DEF Cleanup, Sweep, ChooseKept, List, RemoveOld, RemoveFails, Removed,
        Swept
  <2> QED
    BY <1>1, <2>1 DEF insertion
<1>10. CASE Tick \/ UNCHANGED vars
  BY <1>1, <1>10 DEF Tick, vars, insertion
<1> QED
  BY <1>3, <1>4, <1>5, <1>6, <1>7, <1>8, <1>9, <1>10
  DEF Next, AtRest, Operate

\* A snapshot named by a user is found under some file of the name of the one
\* it was listed for.
LEMMA ChoiceKept ==
    ASSUME TypeInv, NamesInv, [Next]_vars
    PROVE  ChoiceNamed'
<1> USE DEF TypeInv, NamesInv
<1>1. CASE UNCHANGED <<rpc, chosen, target>>
  BY <1>1 DEF ChoiceNamed
<1>2. ASSUME NEW p \in Apps, Operate(p) \/ Signal(p) PROVE ChoiceNamed'
  <2>1. CASE CatchSignal(p) /\ curr[p] # NoFile
    BY <2>1 DEF CatchSignal, ChoiceNamed, ProcsOK, Procs
  <2>2. CASE ~(CatchSignal(p) /\ curr[p] # NoFile)
    BY <1>1, <1>2, <2>2, OperateMoves DEF AppMove, Leave, rollback
  <2> QED
    BY <2>1, <2>2
<1>3. ASSUME NEW p \in Procs, RollBack(p) PROVE ChoiceNamed'
  <2>1. CASE FindFaults(p) \/ Decline(p) \/ RevertFails(p)
    BY <1>1, <2>1 DEF FindFaults, Decline, RevertFails, Leave
  <2>0. CASE PutBack(p)
    BY <2>0 DEF PutBack, Then, ChoiceNamed, ProcsOK
  <2>2. CASE Open(p) \/ LockFile(p) \/ LockSnap(p) \/ Unlink(p)
    BY <2>2
    DEF Open, LockFile, LockSnap, Unlink, RollingBack, Then, ChoiceNamed, ProcsOK
  <2>3. CASE FindSnapshot(p)
    <3>1. \/ chosen' = [chosen EXCEPT ![p] = NoSnap]
          \/ chosen' = [chosen EXCEPT ![p] =
               [file |-> target[p], time |-> Newest(Stamps(target[p]))]]
      BY <2>3 DEF FindSnapshot
    <3> QED
      BY <2>3, <3>1 DEF FindSnapshot, Then, ChoiceNamed, ProcsOK
  <2>4. CASE Retrieve(p)
    <3>1. PICK f \in Files, t \in Times :
            /\ target' = [target EXCEPT ![p] = f]
            /\ chosen' = [chosen EXCEPT ![p] = [file |-> f, time |-> t]]
      BY <2>4 DEF Retrieve, FilesOK, Stamps
    <3> QED
      BY <2>4, <3>1 DEF Retrieve, Then, ChoiceNamed, ProcsOK
  <2>5. CASE Search(p)
    <3>1. PICK g \in Files :
            /\ BaseName[g] = BaseName[chosen[p].file]
            /\ chosen' = [chosen EXCEPT ![p].file = g]
      BY <2>5 DEF Search
    <3>2. /\ chosen[p] \in Snapshot
          /\ BaseName[chosen[p].file] = BaseName[target[p]]
      BY <2>5 DEF Search, RollingBack, ProcsOK, RevertingOK, ChoiceNamed
    <3>3. BaseName[g] = BaseName[target[p]]
      BY <3>1, <3>2
    <3>4. [chosen[p] EXCEPT !.file = g].file = g
      BY <3>2 DEF Snapshot
    <3>5. chosen' = [chosen EXCEPT ![p] = [chosen[p] EXCEPT !.file = g]]
      BY <3>1
    <3> QED
      BY <2>5, <3>3, <3>4, <3>5 DEF Search, Then, ChoiceNamed, ProcsOK
  <2> QED
    BY <1>3, <2>0, <2>1, <2>2, <2>3, <2>4, <2>5 DEF RollBack
<1>4. ASSUME NEW d \in Daemons, Cleanup(d) PROVE ChoiceNamed'
  <2>1. UNCHANGED rollback
    BY <1>4
    DEF Cleanup, Sweep, ChooseKept, List, RemoveOld, RemoveFails, Removed,
        Swept
  <2> QED
    BY <1>1, <2>1 DEF rollback
<1>5. CASE Tick \/ UNCHANGED vars
  BY <1>1, <1>5 DEF Tick, vars, rollback
<1> QED
  BY <1>2, <1>3, <1>4, <1>5 DEF Next, AtRest

\* Files get contents of files of their name only, for get_snapshot compares
\* the name and nothing but the name, whatever rollbacks, retrievals, cleanups
\* and writes race, and also when they fail half-way.
THEOREM FilesKeepNames == Spec => []ContentNamed
<1>1. Init => TypeInv /\ NamesInv
  BY InitTyped, InitNamed
<1>2. TypeInv /\ NamesInv /\ [Next]_vars => TypeInv' /\ NamesInv'
  BY Typing, ContentKept, StoreKept, HeldKept, ChoiceKept DEF NamesInv
<1> QED
  BY <1>1, <1>2, PTL DEF Spec, NamesInv
=============================================================================
