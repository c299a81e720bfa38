--------------------------- MODULE JournalProofs ----------------------------
(***************************************************************************)
(* Proofs about Journal, for any processes, files, bounds and environment: *)
(* type correctness first, then the lock, then the scans of the journal,   *)
(* then what follows for the JSON file.                                    *)
(***************************************************************************)
EXTENDS Journal, SeqEmbeddingTheorems, SequenceTheorems

-----------------------------------------------------------------------------
(* Type correctness                                                        *)

\* The part of TypeOK that a move between frames can disturb.
ControlOK ==
    /\ json \in JsonContents
    /\ flock \in Procs \cup {NoProc}
    /\ revlock \in [Files -> Procs \cup {NoProc}]
    /\ spins \in [Procs -> 0 .. MaxSpin]
    /\ pc \in [Procs -> MainLabels]
    /\ hpc \in [Procs -> HandlerLabels]
    /\ status \in [Procs -> {"live", "handler", "exited", "died"}]

LEMMA GotoTyped ==
    ASSUME TypeOK, NEW p \in Procs, NEW label \in MainLabels,
           status[p] = "live" \/ label \in HandlerLabels,
           Goto(p, label)
    PROVE  /\ pc' \in [Procs -> MainLabels]
           /\ hpc' \in [Procs -> HandlerLabels]
           /\ status' \in [Procs -> {"live", "handler", "exited", "died"}]
BY DEF TypeOK, Goto

LEMMA GoneTyped ==
    ASSUME TypeOK, NEW p \in Procs,
           NEW how \in {"exited", "died"}, Gone(p, how)
    PROVE  /\ flock' \in Procs \cup {NoProc}
           /\ revlock' \in [Files -> Procs \cup {NoProc}]
           /\ spins' \in [Procs -> 0 .. MaxSpin]
           /\ pc' \in [Procs -> MainLabels]
           /\ hpc' \in [Procs -> HandlerLabels]
           /\ status' \in [Procs -> {"live", "handler", "exited", "died"}]
<1>1. 0 \in 0 .. MaxSpin /\ "none" \in HandlerLabels
  BY BoundsAssumption DEF HandlerLabels
<1> QED
  BY <1>1 DEF TypeOK, Gone

LEMMA ExitTyped ==
    ASSUME TypeOK, NEW p \in Procs,
           NEW how \in {"exited", "died"}, Exit(p, how)
    PROVE  ControlOK'
<1>1. json' \in JsonContents
  <2>1. Readable(tree[p]) \in JsonContents
    BY DEF TypeOK, Readable, JsonContents
  <2> QED
    BY <2>1 DEF TypeOK, Exit
<1> QED
  BY <1>1, GoneTyped DEF Exit, ControlOK

LEMMA CatchTyped ==
    ASSUME TypeOK, NEW p \in Procs, CatchSignal(p)
    PROVE  ControlOK'
<1>1. CASE curr[p] = NoFile
  <2>1. Exit(p, "died")
    BY <1>1 DEF CatchSignal
  <2> QED
    BY <2>1, ExitTyped
<1>2. CASE curr[p] # NoFile
  <2>1. /\ status' = [status EXCEPT ![p] = "handler"]
        /\ hpc' = [hpc EXCEPT ![p] = "find"]
        /\ spins' = [spins EXCEPT ![p] = 0]
        /\ UNCHANGED <<pc, flock, revlock, json>>
    BY <1>2 DEF CatchSignal
  <2>2. 0 \in 0 .. MaxSpin /\ "find" \in HandlerLabels
    BY BoundsAssumption DEF HandlerLabels
  <2> QED
    BY <2>1, <2>2 DEF TypeOK, ControlOK
<1> QED
  BY <1>1, <1>2

LEMMA FaultTyped ==
    ASSUME TypeOK, NEW p \in Procs, Fault(p)
    PROVE  ControlOK'
<1>1. CASE CatchSignal(p)
  BY <1>1, CatchTyped
<1>2. CASE Gone(p, "died") /\ UNCHANGED json
  BY <1>2, GoneTyped DEF TypeOK, ControlOK
<1> QED
  BY <1>1, <1>2 DEF Fault

\* A call is being served exactly where my_write and my_read serve one, and
\* the handler runs for a file.  This makes TypeOK inductive: what is appended
\* to the journal is a request, what a rollback puts back is a file,
\* and no line is copied that is not there.
CallOK(p) ==
    /\ req[p] \in Requests \cup {NoReq}
    /\ pc[p] \in {"resolve", "logwrite", "journal", "insert", "io"}
         => req[p] \in Requests
    /\ pc[p] \in {"idle", "lock", "dump", "write", "unlock", "unsaved"}
         => req[p] = NoReq
    /\ status[p] = "handler" => curr[p] # NoFile
    /\ line_count[p] <= Len(log)

CallInv == \A p \in Procs : CallOK(p)

TypeInv == TypeOK /\ CallInv

LEMMA RequestsAreCalls ==
    \A r \in Requests : r \in Entry /\ r # NoReq
BY RequestsAssumption DEF Entry, NoReq

LEMMA InitTyped == Init => TypeInv
BY BoundsAssumption
DEF Init, TypeInv, TypeOK, CallInv, CallOK, Torn, JsonContents, MainLabels,
    HandlerLabels

\* Signals and faults move no program counter, and the handler is entered
\* for a file only.
LEMMA FaultKeepsPc ==
    ASSUME TypeOK, NEW p \in Procs, Fault(p) \/ CatchSignal(p)
    PROVE  /\ pc' = pc
           /\ \A q \in Procs : status'[q] = "handler"
                => status[q] = "handler" \/ curr[q] # NoFile
BY DEF Fault, CatchSignal, Exit, Gone, TypeOK

\* A step of that kind that changes nothing else keeps the types.
LEMMA FaultKeepsTypes ==
    ASSUME TypeInv, ControlOK', pc' = pc,
           \A q \in Procs : status'[q] = "handler"
             => status[q] = "handler" \/ curr[q] # NoFile,
           present' = present \/ present' \subseteq Files,
           UNCHANGED <<log, writeLog, snapped, memory, issued>>
    PROVE  TypeInv'
<1>1. TypeOK'
  BY DEF TypeInv, TypeOK, ControlOK, memory
<1>2. CallInv'
  BY DEF TypeInv, CallInv, CallOK, memory
<1> QED
  BY <1>1, <1>2 DEF TypeInv

\* The steps of a call are the program's own: the handler makes no call.
LEMMA InCall ==
    ASSUME TypeInv, NEW p \in Procs,
           NEW label \in {"resolve", "logwrite", "journal", "insert", "io"},
           At(p, label)
    PROVE  /\ status[p] = "live" /\ pc[p] = label
           /\ req[p] \in Requests /\ req[p] \in Entry /\ req[p] # NoReq
BY RequestsAreCalls DEF TypeInv, TypeOK, CallInv, CallOK, At, HandlerLabels

\* The steps of a rollback are the handler's, and it has a file to roll back.
LEMMA InRollback ==
    ASSUME TypeInv, NEW p \in Procs,
           NEW label \in {"find", "ask", "flock", "unlink", "copy"},
           At(p, label)
    PROVE  status[p] = "handler" /\ hpc[p] = label /\ curr[p] \in Files
BY DEF TypeInv, TypeOK, CallInv, CallOK, At, MainLabels

\* They touch files and the handler's place only.
LEMMA RollbackTyped ==
    ASSUME TypeInv, NEW p \in Procs, status[p] = "handler",
           NEW label \in HandlerLabels, Goto(p, label),
           revlock' \in [Files -> Procs \cup {NoProc}],
           present' \subseteq Files,
           UNCHANGED <<log, writeLog, json, flock, snapped, memory, spins,
                       issued>>
    PROVE  TypeInv'
<1>1. UNCHANGED <<pc, status>> /\ hpc' \in [Procs -> HandlerLabels]
  BY DEF Goto, TypeInv, TypeOK
<1> QED
  BY <1>1 DEF memory, TypeInv, TypeOK, CallInv, CallOK

\* Where cp goes on alone it leaves the file or not.
LEMMA CopyTyped ==
    ASSUME TypeInv, NEW p \in Procs, CopyGoesOn(p)
    PROVE  present' \subseteq Files
<1>1. CASE At(p, "copy")
  BY <1>1, InRollback DEF CopyGoesOn, TypeInv, TypeOK
<1>2. CASE ~At(p, "copy")
  BY <1>2 DEF CopyGoesOn, TypeInv, TypeOK
<1> QED
  BY <1>1, <1>2

\* A move changes the program counter of one process at most, and where it
\* does the handler is not running.
LEMMA GotoMoves ==
    ASSUME TypeOK, NEW p \in Procs, NEW label, Goto(p, label)
    PROVE  /\ \A q \in Procs : q # p => pc'[q] = pc[q]
           /\ status[p] = "live" => pc'[p] = label
           /\ status[p] # "live" => pc' = pc
           /\ status' = status
BY DEF TypeOK, Goto

\* A move of one process within an unchanged journal keeps the requests and
\* counts in order if the new place of that process fits its request.
LEMMA MoveKeepsCalls ==
    ASSUME TypeInv, NEW p \in Procs, NEW label, Goto(p, label),
           UNCHANGED <<log, curr, line_count>>,
           \A q \in Procs : q # p => req'[q] = req[q],
           IF status[p] = "live"
             THEN /\ req'[p] \in Requests \cup {NoReq}
                  /\ label \in {"resolve", "logwrite", "journal", "insert",
                               "io"}
                       => req'[p] \in Requests
                  /\ label \in {"idle", "lock", "dump", "write", "unlock",
                               "unsaved"}
                       => req'[p] = NoReq
             ELSE req'[p] = req[p]
    PROVE  CallInv'
<1> SUFFICES ASSUME NEW q \in Procs
             PROVE  CallOK(q)'
  BY DEF CallInv
<1>1. CallOK(q)
  BY DEF TypeInv, CallInv
<1>2. /\ q # p => pc'[q] = pc[q]
      /\ status[p] = "live" => pc'[p] = label
      /\ status[p] # "live" => pc' = pc
      /\ status' = status
  BY GotoMoves DEF TypeInv
<1>3. CASE q # p
  BY <1>1, <1>2, <1>3 DEF CallOK
<1>4. CASE q = p /\ status[p] # "live"
  BY <1>1, <1>2, <1>4 DEF CallOK
<1>5. CASE q = p /\ status[p] = "live"
  <2>1. status'[q] = "handler" => curr'[q] # NoFile
    BY <1>2, <1>5
  <2>2. line_count'[q] <= Len(log')
    BY <1>1 DEF CallOK
  <2> QED
    BY <1>2, <1>5, <2>1, <2>2 DEF CallOK
<1> QED
  BY <1>3, <1>4, <1>5

\* The lines that were counted are lines of the journal.
LEMMA ScanTyped ==
    ASSUME TypeInv, NEW p \in Procs
    PROVE  SubSeq(log, 1, line_count[p]) \in Seq(Entry)
BY DEF TypeInv, TypeOK, CallInv, CallOK

LEMMA Typing == TypeInv /\ [Next]_vars => TypeInv'
<1> SUFFICES ASSUME TypeInv, [Next]_vars
             PROVE  TypeInv'
  OBVIOUS
<1> USE DEF TypeInv
<1>1. ASSUME NEW p \in Procs, StartWrite(p) PROVE TypeInv'
  <2>2. /\ Goto(p, "resolve")
        /\ "resolve" \in MainLabels
        /\ status[p] = "live" \/ "resolve" \in HandlerLabels
    BY <1>1 DEF StartWrite, At, Idle, TypeOK, MainLabels, HandlerLabels
  <2>4. /\ pc' \in [Procs -> MainLabels]
        /\ hpc' \in [Procs -> HandlerLabels]
        /\ status' \in [Procs -> {"live", "handler", "exited", "died"}]
    BY <2>2, GotoTyped
  <2>5. /\ req' \in [Procs -> Entry \cup {NoReq}]
        /\ present' \subseteq Files
    BY <1>1, RequestsAreCalls DEF StartWrite, Entry, TypeOK
  <2>6. TypeOK'
    BY <1>1, <2>4, <2>5 DEF StartWrite, TypeOK, files, memory
  <2>7. CallInv'
    <3>1. UNCHANGED <<log, curr, line_count>>
      BY <1>1 DEF StartWrite, files, memory
    <3>2. /\ req'[p] \in Requests
          /\ \A q \in Procs : q # p => req'[q] = req[q]
          /\ status[p] = "live"
      BY <1>1 DEF StartWrite, Idle, At, TypeOK, HandlerLabels
    <3> QED
      BY <2>2, <3>1, <3>2, MoveKeepsCalls
  <2> QED
    BY <2>6, <2>7
<1>2. ASSUME NEW p \in Procs, StartRead(p) PROVE TypeInv'
  <2>2. /\ Goto(p, "resolve")
        /\ "resolve" \in MainLabels
        /\ status[p] = "live" \/ "resolve" \in HandlerLabels
    BY <1>2 DEF StartRead, At, Idle, TypeOK, MainLabels, HandlerLabels
  <2>4. /\ pc' \in [Procs -> MainLabels]
        /\ hpc' \in [Procs -> HandlerLabels]
        /\ status' \in [Procs -> {"live", "handler", "exited", "died"}]
    BY <2>2, GotoTyped
  <2>5. req' \in [Procs -> Entry \cup {NoReq}]
    BY <1>2, RequestsAreCalls DEF StartRead, TypeOK
  <2>6. TypeOK'
    BY <1>2, <2>4, <2>5 DEF StartRead, TypeOK, files, memory
  <2>7. CallInv'
    <3>1. UNCHANGED <<log, curr, line_count>>
      BY <1>2 DEF StartRead, files, memory
    <3>2. /\ req'[p] \in Requests
          /\ \A q \in Procs : q # p => req'[q] = req[q]
          /\ status[p] = "live"
      BY <1>2 DEF StartRead, Idle, At, TypeOK, HandlerLabels
    <3> QED
      BY <2>2, <3>1, <3>2, MoveKeepsCalls
  <2> QED
    BY <2>6, <2>7
<1>3. ASSUME NEW p \in Procs, Resolve(p) PROVE TypeInv'
  <2> DEFINE next == IF tree[p] = <<>> THEN "count" ELSE AfterReplay(p)
  <2>1. /\ status[p] = "live" /\ pc[p] = "resolve"
        /\ req[p] \in Requests /\ req[p] \in Entry /\ req[p] # NoReq
    BY <1>3, InCall DEF Resolve
  <2>2. /\ Goto(p, next)
        /\ next \in MainLabels
        /\ status[p] = "live" \/ next \in HandlerLabels
    BY <2>1, <1>3
    DEF Resolve, At, AfterReplay, TypeOK, MainLabels, HandlerLabels
  <2>3. /\ next \in {"count", "lock", "logwrite", "journal"}
        /\ next = "lock" => req[p] = NoReq
        /\ next \in {"logwrite", "journal"} => req[p] \in Requests
    BY <2>1, <1>3 DEF TypeInv, CallInv, CallOK, NoReq, AfterReplay
  <2> HIDE DEF next
  <2>4. /\ pc' \in [Procs -> MainLabels]
        /\ hpc' \in [Procs -> HandlerLabels]
        /\ status' \in [Procs -> {"live", "handler", "exited", "died"}]
    BY <2>2, GotoTyped
  <2>5. curr' \in [Procs -> Files \cup {NoFile}]
    BY <2>1, <1>3, RequestsAreCalls DEF Resolve, Entry, TypeOK
  <2>6. TypeOK'
    BY <1>3, <2>4, <2>5 DEF Resolve, TypeOK, files, memory
  <2>8. req[p].file \in Files
    BY <2>1 DEF Entry
  <2>7. CallInv'
    <3> SUFFICES ASSUME NEW q \in Procs
                 PROVE  CallOK(q)'
      BY DEF CallInv
    <3>1. CallOK(q) /\ status' = status /\ (q # p => pc'[q] = pc[q])
          /\ (status[p] = "live" => pc'[p] = next)
          /\ (status[p] # "live" => pc' = pc)
      BY <2>2, GotoMoves DEF CallInv
    <3>2. CASE q = p
      BY <2>1, <1>3, <2>2, <2>8, SentinelAssumption, <2>3, RequestsAreCalls,
         <3>1, <3>2
      DEF Resolve, At, CallOK, files, memory, TypeOK, HandlerLabels
    <3>3. CASE q # p
      BY <2>1, <1>3, <3>1, <3>3, <2>8, SentinelAssumption
      DEF Resolve, CallOK, files, memory, TypeOK
    <3> QED
      BY <3>2, <3>3
  <2> QED
    BY <2>6, <2>7
<1>4. ASSUME NEW p \in Procs, ResolveMissing(p) PROVE TypeInv'
  <2>1. status[p] = "live" /\ pc[p] = "resolve"
    BY <1>4, InCall DEF ResolveMissing
  <2>2. CASE req[p].op = "R"
    <3>1. Goto(p, "idle") /\ "idle" \in MainLabels
      BY <1>4, <2>2 DEF ResolveMissing, MainLabels
    <3>2. /\ pc' \in [Procs -> MainLabels]
          /\ hpc' \in [Procs -> HandlerLabels]
          /\ status' \in [Procs -> {"live", "handler", "exited", "died"}]
      BY <2>1, <3>1, GotoTyped
    <3>3. /\ req' = [req EXCEPT ![p] = NoReq]
          /\ UNCHANGED <<log, curr, line_count>>
      BY <1>4, <2>2 DEF ResolveMissing
    <3>4. CallInv'
      BY <2>1, <3>1, <3>3, MoveKeepsCalls DEF TypeOK
    <3>5. TypeOK'
      BY <1>4, <2>2, <3>2, <3>3 DEF ResolveMissing, TypeOK
    <3> QED
      BY <3>4, <3>5
  <2>3. CASE req[p].op # "R"
    BY <1>4, <2>3, FaultTyped, FaultKeepsPc, FaultKeepsTypes
    DEF ResolveMissing, memory
  <2> QED
    BY <2>2, <2>3
<1>5. ASSUME NEW p \in Procs, LogWrite(p) PROVE TypeInv'
  <2>1. /\ status[p] = "live" /\ pc[p] = "logwrite"
        /\ req[p] \in Requests /\ req[p] \in Entry /\ req[p] # NoReq
    BY <1>5, InCall DEF LogWrite
  <2>2. /\ Goto(p, "journal")
        /\ "journal" \in MainLabels
        /\ status[p] = "live" \/ "journal" \in HandlerLabels
    BY <2>1, <1>5 DEF LogWrite, At, TypeOK, MainLabels, HandlerLabels
  <2>4. /\ pc' \in [Procs -> MainLabels]
        /\ hpc' \in [Procs -> HandlerLabels]
        /\ status' \in [Procs -> {"live", "handler", "exited", "died"}]
    BY <2>2, GotoTyped
  <2>3. writeLog \in [Procs -> Nat] /\ writeLog[p] + 1 \in Nat
    BY DEF TypeOK
  <2>5. writeLog' \in [Procs -> Nat]
    BY <1>5, <2>3 DEF LogWrite
  <2>6. TypeOK'
    BY <1>5, <2>4, <2>5 DEF LogWrite, TypeOK, files, memory
  <2>7. CallInv'
    <3>1. UNCHANGED <<log, curr, line_count>>
      BY <1>5 DEF LogWrite, files, memory
    <3>2. req'[p] \in Requests /\ req' = req
      BY <2>1, <1>5 DEF LogWrite, memory
    <3> QED
      BY <2>1, <2>2, <3>1, <3>2, MoveKeepsCalls
  <2> QED
    BY <2>6, <2>7
<1>6. ASSUME NEW p \in Procs, JournalOp(p) PROVE TypeInv'
  <2>1. /\ status[p] = "live" /\ pc[p] = "journal"
        /\ req[p] \in Requests /\ req[p] \in Entry /\ req[p] # NoReq
    BY <1>6, InCall DEF JournalOp
  <2>2. /\ Goto(p, "insert")
        /\ "insert" \in MainLabels
        /\ status[p] = "live" \/ "insert" \in HandlerLabels
    BY <2>1, <1>6 DEF JournalOp, At, TypeOK, MainLabels, HandlerLabels
  <2>4. /\ pc' \in [Procs -> MainLabels]
        /\ hpc' \in [Procs -> HandlerLabels]
        /\ status' \in [Procs -> {"live", "handler", "exited", "died"}]
    BY <2>2, GotoTyped
  <2>5. log' \in Seq(Entry)
    BY <2>1, <1>6 DEF JournalOp, TypeOK
  <2>6. TypeOK'
    BY <1>6, <2>4, <2>5 DEF JournalOp, TypeOK, files, memory
  <2>7. CallInv'
    <3> SUFFICES ASSUME NEW q \in Procs
                 PROVE  CallOK(q)'
      BY DEF CallInv
    <3>1. CallOK(q) /\ status' = status /\ (q # p => pc'[q] = pc[q])
          /\ (status[p] = "live" => pc'[p] = "insert")
          /\ (status[p] # "live" => pc' = pc)
      BY <2>2, GotoMoves DEF CallInv
    <3>2. CASE q = p
      BY <2>1, <1>6, <2>2, RequestsAreCalls, <3>1, <3>2
      DEF JournalOp, At, CallOK, files, memory, TypeOK, HandlerLabels
    <3>3. CASE q # p
      BY <2>1, <1>6, <3>1, <3>3 DEF JournalOp, CallOK, files, memory, TypeOK
    <3> QED
      BY <3>2, <3>3
  <2> QED
    BY <2>6, <2>7
<1>7. ASSUME NEW p \in Procs, Insert(p) PROVE TypeInv'
  <2>1. /\ status[p] = "live" /\ pc[p] = "insert"
        /\ req[p] \in Requests /\ req[p] \in Entry /\ req[p] # NoReq
    BY <1>7, InCall DEF Insert
  <2>2. /\ Goto(p, "io")
        /\ "io" \in MainLabels
        /\ status[p] = "live" \/ "io" \in HandlerLabels
    BY <2>1, <1>7 DEF Insert, At, TypeOK, MainLabels, HandlerLabels
  <2>4. /\ pc' \in [Procs -> MainLabels]
        /\ hpc' \in [Procs -> HandlerLabels]
        /\ status' \in [Procs -> {"live", "handler", "exited", "died"}]
    BY <2>2, GotoTyped
  <2>3. req[p].file \in Files
    BY <2>1 DEF Entry
  <2>5. /\ tree' \in [Procs -> Seq(Entry)]
        /\ snapped' \subseteq Files
    BY <2>1, <2>3, <1>7 DEF Insert, AddToTree, TypeOK
  <2>6. TypeOK'
    BY <1>7, <2>4, <2>5 DEF Insert, TypeOK, files, memory, AddToTree
  <2>7. CallInv'
    <3>1. UNCHANGED <<log, curr, line_count>>
      BY <1>7 DEF Insert, files, memory
    <3>2. req'[p] \in Requests /\ req' = req
      BY <2>1, <1>7 DEF Insert
    <3> QED
      BY <2>1, <2>2, <3>1, <3>2, MoveKeepsCalls
  <2> QED
    BY <2>6, <2>7
<1>8. ASSUME NEW p \in Procs, SystemCall(p) PROVE TypeInv'
  <2>1. /\ status[p] = "live" /\ pc[p] = "io"
        /\ req[p] \in Requests /\ req[p] \in Entry /\ req[p] # NoReq
    BY <1>8, InCall DEF SystemCall
  <2>2. /\ Goto(p, "idle")
        /\ "idle" \in MainLabels
        /\ status[p] = "live" \/ "idle" \in HandlerLabels
    BY <2>1, <1>8 DEF SystemCall, At, TypeOK, MainLabels, HandlerLabels
  <2>4. /\ pc' \in [Procs -> MainLabels]
        /\ hpc' \in [Procs -> HandlerLabels]
        /\ status' \in [Procs -> {"live", "handler", "exited", "died"}]
    BY <2>2, GotoTyped
  <2>5. /\ issued' \in [Procs -> Seq(Entry)]
        /\ req' \in [Procs -> Entry \cup {NoReq}]
    BY <2>1, <1>8 DEF SystemCall, TypeOK
  <2>6. TypeOK'
    BY <1>8, <2>4, <2>5 DEF SystemCall, TypeOK, files, memory
  <2>7. CallInv'
    <3>1. UNCHANGED <<log, curr, line_count>>
      BY <1>8 DEF SystemCall, files, memory
    <3>2. /\ req'[p] = NoReq
          /\ \A q \in Procs : q # p => req'[q] = req[q]
      BY <2>1, <1>8 DEF SystemCall, TypeOK
    <3> QED
      BY <2>1, <2>2, <3>1, <3>2, MoveKeepsCalls
  <2> QED
    BY <2>6, <2>7
<1>9. ASSUME NEW p \in Procs, End(p) PROVE TypeInv'
  <2>2. /\ Goto(p, "count")
        /\ "count" \in MainLabels
        /\ status[p] = "live" \/ "count" \in HandlerLabels
    BY <1>9 DEF End, At, TypeOK, MainLabels, HandlerLabels
  <2>4. /\ pc' \in [Procs -> MainLabels]
        /\ hpc' \in [Procs -> HandlerLabels]
        /\ status' \in [Procs -> {"live", "handler", "exited", "died"}]
    BY <2>2, GotoTyped
  <2>5. tree' \in [Procs -> Seq(Entry)]
    BY <1>9 DEF End, TypeOK
  <2>6. TypeOK'
    BY <1>9, <2>4, <2>5 DEF End, TypeOK, files, memory
  <2>7. CallInv'
    <3>1. UNCHANGED <<log, curr, line_count>>
      BY <1>9 DEF End, files, memory
    <3>2. /\ req' = req
          /\ req[p] \in Requests \cup {NoReq}
      BY <1>9 DEF End, CallInv, CallOK
    <3> QED
      BY <2>2, <3>1, <3>2, MoveKeepsCalls
  <2> QED
    BY <2>6, <2>7
<1>10. ASSUME NEW p \in Procs, CountLines(p) PROVE TypeInv'
  <2>2. /\ Goto(p, "load")
        /\ "load" \in MainLabels
        /\ status[p] = "live" \/ "load" \in HandlerLabels
    BY <1>10 DEF CountLines, At, TypeOK, MainLabels, HandlerLabels
  <2>4. /\ pc' \in [Procs -> MainLabels]
        /\ hpc' \in [Procs -> HandlerLabels]
        /\ status' \in [Procs -> {"live", "handler", "exited", "died"}]
    BY <2>2, GotoTyped
  <2>5. line_count' \in [Procs -> Nat]
    BY <1>10 DEF CountLines, TypeOK
  <2>6. TypeOK'
    BY <1>10, <2>4, <2>5 DEF CountLines, TypeOK, files, memory
  <2>7. CallInv'
    <3> SUFFICES ASSUME NEW q \in Procs
                 PROVE  CallOK(q)'
      BY DEF CallInv
    <3>1. CallOK(q) /\ status' = status /\ (q # p => pc'[q] = pc[q])
          /\ (status[p] = "live" => pc'[p] = "load")
          /\ (status[p] # "live" => pc' = pc)
      BY <2>2, GotoMoves DEF CallInv
    <3>2. CASE q = p
      <4>1. /\ status[p] = "live" /\ line_count'[p] = Len(log)
            /\ UNCHANGED <<log, curr, req>>
        BY <1>10 DEF CountLines, At, files, TypeOK, HandlerLabels
      <4>2. Len(log) \in Nat
        BY DEF TypeOK
      <4> QED
        BY <3>1, <3>2, <4>1, <4>2 DEF CallOK
    <3>3. CASE q # p
      BY <1>10, <3>1, <3>3 DEF CountLines, CallOK, files, memory, TypeOK
    <3> QED
      BY <3>2, <3>3
  <2> QED
    BY <2>6, <2>7
<1>11. ASSUME NEW p \in Procs, LoadLines(p) PROVE TypeInv'
  <2>2. /\ Goto(p, "replay")
        /\ "replay" \in MainLabels
        /\ status[p] = "live" \/ "replay" \in HandlerLabels
    BY <1>11 DEF LoadLines, At, TypeOK, MainLabels, HandlerLabels
  <2>4. /\ pc' \in [Procs -> MainLabels]
        /\ hpc' \in [Procs -> HandlerLabels]
        /\ status' \in [Procs -> {"live", "handler", "exited", "died"}]
    BY <2>2, GotoTyped
  <2>5. lines' \in [Procs -> Seq(Entry)]
    BY <1>11, ScanTyped DEF LoadLines, TypeOK
  <2>6. TypeOK'
    BY <1>11, <2>4, <2>5 DEF LoadLines, TypeOK, files, memory
  <2>7. CallInv'
    <3> SUFFICES ASSUME NEW q \in Procs
                 PROVE  CallOK(q)'
      BY DEF CallInv
    <3>1. CallOK(q) /\ status' = status /\ (q # p => pc'[q] = pc[q])
          /\ (status[p] = "live" => pc'[p] = "replay")
          /\ (status[p] # "live" => pc' = pc)
      BY <2>2, GotoMoves DEF CallInv
    <3>2. CASE q = p
      BY <1>11, <2>2, RequestsAreCalls, <3>1, <3>2
      DEF LoadLines, At, CallOK, files, memory, TypeOK, HandlerLabels
    <3>3. CASE q # p
      BY <1>11, <3>1, <3>3 DEF LoadLines, CallOK, files, memory, TypeOK
    <3> QED
      BY <3>2, <3>3
  <2> QED
    BY <2>6, <2>7
<1>12. ASSUME NEW p \in Procs, Replay(p) PROVE TypeInv'
  <2>1. lines[p] \in Seq(Entry) /\ lines[p] # <<>>
    BY <1>12 DEF Replay, TypeOK
  <2>6. Head(lines[p]) \in Entry /\ Tail(lines[p]) \in Seq(Entry)
    BY <2>1
  <2>2. Head(lines[p]).file \in Files
    BY <2>6 DEF Entry
  <2>3. /\ tree' \in [Procs -> Seq(Entry)]
        /\ lines' \in [Procs -> Seq(Entry)]
        /\ snapped' \subseteq Files
    BY <1>12, <2>2, <2>6 DEF Replay, AddToTree, TypeOK
  <2>4. TypeOK'
    BY <1>12, <2>3 DEF Replay, AddToTree, control, TypeOK
  <2>5. CallInv'
    BY <1>12 DEF Replay, control, CallInv, CallOK
  <2> QED
    BY <2>4, <2>5
<1>13. ASSUME NEW p \in Procs, ReplayDone(p) PROVE TypeInv'
  <2> DEFINE next == AfterReplay(p)
  <2>2. /\ Goto(p, next)
        /\ next \in MainLabels
        /\ status[p] = "live" \/ next \in HandlerLabels
    BY <1>13 DEF ReplayDone, At, AfterReplay, TypeOK, MainLabels, HandlerLabels
  <2>3. /\ next \in {"count", "lock", "logwrite", "journal"}
        /\ next = "lock" => req[p] = NoReq
        /\ next \in {"logwrite", "journal"} => req[p] \in Requests
    BY <1>13 DEF TypeInv, CallInv, CallOK, NoReq, AfterReplay
  <2> HIDE DEF next
  <2>4. /\ pc' \in [Procs -> MainLabels]
        /\ hpc' \in [Procs -> HandlerLabels]
        /\ status' \in [Procs -> {"live", "handler", "exited", "died"}]
    BY <2>2, GotoTyped
  <2>5. spins' \in [Procs -> 0 .. MaxSpin]
    BY <1>13, BoundsAssumption DEF ReplayDone, TypeOK
  <2>6. TypeOK'
    BY <1>13, <2>4, <2>5 DEF ReplayDone, TypeOK, files, memory
  <2>7. CallInv'
    <3> SUFFICES ASSUME NEW q \in Procs
                 PROVE  CallOK(q)'
      BY DEF CallInv
    <3>1. CallOK(q) /\ status' = status /\ (q # p => pc'[q] = pc[q])
          /\ (status[p] = "live" => pc'[p] = next)
          /\ (status[p] # "live" => pc' = pc)
      BY <2>2, GotoMoves DEF CallInv
    <3>2. CASE q = p
      BY <1>13, <2>2, <2>3, RequestsAreCalls, <3>1, <3>2
      DEF ReplayDone, At, CallOK, files, memory, TypeOK, HandlerLabels
    <3>3. CASE q # p
      BY <1>13, <3>1, <3>3 DEF ReplayDone, CallOK, files, memory, TypeOK
    <3> QED
      BY <3>2, <3>3
  <2> QED
    BY <2>6, <2>7
<1>14. ASSUME NEW p \in Procs, TryLock(p) PROVE TypeInv'
  <2>2. /\ Goto(p, "dump")
        /\ "dump" \in MainLabels
        /\ status[p] = "live" \/ "dump" \in HandlerLabels
    BY <1>14 DEF TryLock, At, TypeOK, MainLabels, HandlerLabels
  <2>4. /\ pc' \in [Procs -> MainLabels]
        /\ hpc' \in [Procs -> HandlerLabels]
        /\ status' \in [Procs -> {"live", "handler", "exited", "died"}]
    BY <2>2, GotoTyped
  <2>5. flock' \in Procs \cup {NoProc}
    BY <1>14 DEF TryLock, TypeOK
  <2>6. TypeOK'
    BY <1>14, <2>4, <2>5 DEF TryLock, TypeOK, files, memory
  <2>7. CallInv'
    <3>1. UNCHANGED <<log, curr, line_count>>
      BY <1>14 DEF TryLock, files, memory
    <3>2. /\ req' = req
          /\ status[p] = "live" => req[p] = NoReq
      BY <1>14 DEF TryLock, At, memory, TypeOK, CallInv, CallOK, HandlerLabels
    <3> QED
      BY <2>2, <3>1, <3>2, MoveKeepsCalls
  <2> QED
    BY <2>6, <2>7
<1>15. ASSUME NEW p \in Procs, Spin(p) PROVE TypeInv'
  <2>1. spins' \in [Procs -> 0 .. MaxSpin]
    BY <1>15, BoundsAssumption DEF Spin, TypeOK
  <2> QED
    BY <1>15, <2>1 DEF Spin, files, memory, TypeOK, CallInv, CallOK
<1>16. ASSUME NEW p \in Procs, InsertFaults(p) PROVE TypeInv'
  BY <1>16, FaultTyped, FaultKeepsPc, FaultKeepsTypes
  DEF InsertFaults, CannotAddToTree
<1>17. ASSUME NEW p \in Procs, LoadOverrun(p) PROVE TypeInv'
  BY <1>17, FaultTyped, FaultKeepsPc, FaultKeepsTypes DEF LoadOverrun
<1>18. ASSUME NEW p \in Procs, ReplayFaults(p) PROVE TypeInv'
  BY <1>18, FaultTyped, FaultKeepsPc, FaultKeepsTypes
  DEF ReplayFaults, CannotAddToTree
<1>19. ASSUME NEW p \in Procs, DumpFaults(p) PROVE TypeInv'
  BY <1>19, FaultTyped, FaultKeepsPc, FaultKeepsTypes DEF DumpFaults
<1>20. ASSUME NEW p \in Procs, FindFaults(p) PROVE TypeInv'
  BY <1>20, FaultTyped, FaultKeepsPc, FaultKeepsTypes DEF FindFaults
<1>21. ASSUME NEW p \in Procs, GiveUp(p) PROVE TypeInv'
  <2>1. ControlOK'
    BY <1>21, ExitTyped DEF GiveUp, Over
  <2>2. /\ pc' = pc
        /\ \A q \in Procs : status'[q] = "handler" => status[q] = "handler"
    BY <1>21 DEF GiveUp, Over, Exit, Gone, TypeOK
  <2> QED
    BY <1>21, <2>1, <2>2, FaultKeepsTypes DEF GiveUp
<1>22. ASSUME NEW p \in Procs, Unlock(p) PROVE TypeInv'
  <2>1. ControlOK'
    BY <1>22, GoneTyped DEF Unlock, Over, TypeOK, ControlOK
  <2>2. /\ pc' = pc
        /\ \A q \in Procs : status'[q] = "handler" => status[q] = "handler"
    BY <1>22 DEF Unlock, Over, Gone, TypeOK
  <2> QED
    BY <1>22, <2>1, <2>2, FaultKeepsTypes DEF Unlock
<1>23. ASSUME NEW p \in Procs, Dump(p) PROVE TypeInv'
  <2>2. /\ Goto(p, "write")
        /\ "write" \in MainLabels
        /\ status[p] = "live" \/ "write" \in HandlerLabels
    BY <1>23 DEF Dump, At, TypeOK, MainLabels, HandlerLabels
  <2>4. /\ pc' \in [Procs -> MainLabels]
        /\ hpc' \in [Procs -> HandlerLabels]
        /\ status' \in [Procs -> {"live", "handler", "exited", "died"}]
    BY <2>2, GotoTyped
  <2>5. json' \in JsonContents
    BY <1>23 DEF Dump, Torn, JsonContents, TypeOK
  <2>6. TypeOK'
    BY <1>23, <2>4, <2>5 DEF Dump, TypeOK, files, memory
  <2>7. CallInv'
    <3>1. UNCHANGED <<log, curr, line_count>>
      BY <1>23 DEF Dump, files, memory
    <3>2. /\ req' = req
          /\ status[p] = "live" => req[p] = NoReq
      BY <1>23 DEF Dump, At, memory, TypeOK, CallInv, CallOK, HandlerLabels
    <3> QED
      BY <2>2, <3>1, <3>2, MoveKeepsCalls
  <2> QED
    BY <2>6, <2>7
<1>24. ASSUME NEW p \in Procs, WriteJson(p) PROVE TypeInv'
  <2>2. /\ Goto(p, "unlock")
        /\ "unlock" \in MainLabels
        /\ status[p] = "live" \/ "unlock" \in HandlerLabels
    BY <1>24 DEF WriteJson, At, TypeOK, MainLabels, HandlerLabels
  <2>4. /\ pc' \in [Procs -> MainLabels]
        /\ hpc' \in [Procs -> HandlerLabels]
        /\ status' \in [Procs -> {"live", "handler", "exited", "died"}]
    BY <2>2, GotoTyped
  <2>5. json' \in JsonContents
    BY <1>24 DEF WriteJson, Readable, JsonContents, TypeOK
  <2>6. TypeOK'
    BY <1>24, <2>4, <2>5 DEF WriteJson, TypeOK, files, memory
  <2>7. CallInv'
    <3>1. UNCHANGED <<log, curr, line_count>>
      BY <1>24 DEF WriteJson, files, memory
    <3>2. /\ req' = req
          /\ status[p] = "live" => req[p] = NoReq
      BY <1>24
      DEF WriteJson, At, memory, TypeOK, CallInv, CallOK, HandlerLabels
    <3> QED
      BY <2>2, <3>1, <3>2, MoveKeepsCalls
  <2> QED
    BY <2>6, <2>7
<1>25. ASSUME NEW p \in Procs, FindSnapshot(p) PROVE TypeInv'
  BY <1>25, InRollback, RollbackTyped
  DEF FindSnapshot, files, TypeOK, HandlerLabels
<1>26. ASSUME NEW p \in Procs, KeepFile(p) PROVE TypeInv'
  BY <1>26, InRollback, RollbackTyped
  DEF KeepFile, files, TypeOK, HandlerLabels
<1>27. ASSUME NEW p \in Procs, RevertUnlink(p) PROVE TypeInv'
  BY <1>27, InRollback, RollbackTyped DEF RevertUnlink, TypeOK, HandlerLabels
<1>28. ASSUME NEW p \in Procs, RevertCopy(p) PROVE TypeInv'
  <2>1. status[p] = "handler" /\ curr[p] \in Files
    BY <1>28, InRollback DEF RevertCopy
  <2>2. present' \subseteq Files /\ revlock' \in [Files -> Procs \cup {NoProc}]
    BY <1>28, <2>1 DEF RevertCopy, TypeOK
  <2> QED
    BY <1>28, <2>1, <2>2, RollbackTyped DEF RevertCopy, HandlerLabels
<1>29. ASSUME NEW p \in Procs, Signal(p) PROVE TypeInv'
  BY <1>29, CatchTyped, FaultKeepsPc, FaultKeepsTypes, CopyTyped DEF Signal
<1>30. ASSUME NEW p \in Procs, Kill(p) PROVE TypeInv'
  <2>1. /\ ControlOK'
        /\ UNCHANGED <<log, memory, issued, pc>>
    <3>1. UNCHANGED <<log, json, memory, issued, pc>>
      BY <1>30 DEF Kill, Gone
    <3>2. json' \in JsonContents
      BY <3>1 DEF TypeOK
    <3> QED
      BY <1>30, <3>1, <3>2, GoneTyped DEF Kill, ControlOK
  <2> QED
    BY <1>30, <2>1, CopyTyped
    DEF Kill, Gone, memory, ControlOK, TypeOK, CallInv, CallOK
<1>31. ASSUME NEW f \in Files, Remove(f) PROVE TypeInv'
  BY <1>31 DEF Remove, memory, control, TypeOK, CallInv, CallOK
<1>32. CASE UNCHANGED vars
  BY <1>32 DEF vars, TypeOK, CallInv, CallOK
<1>33. ASSUME NEW p \in Procs, RevertOpen(p) PROVE TypeInv'
  BY <1>33, InRollback, RollbackTyped
  DEF RevertOpen, files, TypeOK, HandlerLabels
<1>34. ASSUME NEW p \in Procs, RevertLock(p) PROVE TypeInv'
  <2>1. status[p] = "handler" /\ curr[p] \in Files
    BY <1>34, InRollback DEF RevertLock
  <2>2. present' \subseteq Files /\ revlock' \in [Files -> Procs \cup {NoProc}]
    BY <1>34, <2>1 DEF RevertLock, TypeOK
  <2> QED
    BY <1>34, <2>1, <2>2, RollbackTyped DEF RevertLock, HandlerLabels
<1>35. ASSUME NEW p \in Procs, RevertFails(p) PROVE TypeInv'
  <2>1. status[p] = "handler" /\ curr[p] \in Files
    BY <1>35, InRollback DEF RevertFails
  <2>2. present' \subseteq Files /\ revlock' \in [Files -> Procs \cup {NoProc}]
    BY <1>35, <2>1 DEF RevertFails, TypeOK
  <2> QED
    BY <1>35, <2>1, <2>2, RollbackTyped DEF RevertFails, HandlerLabels
<1>36. ASSUME NEW p \in Procs, SaveFails(p) PROVE TypeInv'
  <2>2. /\ Goto(p, "unsaved")
        /\ "unsaved" \in MainLabels
        /\ status[p] = "live" \/ "unsaved" \in HandlerLabels
    BY <1>36 DEF SaveFails, MainLabels, HandlerLabels
  <2>4. /\ pc' \in [Procs -> MainLabels]
        /\ hpc' \in [Procs -> HandlerLabels]
        /\ status' \in [Procs -> {"live", "handler", "exited", "died"}]
    BY <2>2, GotoTyped
  <2>6. TypeOK'
    BY <1>36, <2>4 DEF SaveFails, TypeOK, files, memory
  <2>7. CallInv'
    <3>1. UNCHANGED <<log, curr, line_count>>
      BY <1>36 DEF SaveFails, files, memory
    <3>2. /\ req' = req
          /\ status[p] = "live" => req[p] = NoReq
      BY <1>36 DEF SaveFails, At, memory, TypeOK, CallInv, CallOK
    <3> QED
      BY <2>2, <3>1, <3>2, MoveKeepsCalls
  <2> QED
    BY <2>6, <2>7
<1> QED
  BY <1>1, <1>2, <1>3, <1>4, <1>5, <1>6, <1>7, <1>8, <1>9, <1>10,
     <1>11, <1>12, <1>13, <1>14, <1>15, <1>16, <1>17, <1>18, <1>19,
     <1>20, <1>21, <1>22, <1>23, <1>24, <1>25, <1>26, <1>27, <1>28,
     <1>29, <1>30, <1>31, <1>32, <1>33, <1>34, <1>35, <1>36
  DEF Next, Call, Work, Operate, Rebuild, Extract, Answer, Handle, AllGone

\* In every run, for any instance, every variable has the type TypeOK gives it.
THEOREM TypeCorrect == Spec => []TypeOK
<1>1. Init => TypeInv
  BY InitTyped
<1>2. TypeInv /\ [Next]_vars => TypeInv'
  BY Typing
<1>3. TypeInv => TypeOK
  BY DEF TypeInv
<1> QED
  BY <1>1, <1>2, <1>3, PTL DEF Spec
-----------------------------------------------------------------------------
(* The lock of the JSON file                                               *)

LockInv == DumpersHoldLock

\* A move to a place outside the dump, in either frame.
LEMMA LockFrame ==
    ASSUME TypeInv, LockInv, NEW p \in Procs, NEW label,
           Goto(p, label), label \notin DumpLabels,
           flock' = flock
    PROVE  LockInv'
BY
DEF TypeInv, TypeOK, LockInv, DumpersHoldLock, InDump, DumpLabels, Running,
    Goto

\* A move within the dump.
LEMMA LockInside ==
    ASSUME TypeInv, LockInv, NEW p \in Procs, NEW label,
           Goto(p, label), InDump(p), flock' = flock
    PROVE  LockInv'
BY
DEF TypeInv, TypeOK, LockInv, DumpersHoldLock, InDump, DumpLabels, Running,
    Goto

\* Nobody's lock is released but the lock of a process that is gone.
LEMMA LockGone ==
    ASSUME TypeInv, LockInv, NEW p \in Procs, NEW how \in {"exited", "died"},
           Gone(p, how)
    PROVE  LockInv'
BY
DEF TypeInv, TypeOK, LockInv, DumpersHoldLock, InDump, DumpLabels, Running,
    Gone

LEMMA LockFault ==
    ASSUME TypeInv, LockInv, NEW p \in Procs, Running(p),
           Fault(p) \/ CatchSignal(p)
    PROVE  LockInv'
<1>1. CASE Gone(p, "died")
  BY <1>1, LockGone
<1>2. CASE /\ status' = [status EXCEPT ![p] = "handler"]
           /\ hpc' = [hpc EXCEPT ![p] = "find"]
           /\ UNCHANGED <<pc, flock>>
  BY <1>2
  DEF TypeInv, TypeOK, LockInv, DumpersHoldLock, InDump, DumpLabels, Running
<1> QED
  BY <1>1, <1>2 DEF Fault, CatchSignal, Exit

LEMMA Locking == TypeInv /\ LockInv /\ [Next]_vars => LockInv'
<1> SUFFICES ASSUME TypeInv, LockInv, [Next]_vars
             PROVE  LockInv'
  OBVIOUS
<1>1. ASSUME NEW p \in Procs, StartWrite(p) PROVE LockInv'
  BY <1>1, LockFrame DEF StartWrite, files, DumpLabels
<1>2. ASSUME NEW p \in Procs, StartRead(p) PROVE LockInv'
  BY <1>2, LockFrame DEF StartRead, files, DumpLabels
<1>3. ASSUME NEW p \in Procs, Resolve(p) PROVE LockInv'
  <2> DEFINE next == IF tree[p] = <<>> THEN "count" ELSE AfterReplay(p)
  <2>1. Goto(p, next) /\ flock' = flock
    BY <1>3 DEF Resolve, files
  <2>2. next \notin DumpLabels
    BY DEF AfterReplay, DumpLabels
  <2> HIDE DEF next
  <2> QED
    BY <2>1, <2>2, LockFrame
<1>4. ASSUME NEW p \in Procs, ResolveMissing(p) PROVE LockInv'
  <2>1. CASE req[p].op = "R"
    BY <1>4, <2>1, LockFrame DEF ResolveMissing, DumpLabels
  <2>2. CASE req[p].op # "R"
    BY <1>4, <2>2, LockFault DEF ResolveMissing, At, Running
  <2> QED
    BY <2>1, <2>2
<1>5. ASSUME NEW p \in Procs, LogWrite(p) PROVE LockInv'
  BY <1>5, LockFrame DEF LogWrite, files, DumpLabels
<1>6. ASSUME NEW p \in Procs, JournalOp(p) PROVE LockInv'
  BY <1>6, LockFrame DEF JournalOp, files, DumpLabels
<1>7. ASSUME NEW p \in Procs, Insert(p) PROVE LockInv'
  BY <1>7, LockFrame DEF Insert, files, DumpLabels
<1>8. ASSUME NEW p \in Procs, InsertFaults(p) PROVE LockInv'
  BY <1>8, LockFault DEF InsertFaults, CannotAddToTree, At, Running
<1>9. ASSUME NEW p \in Procs, SystemCall(p) PROVE LockInv'
  BY <1>9, LockFrame DEF SystemCall, files, DumpLabels
<1>10. ASSUME NEW p \in Procs, End(p) PROVE LockInv'
  BY <1>10, LockFrame DEF End, files, DumpLabels
<1>11. ASSUME NEW p \in Procs, CountLines(p) PROVE LockInv'
  BY <1>11, LockFrame DEF CountLines, files, DumpLabels
<1>12. ASSUME NEW p \in Procs, LoadLines(p) PROVE LockInv'
  BY <1>12, LockFrame DEF LoadLines, files, DumpLabels
<1>13. ASSUME NEW p \in Procs, LoadOverrun(p) PROVE LockInv'
  BY <1>13, LockFault DEF LoadOverrun, At, Running
<1>14. ASSUME NEW p \in Procs, Replay(p) PROVE LockInv'
  BY <1>14
  DEF Replay, control, LockInv, DumpersHoldLock, InDump, DumpLabels, Running
<1>15. ASSUME NEW p \in Procs, ReplayFaults(p) PROVE LockInv'
  BY <1>15, LockFault DEF ReplayFaults, CannotAddToTree, At, Running
<1>16. ASSUME NEW p \in Procs, ReplayDone(p) PROVE LockInv'
  <2> DEFINE next == AfterReplay(p)
  <2>1. Goto(p, next) /\ flock' = flock
    BY <1>16 DEF ReplayDone, files
  <2>2. next \notin DumpLabels
    BY DEF AfterReplay, DumpLabels
  <2> HIDE DEF next
  <2> QED
    BY <2>1, <2>2, LockFrame
<1>17. ASSUME NEW p \in Procs, TryLock(p) PROVE LockInv'
  <2>1. \A q \in Procs : ~InDump(q)
    BY <1>17, SentinelAssumption DEF TryLock, LockInv, DumpersHoldLock
  <2> QED
    BY <1>17, <2>1
    DEF TryLock, Goto, At, TypeInv, TypeOK, LockInv, DumpersHoldLock, InDump,
        DumpLabels, Running
<1>18. ASSUME NEW p \in Procs, Spin(p) PROVE LockInv'
  BY <1>18
  DEF Spin, files, LockInv, DumpersHoldLock, InDump, DumpLabels, Running
<1>19. ASSUME NEW p \in Procs, GiveUp(p) PROVE LockInv'
  BY <1>19, LockGone DEF GiveUp, Exit, Over
<1>20. ASSUME NEW p \in Procs, Dump(p) PROVE LockInv'
  <2>1. InDump(p)
    BY <1>20 DEF Dump, At, InDump, DumpLabels, Running
  <2> QED
    BY <1>20, <2>1, LockInside DEF Dump
<1>21. ASSUME NEW p \in Procs, DumpFaults(p) PROVE LockInv'
  BY <1>21, LockFault DEF DumpFaults, At, Running
<1>22. ASSUME NEW p \in Procs, WriteJson(p) PROVE LockInv'
  <2>1. InDump(p)
    BY <1>22 DEF WriteJson, At, InDump, DumpLabels, Running
  <2> QED
    BY <1>22, <2>1, LockInside DEF WriteJson
<1>23. ASSUME NEW p \in Procs, Unlock(p) PROVE LockInv'
  BY <1>23, LockGone DEF Unlock, Over
<1>24. ASSUME NEW p \in Procs, FindSnapshot(p) PROVE LockInv'
  BY <1>24, LockFrame DEF FindSnapshot, files, DumpLabels
<1>25. ASSUME NEW p \in Procs, FindFaults(p) PROVE LockInv'
  BY <1>25, LockFault DEF FindFaults, At, Running
<1>26. ASSUME NEW p \in Procs, KeepFile(p) PROVE LockInv'
  BY <1>26, LockFrame DEF KeepFile, files, DumpLabels
<1>27. ASSUME NEW p \in Procs, RevertUnlink(p) PROVE LockInv'
  BY <1>27, LockFrame DEF RevertUnlink, files, DumpLabels
<1>28. ASSUME NEW p \in Procs, RevertCopy(p) PROVE LockInv'
  BY <1>28, LockFrame DEF RevertCopy, files, DumpLabels
<1>29. ASSUME NEW p \in Procs, Signal(p) PROVE LockInv'
  BY <1>29, LockFault DEF Signal
<1>30. ASSUME NEW p \in Procs, Kill(p) PROVE LockInv'
  BY <1>30, LockGone DEF Kill
<1>31. ASSUME NEW f \in Files, Remove(f) PROVE LockInv'
  BY <1>31
  DEF Remove, control, LockInv, DumpersHoldLock, InDump, DumpLabels, Running
<1>32. CASE UNCHANGED vars
  BY <1>32 DEF vars, LockInv, DumpersHoldLock, InDump, DumpLabels, Running
<1>33. ASSUME NEW p \in Procs, RevertOpen(p) PROVE LockInv'
  BY <1>33, LockFrame DEF RevertOpen, files, DumpLabels
<1>34. ASSUME NEW p \in Procs, RevertLock(p) PROVE LockInv'
  BY <1>34, LockFrame DEF RevertLock, DumpLabels
<1>35. ASSUME NEW p \in Procs, RevertFails(p) PROVE LockInv'
  BY <1>35, LockFrame DEF RevertFails, DumpLabels
<1>36. ASSUME NEW p \in Procs, SaveFails(p) PROVE LockInv'
  <2>1. InDump(p)
    BY <1>36 DEF SaveFails, At, InDump, DumpLabels, Running
  <2> QED
    BY <1>36, <2>1, LockInside DEF SaveFails, files
<1> QED
  BY <1>1, <1>2, <1>3, <1>4, <1>5, <1>6, <1>7, <1>8, <1>9, <1>10, <1>11,
     <1>12, <1>13, <1>14, <1>15, <1>16, <1>17, <1>18, <1>19, <1>20, <1>21,
     <1>22, <1>23, <1>24, <1>25, <1>26, <1>27, <1>28, <1>29, <1>30, <1>31,
     <1>32, <1>33, <1>34, <1>35, <1>36
  DEF Next, Call, Work, Operate, Rebuild, Extract, Answer, Handle, AllGone

\* However dumps are interrupted, and however many processes are dumping, the
\* one between its lock and its unlock is the one that holds the lock.
THEOREM DumpMutualExclusion == Spec => []DumpersHoldLock
<1>1. Init => TypeInv /\ LockInv
  BY InitTyped DEF Init, LockInv, DumpersHoldLock, InDump, DumpLabels, Running
<1>2. TypeInv /\ LockInv /\ [Next]_vars => TypeInv' /\ LockInv'
  BY Typing, Locking
<1> QED
  BY <1>1, <1>2, PTL DEF Spec, LockInv
-----------------------------------------------------------------------------
(* What a step can do to the two shared files                              *)

Same == log' = log /\ json' = json
Truncates == log' = log /\ json' = Torn
Publishes(p) == log' = log /\ json' = Readable(tree[p])
Journals(p) == log' = Append(log, req[p]) /\ json' = json

LEMMA FaultEffect ==
    ASSUME NEW p \in Procs, Fault(p) \/ CatchSignal(p), UNCHANGED log
    PROVE  Same \/ Publishes(p)
BY DEF Fault, CatchSignal, Exit, Gone, Same, Publishes

LEMMA ExitEffect ==
    ASSUME NEW p \in Procs, NEW how, Exit(p, how), UNCHANGED log
    PROVE  Same \/ Publishes(p)
BY DEF Exit, Same, Publishes

\* The journal only ever grows by the operation of a call being served; the
\* JSON file is only ever truncated, or written from a tree in memory.
LEMMA StepEffect ==
    ASSUME TypeInv, [Next]_vars
    PROVE  \/ Same
           \/ Truncates
           \/ \E p \in Procs : Publishes(p)
           \/ \E p \in Procs : Journals(p) /\ req[p] \in Requests
<1> DEFINE Effect == \/ Same
                     \/ Truncates
                     \/ \E p \in Procs : Publishes(p)
                     \/ \E p \in Procs : Journals(p) /\ req[p] \in Requests
<1>1. ASSUME NEW p \in Procs, StartWrite(p) PROVE Effect
  BY <1>1 DEF StartWrite, Same, files
<1>2. ASSUME NEW p \in Procs, StartRead(p) PROVE Effect
  BY <1>2 DEF StartRead, Same, files
<1>3. ASSUME NEW p \in Procs, Resolve(p) PROVE Effect
  BY <1>3 DEF Resolve, Same, files
<1>4. ASSUME NEW p \in Procs, ResolveMissing(p) PROVE Effect
  BY <1>4, FaultEffect DEF ResolveMissing, Same
<1>5. ASSUME NEW p \in Procs, LogWrite(p) PROVE Effect
  BY <1>5 DEF LogWrite, Same, files
<1>6. ASSUME NEW p \in Procs, JournalOp(p) PROVE Effect
  BY <1>6, InCall DEF JournalOp, Journals
<1>7. ASSUME NEW p \in Procs, Insert(p) PROVE Effect
  BY <1>7 DEF Insert, Same, files
<1>8. ASSUME NEW p \in Procs, InsertFaults(p) PROVE Effect
  BY <1>8, FaultEffect DEF InsertFaults, CannotAddToTree
<1>9. ASSUME NEW p \in Procs, SystemCall(p) PROVE Effect
  BY <1>9 DEF SystemCall, Same, files
<1>10. ASSUME NEW p \in Procs, End(p) PROVE Effect
  BY <1>10 DEF End, Same, files
<1>11. ASSUME NEW p \in Procs, CountLines(p) PROVE Effect
  BY <1>11 DEF CountLines, Same, files
<1>12. ASSUME NEW p \in Procs, LoadLines(p) PROVE Effect
  BY <1>12 DEF LoadLines, Same, files
<1>13. ASSUME NEW p \in Procs, LoadOverrun(p) PROVE Effect
  BY <1>13, FaultEffect DEF LoadOverrun
<1>14. ASSUME NEW p \in Procs, Replay(p) PROVE Effect
  BY <1>14 DEF Replay, Same, files
<1>15. ASSUME NEW p \in Procs, ReplayFaults(p) PROVE Effect
  BY <1>15, FaultEffect DEF ReplayFaults, CannotAddToTree
<1>16. ASSUME NEW p \in Procs, ReplayDone(p) PROVE Effect
  BY <1>16 DEF ReplayDone, Same, files
<1>17. ASSUME NEW p \in Procs, TryLock(p) PROVE Effect
  BY <1>17 DEF TryLock, Same, files
<1>18. ASSUME NEW p \in Procs, Spin(p) PROVE Effect
  BY <1>18 DEF Spin, Same, files
<1>19. ASSUME NEW p \in Procs, GiveUp(p) PROVE Effect
  BY <1>19, ExitEffect DEF GiveUp
<1>20. ASSUME NEW p \in Procs, Dump(p) PROVE Effect
  BY <1>20 DEF Dump, Truncates
<1>21. ASSUME NEW p \in Procs, DumpFaults(p) PROVE Effect
  BY <1>21, FaultEffect DEF DumpFaults
<1>22. ASSUME NEW p \in Procs, WriteJson(p) PROVE Effect
  BY <1>22 DEF WriteJson, Publishes
<1>23. ASSUME NEW p \in Procs, Unlock(p) PROVE Effect
  BY <1>23 DEF Unlock, Same
<1>24. ASSUME NEW p \in Procs, FindSnapshot(p) PROVE Effect
  BY <1>24 DEF FindSnapshot, Same, files
<1>25. ASSUME NEW p \in Procs, FindFaults(p) PROVE Effect
  BY <1>25, FaultEffect DEF FindFaults
<1>26. ASSUME NEW p \in Procs, KeepFile(p) PROVE Effect
  BY <1>26 DEF KeepFile, Same, files
<1>27. ASSUME NEW p \in Procs, RevertUnlink(p) PROVE Effect
  BY <1>27 DEF RevertUnlink, Same, files
<1>28. ASSUME NEW p \in Procs, RevertCopy(p) PROVE Effect
  BY <1>28 DEF RevertCopy, Same, files
<1>29. ASSUME NEW p \in Procs, Signal(p) PROVE Effect
  BY <1>29, FaultEffect DEF Signal
<1>30. ASSUME NEW p \in Procs, Kill(p) PROVE Effect
  BY <1>30 DEF Kill, Same, files
<1>31. ASSUME NEW f \in Files, Remove(f) PROVE Effect
  BY <1>31 DEF Remove, Same, files
<1>32. CASE UNCHANGED vars
  BY <1>32 DEF vars, Same
<1>33. ASSUME NEW p \in Procs, RevertOpen(p) PROVE Effect
  BY <1>33 DEF RevertOpen, Same, files
<1>34. ASSUME NEW p \in Procs, RevertLock(p) PROVE Effect
  BY <1>34 DEF RevertLock, Same
<1>35. ASSUME NEW p \in Procs, RevertFails(p) PROVE Effect
  BY <1>35 DEF RevertFails, Same
<1>36. ASSUME NEW p \in Procs, SaveFails(p) PROVE Effect
  BY <1>36 DEF SaveFails, Same, files
<1> QED
  BY <1>1, <1>2, <1>3, <1>4, <1>5, <1>6, <1>7, <1>8, <1>9, <1>10, <1>11,
     <1>12, <1>13, <1>14, <1>15, <1>16, <1>17, <1>18, <1>19, <1>20, <1>21,
     <1>22, <1>23, <1>24, <1>25, <1>26, <1>27, <1>28, <1>29, <1>30, <1>31,
     <1>32, <1>33, <1>34, <1>35, <1>36
  DEF Next, Call, Work, Operate, Rebuild, Extract, Answer, Handle, AllGone

-----------------------------------------------------------------------------
(* Scans of the journal, trees and what is published from them             *)

\* Between reading the journal and publishing, what a process has in memory
\* is the journal it counted; at other times it embeds in the journal.
ScanOK(p) ==
    /\ pc[p] \in {"count", "load"} => tree[p] = <<>>
    /\ pc[p] = "replay"
         => tree[p] \o lines[p] = SubSeq(log, 1, line_count[p])
    /\ pc[p] \in {"lock", "dump", "write", "unlock", "unsaved"}
         => tree[p] = SubSeq(log, 1, line_count[p])
    /\ pc[p] = "insert" => Embeds(Append(tree[p], req[p]), log)
    /\ Embeds(tree[p], log)

\* The operations of a process are in the journal, in its order, and in what
\* end() reads of it.
OwnOK(p) ==
    /\ Embeds(issued[p], log)
    /\ pc[p] \in {"insert", "io"} => Embeds(Append(issued[p], req[p]), log)
    /\ pc[p] \in {"load", "replay", "lock", "dump", "write", "unlock",
                "unsaved"}
         /\ req[p] = NoReq
         => Embeds(issued[p], SubSeq(log, 1, line_count[p]))

ScanInv == \A p \in Procs : ScanOK(p) /\ OwnOK(p)

JsonFollowsJournal == json.readable => Embeds(json.ops, log)

\* The journal may grow under every scan.
LEMMA SubSeqOfLonger ==
    ASSUME NEW S, NEW t \in Seq(S), NEW e \in S, NEW n \in Nat, n <= Len(t)
    PROVE  SubSeq(Append(t, e), 1, n) = SubSeq(t, 1, n)
OBVIOUS

LEMMA WholeSubSeq ==
    ASSUME NEW S, NEW t \in Seq(S)
    PROVE  SubSeq(t, 1, Len(t)) = t
OBVIOUS

\* The first part of a scan is a prefix of the journal.
LEMMA ScanPrefix ==
    ASSUME NEW S, NEW t \in Seq(S), NEW s \in Seq(S), NEW r \in Seq(S),
           NEW n \in Nat, n <= Len(t), s \o r = SubSeq(t, 1, n)
    PROVE  StartsWith(t, s) /\ Embeds(s, t)
<1>1. Len(s \o r) = Len(s) + Len(r) /\ Len(s) \in Nat /\ Len(r) \in Nat
  OBVIOUS
<1>2. Len(SubSeq(t, 1, n)) = n /\ \A i \in 1 .. n : SubSeq(t, 1, n)[i] = t[i]
  OBVIOUS
<1>3. \A i \in 1 .. Len(s) : (s \o r)[i] = s[i]
  OBVIOUS
<1>4. StartsWith(t, s)
  BY <1>1, <1>2, <1>3 DEF StartsWith
<1> QED
  BY <1>4, PrefixEmbeds

\* A sequence read from the front.
LEMMA TakeHead ==
    ASSUME NEW S, NEW t \in Seq(S), NEW l \in Seq(S), l # <<>>
    PROVE  Append(t, Head(l)) \o Tail(l) = t \o l
<1>1. l = <<Head(l)>> \o Tail(l)
  OBVIOUS
<1>2. Append(t, Head(l)) = t \o <<Head(l)>>
  OBVIOUS
<1>3. Head(l) \in S /\ Tail(l) \in Seq(S) /\ <<Head(l)>> \in Seq(S)
  OBVIOUS
<1>4. (t \o <<Head(l)>>) \o Tail(l) = t \o (<<Head(l)>> \o Tail(l))
  BY <1>3
<1> QED
  BY <1>1, <1>2, <1>4

LEMMA EmptyEmbeds ==
    ASSUME NEW S, NEW t \in Seq(S)
    PROVE  Embeds(<<>>, t)
<1>1. <<>> \in Seq(S) /\ StartsWith(t, <<>>)
  BY DEF StartsWith
<1> QED
  BY <1>1, PrefixEmbeds

\* A process that does not move keeps its facts, as long as the journal stays
\* as it is ...
LEMMA OtherKeeps ==
    ASSUME ScanInv, log' = log, NEW q \in Procs,
           tree'[q] = tree[q], lines'[q] = lines[q],
           line_count'[q] = line_count[q], issued'[q] = issued[q],
           req'[q] = req[q], pc'[q] = pc[q]
    PROVE  ScanOK(q)' /\ OwnOK(q)'
<1>1. ScanOK(q) /\ OwnOK(q)
  BY DEF ScanInv
<1>2. ScanOK(q)'
  BY <1>1 DEF ScanOK
<1>3. OwnOK(q)'
  BY <1>1 DEF OwnOK
<1> QED
  BY <1>2, <1>3

\* ... and when another process appends to it.
LEMMA OtherKeepsInLonger ==
    ASSUME TypeInv, ScanInv, NEW e \in Entry, log' = Append(log, e),
           NEW q \in Procs,
           UNCHANGED <<tree, lines, line_count, issued, req>>,
           pc'[q] = pc[q]
    PROVE  ScanOK(q)' /\ OwnOK(q)'
<1>1. ScanOK(q) /\ OwnOK(q)
  BY DEF ScanInv
<1>2. /\ log \in Seq(Entry) /\ tree[q] \in Seq(Entry)
      /\ issued[q] \in Seq(Entry)
      /\ line_count[q] \in Nat /\ line_count[q] <= Len(log)
  BY DEF TypeInv, TypeOK, CallInv, CallOK
<1>3. SubSeq(log', 1, line_count[q]) = SubSeq(log, 1, line_count[q])
  BY <1>2, SubSeqOfLonger
<1>4. Embeds(tree[q], log') /\ Embeds(issued[q], log')
  BY <1>1, <1>2, EmbedsInLonger DEF ScanOK, OwnOK
<1>5. pc[q] \in {"insert", "io"} => req[q] \in Entry
  BY RequestsAreCalls DEF TypeInv, CallInv, CallOK
<1>6. pc[q] = "insert" => Embeds(Append(tree[q], req[q]), log')
  <2> SUFFICES ASSUME pc[q] = "insert"
               PROVE  Embeds(Append(tree[q], req[q]), log')
    OBVIOUS
  <2>1. Append(tree[q], req[q]) \in Seq(Entry)
    BY <1>2, <1>5
  <2> QED
    BY <2>1, <1>1, <1>2, EmbedsInLonger DEF ScanOK
<1>7. pc[q] \in {"insert", "io"} => Embeds(Append(issued[q], req[q]), log')
  <2> SUFFICES ASSUME pc[q] \in {"insert", "io"}
               PROVE  Embeds(Append(issued[q], req[q]), log')
    OBVIOUS
  <2>1. Append(issued[q], req[q]) \in Seq(Entry)
    BY <1>2, <1>5
  <2> QED
    BY <2>1, <1>1, <1>2, EmbedsInLonger DEF OwnOK
<1>8. ScanOK(q)'
  BY <1>1, <1>3, <1>4, <1>6 DEF ScanOK
<1>9. OwnOK(q)'
  BY <1>1, <1>3, <1>4, <1>7 DEF OwnOK
<1> QED
  BY <1>8, <1>9

\* A move of p that reads and changes no data.
LEMMA ScanFrame ==
    ASSUME TypeInv, ScanInv, NEW p \in Procs,
           UNCHANGED <<log, tree, lines, line_count, issued>>,
           \A q \in Procs : q # p => pc'[q] = pc[q] /\ req'[q] = req[q],
           \/ pc'[p] = pc[p] /\ req'[p] = req[p]
           \/ pc'[p] \in {"idle", "resolve", "logwrite", "journal"}
           \/ pc'[p] = "count" /\ tree[p] = <<>>
           \/ /\ pc[p] \in {"lock", "dump", "write", "unlock", "unsaved"}
              /\ pc'[p] \in {"lock", "dump", "write", "unlock", "unsaved"}
              /\ req'[p] = req[p]
    PROVE  ScanInv'
<1>1. ScanOK(p) /\ OwnOK(p)
  BY DEF ScanInv
<1>2. ScanOK(p)'
  BY <1>1 DEF ScanOK
<1>3. OwnOK(p)'
  BY <1>1 DEF OwnOK
<1>4. \A q \in Procs : q # p => ScanOK(q)' /\ OwnOK(q)'
  BY OtherKeeps
<1> QED
  BY <1>2, <1>3, <1>4 DEF ScanInv

LEMMA Scanning == TypeInv /\ ScanInv /\ [Next]_vars => ScanInv'
<1> SUFFICES ASSUME TypeInv, ScanInv, [Next]_vars
             PROVE  ScanInv'
  OBVIOUS
<1>1. ASSUME NEW p \in Procs, StartWrite(p) PROVE ScanInv'
  <2>1. pc'[p] = "resolve" /\ \A q \in Procs : q # p => pc'[q] = pc[q]
    BY <1>1, GotoMoves DEF StartWrite, Idle, TypeInv
  <2>2. /\ \A q \in Procs : q # p => req'[q] = req[q]
        /\ UNCHANGED <<log, tree, lines, line_count, issued>>
    BY <1>1 DEF StartWrite, files, TypeInv, TypeOK
  <2> QED
    BY <2>1, <2>2, ScanFrame
<1>2. ASSUME NEW p \in Procs, StartRead(p) PROVE ScanInv'
  <2>1. pc'[p] = "resolve" /\ \A q \in Procs : q # p => pc'[q] = pc[q]
    BY <1>2, GotoMoves DEF StartRead, Idle, TypeInv
  <2>2. /\ \A q \in Procs : q # p => req'[q] = req[q]
        /\ UNCHANGED <<log, tree, lines, line_count, issued>>
    BY <1>2 DEF StartRead, files, TypeInv, TypeOK
  <2> QED
    BY <2>1, <2>2, ScanFrame
<1>3. ASSUME NEW p \in Procs, Resolve(p) PROVE ScanInv'
  <2>1. /\ status[p] = "live" /\ req[p] # NoReq
    BY <1>3, InCall DEF Resolve
  <2>2. /\ pc'[p] = IF tree[p] = <<>> THEN "count" ELSE AfterReplay(p)
        /\ \A q \in Procs : q # p => pc'[q] = pc[q]
    BY <1>3, <2>1, GotoMoves DEF Resolve, TypeInv
  <2>3. \/ pc'[p] = "count" /\ tree[p] = <<>>
        \/ pc'[p] \in {"logwrite", "journal"}
    BY <2>1, <2>2 DEF AfterReplay
  <2> QED
    BY <1>3, <2>2, <2>3, ScanFrame DEF Resolve, files
<1>4. ASSUME NEW p \in Procs, ResolveMissing(p) PROVE ScanInv'
  <2>1. CASE req[p].op = "R"
    <3>1. pc'[p] = "idle" /\ \A q \in Procs : q # p => pc'[q] = pc[q]
      BY <1>4, <2>1, GotoMoves, InCall DEF ResolveMissing, TypeInv
    <3> QED
      BY <1>4, <2>1, <3>1, ScanFrame DEF ResolveMissing, TypeInv, TypeOK
  <2>2. CASE req[p].op # "R"
    BY <1>4, <2>2, FaultKeepsPc, ScanFrame DEF ResolveMissing, TypeInv
  <2> QED
    BY <2>1, <2>2
<1>5. ASSUME NEW p \in Procs, LogWrite(p) PROVE ScanInv'
  <2>1. /\ pc' = pc \/ (pc[p] = "logwrite" /\ pc'[p] = "journal")
        /\ \A q \in Procs : q # p => pc'[q] = pc[q]
    BY <1>5, GotoMoves DEF LogWrite, At, TypeInv
  <2> QED
    BY <1>5, <2>1, ScanFrame DEF LogWrite, memory
<1>6. ASSUME NEW p \in Procs, JournalOp(p) PROVE ScanInv'
  <2>1. /\ status[p] = "live" /\ req[p] \in Entry
        /\ pc'[p] = "insert" /\ \A q \in Procs : q # p => pc'[q] = pc[q]
    BY <1>6, InCall, GotoMoves DEF JournalOp, TypeInv
  <2>2. /\ log' = Append(log, req[p])
        /\ UNCHANGED <<tree, lines, line_count, issued, req>>
    BY <1>6 DEF JournalOp, memory
  <2>3. \A q \in Procs : q # p => ScanOK(q)' /\ OwnOK(q)'
    BY <2>1, <2>2, OtherKeepsInLonger
  <2>4. /\ log \in Seq(Entry) /\ tree[p] \in Seq(Entry)
        /\ issued[p] \in Seq(Entry)
        /\ Embeds(tree[p], log) /\ Embeds(issued[p], log)
    BY DEF TypeInv, TypeOK, ScanInv, ScanOK, OwnOK
  <2>5. ScanOK(p)'
    BY <2>1, <2>2, <2>4, EmbedsInLonger, EmbedsBothGrow DEF ScanOK
  <2>6. OwnOK(p)'
    BY <2>1, <2>2, <2>4, EmbedsInLonger, EmbedsBothGrow DEF OwnOK
  <2> QED
    BY <2>3, <2>5, <2>6 DEF ScanInv
<1>7. ASSUME NEW p \in Procs, Insert(p) PROVE ScanInv'
  <2>1. /\ status[p] = "live" /\ pc[p] = "insert" /\ req[p] \in Entry
        /\ pc'[p] = "io" /\ \A q \in Procs : q # p => pc'[q] = pc[q]
    BY <1>7, InCall, GotoMoves DEF Insert, TypeInv
  <2>2. /\ tree'[p] = Append(tree[p], req[p])
        /\ \A q \in Procs : q # p => tree'[q] = tree[q]
        /\ UNCHANGED <<log, lines, line_count, issued, req>>
    BY <1>7 DEF Insert, AddToTree, TypeInv, TypeOK
  <2>3. \A q \in Procs : q # p => ScanOK(q)' /\ OwnOK(q)'
    BY <2>1, <2>2, OtherKeeps
  <2>4. ScanOK(p) /\ OwnOK(p) /\ log \in Seq(Entry)
    BY DEF ScanInv, TypeInv, TypeOK
  <2>5. ScanOK(p)'
    BY <2>1, <2>2, <2>4 DEF ScanOK
  <2>6. OwnOK(p)'
    BY <2>1, <2>2, <2>4 DEF OwnOK
  <2> QED
    BY <2>3, <2>5, <2>6 DEF ScanInv
<1>8. ASSUME NEW p \in Procs, InsertFaults(p) PROVE ScanInv'
  BY <1>8, FaultKeepsPc, ScanFrame
  DEF InsertFaults, CannotAddToTree, memory, TypeInv
<1>9. ASSUME NEW p \in Procs, SystemCall(p) PROVE ScanInv'
  <2>1. /\ status[p] = "live" /\ pc[p] = "io" /\ req[p] \in Entry
        /\ pc'[p] = "idle" /\ \A q \in Procs : q # p => pc'[q] = pc[q]
    BY <1>9, InCall, GotoMoves DEF SystemCall, TypeInv
  <2>2. /\ issued'[p] = Append(issued[p], req[p])
        /\ \A q \in Procs : q # p => issued'[q] = issued[q] /\ req'[q] = req[q]
        /\ UNCHANGED <<log, tree, lines, line_count>>
    BY <1>9 DEF SystemCall, files, TypeInv, TypeOK
  <2>3. \A q \in Procs : q # p => ScanOK(q)' /\ OwnOK(q)'
    BY <2>1, <2>2, OtherKeeps
  <2>4. ScanOK(p) /\ OwnOK(p) /\ log \in Seq(Entry)
    BY DEF ScanInv, TypeInv, TypeOK
  <2>5. ScanOK(p)'
    BY <2>1, <2>2, <2>4 DEF ScanOK
  <2>6. OwnOK(p)'
    BY <2>1, <2>2, <2>4 DEF OwnOK
  <2> QED
    BY <2>3, <2>5, <2>6 DEF ScanInv
<1>10. ASSUME NEW p \in Procs, End(p) PROVE ScanInv'
  <2>1. /\ pc'[p] = "count" /\ \A q \in Procs : q # p => pc'[q] = pc[q]
    BY <1>10, GotoMoves DEF End, At, TypeInv, TypeOK, HandlerLabels
  <2>2. /\ tree'[p] = <<>>
        /\ \A q \in Procs : q # p => tree'[q] = tree[q]
        /\ UNCHANGED <<log, lines, line_count, issued, req>>
    BY <1>10 DEF End, files, TypeInv, TypeOK
  <2>3. \A q \in Procs : q # p => ScanOK(q)' /\ OwnOK(q)'
    BY <2>1, <2>2, OtherKeeps
  <2>4. ScanOK(p) /\ OwnOK(p) /\ log \in Seq(Entry)
    BY DEF ScanInv, TypeInv, TypeOK
  <2>5. ScanOK(p)'
    BY <2>1, <2>2, <2>4, EmptyEmbeds DEF ScanOK
  <2>6. OwnOK(p)'
    BY <2>1, <2>2, <2>4 DEF OwnOK
  <2> QED
    BY <2>3, <2>5, <2>6 DEF ScanInv
<1>11. ASSUME NEW p \in Procs, CountLines(p) PROVE ScanInv'
  <2>1. /\ pc[p] = "count" /\ pc'[p] = "load"
        /\ \A q \in Procs : q # p => pc'[q] = pc[q]
    BY <1>11, GotoMoves DEF CountLines, At, TypeInv, TypeOK, HandlerLabels
  <2>2. /\ line_count'[p] = Len(log)
        /\ \A q \in Procs : q # p => line_count'[q] = line_count[q]
        /\ UNCHANGED <<log, tree, lines, issued, req>>
    BY <1>11 DEF CountLines, files, TypeInv, TypeOK
  <2>3. \A q \in Procs : q # p => ScanOK(q)' /\ OwnOK(q)'
    BY <2>1, <2>2, OtherKeeps
  <2>4. ScanOK(p) /\ OwnOK(p) /\ log \in Seq(Entry)
    BY DEF ScanInv, TypeInv, TypeOK
  <2>5. ScanOK(p)'
    BY <2>1, <2>2, <2>4 DEF ScanOK
  <2>6. OwnOK(p)'
    BY <2>1, <2>2, <2>4, WholeSubSeq DEF OwnOK
  <2> QED
    BY <2>3, <2>5, <2>6 DEF ScanInv
<1>12. ASSUME NEW p \in Procs, LoadLines(p) PROVE ScanInv'
  <2>1. /\ pc[p] = "load" /\ pc'[p] = "replay"
        /\ \A q \in Procs : q # p => pc'[q] = pc[q]
    BY <1>12, GotoMoves DEF LoadLines, At, TypeInv, TypeOK, HandlerLabels
  <2>2. /\ lines'[p] = SubSeq(log, 1, line_count[p])
        /\ \A q \in Procs : q # p => lines'[q] = lines[q]
        /\ UNCHANGED <<log, tree, line_count, issued, req>>
    BY <1>12 DEF LoadLines, files, TypeInv, TypeOK
  <2>3. \A q \in Procs : q # p => ScanOK(q)' /\ OwnOK(q)'
    BY <2>1, <2>2, OtherKeeps
  <2>4. ScanOK(p) /\ OwnOK(p) /\ log \in Seq(Entry)
    BY DEF ScanInv, TypeInv, TypeOK
  <2>5. ScanOK(p)'
    BY <2>1, <2>2, <2>4, ScanTyped DEF ScanOK
  <2>6. OwnOK(p)'
    BY <2>1, <2>2, <2>4 DEF OwnOK
  <2> QED
    BY <2>3, <2>5, <2>6 DEF ScanInv
<1>13. ASSUME NEW p \in Procs, LoadOverrun(p) PROVE ScanInv'
  BY <1>13, FaultKeepsPc, ScanFrame DEF LoadOverrun, memory, TypeInv
<1>14. ASSUME NEW p \in Procs, Replay(p) PROVE ScanInv'
  <2> DEFINE l == lines[p]
             t == tree[p]
  <2>1. /\ pc[p] = "replay" /\ l # <<>> /\ UNCHANGED pc
        /\ tree'[p] = Append(t, Head(l)) /\ lines'[p] = Tail(l)
        /\ \A q \in Procs : q # p => tree'[q] = tree[q] /\ lines'[q] = lines[q]
        /\ UNCHANGED <<log, line_count, issued, req>>
    BY <1>14
    DEF Replay, AddToTree, At, control, TypeInv, TypeOK, HandlerLabels
  <2>2. \A q \in Procs : q # p => ScanOK(q)' /\ OwnOK(q)'
    BY <2>1, OtherKeeps
  <2>3. /\ ScanOK(p) /\ OwnOK(p)
        /\ l \in Seq(Entry) /\ t \in Seq(Entry) /\ log \in Seq(Entry)
        /\ line_count[p] \in Nat /\ line_count[p] <= Len(log)
    BY DEF ScanInv, TypeInv, TypeOK, CallInv, CallOK
  <2>4. tree'[p] \o lines'[p] = SubSeq(log, 1, line_count[p])
    <3>1. t \o l = SubSeq(log, 1, line_count[p])
      BY <2>1, <2>3 DEF ScanOK
    <3> QED
      BY <2>1, <2>3, <3>1, TakeHead
  <2>5. tree'[p] \in Seq(Entry) /\ lines'[p] \in Seq(Entry)
    <3>1. Head(l) \in Entry /\ Tail(l) \in Seq(Entry)
      BY <2>1, <2>3
    <3> QED
      BY <2>1, <2>3, <3>1
  <2>6. Embeds(tree'[p], log)
    BY <2>3, <2>4, <2>5, ScanPrefix
  <2>7. ScanOK(p)'
    BY <2>1, <2>4, <2>6 DEF ScanOK
  <2>8. OwnOK(p)'
    BY <2>1, <2>3 DEF OwnOK
  <2> QED
    BY <2>2, <2>7, <2>8 DEF ScanInv
<1>15. ASSUME NEW p \in Procs, ReplayFaults(p) PROVE ScanInv'
  BY <1>15, FaultKeepsPc, ScanFrame
  DEF ReplayFaults, CannotAddToTree, memory, TypeInv
<1>16. ASSUME NEW p \in Procs, ReplayDone(p) PROVE ScanInv'
  <2>1. /\ status[p] = "live" /\ pc[p] = "replay" /\ lines[p] = <<>>
        /\ UNCHANGED <<log, tree, lines, line_count, issued, req>>
    BY <1>16 DEF ReplayDone, At, files, memory, TypeInv, TypeOK, HandlerLabels
  <2>2. /\ pc'[p] = AfterReplay(p)
        /\ \A q \in Procs : q # p => pc'[q] = pc[q]
    BY <1>16, <2>1, GotoMoves DEF ReplayDone, TypeInv
  <2>3. pc'[p] \in {"lock", "logwrite", "journal"}
    BY <2>2 DEF AfterReplay
  <2>4. \A q \in Procs : q # p => ScanOK(q)' /\ OwnOK(q)'
    BY <2>1, <2>2, OtherKeeps
  <2>5. ScanOK(p) /\ OwnOK(p) /\ tree[p] \in Seq(Entry)
    BY DEF ScanInv, TypeInv, TypeOK
  <2>6. tree[p] = SubSeq(log, 1, line_count[p])
    BY <2>1, <2>5 DEF ScanOK
  <2>7. ScanOK(p)'
    BY <2>1, <2>3, <2>5, <2>6 DEF ScanOK
  <2>8. OwnOK(p)'
    BY <2>1, <2>3, <2>5 DEF OwnOK
  <2> QED
    BY <2>4, <2>7, <2>8 DEF ScanInv
<1>17. ASSUME NEW p \in Procs, TryLock(p) PROVE ScanInv'
  <2>1. /\ pc' = pc \/ (pc[p] = "lock" /\ pc'[p] = "dump")
        /\ \A q \in Procs : q # p => pc'[q] = pc[q]
    BY <1>17, GotoMoves DEF TryLock, At, TypeInv
  <2> QED
    BY <1>17, <2>1, ScanFrame DEF TryLock, memory
<1>18. ASSUME NEW p \in Procs, Spin(p) PROVE ScanInv'
  BY <1>18, ScanFrame DEF Spin, files, memory
<1>19. ASSUME NEW p \in Procs, GiveUp(p) PROVE ScanInv'
  BY <1>19, ScanFrame DEF GiveUp, Exit, Gone, memory
<1>20. ASSUME NEW p \in Procs, Dump(p) PROVE ScanInv'
  <2>1. /\ pc' = pc \/ (pc[p] = "dump" /\ pc'[p] = "write")
        /\ \A q \in Procs : q # p => pc'[q] = pc[q]
    BY <1>20, GotoMoves DEF Dump, At, TypeInv
  <2> QED
    BY <1>20, <2>1, ScanFrame DEF Dump, memory
<1>21. ASSUME NEW p \in Procs, DumpFaults(p) PROVE ScanInv'
  BY <1>21, FaultKeepsPc, ScanFrame DEF DumpFaults, memory, TypeInv
<1>22. ASSUME NEW p \in Procs, WriteJson(p) PROVE ScanInv'
  <2>1. /\ pc' = pc \/ (pc[p] = "write" /\ pc'[p] = "unlock")
        /\ \A q \in Procs : q # p => pc'[q] = pc[q]
    BY <1>22, GotoMoves DEF WriteJson, At, TypeInv
  <2> QED
    BY <1>22, <2>1, ScanFrame DEF WriteJson, memory
<1>23. ASSUME NEW p \in Procs, Unlock(p) PROVE ScanInv'
  BY <1>23, ScanFrame DEF Unlock, Gone, memory
<1>24. ASSUME NEW p \in Procs, FindSnapshot(p) PROVE ScanInv'
  <2>1. pc' = pc
    BY <1>24, GotoMoves DEF FindSnapshot, At, TypeInv, TypeOK, MainLabels
  <2> QED
    BY <1>24, <2>1, ScanFrame DEF FindSnapshot, files, memory
<1>25. ASSUME NEW p \in Procs, FindFaults(p) PROVE ScanInv'
  BY <1>25, FaultKeepsPc, ScanFrame DEF FindFaults, memory, TypeInv
<1>26. ASSUME NEW p \in Procs, KeepFile(p) PROVE ScanInv'
  <2>1. pc' = pc
    BY <1>26, GotoMoves DEF KeepFile, At, TypeInv, TypeOK, MainLabels
  <2> QED
    BY <1>26, <2>1, ScanFrame DEF KeepFile, files, memory
<1>27. ASSUME NEW p \in Procs, RevertUnlink(p) PROVE ScanInv'
  <2>1. pc' = pc
    BY <1>27, GotoMoves DEF RevertUnlink, At, TypeInv, TypeOK, MainLabels
  <2> QED
    BY <1>27, <2>1, ScanFrame DEF RevertUnlink, files, memory
<1>28. ASSUME NEW p \in Procs, RevertCopy(p) PROVE ScanInv'
  <2>1. pc' = pc
    BY <1>28, GotoMoves DEF RevertCopy, At, TypeInv, TypeOK, MainLabels
  <2> QED
    BY <1>28, <2>1, ScanFrame DEF RevertCopy, files, memory
<1>29. ASSUME NEW p \in Procs, Signal(p) PROVE ScanInv'
  BY <1>29, FaultKeepsPc, ScanFrame DEF Signal, memory, TypeInv
<1>30. ASSUME NEW p \in Procs, Kill(p) PROVE ScanInv'
  BY <1>30, ScanFrame DEF Kill, Gone, memory
<1>31. ASSUME NEW f \in Files, Remove(f) PROVE ScanInv'
  BY <1>31, OtherKeeps DEF Remove, memory, control, ScanInv
<1>32. CASE UNCHANGED vars
  BY <1>32, OtherKeeps DEF vars, ScanInv
<1>33. ASSUME NEW p \in Procs, RevertOpen(p) PROVE ScanInv'
  <2>1. pc' = pc
    BY <1>33, GotoMoves DEF RevertOpen, At, TypeInv, TypeOK, MainLabels
  <2> QED
    BY <1>33, <2>1, ScanFrame DEF RevertOpen, files, memory
<1>34. ASSUME NEW p \in Procs, RevertLock(p) PROVE ScanInv'
  <2>1. pc' = pc
    BY <1>34, GotoMoves DEF RevertLock, At, TypeInv, TypeOK, MainLabels
  <2> QED
    BY <1>34, <2>1, ScanFrame DEF RevertLock, files, memory
<1>35. ASSUME NEW p \in Procs, RevertFails(p) PROVE ScanInv'
  <2>1. pc' = pc
    BY <1>35, GotoMoves DEF RevertFails, At, TypeInv, TypeOK, MainLabels
  <2> QED
    BY <1>35, <2>1, ScanFrame DEF RevertFails, files, memory
<1>36. ASSUME NEW p \in Procs, SaveFails(p) PROVE ScanInv'
  <2>1. /\ \/ pc' = pc
           \/ pc[p] \in {"dump", "write"} /\ pc'[p] = "unsaved"
        /\ \A q \in Procs : q # p => pc'[q] = pc[q]
    BY <1>36, GotoMoves DEF SaveFails, At, TypeInv
  <2> QED
    BY <1>36, <2>1, ScanFrame DEF SaveFails, files, memory
<1> QED
  BY <1>1, <1>2, <1>3, <1>4, <1>5, <1>6, <1>7, <1>8, <1>9, <1>10, <1>11,
     <1>12, <1>13, <1>14, <1>15, <1>16, <1>17, <1>18, <1>19, <1>20, <1>21,
     <1>22, <1>23, <1>24, <1>25, <1>26, <1>27, <1>28, <1>29, <1>30, <1>31,
     <1>32, <1>33, <1>34, <1>35, <1>36
  DEF Next, Call, Work, Operate, Rebuild, Extract, Answer, Handle, AllGone

\* What has been published embeds in the journal.
LEMMA Publishing ==
    TypeInv /\ ScanInv /\ JsonFollowsJournal /\ [Next]_vars
        => JsonFollowsJournal'
<1> SUFFICES ASSUME TypeInv, ScanInv, JsonFollowsJournal, [Next]_vars
             PROVE  JsonFollowsJournal'
  OBVIOUS
<1>1. CASE Same
  BY <1>1 DEF Same, JsonFollowsJournal
<1>2. CASE Truncates
  BY <1>2 DEF Truncates, Torn, JsonFollowsJournal
<1>3. ASSUME NEW p \in Procs, Publishes(p) PROVE JsonFollowsJournal'
  BY <1>3 DEF Publishes, Readable, JsonFollowsJournal, ScanInv, ScanOK
<1>4. ASSUME NEW p \in Procs, Journals(p), req[p] \in Requests
      PROVE  JsonFollowsJournal'
  <2>1. /\ log \in Seq(Entry) /\ json.ops \in Seq(Entry)
        /\ req[p] \in Entry
    BY <1>4, RequestsAreCalls DEF TypeInv, TypeOK, JsonContents
  <2> QED
    BY <1>4, <2>1, EmbedsInLonger DEF Journals, JsonFollowsJournal
<1> QED
  BY <1>1, <1>2, <1>3, <1>4, StepEffect

\* All of it together: the inductive invariant of the journalling core.
IndInv == TypeInv /\ LockInv /\ ScanInv /\ JsonFollowsJournal

LEMMA InitIndInv == Init => IndInv
<1> SUFFICES ASSUME Init PROVE IndInv
  OBVIOUS
<1>1. TypeInv
  BY InitTyped
<1>2. LockInv
  BY DEF Init, LockInv, DumpersHoldLock, InDump, DumpLabels, Running
<1>3. log = <<>> /\ Embeds(<<>>, log)
  <2>1. log = <<>> /\ log \in Seq(Entry)
    BY DEF Init
  <2> QED
    BY <2>1, EmptyEmbeds
<1>4. ScanInv
  BY <1>3 DEF Init, ScanInv, ScanOK, OwnOK
<1>5. JsonFollowsJournal
  BY DEF Init, Torn, JsonFollowsJournal
<1> QED
  BY <1>1, <1>2, <1>4, <1>5 DEF IndInv

LEMMA IndInvInvariant == Spec => []IndInv
<1>1. IndInv /\ [Next]_vars => IndInv'
  BY Typing, Locking, Scanning, Publishing DEF IndInv
<1> QED
  BY InitIndInv, <1>1, PTL DEF Spec

\* In every run, the tree of every process embeds in the journal: nothing is
\* invented, duplicated or reordered by replaying and appending concurrently.
THEOREM TreesFollowJournal == Spec => []TreeFollowsJournal
<1>1. IndInv => TreeFollowsJournal
  BY DEF IndInv, ScanInv, ScanOK, TreeFollowsJournal
<1> QED
  BY <1>1, IndInvInvariant, PTL

\* In every run, what end() is about to publish is the journal it counted.
THEOREM EndTreesAreScans == Spec => []EndTreeIsScan
<1>1. IndInv => EndTreeIsScan
  BY DEF IndInv, ScanInv, ScanOK, EndTreeIsScan, DumpLabels
<1> QED
  BY <1>1, IndInvInvariant, PTL

\* Only one step takes the program to the unlock.
LEMMA OnlyWriteJson ==
    ASSUME TypeInv, [Next]_vars, NEW r \in Procs,
           pc[r] = "write", status[r] = "live", pc'[r] = "unlock"
    PROVE  WriteJson(r)
<1> USE DEF TypeInv
<1>1. ASSUME NEW p \in Procs, StartWrite(p) PROVE WriteJson(r)
  BY <1>1, GotoMoves DEF StartWrite, Idle
<1>2. ASSUME NEW p \in Procs, StartRead(p) PROVE WriteJson(r)
  BY <1>2, GotoMoves DEF StartRead, Idle
<1>3. ASSUME NEW p \in Procs, Resolve(p) PROVE WriteJson(r)
  <2> DEFINE next == IF tree[p] = <<>> THEN "count" ELSE AfterReplay(p)
  <2>1. Goto(p, next)
    BY <1>3 DEF Resolve
  <2>2. next # "unlock"
    BY DEF AfterReplay
  <2> HIDE DEF next
  <2> QED
    BY <2>1, <2>2, GotoMoves
<1>4. ASSUME NEW p \in Procs, ResolveMissing(p) PROVE WriteJson(r)
  BY <1>4, FaultKeepsPc, GotoMoves
  DEF ResolveMissing, At, TypeOK, HandlerLabels
<1>5. ASSUME NEW p \in Procs, LogWrite(p) PROVE WriteJson(r)
  BY <1>5, GotoMoves DEF LogWrite
<1>6. ASSUME NEW p \in Procs, JournalOp(p) PROVE WriteJson(r)
  BY <1>6, GotoMoves DEF JournalOp
<1>7. ASSUME NEW p \in Procs, Insert(p) PROVE WriteJson(r)
  BY <1>7, GotoMoves DEF Insert
<1>8. ASSUME NEW p \in Procs, InsertFaults(p) PROVE WriteJson(r)
  BY <1>8, FaultKeepsPc DEF InsertFaults, CannotAddToTree
<1>9. ASSUME NEW p \in Procs, SystemCall(p) PROVE WriteJson(r)
  BY <1>9, GotoMoves DEF SystemCall
<1>10. ASSUME NEW p \in Procs, End(p) PROVE WriteJson(r)
  BY <1>10, GotoMoves DEF End
<1>11. ASSUME NEW p \in Procs, CountLines(p) PROVE WriteJson(r)
  BY <1>11, GotoMoves DEF CountLines
<1>12. ASSUME NEW p \in Procs, LoadLines(p) PROVE WriteJson(r)
  BY <1>12, GotoMoves DEF LoadLines
<1>13. ASSUME NEW p \in Procs, LoadOverrun(p) PROVE WriteJson(r)
  BY <1>13, FaultKeepsPc DEF LoadOverrun
<1>14. ASSUME NEW p \in Procs, Replay(p) PROVE WriteJson(r)
  BY <1>14 DEF Replay, control
<1>15. ASSUME NEW p \in Procs, ReplayFaults(p) PROVE WriteJson(r)
  BY <1>15, FaultKeepsPc DEF ReplayFaults, CannotAddToTree
<1>16. ASSUME NEW p \in Procs, ReplayDone(p) PROVE WriteJson(r)
  <2> DEFINE next == AfterReplay(p)
  <2>1. Goto(p, next)
    BY <1>16 DEF ReplayDone
  <2>2. next # "unlock"
    BY DEF AfterReplay
  <2> HIDE DEF next
  <2> QED
    BY <2>1, <2>2, GotoMoves
<1>17. ASSUME NEW p \in Procs, TryLock(p) PROVE WriteJson(r)
  BY <1>17, GotoMoves DEF TryLock
<1>18. ASSUME NEW p \in Procs, Spin(p) PROVE WriteJson(r)
  BY <1>18 DEF Spin
<1>19. ASSUME NEW p \in Procs, GiveUp(p) PROVE WriteJson(r)
  BY <1>19 DEF GiveUp, Exit, Gone
<1>20. ASSUME NEW p \in Procs, Dump(p) PROVE WriteJson(r)
  BY <1>20, GotoMoves DEF Dump
<1>21. ASSUME NEW p \in Procs, DumpFaults(p) PROVE WriteJson(r)
  BY <1>21, FaultKeepsPc DEF DumpFaults
<1>22. ASSUME NEW p \in Procs, WriteJson(p) PROVE WriteJson(r)
  <2>1. CASE p = r
    BY <1>22, <2>1
  <2>2. CASE p # r
    BY <1>22, <2>2, GotoMoves DEF WriteJson
  <2> QED
    BY <2>1, <2>2
<1>23. ASSUME NEW p \in Procs, Unlock(p) PROVE WriteJson(r)
  BY <1>23 DEF Unlock, Gone
<1>24. ASSUME NEW p \in Procs, FindSnapshot(p) PROVE WriteJson(r)
  BY <1>24, GotoMoves DEF FindSnapshot
<1>25. ASSUME NEW p \in Procs, FindFaults(p) PROVE WriteJson(r)
  BY <1>25, FaultKeepsPc DEF FindFaults
<1>26. ASSUME NEW p \in Procs, KeepFile(p) PROVE WriteJson(r)
  BY <1>26, GotoMoves DEF KeepFile
<1>27. ASSUME NEW p \in Procs, RevertUnlink(p) PROVE WriteJson(r)
  BY <1>27, GotoMoves DEF RevertUnlink
<1>28. ASSUME NEW p \in Procs, RevertCopy(p) PROVE WriteJson(r)
  BY <1>28, GotoMoves DEF RevertCopy
<1>29. ASSUME NEW p \in Procs, Signal(p) PROVE WriteJson(r)
  BY <1>29, FaultKeepsPc DEF Signal
<1>30. ASSUME NEW p \in Procs, Kill(p) PROVE WriteJson(r)
  BY <1>30 DEF Kill, Gone
<1>31. ASSUME NEW f \in Files, Remove(f) PROVE WriteJson(r)
  BY <1>31 DEF Remove, control
<1>32. CASE UNCHANGED vars
  BY <1>32 DEF vars
<1>33. ASSUME NEW p \in Procs, RevertOpen(p) PROVE WriteJson(r)
  BY <1>33, GotoMoves DEF RevertOpen
<1>34. ASSUME NEW p \in Procs, RevertLock(p) PROVE WriteJson(r)
  BY <1>34, GotoMoves DEF RevertLock
<1>35. ASSUME NEW p \in Procs, RevertFails(p) PROVE WriteJson(r)
  BY <1>35, GotoMoves DEF RevertFails
<1>36. ASSUME NEW p \in Procs, SaveFails(p) PROVE WriteJson(r)
  BY <1>36, GotoMoves DEF SaveFails
<1> QED
  BY <1>1, <1>2, <1>3, <1>4, <1>5, <1>6, <1>7, <1>8, <1>9, <1>10, <1>11,
     <1>12, <1>13, <1>14, <1>15, <1>16, <1>17, <1>18, <1>19, <1>20, <1>21,
     <1>22, <1>23, <1>24, <1>25, <1>26, <1>27, <1>28, <1>29, <1>30, <1>31,
     <1>32, <1>33, <1>34, <1>35, <1>36
  DEF Next, Call, Work, Operate, Rebuild, Extract, Answer, Handle, AllGone

\* In every run, what end() publishes is a prefix of the journal with all the
\* operations of its own process.
THEOREM EndsPublishOwnOps == Spec => EndPublishesOwnOps
<1> DEFINE Published ==
        \A p \in Procs :
            status[p] = "live" /\ pc[p] = "write" /\ pc'[p] = "unlock"
                => StartsWith(log, json'.ops) /\ Embeds(issued[p], json'.ops)
<1>1. IndInv /\ IndInv' /\ [Next]_vars => [Published]_vars
  <2> SUFFICES ASSUME IndInv, IndInv', [Next]_vars, NEW p \in Procs,
                      status[p] = "live", pc[p] = "write", pc'[p] = "unlock"
               PROVE  StartsWith(log, json'.ops) /\ Embeds(issued[p], json'.ops)
    OBVIOUS
  <2>1. json' = Readable(tree[p])
    <3>1. WriteJson(p)
      BY OnlyWriteJson DEF IndInv
    <3> QED
      BY <3>1 DEF WriteJson
  <2>2. /\ log \in Seq(Entry) /\ tree[p] \in Seq(Entry)
        /\ line_count[p] \in Nat /\ line_count[p] <= Len(log)
        /\ req[p] = NoReq /\ ScanOK(p) /\ OwnOK(p)
    BY DEF IndInv, TypeInv, TypeOK, CallInv, CallOK, ScanInv
  <2>3. /\ tree[p] = SubSeq(log, 1, line_count[p])
        /\ Embeds(issued[p], tree[p])
    BY <2>2 DEF ScanOK, OwnOK
  <2>4. StartsWith(log, tree[p])
    BY <2>2, <2>3 DEF StartsWith
  <2> QED
    BY <2>1, <2>3, <2>4 DEF Readable
<1> QED
  BY <1>1, IndInvInvariant, PTL DEF Spec, EndPublishesOwnOps

\* The journalling core implements the abstract journal: whatever the
\* interleaving of calls, dumps, signals and deaths, the journal only grows by
\* requests, and the JSON file, when it parses, is a mirror of the journal.
THEOREM CoreImplementsJournal == Spec => MirrorsJournal
<1>1. Init => Abstract!Init
  BY DEF Init, Abstract!Init, Torn, Abstract!Unreadable
<1>2. IndInv /\ IndInv' /\ [Next]_vars => [Abstract!Next]_Abstract!vars
  <2> SUFFICES ASSUME IndInv, IndInv', [Next]_vars
               PROVE  [Abstract!Next]_Abstract!vars
    OBVIOUS
  <2>1. CASE Same
    BY <2>1 DEF Same, Abstract!vars
  <2>2. CASE Truncates
    BY <2>2
    DEF Truncates, Torn, Abstract!Next, Abstract!Overwrite,
        Abstract!Unreadable
  <2>3. ASSUME NEW p \in Procs, Publishes(p)
        PROVE  Abstract!Next
    <3>1. json' = [readable |-> TRUE, ops |-> tree[p]] /\ log' = log
      BY <2>3 DEF Publishes, Readable
    <3>2. Embeds(tree[p], log)
      BY DEF IndInv, ScanInv, ScanOK
    <3>3. json' = [readable |-> TRUE, ops |-> json'.ops]
          /\ Embeds(json'.ops, log)
      BY <3>1, <3>2
    <3>4. Abstract!Publish
      BY <3>1, <3>3
      DEF Abstract!Publish, Abstract!Embeds, Abstract!IsEmbedding, Embeds,
          IsEmbedding
    <3> QED
      BY <3>4 DEF Abstract!Next
  <2>4. ASSUME NEW p \in Procs, Journals(p), req[p] \in Requests
        PROVE  Abstract!Next
    BY <2>4 DEF Journals, Abstract!Next, Abstract!Record
  <2> QED
    BY <2>1, <2>2, <2>3, <2>4, StepEffect DEF IndInv
<1> QED
  BY <1>1, <1>2, IndInvInvariant, PTL DEF Spec, MirrorsJournal, Abstract!Spec
-----------------------------------------------------------------------------
(* Releasing the lock                                                      *)

\* A process that holds the lock and was not interrupted is in its dump, and
\* between the writing and the release, in either frame, the JSON file tells
\* the tree of that process.
HoldInv ==
    \A p \in Procs :
        /\ flock = p /\ status[p] = "live" => pc[p] \in DumpLabels
        /\ At(p, "unlock") => json = Readable(tree[p])

\* What UnlockLeavesTree says of a step of one process.
ReleasesTree(p) ==
    flock = p /\ flock' # p
        => IF At(p, "unlock")
           THEN json' = Readable(tree[p])
           ELSE At(p, "unsaved") \/ status'[p] = "died"

\* What every step does: keeps HoldInv, and releases over the tree.
Kept == HoldInv' /\ \A p \in Procs : ReleasesTree(p)

\* A move that leaves the lock and the file alone, and no tree but that of
\* the process that moves.
LEMMA HoldMove ==
    ASSUME TypeInv, HoldInv, NEW p \in Procs, NEW label, Goto(p, label),
           label # "unlock",
           status[p] = "live"
             => pc[p] \notin DumpLabels \/ label \in DumpLabels,
           UNCHANGED <<flock, json>>,
           \A q \in Procs : q # p => tree'[q] = tree[q]
    PROVE  Kept
<1>1. ASSUME NEW q \in Procs
      PROVE  flock' = q /\ status'[q] = "live" => pc'[q] \in DumpLabels
  BY <1>1 DEF TypeInv, TypeOK, HoldInv, Goto
<1>2. ASSUME NEW q \in Procs, At(q, "unlock")'
      PROVE  json' = Readable(tree'[q])
  <2>1. q # p /\ At(q, "unlock")
    BY <1>2 DEF TypeInv, TypeOK, Goto, At
  <2> QED
    BY <2>1 DEF HoldInv, Readable
<1>3. HoldInv'
  BY <1>1, <1>2 DEF HoldInv, Readable
<1> QED
  BY <1>3 DEF Kept, ReleasesTree

\* The end of a process.  What it can do to the file is what exit() flushes.
LEMMA HoldGone ==
    ASSUME TypeInv, LockInv, HoldInv, NEW p \in Procs,
           NEW how \in {"exited", "died"}, Gone(p, how), UNCHANGED tree,
           json' = json \/ (flock = p /\ json' = Readable(tree[p])),
           how = "died" \/ flock # p \/ At(p, "unlock") \/ At(p, "unsaved")
    PROVE  Kept
<1>1. /\ status' = [status EXCEPT ![p] = how]
      /\ flock' = IF flock = p THEN NoProc ELSE flock
      /\ pc' = pc
      /\ \A q \in Procs : q # p => hpc'[q] = hpc[q]
  BY DEF Gone, TypeInv, TypeOK
<1>2. ASSUME NEW q \in Procs
      PROVE  flock' = q /\ status'[q] = "live" => pc'[q] \in DumpLabels
  BY <1>1, <1>2, SentinelAssumption DEF TypeInv, TypeOK, HoldInv
<1>3. ASSUME NEW q \in Procs, At(q, "unlock")'
      PROVE  json' = Readable(tree'[q])
  <2>1. q # p /\ At(q, "unlock")
    BY <1>1, <1>3 DEF TypeInv, TypeOK, At
  <2>2. flock = q
    BY <2>1 DEF LockInv, DumpersHoldLock, InDump, DumpLabels, Running, At
  <2> QED
    BY <2>1, <2>2 DEF HoldInv
<1>4. HoldInv'
  BY <1>2, <1>3 DEF HoldInv, Readable
<1>5. ReleasesTree(p)
  BY <1>1 DEF TypeInv, TypeOK, HoldInv, ReleasesTree
<1>6. ASSUME NEW q \in Procs, q # p PROVE ReleasesTree(q)
  BY <1>1, <1>6 DEF ReleasesTree
<1> QED
  BY <1>4, <1>5, <1>6 DEF Kept

LEMMA HoldExit ==
    ASSUME TypeInv, LockInv, HoldInv, NEW p \in Procs,
           NEW how \in {"exited", "died"}, Exit(p, how), UNCHANGED tree,
           how = "died" \/ flock # p
    PROVE  Kept
BY HoldGone DEF Exit

LEMMA HoldFault ==
    ASSUME TypeInv, LockInv, HoldInv, NEW p \in Procs, Running(p),
           Fault(p) \/ CatchSignal(p), UNCHANGED tree
    PROVE  Kept
<1>1. CASE Exit(p, "died")
  BY <1>1, HoldExit
<1>2. CASE Gone(p, "died") /\ UNCHANGED json
  BY <1>2, HoldGone
<1>3. CASE /\ status' = [status EXCEPT ![p] = "handler"]
           /\ hpc' = [hpc EXCEPT ![p] = "find"]
           /\ UNCHANGED <<pc, flock, json>>
  <2>1. \A q \in Procs : At(q, "unlock")' => At(q, "unlock")
    BY <1>3 DEF TypeInv, TypeOK, At
  <2>2. HoldInv'
    BY <1>3, <2>1 DEF TypeInv, TypeOK, HoldInv, Readable
  <2> QED
    BY <1>3, <2>2 DEF Kept, ReleasesTree
<1> QED
  BY <1>1, <1>2, <1>3 DEF Fault, CatchSignal

LEMMA Holding == TypeInv /\ LockInv /\ HoldInv /\ [Next]_vars => Kept
<1> SUFFICES ASSUME TypeInv, LockInv, HoldInv, [Next]_vars
             PROVE  Kept
  OBVIOUS
<1>1. ASSUME NEW p \in Procs, StartWrite(p) PROVE Kept
  BY <1>1, HoldMove DEF StartWrite, At, DumpLabels, Idle, files
<1>2. ASSUME NEW p \in Procs, StartRead(p) PROVE Kept
  BY <1>2, HoldMove DEF StartRead, At, DumpLabels, Idle, files
<1>3. ASSUME NEW p \in Procs, Resolve(p) PROVE Kept
  <2> DEFINE next == IF tree[p] = <<>> THEN "count" ELSE AfterReplay(p)
  <2>1. Goto(p, next) /\ UNCHANGED <<flock, json, tree>>
    BY <1>3 DEF Resolve, files
  <2>2. next # "unlock" /\ (status[p] = "live" => pc[p] \notin DumpLabels)
    BY <1>3 DEF Resolve, At, AfterReplay, DumpLabels
  <2> HIDE DEF next
  <2> QED
    BY <2>1, <2>2, HoldMove
<1>4. ASSUME NEW p \in Procs, ResolveMissing(p) PROVE Kept
  <2>1. CASE Fault(p)
    BY <1>4, <2>1, HoldFault DEF ResolveMissing, At, Running
  <2>2. CASE Goto(p, "idle") /\ UNCHANGED <<json, flock, revlock, spins>>
    BY <1>4, <2>2, HoldMove DEF ResolveMissing, At, DumpLabels
  <2> QED
    BY <1>4, <2>1, <2>2 DEF ResolveMissing
<1>5. ASSUME NEW p \in Procs, LogWrite(p) PROVE Kept
  BY <1>5, HoldMove DEF LogWrite, At, DumpLabels, memory
<1>6. ASSUME NEW p \in Procs, JournalOp(p) PROVE Kept
  BY <1>6, HoldMove DEF JournalOp, At, DumpLabels, memory
<1>7. ASSUME NEW p \in Procs, Insert(p) PROVE Kept
  <2>1. \A q \in Procs : q # p => tree'[q] = tree[q]
    BY <1>7 DEF Insert, AddToTree, TypeInv, TypeOK
  <2> QED
    BY <1>7, <2>1, HoldMove DEF Insert, At, DumpLabels
<1>8. ASSUME NEW p \in Procs, InsertFaults(p) PROVE Kept
  BY <1>8, HoldFault DEF InsertFaults, At, Running, memory, CannotAddToTree
<1>9. ASSUME NEW p \in Procs, SystemCall(p) PROVE Kept
  BY <1>9, HoldMove DEF SystemCall, At, DumpLabels, files
<1>10. ASSUME NEW p \in Procs, End(p) PROVE Kept
  <2>1. \A q \in Procs : q # p => tree'[q] = tree[q]
    BY <1>10 DEF End, TypeInv, TypeOK
  <2> QED
    BY <1>10, <2>1, HoldMove DEF End, At, DumpLabels, files
<1>11. ASSUME NEW p \in Procs, CountLines(p) PROVE Kept
  BY <1>11, HoldMove DEF CountLines, At, DumpLabels, files
<1>12. ASSUME NEW p \in Procs, LoadLines(p) PROVE Kept
  BY <1>12, HoldMove DEF LoadLines, At, DumpLabels, files
<1>13. ASSUME NEW p \in Procs, LoadOverrun(p) PROVE Kept
  BY <1>13, HoldFault DEF LoadOverrun, At, Running, memory
<1>14. ASSUME NEW p \in Procs, Replay(p) PROVE Kept
  <2>1. /\ \A q \in Procs : q # p => tree'[q] = tree[q]
        /\ ~At(p, "unlock")
        /\ UNCHANGED <<flock, json, status, pc, hpc>>
    BY <1>14 DEF Replay, AddToTree, At, control, TypeInv, TypeOK
  <2>2. HoldInv'
    BY <2>1 DEF HoldInv, At, Readable
  <2> QED
    BY <2>1, <2>2 DEF Kept, ReleasesTree
<1>15. ASSUME NEW p \in Procs, ReplayFaults(p) PROVE Kept
  BY <1>15, HoldFault DEF ReplayFaults, At, Running, memory, CannotAddToTree
<1>16. ASSUME NEW p \in Procs, ReplayDone(p) PROVE Kept
  <2> DEFINE next == AfterReplay(p)
  <2>1. Goto(p, next) /\ UNCHANGED <<flock, json, tree>>
    BY <1>16 DEF ReplayDone, files, memory
  <2>2. next # "unlock" /\ (status[p] = "live" => pc[p] \notin DumpLabels)
    BY <1>16 DEF ReplayDone, At, AfterReplay, DumpLabels
  <2> HIDE DEF next
  <2> QED
    BY <2>1, <2>2, HoldMove
<1>17. ASSUME NEW p \in Procs, TryLock(p) PROVE Kept
  <2>1. /\ flock = NoProc /\ flock' = p /\ UNCHANGED <<json, tree>>
        /\ Goto(p, "dump")
    BY <1>17 DEF TryLock, memory
  <2>2. \A q \in Procs : At(q, "unlock")' => At(q, "unlock")
    BY <2>1 DEF Goto, At, TypeInv, TypeOK
  <2>3. HoldInv'
    BY <2>1, <2>2 DEF Goto, HoldInv, DumpLabels, Readable, TypeInv, TypeOK
  <2>4. \A q \in Procs : flock # q
    BY <2>1, SentinelAssumption
  <2> QED
    BY <2>3, <2>4 DEF Kept, ReleasesTree
<1>18. ASSUME NEW p \in Procs, Spin(p) PROVE Kept
  BY <1>18 DEF Spin, files, memory, At, HoldInv, Readable, Kept, ReleasesTree
<1>19. ASSUME NEW p \in Procs, GiveUp(p) PROVE Kept
  <2>1. Over(p) = "died" \/ flock # p
    BY <1>19 DEF GiveUp, At, Over, HoldInv, DumpLabels
  <2> QED
    BY <1>19, <2>1, HoldExit DEF GiveUp, Over, memory
<1>20. ASSUME NEW p \in Procs, Dump(p) PROVE Kept
  <2>1. flock = p /\ flock' = flock /\ UNCHANGED tree
    BY <1>20
    DEF Dump, memory, At, LockInv, DumpersHoldLock, InDump, DumpLabels, Running
  <2>2. \A q \in Procs : At(q, "unlock") => q = p
    BY <2>1 DEF LockInv, DumpersHoldLock, InDump, DumpLabels, Running, At
  <2>3. \A q \in Procs : At(q, "unlock")' => FALSE
    BY <1>20, <2>2 DEF Dump, Goto, At, TypeInv, TypeOK
  <2>4. \A q \in Procs :
          flock' = q /\ status'[q] = "live" => pc'[q] \in DumpLabels
    BY <1>20, <2>1 DEF Dump, Goto, DumpLabels, TypeInv, TypeOK
  <2>5. HoldInv'
    BY <1>20, <2>1, <2>3, <2>4 DEF Dump, HoldInv, Readable
  <2> QED
    BY <2>1, <2>5 DEF Kept, ReleasesTree
<1>21. ASSUME NEW p \in Procs, DumpFaults(p) PROVE Kept
  BY <1>21, HoldFault DEF DumpFaults, At, Running, memory
<1>22. ASSUME NEW p \in Procs, WriteJson(p) PROVE Kept
  <2>1. flock = p /\ flock' = flock /\ UNCHANGED tree
    BY <1>22
    DEF WriteJson, memory, At, LockInv, DumpersHoldLock, InDump, DumpLabels,
        Running
  <2>2. \A q \in Procs : At(q, "unlock") => q = p
    BY <2>1 DEF LockInv, DumpersHoldLock, InDump, DumpLabels, Running, At
  <2>3. \A q \in Procs : At(q, "unlock")' => q = p
    BY <1>22, <2>2 DEF WriteJson, Goto, At, TypeInv, TypeOK
  <2>4. \A q \in Procs :
          flock' = q /\ status'[q] = "live" => pc'[q] \in DumpLabels
    BY <1>22, <2>1 DEF WriteJson, Goto, DumpLabels, TypeInv, TypeOK
  <2>5. HoldInv'
    BY <1>22, <2>1, <2>3, <2>4 DEF WriteJson, HoldInv, Readable
  <2> QED
    BY <2>1, <2>5 DEF Kept, ReleasesTree
<1>23. ASSUME NEW p \in Procs, Unlock(p) PROVE Kept
  BY <1>23, HoldGone DEF Unlock, Over, memory
<1>24. ASSUME NEW p \in Procs, FindSnapshot(p) PROVE Kept
  BY <1>24, HoldMove
  DEF FindSnapshot, At, DumpLabels, files, memory, TypeInv, TypeOK, MainLabels
<1>25. ASSUME NEW p \in Procs, FindFaults(p) PROVE Kept
  BY <1>25, HoldFault DEF FindFaults, At, Running, memory
<1>26. ASSUME NEW p \in Procs, KeepFile(p) PROVE Kept
  BY <1>26, HoldMove
  DEF KeepFile, At, DumpLabels, files, memory, TypeInv, TypeOK, MainLabels
<1>27. ASSUME NEW p \in Procs, RevertUnlink(p) PROVE Kept
  BY <1>27, HoldMove
  DEF RevertUnlink, At, DumpLabels, files, memory, TypeInv, TypeOK, MainLabels
<1>28. ASSUME NEW p \in Procs, RevertCopy(p) PROVE Kept
  BY <1>28, HoldMove
  DEF RevertCopy, At, DumpLabels, files, memory, TypeInv, TypeOK, MainLabels
<1>29. ASSUME NEW p \in Procs, Signal(p) PROVE Kept
  BY <1>29, HoldFault DEF Signal, memory
<1>30. ASSUME NEW p \in Procs, Kill(p) PROVE Kept
  BY <1>30, HoldGone DEF Kill, memory
<1>31. ASSUME NEW f \in Files, Remove(f) PROVE Kept
  BY <1>31
  DEF Remove, control, memory, At, HoldInv, Readable, Kept, ReleasesTree
<1>32. CASE UNCHANGED vars
  BY <1>32 DEF vars, At, HoldInv, Readable, Kept, ReleasesTree
<1>33. ASSUME NEW p \in Procs, RevertOpen(p) PROVE Kept
  BY <1>33, HoldMove
  DEF RevertOpen, At, DumpLabels, files, memory, TypeInv, TypeOK, MainLabels
<1>34. ASSUME NEW p \in Procs, RevertLock(p) PROVE Kept
  BY <1>34, HoldMove
  DEF RevertLock, At, DumpLabels, files, memory, TypeInv, TypeOK, MainLabels
<1>35. ASSUME NEW p \in Procs, RevertFails(p) PROVE Kept
  BY <1>35, HoldMove
  DEF RevertFails, At, DumpLabels, files, memory, TypeInv, TypeOK, MainLabels
<1>36. ASSUME NEW p \in Procs, SaveFails(p) PROVE Kept
  BY <1>36, HoldMove DEF SaveFails, At, DumpLabels, files, memory
<1> QED
  BY <1>1, <1>2, <1>3, <1>4, <1>5, <1>6, <1>7, <1>8, <1>9, <1>10, <1>11,
     <1>12, <1>13, <1>14, <1>15, <1>16, <1>17, <1>18, <1>19, <1>20, <1>21,
     <1>22, <1>23, <1>24, <1>25, <1>26, <1>27, <1>28, <1>29, <1>30, <1>31,
     <1>32, <1>33, <1>34, <1>35, <1>36
  DEF Next, Call, Work, Operate, Rebuild, Extract, Answer, Handle, AllGone

\* In every run, whoever lets go of the lock after a dump that succeeded, end()
\* or the handler, leaves the tree it holds in the file; it lets go otherwise
\* after a dump that failed, or by dying.
THEOREM UnlocksLeaveTree == Spec => UnlockLeavesTree
<1>1. Init => HoldInv
  BY SentinelAssumption DEF Init, HoldInv, At
<1>2. IndInv /\ HoldInv /\ [Next]_vars => HoldInv'
  BY Holding DEF IndInv, Kept
<1>3. IndInv /\ HoldInv /\ [Next]_vars
        => [\A p \in Procs : ReleasesTree(p)]_vars
  BY Holding DEF IndInv, Kept
<1>4. [\A p \in Procs : ReleasesTree(p)]_vars
        => [\A p \in Procs :
              flock = p /\ flock' # p
                 => IF At(p, "unlock")
                    THEN json' = Readable(tree[p])
                    ELSE At(p, "unsaved") \/ status'[p] = "died"]_vars
  BY DEF ReleasesTree
<1> QED
  BY <1>1, <1>2, <1>3, <1>4, IndInvInvariant, PTL
  DEF Spec, UnlockLeavesTree
=============================================================================
