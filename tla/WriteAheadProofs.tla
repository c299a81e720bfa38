-------------------------- MODULE WriteAheadProofs --------------------------
(***************************************************************************)
(* Proof of Journal's WriteAhead, for any processes, files, bounds and     *)
(* environment: the entries of the journal are counted against the         *)
(* operations that were made and those on their way.                       *)
(***************************************************************************)
EXTENDS JournalProofs, FiniteSetTheorems

-----------------------------------------------------------------------------
(* Sets of positions in a sequence that grows                              *)

\* Positions of one entry.
Positions(e, s) == {i \in 1 .. Len(s) : s[i] = e}

LEMMA PositionsGrow ==
    ASSUME NEW s \in Seq(Entry), NEW x \in Entry, NEW e
    PROVE  /\ Positions(e, Append(s, x))
                = IF x = e THEN Positions(e, s) \cup {Len(s) + 1}
                           ELSE Positions(e, s)
           /\ Len(s) + 1 \notin Positions(e, s)
<1> DEFINE t == Append(s, x)
<1>1. /\ Len(s) \in Nat /\ Len(t) = Len(s) + 1
      /\ \A i \in 1 .. Len(s) : t[i] = s[i]
      /\ t[Len(s) + 1] = x
  BY AppendProperties
<1> HIDE DEF t
<1> QED
  BY <1>1 DEF Positions, t

LEMMA PositionsFinite ==
    ASSUME NEW s \in Seq(Entry), NEW e
    PROVE  IsFiniteSet(Positions(e, s))
<1>1. Len(s) \in Nat
  BY LenProperties
<1>2. IsFiniteSet(1 .. Len(s))
  BY <1>1, FS_Interval
<1> QED
  BY <1>2, FS_Subset DEF Positions

\* The journal has one more entry.
LEMMA OccurrencesGrow ==
    ASSUME NEW s \in Seq(Entry), NEW x \in Entry, NEW e
    PROVE  /\ Occurrences(e, s) \in Nat
           /\ Occurrences(e, Append(s, x))
                = IF x = e THEN Occurrences(e, s) + 1 ELSE Occurrences(e, s)
<1>1. Occurrences(e, s) = Cardinality(Positions(e, s))
  BY DEF Occurrences, Positions
<1>2. Occurrences(e, Append(s, x)) = Cardinality(Positions(e, Append(s, x)))
  BY DEF Occurrences, Positions
<1>3. IsFiniteSet(Positions(e, s)) /\ Len(s) + 1 \notin Positions(e, s)
  BY PositionsFinite, PositionsGrow
<1>4. /\ Cardinality(Positions(e, s)) \in Nat
      /\ Cardinality(Positions(e, s) \cup {Len(s) + 1})
           = Cardinality(Positions(e, s)) + 1
  BY <1>3, FS_CardinalityType, FS_AddElement
<1> QED
  BY <1>1, <1>2, <1>4, PositionsGrow

\* Positions of writes.
Writes(s) == {i \in 1 .. Len(s) : s[i].op # "R"}

LEMMA WritesFinite ==
    ASSUME NEW s \in Seq(Entry)
    PROVE  IsFiniteSet(Writes(s)) /\ Cardinality(Writes(s)) \in Nat
<1>1. IsFiniteSet(1 .. Len(s))
  BY FS_Interval, LenProperties
<1>2. IsFiniteSet(Writes(s))
  BY <1>1, FS_Subset DEF Writes
<1> QED
  BY <1>2, FS_CardinalityType

LEMMA WritesGrow ==
    ASSUME NEW s \in Seq(Entry), NEW x \in Entry
    PROVE  /\ Cardinality(Writes(s)) \in Nat
           /\ Cardinality(Writes(Append(s, x)))
                = IF x.op # "R" THEN Cardinality(Writes(s)) + 1
                                ELSE Cardinality(Writes(s))
<1> DEFINE t == Append(s, x)
<1>1. /\ Len(s) \in Nat /\ Len(t) = Len(s) + 1
      /\ \A i \in 1 .. Len(s) : t[i] = s[i]
      /\ t[Len(s) + 1] = x
  BY AppendProperties
<1> HIDE DEF t
<1>2. /\ Writes(t) = IF x.op # "R" THEN Writes(s) \cup {Len(s) + 1}
                                   ELSE Writes(s)
      /\ Len(s) + 1 \notin Writes(s)
  BY <1>1 DEF Writes
<1>4. IsFiniteSet(Writes(s))
  BY WritesFinite
<1>5. /\ Cardinality(Writes(s)) \in Nat
      /\ Cardinality(Writes(s) \cup {Len(s) + 1}) = Cardinality(Writes(s)) + 1
  BY <1>2, <1>4, FS_CardinalityType, FS_AddElement
<1> QED
  BY <1>2, <1>5 DEF t

-----------------------------------------------------------------------------
(* What a step can do to the counted things                                *)

InFlightLabels == {"insert", "io"}

Announced(p) == pc[p] \in {"journal", "insert", "io"} /\ req[p].op # "R"

\* A call is only begun with room for one more operation, and log_write is
\* only called for writes.
RoomOK(p) ==
    /\ Len(issued[p]) <= MaxOps
    /\ req[p] # NoReq => Len(issued[p]) < MaxOps
    /\ pc[p] = "logwrite" => req[p].op # "R"

RoomInv == \A p \in Procs : RoomOK(p)

\* A process is as far with its call as it was, as to counts.
Keeps(p) ==
    /\ pc'[p] \in InFlightLabels <=> pc[p] \in InFlightLabels
    /\ pc[p] \in InFlightLabels => req'[p] = req[p]
    /\ Announced(p)' <=> Announced(p)
    /\ req'[p] # NoReq => Len(issued[p]) < MaxOps
    /\ pc'[p] = "logwrite" => req'[p].op # "R"

Quiet ==
    /\ UNCHANGED <<log, issued, writeLog>>
    /\ \A p \in Procs : Keeps(p)

Announces(p) ==
    /\ pc[p] = "logwrite"
    /\ pc' = [pc EXCEPT ![p] = "journal"]
    /\ writeLog' = [writeLog EXCEPT ![p] = @ + 1]
    /\ UNCHANGED <<log, issued, req>>

Enters(p) ==
    /\ pc[p] = "journal" /\ req[p] \in Requests
    /\ pc' = [pc EXCEPT ![p] = "insert"]
    /\ log' = Append(log, req[p])
    /\ UNCHANGED <<issued, writeLog, req>>

Issues(p) ==
    /\ pc[p] = "io" /\ req[p] \in Requests
    /\ pc' = [pc EXCEPT ![p] = "idle"]
    /\ issued' = [issued EXCEPT ![p] = Append(@, req[p])]
    /\ req' = [req EXCEPT ![p] = NoReq]
    /\ UNCHANGED <<log, writeLog>>

\* A step that moves no program counter.
LEMMA StayIsQuiet ==
    ASSUME RoomInv, UNCHANGED <<log, issued, writeLog, pc, req>>
    PROVE  Quiet
BY DEF Quiet, Keeps, Announced, RoomInv, RoomOK

\* A move of the handler, or of the program between places that count alike.
LEMMA MoveIsQuiet ==
    ASSUME TypeInv, RoomInv, NEW p \in Procs, NEW label, Goto(p, label),
           UNCHANGED <<log, issued, writeLog>>,
           \A q \in Procs : q # p => req'[q] = req[q],
           req'[p] # NoReq => Len(issued[p]) < MaxOps,
           IF status[p] = "live"
             THEN /\ label \in InFlightLabels <=> pc[p] \in InFlightLabels
                  /\ pc[p] \in InFlightLabels => req'[p] = req[p]
                  /\ (label \in {"journal", "insert", "io"}
                        /\ req'[p].op # "R") <=> Announced(p)
                  /\ label = "logwrite" => req'[p].op # "R"
             ELSE req'[p] = req[p]
    PROVE  Quiet
<1>1. /\ \A q \in Procs : q # p => pc'[q] = pc[q]
      /\ status[p] = "live" => pc'[p] = label
      /\ status[p] # "live" => pc' = pc
  BY GotoMoves DEF TypeInv
<1>2. ASSUME NEW q \in Procs, q # p PROVE Keeps(q)
  BY <1>1, <1>2 DEF Keeps, Announced, RoomInv, RoomOK
<1>3. CASE status[p] = "live"
  <2>1. Keeps(p)
    BY <1>1, <1>3 DEF Keeps, Announced
  <2> QED
    BY <1>2, <2>1 DEF Quiet
<1>4. CASE status[p] # "live"
  <2>1. Keeps(p)
    BY <1>1, <1>4 DEF Keeps, Announced, RoomInv, RoomOK
  <2> QED
    BY <1>2, <2>1 DEF Quiet
<1> QED
  BY <1>3, <1>4

\* A move between two places where no call is near its system call.
Plain == {"idle", "count", "load", "replay", "lock", "dump", "write", "unlock",
          "unsaved"}

LEMMA PlainMove ==
    ASSUME TypeInv, RoomInv, NEW p \in Procs, NEW label \in Plain,
           Goto(p, label), UNCHANGED <<log, issued, writeLog, req>>,
           status[p] = "live" => pc[p] \in Plain
    PROVE  Quiet
<1>1. req[p] # NoReq => Len(issued[p]) < MaxOps
  BY DEF RoomInv, RoomOK
<1> QED
  BY <1>1, MoveIsQuiet DEF InFlightLabels, Announced, Plain

\* A fault or a signal, which changes neither counters nor files counted.
LEMMA FaultIsQuiet ==
    ASSUME TypeInv, RoomInv, NEW p \in Procs, Fault(p) \/ CatchSignal(p),
           UNCHANGED <<log, issued, writeLog, req>>
    PROVE  Quiet
BY FaultKeepsPc, StayIsQuiet DEF TypeInv

LEMMA StepCounts ==
    ASSUME TypeInv, RoomInv, [Next]_vars
    PROVE  \/ Quiet
           \/ \E p \in Procs : Announces(p) \/ Enters(p) \/ Issues(p)
<1> DEFINE Effect ==
             \/ Quiet
             \/ \E p \in Procs : Announces(p) \/ Enters(p) \/ Issues(p)
<1> USE DEF memory, files, control, Plain
<1>1. ASSUME NEW p \in Procs, StartWrite(p) PROVE Effect
  <2>1. PICK r \in Requests : req' = [req EXCEPT ![p] = r]
    BY <1>1 DEF StartWrite
  <2>2. Goto(p, "resolve") /\ UNCHANGED <<log, issued, writeLog>>
    BY <1>1 DEF StartWrite
  <2>3. status[p] = "live" /\ pc[p] = "idle" /\ Len(issued[p]) < MaxOps
    BY <1>1 DEF StartWrite, Idle
  <2>4. \A q \in Procs : q # p => req'[q] = req[q]
    BY <2>1 DEF TypeInv, TypeOK
  <2> QED
    BY <2>2, <2>3, <2>4, MoveIsQuiet DEF InFlightLabels, Announced
<1>2. ASSUME NEW p \in Procs, StartRead(p) PROVE Effect
  <2>1. PICK r \in Requests : req' = [req EXCEPT ![p] = r]
    BY <1>2 DEF StartRead
  <2>2. Goto(p, "resolve") /\ UNCHANGED <<log, issued, writeLog>>
    BY <1>2 DEF StartRead
  <2>3. status[p] = "live" /\ pc[p] = "idle" /\ Len(issued[p]) < MaxOps
    BY <1>2 DEF StartRead, Idle
  <2>4. \A q \in Procs : q # p => req'[q] = req[q]
    BY <2>1 DEF TypeInv, TypeOK
  <2> QED
    BY <2>2, <2>3, <2>4, MoveIsQuiet DEF InFlightLabels, Announced
<1>3. ASSUME NEW p \in Procs, Resolve(p) PROVE Effect
  <2> DEFINE next == IF tree[p] = <<>> THEN "count" ELSE AfterReplay(p)
  <2>1. /\ status[p] = "live" /\ pc[p] = "resolve" /\ Goto(p, next)
        /\ req[p] # NoReq /\ UNCHANGED <<log, issued, writeLog, req>>
    BY <1>3, InCall DEF Resolve
  <2>2. /\ next \in {"count", "journal", "logwrite"}
        /\ next = "journal" => req[p].op = "R"
        /\ next = "logwrite" => req[p].op # "R"
    BY <2>1 DEF AfterReplay
  <2> HIDE DEF next
  <2>3. Len(issued[p]) < MaxOps
    BY <2>1 DEF RoomInv, RoomOK
  <2> QED
    BY <2>1, <2>2, <2>3, MoveIsQuiet DEF InFlightLabels, Announced
<1>4. ASSUME NEW p \in Procs, ResolveMissing(p) PROVE Effect
  <2>1. CASE req[p].op # "R"
    BY <1>4, <2>1, FaultIsQuiet DEF ResolveMissing
  <2>2. CASE req[p].op = "R"
    <3>1. /\ status[p] = "live" /\ pc[p] = "resolve" /\ Goto(p, "idle")
          /\ UNCHANGED <<log, issued, writeLog>>
          /\ req' = [req EXCEPT ![p] = NoReq]
      BY <1>4, <2>2, InCall DEF ResolveMissing
    <3>2. /\ \A q \in Procs : q # p => req'[q] = req[q]
          /\ req'[p] = NoReq
      BY <3>1 DEF TypeInv, TypeOK
    <3> QED
      BY <3>1, <3>2, MoveIsQuiet DEF InFlightLabels, Announced
  <2> QED
    BY <2>1, <2>2
<1>5. ASSUME NEW p \in Procs, LogWrite(p) PROVE Effect
  <2>1. status[p] = "live" /\ pc[p] = "logwrite"
    BY <1>5, InCall DEF LogWrite
  <2>2. Announces(p)
    BY <1>5, <2>1 DEF LogWrite, Announces, Goto
  <2> QED
    BY <2>2
<1>6. ASSUME NEW p \in Procs, JournalOp(p) PROVE Effect
  <2>1. status[p] = "live" /\ pc[p] = "journal" /\ req[p] \in Requests
    BY <1>6, InCall DEF JournalOp
  <2>2. Enters(p)
    BY <1>6, <2>1 DEF JournalOp, Enters, Goto
  <2> QED
    BY <2>2
<1>7. ASSUME NEW p \in Procs, Insert(p) PROVE Effect
  <2>1. /\ status[p] = "live" /\ pc[p] = "insert" /\ Goto(p, "io")
        /\ req[p] # NoReq /\ UNCHANGED <<log, issued, writeLog, req>>
    BY <1>7, InCall DEF Insert
  <2>2. Len(issued[p]) < MaxOps
    BY <2>1 DEF RoomInv, RoomOK
  <2> QED
    BY <2>1, <2>2, MoveIsQuiet DEF InFlightLabels, Announced
<1>8. ASSUME NEW p \in Procs, InsertFaults(p) PROVE Effect
  BY <1>8, FaultIsQuiet DEF InsertFaults, CannotAddToTree
<1>9. ASSUME NEW p \in Procs, SystemCall(p) PROVE Effect
  <2>1. status[p] = "live" /\ pc[p] = "io" /\ req[p] \in Requests
    BY <1>9, InCall DEF SystemCall
  <2>2. Issues(p)
    BY <1>9, <2>1 DEF SystemCall, Issues, Goto
  <2> QED
    BY <2>2
<1>10. ASSUME NEW p \in Procs, End(p) PROVE Effect
  <2>1. /\ Goto(p, "count") /\ UNCHANGED <<log, issued, writeLog, req>>
        /\ status[p] = "live" => pc[p] = "idle"
    BY <1>10 DEF End, At
  <2> QED
    BY <2>1, PlainMove
<1>11. ASSUME NEW p \in Procs, CountLines(p) PROVE Effect
  <2>1. /\ Goto(p, "load") /\ UNCHANGED <<log, issued, writeLog, req>>
        /\ status[p] = "live" => pc[p] = "count"
    BY <1>11 DEF CountLines, At
  <2> QED
    BY <2>1, PlainMove
<1>12. ASSUME NEW p \in Procs, LoadLines(p) PROVE Effect
  <2>1. /\ Goto(p, "replay") /\ UNCHANGED <<log, issued, writeLog, req>>
        /\ status[p] = "live" => pc[p] = "load"
    BY <1>12 DEF LoadLines, At
  <2> QED
    BY <2>1, PlainMove
<1>13. ASSUME NEW p \in Procs, LoadOverrun(p) PROVE Effect
  BY <1>13, FaultIsQuiet DEF LoadOverrun
<1>14. ASSUME NEW p \in Procs, Replay(p) PROVE Effect
  BY <1>14, StayIsQuiet DEF Replay
<1>15. ASSUME NEW p \in Procs, ReplayFaults(p) PROVE Effect
  BY <1>15, FaultIsQuiet DEF ReplayFaults, CannotAddToTree
<1>16. ASSUME NEW p \in Procs, ReplayDone(p) PROVE Effect
  <2> DEFINE next == AfterReplay(p)
  <2>1. /\ status[p] = "live" /\ pc[p] = "replay" /\ Goto(p, next)
        /\ UNCHANGED <<log, issued, writeLog, req>>
    BY <1>16 DEF ReplayDone, At, TypeInv, TypeOK, HandlerLabels
  <2>2. /\ next \in {"lock", "journal", "logwrite"}
        /\ next = "journal" => req[p].op = "R"
        /\ next = "logwrite" => req[p].op # "R"
    BY <2>1 DEF AfterReplay
  <2> HIDE DEF next
  <2>3. req[p] # NoReq => Len(issued[p]) < MaxOps
    BY <2>1 DEF RoomInv, RoomOK
  <2> QED
    BY <2>1, <2>2, <2>3, MoveIsQuiet DEF InFlightLabels, Announced
<1>17. ASSUME NEW p \in Procs, TryLock(p) PROVE Effect
  <2>1. /\ Goto(p, "dump") /\ UNCHANGED <<log, issued, writeLog, req>>
        /\ status[p] = "live" => pc[p] = "lock"
    BY <1>17 DEF TryLock, At
  <2> QED
    BY <2>1, PlainMove
<1>18. ASSUME NEW p \in Procs, Spin(p) PROVE Effect
  BY <1>18, StayIsQuiet DEF Spin
<1>19. ASSUME NEW p \in Procs, GiveUp(p) PROVE Effect
  BY <1>19, StayIsQuiet DEF GiveUp, Exit, Gone
<1>20. ASSUME NEW p \in Procs, Dump(p) PROVE Effect
  <2>1. /\ Goto(p, "write") /\ UNCHANGED <<log, issued, writeLog, req>>
        /\ status[p] = "live" => pc[p] = "dump"
    BY <1>20 DEF Dump, At
  <2> QED
    BY <2>1, PlainMove
<1>21. ASSUME NEW p \in Procs, DumpFaults(p) PROVE Effect
  BY <1>21, FaultIsQuiet DEF DumpFaults
<1>22. ASSUME NEW p \in Procs, WriteJson(p) PROVE Effect
  <2>1. /\ Goto(p, "unlock") /\ UNCHANGED <<log, issued, writeLog, req>>
        /\ status[p] = "live" => pc[p] = "write"
    BY <1>22 DEF WriteJson, At
  <2> QED
    BY <2>1, PlainMove
<1>23. ASSUME NEW p \in Procs, Unlock(p) PROVE Effect
  BY <1>23, StayIsQuiet DEF Unlock, Gone
<1>24. ASSUME NEW p \in Procs, FindSnapshot(p) PROVE Effect
  <2>1. /\ Goto(p, "ask") /\ status[p] # "live"
        /\ UNCHANGED <<log, issued, writeLog, req>>
    BY <1>24 DEF FindSnapshot, At, TypeInv, TypeOK, MainLabels
  <2> QED
    BY <2>1, StayIsQuiet, GotoMoves DEF TypeInv
<1>25. ASSUME NEW p \in Procs, FindFaults(p) PROVE Effect
  BY <1>25, FaultIsQuiet DEF FindFaults
<1>26. ASSUME NEW p \in Procs, KeepFile(p) PROVE Effect
  <2>1. /\ Goto(p, "lock") /\ status[p] # "live"
        /\ UNCHANGED <<log, issued, writeLog, req>>
    BY <1>26 DEF KeepFile, At, TypeInv, TypeOK, MainLabels
  <2> QED
    BY <2>1, StayIsQuiet, GotoMoves DEF TypeInv
<1>27. ASSUME NEW p \in Procs, RevertUnlink(p) PROVE Effect
  <2>1. /\ Goto(p, "copy") /\ status[p] # "live"
        /\ UNCHANGED <<log, issued, writeLog, req>>
    BY <1>27 DEF RevertUnlink, At, TypeInv, TypeOK, MainLabels
  <2> QED
    BY <2>1, StayIsQuiet, GotoMoves DEF TypeInv
<1>28. ASSUME NEW p \in Procs, RevertCopy(p) PROVE Effect
  <2>1. /\ Goto(p, "lock") /\ status[p] # "live"
        /\ UNCHANGED <<log, issued, writeLog, req>>
    BY <1>28 DEF RevertCopy, At, TypeInv, TypeOK, MainLabels
  <2> QED
    BY <2>1, StayIsQuiet, GotoMoves DEF TypeInv
<1>29. ASSUME NEW p \in Procs, Signal(p) PROVE Effect
  BY <1>29, FaultIsQuiet DEF Signal
<1>30. ASSUME NEW p \in Procs, Kill(p) PROVE Effect
  BY <1>30, StayIsQuiet DEF Kill, Gone
<1>31. ASSUME NEW f \in Files, Remove(f) PROVE Effect
  BY <1>31, StayIsQuiet DEF Remove
<1>32. CASE UNCHANGED vars
  BY <1>32, StayIsQuiet DEF vars
<1>33. ASSUME NEW p \in Procs, RevertOpen(p) PROVE Effect
  <2>1. /\ Goto(p, "flock") /\ status[p] # "live"
        /\ UNCHANGED <<log, issued, writeLog, req>>
    BY <1>33 DEF RevertOpen, At, TypeInv, TypeOK, MainLabels
  <2> QED
    BY <2>1, StayIsQuiet, GotoMoves DEF TypeInv
<1>34. ASSUME NEW p \in Procs, RevertLock(p) PROVE Effect
  <2>1. /\ Goto(p, "unlink") /\ status[p] # "live"
        /\ UNCHANGED <<log, issued, writeLog, req>>
    BY <1>34 DEF RevertLock, At, TypeInv, TypeOK, MainLabels
  <2> QED
    BY <2>1, StayIsQuiet, GotoMoves DEF TypeInv
<1>35. ASSUME NEW p \in Procs, RevertFails(p) PROVE Effect
  <2>1. /\ Goto(p, "lock") /\ status[p] # "live"
        /\ UNCHANGED <<log, issued, writeLog, req>>
    BY <1>35 DEF RevertFails, At, TypeInv, TypeOK, MainLabels
  <2> QED
    BY <2>1, StayIsQuiet, GotoMoves DEF TypeInv
<1>36. ASSUME NEW p \in Procs, SaveFails(p) PROVE Effect
  <2>1. /\ Goto(p, "unsaved") /\ UNCHANGED <<log, issued, writeLog, req>>
        /\ status[p] = "live" => pc[p] \in {"dump", "write"}
    BY <1>36 DEF SaveFails, At
  <2> QED
    BY <2>1, PlainMove
<1> QED
  BY <1>1, <1>2, <1>3, <1>4, <1>5, <1>6, <1>7, <1>8, <1>9, <1>10, <1>11,
     <1>12, <1>13, <1>14, <1>15, <1>16, <1>17, <1>18, <1>19, <1>20, <1>21,
     <1>22, <1>23, <1>24, <1>25, <1>26, <1>27, <1>28, <1>29, <1>30, <1>31,
     <1>32, <1>33, <1>34, <1>35, <1>36
  DEF Next, Call, Work, Operate, Rebuild, Extract, Answer, Handle, AllGone

-----------------------------------------------------------------------------
(* The counts                                                              *)

Flights(e) == {p \in Procs : InFlight(p, e)}

\* The operations of one kind that were made, and those on their way, are
\* finitely many, and as many as there are entries.
CountOK(e) ==
    /\ IsFiniteSet(IssuedBy(e)) /\ IsFiniteSet(Flights(e))
    /\ Occurrences(e, log) = Cardinality(IssuedBy(e)) + Cardinality(Flights(e))

AnnouncedOK(p) == writeLog[p] = WritesAnnounced(p)

CountInv == RoomInv /\ (\A e \in Requests : CountOK(e))
                    /\ (\A p \in Procs : AnnouncedOK(p))

LEMMA InitCounts == Init => CountInv
<1> SUFFICES ASSUME Init PROVE CountInv
  OBVIOUS
<1>1. /\ \A p \in Procs : issued[p] = <<>> /\ req[p] = NoReq
                          /\ pc[p] = "idle" /\ writeLog[p] = 0
      /\ log = <<>>
  BY DEF Init
<1>2. Len(<<>>) = 0
  BY EmptySeq
<1>3. RoomInv
  BY <1>1, <1>2, BoundsAssumption DEF RoomInv, RoomOK
<1>4. ASSUME NEW e \in Requests PROVE CountOK(e)
  <2>1. IssuedBy(e) = {} /\ Flights(e) = {}
    BY <1>1, <1>2 DEF IssuedBy, Flights, InFlight
  <2>2. Occurrences(e, log) = 0
    <3>1. {i \in 1 .. Len(log) : log[i] = e} = {}
      BY <1>1, <1>2
    <3> QED
      BY <3>1, FS_EmptySet DEF Occurrences
  <2> QED
    BY <2>1, <2>2, FS_EmptySet DEF CountOK
<1>5. ASSUME NEW p \in Procs PROVE AnnouncedOK(p)
  <2>1. {i \in 1 .. Len(issued[p]) : issued[p][i].op # "R"} = {}
    BY <1>1, <1>2
  <2>2. Cardinality({i \in 1 .. Len(issued[p]) : issued[p][i].op # "R"}) = 0
    BY <2>1, FS_EmptySet
  <2>3. WritesAnnounced(p) = 0
    BY <1>1, <2>2 DEF WritesAnnounced
  <2> QED
    BY <1>1, <2>3 DEF AnnouncedOK
<1> QED
  BY <1>3, <1>4, <1>5 DEF CountInv

LEMMA QuietCounts ==
    ASSUME CountInv, Quiet
    PROVE  CountInv'
<1>1. UNCHANGED <<log, issued, writeLog>> /\ \A p \in Procs : Keeps(p)
  BY DEF Quiet
<1>2. RoomInv'
  BY <1>1 DEF CountInv, RoomInv, RoomOK, Keeps
<1>3. ASSUME NEW e \in Requests PROVE CountOK(e)'
  <2>1. CountOK(e)
    BY DEF CountInv
  <2>2. IssuedBy(e)' = IssuedBy(e)
    BY <1>1 DEF IssuedBy
  <2>3. Flights(e)' = Flights(e)
    BY <1>1 DEF Flights, InFlight, Keeps, InFlightLabels
  <2>4. Occurrences(e, log)' = Occurrences(e, log)
    BY <1>1 DEF Occurrences
  <2> QED
    BY <2>1, <2>2, <2>3, <2>4 DEF CountOK
<1>4. ASSUME NEW p \in Procs PROVE AnnouncedOK(p)'
  <2>1. AnnouncedOK(p) /\ Keeps(p)
    BY <1>1 DEF CountInv
  <2> QED
    BY <1>1, <2>1 DEF AnnouncedOK, WritesAnnounced, Keeps, Announced
<1> QED
  BY <1>2, <1>3, <1>4 DEF CountInv

LEMMA AnnounceCounts ==
    ASSUME TypeInv, CountInv, NEW p \in Procs, Announces(p)
    PROVE  CountInv'
<1>1. /\ pc[p] = "logwrite" /\ pc'[p] = "journal"
      /\ \A q \in Procs : q # p => pc'[q] = pc[q]
      /\ UNCHANGED <<log, issued, req>>
  BY DEF Announces, TypeInv, TypeOK
<1>2. RoomInv'
  BY <1>1 DEF CountInv, RoomInv, RoomOK
<1>3. ASSUME NEW e \in Requests PROVE CountOK(e)'
  <2>1. CountOK(e)
    BY DEF CountInv
  <2>2. IssuedBy(e)' = IssuedBy(e)
    BY <1>1 DEF IssuedBy
  <2>3. Flights(e)' = Flights(e)
    BY <1>1 DEF Flights, InFlight
  <2>4. Occurrences(e, log)' = Occurrences(e, log)
    BY <1>1 DEF Occurrences
  <2> QED
    BY <2>1, <2>2, <2>3, <2>4 DEF CountOK
<1>4. ASSUME NEW q \in Procs PROVE AnnouncedOK(q)'
  <2>1. AnnouncedOK(q)
    BY DEF CountInv
  <2>2. writeLog' = [writeLog EXCEPT ![p] = @ + 1]
    BY DEF Announces
  <2>3. CASE q # p
    <3>1. writeLog'[q] = writeLog[q]
      BY <2>2, <2>3 DEF TypeInv, TypeOK
    <3> QED
      BY <1>1, <2>1, <2>3, <3>1 DEF AnnouncedOK, WritesAnnounced
  <2>4. CASE q = p
    <3>1. writeLog'[p] = writeLog[p] + 1
      BY <2>2 DEF TypeInv, TypeOK
    <3>2. req[p].op # "R"
      BY <1>1 DEF CountInv, RoomInv, RoomOK
    <3>3. issued[p] \in Seq(Entry)
      BY DEF TypeInv, TypeOK
    <3>4. Cardinality({i \in 1 .. Len(issued[p]) : issued[p][i].op # "R"})
            \in Nat
      BY <3>3, WritesFinite DEF Writes
    <3> HIDE DEF CountInv
    <3> QED
      BY <1>1, <2>1, <2>4, <3>1, <3>2, <3>4 DEF AnnouncedOK, WritesAnnounced
  <2> QED
    BY <2>3, <2>4
<1> QED
  BY <1>2, <1>3, <1>4 DEF CountInv

LEMMA EnterCounts ==
    ASSUME TypeInv, CountInv, NEW p \in Procs, Enters(p)
    PROVE  CountInv'
<1>1. /\ pc[p] = "journal" /\ pc'[p] = "insert" /\ req[p] \in Requests
      /\ \A q \in Procs : q # p => pc'[q] = pc[q]
      /\ log' = Append(log, req[p])
      /\ UNCHANGED <<issued, writeLog, req>>
  BY DEF Enters, TypeInv, TypeOK
<1>2. RoomInv'
  BY <1>1 DEF CountInv, RoomInv, RoomOK
<1>3. ASSUME NEW e \in Requests PROVE CountOK(e)'
  <2>1. CountOK(e)
    BY DEF CountInv
  <2>2. IssuedBy(e)' = IssuedBy(e)
    BY <1>1 DEF IssuedBy
  <2>3. Flights(e)' = IF req[p] = e THEN Flights(e) \cup {p} ELSE Flights(e)
    BY <1>1 DEF Flights, InFlight
  <2>4. p \notin Flights(e)
    BY <1>1 DEF Flights, InFlight
  <2>5. /\ Occurrences(e, log) \in Nat
        /\ Occurrences(e, log)' = IF req[p] = e THEN Occurrences(e, log) + 1
                                                ELSE Occurrences(e, log)
    <3>1. log \in Seq(Entry) /\ req[p] \in Entry
      BY <1>1, RequestsAreCalls DEF TypeInv, TypeOK
    <3>2. Occurrences(e, log)' = Occurrences(e, log')
      BY DEF Occurrences
    <3> QED
      BY <1>1, <3>1, <3>2, OccurrencesGrow
  <2>6. /\ IsFiniteSet(Flights(e) \cup {p})
        /\ Cardinality(Flights(e) \cup {p}) = Cardinality(Flights(e)) + 1
    BY <2>1, <2>4, FS_AddElement DEF CountOK
  <2>7. Cardinality(IssuedBy(e)) \in Nat /\ Cardinality(Flights(e)) \in Nat
    BY <2>1, FS_CardinalityType DEF CountOK
  <2>8. CASE req[p] = e
    BY <2>1, <2>2, <2>3, <2>5, <2>6, <2>7, <2>8 DEF CountOK
  <2>9. CASE req[p] # e
    BY <2>1, <2>2, <2>3, <2>5, <2>9 DEF CountOK
  <2> QED
    BY <2>8, <2>9
<1>4. ASSUME NEW q \in Procs PROVE AnnouncedOK(q)'
  <2>1. AnnouncedOK(q)
    BY DEF CountInv
  <2>2. /\ issued'[q] = issued[q] /\ writeLog'[q] = writeLog[q]
        /\ req'[q] = req[q]
        /\ pc'[q] \in {"journal", "insert", "io"}
             <=> pc[q] \in {"journal", "insert", "io"}
    BY <1>1
  <2> QED
    BY <2>1, <2>2 DEF AnnouncedOK, WritesAnnounced
<1> QED
  BY <1>2, <1>3, <1>4 DEF CountInv

LEMMA IssuedByGrows ==
    ASSUME TypeInv, RoomInv, NEW p \in Procs, Issues(p), NEW e
    PROVE  /\ IssuedBy(e)' = IF req[p] = e
                             THEN IssuedBy(e) \cup {<<p, Len(issued[p]) + 1>>}
                             ELSE IssuedBy(e)
           /\ <<p, Len(issued[p]) + 1>> \notin IssuedBy(e)
<1> DEFINE n == Len(issued[p]) + 1
<1>1. /\ issued[p] \in Seq(Entry) /\ req[p] \in Entry /\ req[p] # NoReq
      /\ issued'[p] = Append(issued[p], req[p])
      /\ \A q \in Procs : q # p => issued'[q] = issued[q]
  BY RequestsAreCalls DEF Issues, TypeInv, TypeOK
<1>2. /\ Len(issued[p]) \in Nat /\ Len(issued'[p]) = n
      /\ \A i \in 1 .. Len(issued[p]) : issued'[p][i] = issued[p][i]
      /\ issued'[p][n] = req[p]
  BY <1>1, AppendProperties
<1>3. n \in 1 .. MaxOps
  <2>1. Len(issued[p]) < MaxOps
    BY <1>1 DEF RoomInv, RoomOK
  <2> QED
    BY <1>2, <2>1, BoundsAssumption
<1> HIDE DEF n
<1>4. ASSUME NEW q \in Procs, NEW i \in 1 .. MaxOps
      PROVE  (i <= Len(issued'[q]) /\ issued'[q][i] = e)
               <=> \/ i <= Len(issued[q]) /\ issued[q][i] = e
                   \/ q = p /\ i = n /\ req[p] = e
  <2>1. CASE q # p
    BY <1>1, <2>1
  <2>2. CASE q = p /\ i = n
    BY <1>2, <2>2 DEF n
  <2>3. CASE q = p /\ i # n
    <3>1. i <= Len(issued'[p]) <=> i \in 1 .. Len(issued[p])
      BY <1>2, <2>3 DEF n
    <3> QED
      BY <1>2, <2>3, <3>1
  <2> QED
    BY <2>1, <2>2, <2>3
<1>5. <<p, n>> \in Procs \X (1 .. MaxOps)
  BY <1>3
<1>6. IssuedBy(e)' = {x \in Procs \X (1 .. MaxOps) :
                        \/ x[2] <= Len(issued[x[1]]) /\ issued[x[1]][x[2]] = e
                        \/ x = <<p, n>> /\ req[p] = e}
  <2>1. ASSUME NEW x \in Procs \X (1 .. MaxOps)
        PROVE  (x[2] <= Len(issued'[x[1]]) /\ issued'[x[1]][x[2]] = e)
                 <=> \/ x[2] <= Len(issued[x[1]]) /\ issued[x[1]][x[2]] = e
                     \/ x = <<p, n>> /\ req[p] = e
    <3>1. x = <<x[1], x[2]>> /\ x[1] \in Procs /\ x[2] \in 1 .. MaxOps
      OBVIOUS
    <3>2. x = <<p, n>> <=> x[1] = p /\ x[2] = n
      BY <3>1
    <3> QED
      BY <1>4, <3>1, <3>2
  <2> QED
    BY <2>1 DEF IssuedBy
<1>7. <<p, n>> \notin IssuedBy(e)
  BY <1>2 DEF IssuedBy, n
<1>8. CASE req[p] = e
  BY <1>5, <1>6, <1>7, <1>8 DEF IssuedBy, n
<1>9. CASE req[p] # e
  BY <1>6, <1>7, <1>9 DEF IssuedBy, n
<1> QED
  BY <1>8, <1>9

LEMMA IssueCounts ==
    ASSUME TypeInv, CountInv, NEW p \in Procs, Issues(p)
    PROVE  CountInv'
<1>1. /\ pc[p] = "io" /\ pc'[p] = "idle"
      /\ req[p] \in Requests /\ req'[p] = NoReq
      /\ \A q \in Procs : q # p => pc'[q] = pc[q] /\ req'[q] = req[q]
                                   /\ issued'[q] = issued[q]
      /\ UNCHANGED <<log, writeLog>>
  BY DEF Issues, TypeInv, TypeOK
<1>2. /\ issued[p] \in Seq(Entry) /\ req[p] \in Entry /\ req[p] # NoReq
      /\ issued'[p] = Append(issued[p], req[p])
  BY <1>1, RequestsAreCalls DEF Issues, TypeInv, TypeOK
<1>3. RoomInv /\ RoomInv'
  <2>1. RoomInv
    BY DEF CountInv
  <2>2. Len(issued'[p]) <= MaxOps
    <3>1. Len(issued[p]) < MaxOps
      BY <1>2, <2>1 DEF RoomInv, RoomOK
    <3>2. Len(issued'[p]) = Len(issued[p]) + 1 /\ Len(issued[p]) \in Nat
      BY <1>2, AppendProperties
    <3> QED
      BY <3>1, <3>2, BoundsAssumption
  <2>3. ASSUME NEW q \in Procs PROVE RoomOK(q)'
    <3>1. CASE q = p
      BY <1>1, <2>2, <3>1 DEF RoomOK
    <3>2. CASE q # p
      BY <1>1, <2>1, <3>2 DEF RoomInv, RoomOK
    <3> QED
      BY <3>1, <3>2
  <2> QED
    BY <2>1, <2>3 DEF RoomInv
<1>4. ASSUME NEW e \in Requests PROVE CountOK(e)'
  <2> DEFINE x == <<p, Len(issued[p]) + 1>>
  <2>1. CountOK(e)
    BY DEF CountInv
  <2>2. /\ IssuedBy(e)' = IF req[p] = e THEN IssuedBy(e) \cup {x}
                                        ELSE IssuedBy(e)
        /\ x \notin IssuedBy(e)
    BY <1>3, IssuedByGrows
  <2> HIDE DEF x
  <2>3. /\ Flights(e)' = IF req[p] = e THEN Flights(e) \ {p} ELSE Flights(e)
        /\ req[p] = e => p \in Flights(e)
    BY <1>1 DEF Flights, InFlight
  <2>4. Occurrences(e, log)' = Occurrences(e, log)
    BY <1>1 DEF Occurrences
  <2>5. /\ IsFiniteSet(IssuedBy(e) \cup {x}) /\ IsFiniteSet(Flights(e) \ {p})
        /\ Cardinality(IssuedBy(e) \cup {x}) = Cardinality(IssuedBy(e)) + 1
        /\ req[p] = e
             => Cardinality(Flights(e) \ {p}) = Cardinality(Flights(e)) - 1
    BY <2>1, <2>2, <2>3, FS_AddElement, FS_RemoveElement DEF CountOK
  <2>6. Cardinality(IssuedBy(e)) \in Nat /\ Cardinality(Flights(e)) \in Nat
    BY <2>1, FS_CardinalityType DEF CountOK
  <2>7. CASE req[p] = e
    BY <2>1, <2>2, <2>3, <2>4, <2>5, <2>6, <2>7 DEF CountOK
  <2>8. CASE req[p] # e
    BY <2>1, <2>2, <2>3, <2>4, <2>8 DEF CountOK
  <2> QED
    BY <2>7, <2>8
<1>5. ASSUME NEW q \in Procs PROVE AnnouncedOK(q)'
  <2>1. AnnouncedOK(q)
    BY DEF CountInv
  <2>2. CASE q # p
    BY <1>1, <2>1, <2>2 DEF AnnouncedOK, WritesAnnounced
  <2>3. CASE q = p
    <3>1. /\ WritesAnnounced(p) = Cardinality(Writes(issued[p]))
                                  + IF req[p].op # "R" THEN 1 ELSE 0
          /\ WritesAnnounced(p)' = Cardinality(Writes(issued'[p])) + 0
      BY <1>1 DEF WritesAnnounced, Writes
    <3>2. /\ Cardinality(Writes(issued[p])) \in Nat
          /\ Cardinality(Writes(issued'[p]))
               = IF req[p].op # "R" THEN Cardinality(Writes(issued[p])) + 1
                                    ELSE Cardinality(Writes(issued[p]))
      BY <1>2, WritesGrow
    <3>3. WritesAnnounced(p)' = WritesAnnounced(p)
      BY <3>1, <3>2
    <3> QED
      BY <1>1, <2>1, <2>3, <3>3 DEF AnnouncedOK
  <2> QED
    BY <2>2, <2>3
<1> QED
  BY <1>3, <1>4, <1>5 DEF CountInv

\* In every run, each entry of the journal is an operation that was made or is
\* on its way to being made, each of these is journalled exactly once and in the
\* order of its process, and log.txt has a line for each write.
THEOREM JournalsAreAhead == Spec => []WriteAhead
<1>1. Init => CountInv
  BY InitCounts
<1>2. IndInv /\ CountInv /\ [Next]_vars => CountInv'
  <2> SUFFICES ASSUME IndInv, CountInv, [Next]_vars PROVE CountInv'
    OBVIOUS
  <2>1. TypeInv /\ RoomInv
    BY DEF IndInv, CountInv
  <2>2. Quiet \/ \E p \in Procs : Announces(p) \/ Enters(p) \/ Issues(p)
    BY <2>1, StepCounts
  <2> QED
    BY <2>1, <2>2, QuietCounts, AnnounceCounts, EnterCounts, IssueCounts
<1>3. IndInv /\ CountInv => WriteAhead
  BY DEF IndInv, ScanInv, OwnOK, CountInv, CountOK, AnnouncedOK, Flights,
         WriteAhead
<1> QED
  BY <1>1, <1>2, <1>3, IndInvInvariant, PTL DEF Spec
=============================================================================
