--------------------------- MODULE SpinLogProofs ----------------------------
(***************************************************************************)
(* What the spin lock of log.c guarantees to any number of threads making  *)
(* any number of calls, unless one of them initialises it beside another.  *)
(***************************************************************************)
EXTENDS SpinLog, TLAPS

\* A race is on record while it lasts, and but for one, whoever is in the
\* section has taken the word.
LockInv ==
    /\ Racing => raced
    /\ ~raced => /\ \A t \in Threads : InSection(t) => tree_lock
                 /\ MutualExclusion

\* The count of a scan cannot age while the section is held.
ScanInv ==
    ~raced =>
        /\ \A t \in Threads : pc[t] = "load" => count[t] = line_total
        /\ \A t \in Threads :
             pc[t] \in {"count", "load", "append"}
                 => (call[t] = "scan" <=> pc[t] # "append")
        /\ ScanFits

\* The types every call keeps, from the flag unset on.
THEOREM TypeCorrect == Spec => []TypeOK
<1>1. Init => TypeOK
  <2> SUFFICES ASSUME Init PROVE TypeOK
    OBVIOUS
  <2>1. /\ is_tree_lock_initialized \in BOOLEAN
        /\ tree_lock \in BOOLEAN /\ raced \in BOOLEAN
    BY Zenon DEF Init
  <2> QED BY <2>1, MaxCallsAssumption DEF Init, TypeOK, Labels
<1>2. TypeOK /\ [Next]_vars => TypeOK'
  <2> SUFFICES ASSUME TypeOK, [Next]_vars PROVE TypeOK'
    OBVIOUS
  <2>0. Track => raced' \in BOOLEAN
    BY Zenon DEF Track
  <2> USE MaxCallsAssumption, CallsAssumption DEF TypeOK, Labels, Goto, file
  <2>1. ASSUME NEW t \in Threads, NEW c \in Calls \ {"destroy"}, Begin(t, c)
        PROVE  TypeOK'
    BY <2>0, <2>1 DEF Begin
  <2>2. ASSUME NEW t \in Threads, Destroy(t) PROVE TypeOK'
    <3>1. is_tree_lock_initialized' \in BOOLEAN
      BY <2>2, Zenon DEF Destroy
    <3> QED BY <2>0, <2>2, <3>1 DEF Destroy
  <2>3. ASSUME NEW t \in Threads, Step(t) PROVE TypeOK'
    <3>0. raced' \in BOOLEAN
      BY <2>0, <2>3 DEF Step
    <3>1. CASE Check(t)
      BY <3>0, <3>1 DEF Check
    <3>2. CASE InitLock(t)
      BY <3>0, <3>2 DEF InitLock
    <3>3. CASE SetFlag(t)
      BY <3>0, <3>3 DEF SetFlag
    <3>4. CASE SpinLock(t)
      BY <3>0, <3>4 DEF SpinLock
    <3>5. CASE OpenFails(t)
      BY <3>0, <3>5 DEF OpenFails
    <3>6. CASE AppendLine(t)
      BY <3>0, <3>6 DEF AppendLine
    <3>7. CASE CountLines(t)
      BY <3>0, <3>7 DEF CountLines
    <3>8. CASE LoadLines(t)
      BY <3>0, <3>8 DEF LoadLines
    <3>9. CASE Release(t)
      BY <3>0, <3>9 DEF Release
    <3> QED BY <2>3, <3>1, <3>2, <3>3, <3>4, <3>5, <3>6, <3>7, <3>8, <3>9
               DEF Step
  <2>4. CASE Finished
    BY <2>4 DEF Finished, vars
  <2>5. CASE UNCHANGED vars
    BY <2>5 DEF vars
  <2> QED BY <2>1, <2>2, <2>3, <2>4, <2>5 DEF Next
<1> QED BY <1>1, <1>2, PTL DEF Spec

\* A step that is not raced ends a race or begins in none, and where it began
\* in none, a thread that initialises the lock is alone.
LEMMA NoRace ==
    ASSUME TypeOK, LockInv, [Next]_vars, ~raced'
    PROVE  /\ ~Racing'
           /\ AllIdle' \/ ~raced
           /\ ~raced => \A t, u \in Threads :
                          pc[t] \in {"init", "setflag"} /\ t # u
                              => pc[u] = "idle"
<1>1. ~raced => ~Racing
  BY DEF LockInv
<1>2. CASE Track
  BY <1>1, <1>2 DEF Track, Racing
<1>3. CASE UNCHANGED vars
  BY <1>1, <1>3 DEF vars, Racing
<1> QED
  BY <1>2, <1>3 DEF Next, Begin, Destroy, Step, Finished

\* Whoever initialises the lock is alone in a call, and whoever is in the
\* section holds it.
LEMMA LockKept ==
    ASSUME TypeOK, LockInv, [Next]_vars
    PROVE  LockInv'
<1> DEFINE Held == /\ \A t \in Threads : InSection(t) => tree_lock
                   /\ \A t, u \in Threads : InSection(t) /\ InSection(u) => t = u
<1>0. SUFFICES ASSUME ~raced' PROVE Held'
  <2>1. Racing' => raced'
    BY NoRace
  <2>2. Held' => MutualExclusion'
    BY Zenon DEF MutualExclusion
  <2> QED
    BY <2>1, <2>2, <1>0 DEF LockInv
<1>1. CASE AllIdle'
  BY <1>1 DEF AllIdle, InSection
<1>2. CASE ~raced
  <2>0. Held
    BY <1>2 DEF LockInv, MutualExclusion
  <2>1. \A t, u \in Threads :
           pc[t] \in {"init", "setflag"} /\ t # u => pc[u] = "idle"
    BY <1>0, <1>2, NoRace
  <2> USE <2>0 DEF TypeOK, Labels, InSection, Goto, file
  <2>2. ASSUME NEW t \in Threads, NEW c \in Calls \ {"destroy"}, Begin(t, c)
        PROVE  Held'
    BY <2>2 DEF Begin
  <2>3. ASSUME NEW t \in Threads, Destroy(t) PROVE Held'
    BY <2>3 DEF Destroy
  <2>4. ASSUME NEW t \in Threads, Check(t) PROVE Held'
    BY <2>4 DEF Check
  <2>5. ASSUME NEW t \in Threads, InitLock(t) PROVE Held'
    <3>1. \A u \in Threads : ~InSection(u)'
      BY <2>1, <2>5 DEF InitLock
    <3> QED BY <3>1
  <2>6. ASSUME NEW t \in Threads, SetFlag(t) PROVE Held'
    BY <2>6 DEF SetFlag
  <2>7. ASSUME NEW t \in Threads, SpinLock(t) PROVE Held'
    BY <2>7 DEF SpinLock
  <2>8. ASSUME NEW t \in Threads,
               OpenFails(t) \/ AppendLine(t) \/ CountLines(t) \/ LoadLines(t)
        PROVE  Held'
    <3>1. InSection(t) /\ InSection(t)'
      BY <2>8 DEF OpenFails, AppendLine, CountLines, LoadLines
    <3>2. \A u \in Threads \ {t} : pc'[u] = pc[u]
      BY <2>8 DEF OpenFails, AppendLine, CountLines, LoadLines
    <3>3. UNCHANGED tree_lock
      BY <2>8 DEF OpenFails, AppendLine, CountLines, LoadLines
    <3> QED BY <3>1, <3>2, <3>3
  <2>9. ASSUME NEW t \in Threads, Release(t) PROVE Held'
    BY <2>9 DEF Release
  <2>10. CASE Finished \/ UNCHANGED vars
    BY <2>10 DEF Finished, vars
  <2> QED
    BY <2>2, <2>3, <2>4, <2>5, <2>6, <2>7, <2>8, <2>9, <2>10 DEF Next, Step
<1> QED
  BY <1>0, <1>1, <1>2, NoRace

\* Under the lock, the count and the load of one scan see one file.
LEMMA ScanKept ==
    ASSUME TypeOK, LockInv, ScanInv, [Next]_vars
    PROVE  ScanInv'
<1>0. SUFFICES ASSUME ~raced' PROVE ScanInv'
  BY DEF ScanInv
<1>1. CASE AllIdle'
  BY <1>1 DEF AllIdle, ScanInv, ScanFits
<1>2. CASE ~raced
  <2> USE <1>2 DEF TypeOK, Labels, ScanInv, ScanFits, Goto, file
  <2>1. ASSUME NEW t \in Threads, NEW c \in Calls \ {"destroy"}, Begin(t, c)
        PROVE  ScanInv'
    BY <2>1 DEF Begin
  <2>2. ASSUME NEW t \in Threads,
               Destroy(t) \/ Check(t) \/ InitLock(t) \/ SetFlag(t)
        PROVE  ScanInv'
    <3>1. /\ UNCHANGED <<line_total, count, stored, call>>
          /\ \A u \in Threads : u # t => pc'[u] = pc[u]
          /\ pc'[t] \in {"idle", "init", "setflag", "spin"}
      BY <2>2 DEF Destroy, Check, InitLock, SetFlag
    <3> QED BY <3>1
  <2>4. ASSUME NEW t \in Threads, SpinLock(t) PROVE ScanInv'
    BY <2>4 DEF SpinLock
  <2>5. ASSUME NEW t \in Threads, OpenFails(t) PROVE ScanInv'
    BY <2>5 DEF OpenFails
  <2>6. ASSUME NEW t \in Threads, AppendLine(t) PROVE ScanInv'
    <3>1. \A u \in Threads : pc[u] # "load"
      BY <2>6 DEF AppendLine, LockInv, MutualExclusion, InSection
    <3> QED BY <2>6, <3>1 DEF AppendLine
  <2>7. ASSUME NEW t \in Threads, CountLines(t) PROVE ScanInv'
    BY <2>7 DEF CountLines
  <2>8. ASSUME NEW t \in Threads, LoadLines(t) PROVE ScanInv'
    BY <2>8 DEF LoadLines
  <2>9. ASSUME NEW t \in Threads, Release(t) PROVE ScanInv'
    BY <2>9 DEF Release
  <2>10. CASE Finished \/ UNCHANGED vars
    BY <2>10 DEF Finished, vars
  <2> QED
    BY <2>1, <2>2, <2>4, <2>5, <2>6, <2>7, <2>8, <2>9, <2>10 DEF Next, Step
<1> QED
  BY <1>0, <1>1, <1>2, NoRace

LEMMA InitKept == Init => LockInv /\ ScanInv
BY DEF Init, LockInv, ScanInv, ScanFits, MutualExclusion, InSection, Racing

\* Any number of threads, any number of calls, from the first one on: one at a
\* time between acquire and release, but for the calls that a race over the
\* initialisation caught.
THEOREM LockExcludes == Spec => []MutualExclusion
<1>1. TypeOK /\ LockInv /\ [Next]_vars => LockInv'
  BY LockKept
<1>2. LockInv => MutualExclusion
  BY DEF LockInv, MutualExclusion
<1> QED BY <1>1, <1>2, InitKept, TypeCorrect, PTL DEF Spec

\* Any number of threads, any number of calls, from the first one on: a scan
\* has room for every line it stores, but for the calls that a race over the
\* initialisation caught.
THEOREM ScansFit == Spec => []ScanFits
<1>1. TypeOK /\ LockInv /\ ScanInv /\ [Next]_vars => (LockInv /\ ScanInv)'
  BY LockKept, ScanKept
<1>2. ScanInv => ScanFits
  BY DEF ScanInv, ScanFits
<1> QED BY <1>1, <1>2, InitKept, TypeCorrect, PTL DEF Spec
=============================================================================
