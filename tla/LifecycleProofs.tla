-------------------------- MODULE LifecycleProofs --------------------------
(***************************************************************************)
(* Proofs about the named semaphore of ServerLifecycle, for any number of  *)
(* processes, of crashes and of signals.                                   *)
(***************************************************************************)
EXTENDS ServerLifecycle, TLAPS

USE ProcsAssumption, CommandsAssumption, LifecycleBounds

-----------------------------------------------------------------------------
LEMMA LockInit == Init => LockInv
<1> SUFFICES ASSUME Init PROVE LockInv
  OBVIOUS
<1>1. TypeOK
  BY DEF Init, TypeOK, Label, Objects, flags
<1>2. \A p \in Procs : pc[p] = "begin" /\ holds[p] = "none"
  BY DEF Init
<1>3. \A o \in Objects : sem[o] = 1
  BY DEF Init
<1> QED
  BY <1>1, <1>2, <1>3 DEF LockInv, UsesWhatIsOpen, HoldersAreInside, HeldByOne, ZeroIsHeld,
                          Locking, Inside

-----------------------------------------------------------------------------
\* A step in which a process neither takes nor posts its semaphore, and opens none.
LEMMA LockUnmoved ==
  ASSUME LockInv, NEW p \in Procs, NEW l \in Label, pc' = [pc EXCEPT ![p] = l],
         pc[p] # "dead", UNCHANGED <<sem, holds, mtx, interruptions>>,
         Inside(p) => Inside(p)' \/ l = "dead", Inside(p)' => Inside(p),
         Locking(p)' => Locking(p), l \in {"read", "write"} => mem'[p] # "none",
         \A q \in Procs \ {p} : mem'[q] = mem[q]
  PROVE  UsesWhatIsOpen' /\ HoldersAreInside' /\ HeldByOne' /\ ZeroIsHeld'
<1>1. pc'[p] = l /\ \A q \in Procs \ {p} : pc'[q] = pc[q]
  BY DEF LockInv, TypeOK
<1>2. UsesWhatIsOpen'
  BY <1>1 DEF LockInv, UsesWhatIsOpen, Locking, Inside
<1>3. HoldersAreInside'
  BY <1>1 DEF LockInv, HoldersAreInside, Inside
<1>4. HeldByOne'
  BY <1>1 DEF LockInv, HeldByOne, Inside
<1>5. ZeroIsHeld'
  BY DEF LockInv, ZeroIsHeld
<1> QED
  BY <1>2, <1>3, <1>4, <1>5

\* A step in which a process that is outside opens a semaphore, or none.
LEMMA LockOpened ==
  ASSUME LockInv, NEW p \in Procs, NEW l \in Label, NEW m, pc' = [pc EXCEPT ![p] = l],
         mtx' = [mtx EXCEPT ![p] = m], UNCHANGED <<sem, holds, mem, interruptions>>,
         pc[p] \in {"open", "openAgain", "create"},
         l \in {"lock", "lockAgain", "openAgain", "create", "ended"},
         l \in {"lock", "lockAgain"} => m # "none"
  PROVE  UsesWhatIsOpen' /\ HoldersAreInside' /\ HeldByOne' /\ ZeroIsHeld'
<1>1. /\ pc'[p] = l /\ mtx'[p] = m
      /\ \A q \in Procs \ {p} : pc'[q] = pc[q] /\ mtx'[q] = mtx[q]
  BY DEF LockInv, TypeOK
<1>2. holds[p] = "none"
  BY DEF LockInv, HoldersAreInside, Inside
<1>3. UsesWhatIsOpen'
  BY <1>1 DEF LockInv, UsesWhatIsOpen, Locking, Inside
<1>4. HoldersAreInside'
  BY <1>1, <1>2 DEF LockInv, HoldersAreInside, Inside
<1>5. HeldByOne'
  BY <1>1, <1>2 DEF LockInv, HeldByOne, Inside
<1>6. ZeroIsHeld'
  BY DEF LockInv, ZeroIsHeld
<1> QED
  BY <1>3, <1>4, <1>5, <1>6

\* GlobalMutex::lock, when sem_wait takes the semaphore.
LEMMA LockTaken ==
  ASSUME LockInv, NEW p \in Procs, Lock(p)
  PROVE  UsesWhatIsOpen' /\ HoldersAreInside' /\ HeldByOne' /\ ZeroIsHeld'
<1> DEFINE m == mtx[p]
<1>1. /\ m \in Objects /\ holds[p] = "none" /\ sem[m] \in Nat /\ sem[m] > 0
  BY DEF Lock, LockInv, UsesWhatIsOpen, HoldersAreInside, Locking, Inside, TypeOK
<1>2. /\ pc'[p] \in {"openMem", "openMemAgain"}
      /\ \A q \in Procs \ {p} : pc'[q] = pc[q] /\ holds'[q] = holds[q]
      /\ holds'[p] = m /\ sem'[m] = sem[m] - 1
      /\ \A o \in Objects \ {m} : sem'[o] = sem[o]
      /\ UNCHANGED <<mtx, mem, interruptions>>
  BY <1>1 DEF Lock, Goes, LockTo, LockInv, TypeOK, Local, history, opened
<1>3. UsesWhatIsOpen'
  BY <1>1, <1>2 DEF LockInv, UsesWhatIsOpen, Locking, Inside, Objects
<1>4. HoldersAreInside'
  BY <1>2 DEF LockInv, HoldersAreInside, Inside
<1>5. HeldByOne'
  <2> SUFFICES ASSUME interruptions = 0
               PROVE  /\ \A o \in Objects : sem'[o] <= 1
                      /\ \A q \in Procs : holds'[q] # "none" => sem'[holds'[q]] = 0
                      /\ \A q, r \in Procs : holds'[q] # "none" /\ holds'[q] = holds'[r] => q = r
                      /\ \A q \in Procs : Inside(q)' => holds'[q] = mtx'[q]
    BY <1>2 DEF HeldByOne
  <2>1. sem[m] = 1
    BY <1>1 DEF LockInv, HeldByOne
  <2>2. \A q \in Procs : holds[q] # m
    BY <1>1 DEF LockInv, HeldByOne, Objects
  <2>3. \A q \in Procs : holds[q] \in Objects \union {"none"}
    BY DEF LockInv, TypeOK
  <2> QED
    BY <1>1, <1>2, <2>1, <2>2, <2>3 DEF LockInv, HeldByOne, Inside
<1>6. ZeroIsHeld'
  <2> SUFFICES ASSUME NEW o \in Objects, sem'[o] = 0
               PROVE  \E q \in Procs : holds'[q] = o
    BY DEF ZeroIsHeld
  <2>1. CASE o = m
    BY <1>2, <2>1
  <2>2. CASE o # m
    <3>1. PICK q \in Procs : holds[q] = o
      BY <1>2, <2>2 DEF LockInv, ZeroIsHeld
    <3>2. q # p
      BY <1>1, <3>1 DEF Objects
    <3> QED
      BY <1>2, <3>1, <3>2
  <2> QED
    BY <2>1, <2>2
<1> QED
  BY <1>3, <1>4, <1>5, <1>6

\* GlobalMutex::unlock at the end of a critical section.
LEMMA LockPosted ==
  ASSUME LockInv, NEW p \in Procs, NEW l \in Label, pc' = [pc EXCEPT ![p] = l],
         Inside(p), l \in {"send", "ended", "openAgain", "clearProcess"},
         Post(p), UNCHANGED <<mtx, mem, interruptions>>
  PROVE  UsesWhatIsOpen' /\ HoldersAreInside' /\ HeldByOne' /\ ZeroIsHeld'
<1> DEFINE m == mtx[p]
<1>1. m \in Objects /\ sem[m] \in Nat /\ holds[p] \in {m, "none"}
  BY DEF LockInv, UsesWhatIsOpen, HoldersAreInside, TypeOK
<1>2. /\ pc'[p] = l
      /\ \A q \in Procs \ {p} : pc'[q] = pc[q] /\ holds'[q] = holds[q]
      /\ holds'[p] = "none" /\ sem'[m] = sem[m] + 1
      /\ \A o \in Objects \ {m} : sem'[o] = sem[o]
  BY <1>1 DEF Post, LockInv, TypeOK
<1>3. UsesWhatIsOpen'
  BY <1>2 DEF LockInv, UsesWhatIsOpen, Locking, Inside
<1>4. HoldersAreInside'
  BY <1>2 DEF LockInv, HoldersAreInside, Inside
<1>5. HeldByOne'
  <2> SUFFICES ASSUME interruptions = 0
               PROVE  /\ \A o \in Objects : sem'[o] <= 1
                      /\ \A q \in Procs : holds'[q] # "none" => sem'[holds'[q]] = 0
                      /\ \A q, r \in Procs : holds'[q] # "none" /\ holds'[q] = holds'[r] => q = r
                      /\ \A q \in Procs : Inside(q)' => holds'[q] = mtx'[q]
    BY DEF HeldByOne
  <2>1. holds[p] = m /\ m # "none" /\ sem[m] = 0
    BY <1>1 DEF LockInv, HeldByOne, UsesWhatIsOpen
  <2>2. \A q \in Procs \ {p} : holds[q] # m
    BY <2>1 DEF LockInv, HeldByOne
  <2>3. \A q \in Procs : holds[q] \in Objects \union {"none"}
    BY DEF LockInv, TypeOK
  <2> QED
    BY <1>1, <1>2, <2>1, <2>2, <2>3 DEF LockInv, HeldByOne, Inside
<1>6. ZeroIsHeld'
  <2> SUFFICES ASSUME NEW o \in Objects, sem'[o] = 0
               PROVE  \E q \in Procs : holds'[q] = o
    BY DEF ZeroIsHeld
  <2>1. o # m
    BY <1>1, <1>2
  <2>2. PICK q \in Procs : holds[q] = o
    BY <1>2, <2>1 DEF LockInv, ZeroIsHeld
  <2>3. q # p
    BY <1>1, <2>1, <2>2 DEF Objects
  <2> QED
    BY <1>2, <2>2, <2>3
<1> QED
  BY <1>3, <1>4, <1>5, <1>6

\* A signal: processes that wait for the semaphore may go on without it, and it is counted.
LEMMA LockSignalled ==
  ASSUME LockInv, UNCHANGED <<sem, holds, mtx, mem>>, interruptions' \in Nat,
         interruptions' >= interruptions,
         \A q \in Procs : \/ pc'[q] = pc[q]
                          \/ pc[q] = "send" /\ pc'[q] = "ended"
                          \/ /\ Locking(q) /\ pc'[q] \in {"openMem", "openMemAgain"}
                             /\ interruptions' > interruptions
  PROVE  UsesWhatIsOpen' /\ HoldersAreInside' /\ HeldByOne' /\ ZeroIsHeld'
<1>1. UsesWhatIsOpen'
  BY DEF LockInv, UsesWhatIsOpen, Locking, Inside
<1>2. HoldersAreInside'
  BY DEF LockInv, HoldersAreInside, Inside, Locking
<1>3. HeldByOne'
  <2>1. interruptions \in Nat
    BY DEF LockInv, TypeOK
  <2> QED
    BY <2>1 DEF LockInv, HeldByOne, Inside, Locking
<1>4. ZeroIsHeld'
  BY DEF LockInv, ZeroIsHeld
<1> QED
  BY <1>1, <1>2, <1>3, <1>4

-----------------------------------------------------------------------------
\* The types, for the steps of a command up to its end.
LEMMA StartTypes ==
  ASSUME LockInv, NEW p \in Procs,
         \/ Begin(p) \/ ForceMem(p) \/ ForceMutex(p) \/ Open(p) \/ OpenMem(p) \/ Read(p)
         \/ OpenAgain(p) \/ CreateMutex(p) \/ CreateMutexFails(p) \/ OpenMemAgain(p)
         \/ CreateMem(p) \/ CreateMemFails(p) \/ Write(p) \/ WriteFails(p)
         \/ EndMem(p) \/ EndMutex(p)
  PROVE  TypeOK'
<1> USE DEF LockInv, TypeOK, Local, Goes, Label, kernel, opened, flags, history
<1>1. CASE Begin(p)
  BY <1>1 DEF Begin
<1>2. CASE ForceMem(p)
  BY <1>2 DEF ForceMem
<1>3. CASE ForceMutex(p)
  BY <1>3 DEF ForceMutex
<1>4. CASE Open(p)
  BY <1>4 DEF Open
<1>5. CASE OpenMem(p)
  BY <1>5 DEF OpenMem
<1>6. CASE Read(p)
  <2>1. mem[p] \in Objects
    BY <1>6 DEF Read, UsesWhatIsOpen
  <2>2. memory[mem[p]].pid \in Procs \union {"stranger"}
    BY <2>1
  <2>3. /\ pc' \in [Procs -> Label] /\ pid' \in [Procs -> Procs \union {"none", "stranger"}]
        /\ refused' \subseteq Procs /\ accidents' \in Nat
        /\ UNCHANGED <<kernel, opened, holds, command, flags, passed, interruptions>>
    BY <1>6, <2>2 DEF Read, BusError, Refuse
  <2> QED
    BY <2>3
<1>7. CASE OpenAgain(p)
  BY <1>7 DEF OpenAgain
<1>8. CASE CreateMutex(p)
  BY <1>8 DEF CreateMutex, Objects
<1>9. CASE CreateMutexFails(p)
  BY <1>9 DEF CreateMutexFails, Refuse
<1>10. CASE OpenMemAgain(p)
  BY <1>10 DEF OpenMemAgain
<1>11. CASE CreateMem(p)
  <2>1. PICK o \in Objects : /\ memName' = o /\ mem' = [mem EXCEPT ![p] = o]
                             /\ memory' = [memory EXCEPT ![o].sized = FALSE]
    BY <1>11 DEF CreateMem, Objects
  <2>2. memory' \in [Objects -> [sized : BOOLEAN, pid : Procs \union {"stranger"}]]
    <3>1. [memory[o] EXCEPT !.sized = FALSE] \in [sized : BOOLEAN, pid : Procs \union {"stranger"}]
      <4>1. memory[o] \in [sized : BOOLEAN, pid : Procs \union {"stranger"}]
        BY <2>1
      <4> HIDE DEF LockInv, TypeOK
      <4> QED
        BY <4>1
    <3>2. memory' = [memory EXCEPT ![o] = [memory[o] EXCEPT !.sized = FALSE]]
      BY <2>1
    <3> QED
      BY <3>1, <3>2
  <2> QED
    BY <1>11, <2>1, <2>2 DEF CreateMem
<1>12. CASE CreateMemFails(p)
  BY <1>12 DEF CreateMemFails, Refuse
<1>13. CASE Write(p)
  BY <1>13 DEF Write, BusError
<1>14. CASE WriteFails(p)
  BY <1>14 DEF WriteFails, Refuse
<1>15. CASE EndMem(p)
  BY <1>15 DEF EndMem
<1>16. CASE EndMutex(p)
  BY <1>16 DEF EndMutex
<1> QED
  BY <1>1, <1>2, <1>3, <1>4, <1>5, <1>6, <1>7, <1>8, <1>9, <1>10, <1>11, <1>12, <1>13,
     <1>14, <1>15, <1>16

\* The types, for the steps that take or post the semaphore.
LEMMA SemaphoreTypes ==
  ASSUME LockInv, NEW p \in Procs,
         Lock(p) \/ Unlock(p) \/ UnlockFailed(p) \/ UnlockAgain(p)
  PROVE  TypeOK'
<1> USE DEF LockInv, TypeOK, Local, Goes, Label, kernel, opened, flags, history
<1>1. CASE Lock(p)
  <2>1. mtx[p] \in Objects /\ sem[mtx[p]] - 1 \in Nat
    BY <1>1 DEF Lock, UsesWhatIsOpen
  <2> QED
    BY <1>1, <2>1 DEF Lock, LockTo
<1>2. ASSUME Inside(p), Post(p)
      PROVE  sem' \in [Objects -> Nat] /\ holds' \in [Procs -> Objects \union {"none"}]
  <2>1. mtx[p] \in Objects
    BY <1>2 DEF UsesWhatIsOpen
  <2>2. sem[mtx[p]] + 1 \in Nat
    BY <2>1
  <2> QED
    BY <1>2, <2>1, <2>2 DEF Post
<1>3. CASE Unlock(p)
  <2>1. Inside(p) /\ Post(p)
    BY <1>3 DEF Unlock, Inside
  <2>2. /\ pc' \in [Procs -> Label] /\ passed' \subseteq Procs
        /\ UNCHANGED <<mutexName, memName, memory, opened, pid, command, flags, refused,
                       interruptions, accidents>>
    BY <1>3 DEF Unlock
  <2> QED
    BY <1>2, <2>1, <2>2
<1>4. CASE UnlockFailed(p) \/ UnlockAgain(p)
  <2>1. Inside(p) /\ Post(p)
    BY <1>4 DEF UnlockFailed, UnlockAgain, Inside
  <2>2. /\ pc' \in [Procs -> Label]
        /\ Local /\ UNCHANGED <<mutexName, memName, memory, opened, pid>>
    BY <1>4 DEF UnlockFailed, UnlockAgain
  <2> QED
    BY <1>2, <2>1, <2>2
<1> QED
  BY <1>1, <1>3, <1>4

\* The types, for the loop around run, for the signals and the crashes.
LEMMA LoopTypes ==
  ASSUME LockInv, NEW p \in Procs,
         \/ ClearProcess(p) \/ ClearRestart(p) \/ InitRun(p) \/ SetProcess(p)
         \/ ModulesUpdated(p) \/ RunReturns(p) \/ Loop(p)
         \/ Send(p) \/ Signal(p) \/ Crash(p)
  PROVE  TypeOK'
<1> USE DEF LockInv, TypeOK, Server, Goes, Label, kernel, opened, flags, history
<1>1. CASE ClearProcess(p)
  BY <1>1 DEF ClearProcess
<1>2. CASE ClearRestart(p)
  BY <1>2 DEF ClearRestart
<1>3. CASE InitRun(p)
  BY <1>3 DEF InitRun
<1>4. CASE SetProcess(p)
  BY <1>4 DEF SetProcess
<1>5. CASE ModulesUpdated(p)
  BY <1>5 DEF ModulesUpdated
<1>6. CASE RunReturns(p)
  BY <1>6 DEF RunReturns
<1>7. CASE Loop(p)
  BY <1>7 DEF Loop
<1>8. \A q \in Procs : After(q) \in Label
  BY DEF After, LockTo
<1>9. ASSUME NEW q \in Procs, NEW c, Handle(q, c)
      PROVE  /\ processFlag' \in [Procs -> BOOLEAN] /\ restartFlag' \in [Procs -> BOOLEAN]
             /\ updateOwed' \in [Procs -> BOOLEAN] /\ interruptions' \in Nat
  BY <1>9 DEF Handle
<1>11. CASE Send(p)
  <2>1. /\ pc' \in [Procs -> Label]
        /\ UNCHANGED <<kernel, opened, command, pid, holds, passed, refused, accidents>>
    BY <1>8, <1>11 DEF Send
  <2>2. CASE pid[p] \in Procs /\ Alive(pid[p])
    <3>1. Handle(pid[p], command[p])
      BY <1>11, <2>2 DEF Send
    <3> QED
      BY <1>9, <2>1, <2>2, <3>1
  <2>3. CASE ~(pid[p] \in Procs /\ Alive(pid[p]))
    BY <1>11, <2>1, <2>3 DEF Send
  <2> QED
    BY <2>2, <2>3
<1>12. CASE Signal(p)
  <2>1. /\ pc' \in [Procs -> Label] /\ accidents' \in Nat
        /\ UNCHANGED <<kernel, opened, command, pid, holds, passed, refused>>
    BY <1>8, <1>12 DEF Signal
  <2>2. Handle(p, "kill")
    BY <1>12 DEF Signal
  <2> QED
    BY <1>9, <2>1, <2>2
<1>10. CASE Crash(p)
  BY <1>10 DEF Crash
<1> QED
  BY <1>1, <1>2, <1>3, <1>4, <1>5, <1>6, <1>7, <1>10, <1>11, <1>12

-----------------------------------------------------------------------------
\* The steps that leave the semaphore alone, by LockUnmoved.
LEMMA QuietKeeps ==
  ASSUME LockInv, NEW p \in Procs,
         \/ Begin(p) \/ ForceMem(p) \/ ForceMutex(p) \/ OpenMem(p) \/ Read(p)
         \/ OpenMemAgain(p) \/ CreateMem(p) \/ CreateMemFails(p) \/ CreateMutexFails(p)
         \/ Write(p) \/ WriteFails(p)
         \/ ClearProcess(p) \/ ClearRestart(p) \/ InitRun(p) \/ SetProcess(p)
         \/ ModulesUpdated(p) \/ RunReturns(p) \/ Loop(p) \/ EndMem(p) \/ EndMutex(p)
         \/ Crash(p)
  PROVE  UsesWhatIsOpen' /\ HoldersAreInside' /\ HeldByOne' /\ ZeroIsHeld'
<1> DEFINE l == pc'[p]
<1> USE DEF LockInv, TypeOK
<1>1. /\ UNCHANGED <<sem, holds, mtx, interruptions>>
      /\ pc[p] # "dead"
      /\ pc' = [pc EXCEPT ![p] = l]
  BY DEF Begin, ForceMem, ForceMutex, OpenMem, Read, OpenMemAgain, CreateMem, CreateMemFails,
         CreateMutexFails, Write, WriteFails, ClearProcess, ClearRestart, InitRun, SetProcess,
         ModulesUpdated, RunReturns, Loop, EndMem, EndMutex, Crash, BusError, Refuse,
         Goes, Local, Server, Serving, Alive, kernel, opened, history
<1>2. \/ l = pc[p] \/ l = "dead"
      \/ /\ ~Inside(p) /\ l \in {"destroyMem", "destroyMutex", "open", "ended", "clearProcess",
                                 "clearRestart", "init", "setProcess", "serving", "loop",
                                 "endMem", "endMutex"}
      \/ Inside(p) /\ l \in {"unlock", "read", "createMem", "write", "unlockFailed",
                             "unlockAgain"}
  BY DEF Begin, ForceMem, ForceMutex, OpenMem, Read, OpenMemAgain, CreateMem, CreateMemFails,
         CreateMutexFails, Write, WriteFails, ClearProcess, ClearRestart, InitRun, SetProcess,
         ModulesUpdated, RunReturns, Loop, EndMem, EndMutex, Crash, BusError,
         Goes, Serving, Inside
<1>3. /\ Inside(p) => Inside(p)' \/ l = "dead"
      /\ Inside(p)' => Inside(p)
      /\ Locking(p)' => Locking(p)
      /\ l \in Label
  BY <1>2 DEF Inside, Locking, Label
<1>4. /\ \A q \in Procs \ {p} : mem'[q] = mem[q]
      /\ l \in {"read", "write"} => mem'[p] # "none"
  BY DEF Begin, ForceMem, ForceMutex, OpenMem, Read, OpenMemAgain, CreateMem, CreateMemFails,
         CreateMutexFails, Write, WriteFails, ClearProcess, ClearRestart, InitRun, SetProcess,
         ModulesUpdated, RunReturns, Loop, EndMem, EndMutex, Crash, BusError,
         Goes, Local, Server, Serving, kernel, opened
<1> QED
  BY <1>1, <1>3, <1>4, LockUnmoved

\* Every step keeps the invariant.
LEMMA LockStep == LockInv /\ [Next]_vars => LockInv'
<1> SUFFICES ASSUME LockInv, [Next]_vars PROVE LockInv'
  OBVIOUS
<1> DEFINE Rest == UsesWhatIsOpen /\ HoldersAreInside /\ HeldByOne /\ ZeroIsHeld
<1>1. ASSUME NEW p \in Procs,
             \/ Begin(p) \/ ForceMem(p) \/ ForceMutex(p) \/ OpenMem(p) \/ Read(p)
             \/ OpenMemAgain(p) \/ CreateMem(p) \/ CreateMemFails(p) \/ CreateMutexFails(p)
             \/ Write(p) \/ WriteFails(p)
             \/ ClearProcess(p) \/ ClearRestart(p) \/ InitRun(p) \/ SetProcess(p)
             \/ ModulesUpdated(p) \/ RunReturns(p) \/ Loop(p) \/ EndMem(p) \/ EndMutex(p)
             \/ Crash(p)
      PROVE  LockInv'
  <2>1. TypeOK'
    BY <1>1, StartTypes, LoopTypes
  <2> QED
    BY <1>1, <2>1, QuietKeeps DEF LockInv
<1>2. ASSUME NEW p \in Procs, Open(p) \/ OpenAgain(p) \/ CreateMutex(p) PROVE LockInv'
  <2>1. TypeOK'
    BY <1>2, StartTypes
  <2>2. /\ pc' = [pc EXCEPT ![p] = pc'[p]] /\ mtx' = [mtx EXCEPT ![p] = mtx'[p]]
        /\ UNCHANGED <<sem, holds, mem, interruptions>>
        /\ pc[p] \in {"open", "openAgain", "create"}
        /\ pc'[p] \in {"lock", "lockAgain", "openAgain", "create", "ended"}
        /\ pc'[p] \in {"lock", "lockAgain"} => mtx'[p] # "none"
    BY <1>2 DEF Open, OpenAgain, CreateMutex, Goes, Local, kernel, history, LockInv, TypeOK
  <2>3. pc'[p] \in Label
    BY <2>2 DEF Label
  <2>4. Rest'
    BY <2>2, <2>3, LockOpened
  <2> QED
    BY <2>1, <2>4 DEF LockInv
<1>3. ASSUME NEW p \in Procs, Lock(p) PROVE LockInv'
  BY <1>3, SemaphoreTypes, LockTaken DEF LockInv
<1>4. ASSUME NEW p \in Procs, Unlock(p) \/ UnlockFailed(p) \/ UnlockAgain(p) PROVE LockInv'
  <2>1. TypeOK'
    BY <1>4, SemaphoreTypes
  <2>2. /\ pc' = [pc EXCEPT ![p] = pc'[p]] /\ Inside(p) /\ Post(p)
        /\ UNCHANGED <<mtx, mem, interruptions>>
        /\ pc'[p] \in {"send", "ended", "openAgain", "clearProcess"}
    BY <1>4 DEF Unlock, UnlockFailed, UnlockAgain, Goes, Local, opened, history, Inside,
                LockInv, TypeOK
  <2>3. pc'[p] \in Label
    BY <2>2 DEF Label
  <2>4. Rest'
    BY <2>2, <2>3, LockPosted
  <2> QED
    BY <2>1, <2>4 DEF LockInv
<1>5. ASSUME NEW p \in Procs, Send(p) \/ Signal(p) PROVE LockInv'
  <2>1. TypeOK'
    BY <1>5, LoopTypes
  <2>2. UNCHANGED <<sem, holds, mtx, mem>>
    BY <1>5 DEF Send, Signal, kernel, opened
  <2>3. ASSUME NEW q \in Procs
        PROVE  After(q) = pc[q] \/ (Blocked(q) /\ After(q) \in {"openMem", "openMemAgain"})
    BY DEF After, LockTo
  <2>4. interruptions \in Nat
    BY DEF LockInv, TypeOK
  <2>5. /\ interruptions' \in Nat /\ interruptions' >= interruptions
        /\ \A q \in Procs : \/ pc'[q] = pc[q]
                            \/ pc[q] = "send" /\ pc'[q] = "ended"
                            \/ /\ Locking(q) /\ pc'[q] \in {"openMem", "openMemAgain"}
                               /\ interruptions' > interruptions
    <3>1. CASE Send(p)
      <4>1. CASE pid[p] \in Procs /\ Alive(pid[p])
        BY <3>1, <4>1, <2>3, <2>4 DEF Send, Handle, Blocked, Locking, LockInv, TypeOK
      <4>2. CASE ~(pid[p] \in Procs /\ Alive(pid[p]))
        BY <3>1, <4>2, <2>4 DEF Send, LockInv, TypeOK
      <4> QED
        BY <4>1, <4>2
    <3>2. CASE Signal(p)
      BY <3>2, <2>3, <2>4 DEF Signal, Handle, Blocked, Locking, LockInv, TypeOK
    <3> QED
      BY <1>5, <3>1, <3>2
  <2>6. Rest'
    BY <2>2, <2>5, LockSignalled
  <2> QED
    BY <2>1, <2>6 DEF LockInv
<1>6. CASE UNCHANGED vars
  BY <1>6 DEF vars, kernel, opened, flags, history, LockInv, TypeOK, UsesWhatIsOpen,
              HoldersAreInside, HeldByOne, ZeroIsHeld, Locking, Inside
<1> QED
  BY <1>1, <1>2, <1>3, <1>4, <1>5, <1>6 DEF Next, Step

-----------------------------------------------------------------------------
\* The inductive invariant of the named semaphore (lines 906-926 and 1042-1093).
THEOREM LockCorrect == Spec => []LockInv
  BY LockInit, LockStep, PTL DEF Spec

\* The types; in particular no semaphore becomes negative.
THEOREM LifecycleTypes == Spec => []TypeOK
<1>1. LockInv => TypeOK
  BY DEF LockInv
<1> QED
  BY <1>1, LockCorrect, PTL

\* As long as no signal has ended a sem_wait, at most one process is between the lock and
\* the unlock of a semaphore.
THEOREM MutualExclusion == Spec => []MutexExcludes
<1>1. LockInv => MutexExcludes
  BY DEF LockInv, HeldByOne, UsesWhatIsOpen, MutexExcludes
<1> QED
  BY <1>1, LockCorrect, PTL

\* A process that waits for a semaphore waits for one that will post it, or for a dead one.
THEOREM WaitersWaitForAHolder == Spec => []WaitsForAHolder
<1>1. LockInv => WaitsForAHolder
  <2> SUFFICES ASSUME LockInv, NEW p \in Procs, Locking(p), sem[mtx[p]] = 0
               PROVE  \E q \in Procs : holds[q] = mtx[p] /\ (Inside(q) \/ pc[q] = "dead")
    BY DEF WaitsForAHolder
  <2>1. mtx[p] \in Objects /\ mtx[p] # "none"
    BY DEF LockInv, TypeOK, UsesWhatIsOpen
  <2>2. PICK q \in Procs : holds[q] = mtx[p]
    BY <2>1 DEF LockInv, ZeroIsHeld
  <2> QED
    BY <2>1, <2>2 DEF LockInv, HoldersAreInside
<1> QED
  BY <1>1, LockCorrect, PTL

-----------------------------------------------------------------------------
\* The names.  A process that has found no server running makes them, and takes them away
\* when it ends of itself.
Making  == {"lockAgain", "openMemAgain", "createMem"}
Written == {"unlockAgain", "clearProcess", "clearRestart", "init", "setProcess", "serving",
            "loop"}
Running == {"openAgain", "create"} \union Making \union {"write"} \union Written
             \union {"endMem", "endMutex"}

RunningHasPassed ==
  \A p \in Procs : /\ pc[p] \in Running => p \in passed
                   /\ pc[p] = "unlockFailed" => refused # {}

\* A name that exists is still to be removed, unless a process died or was refused.
NamesAreOwed ==
  passed # {} /\ refused = {} =>
    /\ mutexName # "none" => \E p \in passed : pc[p] \in Running \union {"dead"}
    /\ memName # "none" => \E p \in passed : pc[p] \in (Running \ {"endMutex"}) \union {"dead"}

\* What a server that alone has passed the check has done to the names so far.
Lone(p) == passed = {p} /\ \A q \in Procs \ {p} : command[q] # "force"

LoneServerNames ==
  \A p \in Procs : Lone(p) =>
    /\ pc[p] \in Making \union {"write"} \union Written => mutexName # "none"
    /\ pc[p] \in {"write"} \union Written => memName # "none"
    /\ pc[p] = "write" => mem[p] = memName
    /\ pc[p] \in Written => memory[memName].pid = p

\* --force removes the names before the check.
ForcedOnly ==
  \A p \in Procs : pc[p] \in {"destroyMem", "destroyMutex"} => command[p] = "force"

NamesInv == RunningHasPassed /\ NamesAreOwed /\ LoneServerNames /\ ForcedOnly

LEMMA NamesInit == Init => NamesInv
BY DEF Init, NamesInv, RunningHasPassed, NamesAreOwed, LoneServerNames, Lone, ForcedOnly,
       Making, Written, Running

\* The way of a process through the commands, as far as the names are concerned.
Way(q) ==
  \/ pc'[q] = pc[q] /\ mem'[q] = mem[q]
  \/ pc'[q] = "dead"
  \/ /\ pc[q] \notin Running \union {"dead"} /\ pc'[q] \notin Running \union {"unlockFailed"}
     /\ pc'[q] \in {"destroyMem", "destroyMutex"} => command[q] = "force"
  \/ pc[q] = "openAgain" /\ pc'[q] = "create"
  \/ pc[q] = "openAgain" /\ pc'[q] = "lockAgain" /\ mutexName # "none"
  \/ pc[q] \in Making /\ pc'[q] \in {"openMemAgain", "createMem"}
  \/ pc[q] = "openMemAgain" /\ pc'[q] = "write" /\ memName # "none" /\ mem'[q] = memName
  \/ pc[q] \in Written /\ pc'[q] \in Written \union {"endMem"}

\* The steps that leave the names and the memories alone.
LEMMA NamesUnmoved ==
  ASSUME NamesInv, UNCHANGED <<mutexName, memName, memory, passed, refused, command>>,
         \A q \in Procs : Way(q), passed \subseteq Procs
  PROVE  NamesInv'
<1> USE DEF NamesInv, Way, Making, Written, Running
<1>1. RunningHasPassed'
  BY DEF RunningHasPassed
<1>2. NamesAreOwed'
  <2>1. \A p \in passed : /\ pc[p] \in Running \union {"dead"} => pc'[p] \in Running \union {"dead"}
                          /\ pc[p] \in (Running \ {"endMutex"}) \union {"dead"}
                               => pc'[p] \in (Running \ {"endMutex"}) \union {"dead"}
    OBVIOUS
  <2> QED
    BY <2>1 DEF NamesAreOwed
<1>3. LoneServerNames'
  BY DEF LoneServerNames, Lone
<1>4. ForcedOnly'
  BY DEF ForcedOnly
<1> QED
  BY <1>1, <1>2, <1>3, <1>4

LEMMA QuietNames ==
  ASSUME LockInv, NamesInv, NEW p \in Procs,
         \/ Begin(p) \/ Lock(p) \/ OpenMem(p) \/ OpenAgain(p) \/ OpenMemAgain(p)
         \/ UnlockFailed(p) \/ UnlockAgain(p)
         \/ ClearProcess(p) \/ ClearRestart(p) \/ InitRun(p) \/ SetProcess(p)
         \/ ModulesUpdated(p) \/ RunReturns(p) \/ Loop(p) \/ Crash(p)
  PROVE  NamesInv'
<1> USE DEF LockInv, TypeOK
<1>1. UNCHANGED <<mutexName, memName, memory, passed, refused, command>>
  BY DEF Begin, Lock, OpenMem, OpenAgain, OpenMemAgain, UnlockFailed, UnlockAgain,
         ClearProcess, ClearRestart, InitRun, SetProcess, ModulesUpdated, RunReturns, Loop,
         Crash, Local, Server, kernel, history
<1>2. \A q \in Procs \ {p} : pc'[q] = pc[q] /\ mem'[q] = mem[q]
  BY DEF Begin, Lock, OpenMem, OpenAgain, OpenMemAgain, UnlockFailed, UnlockAgain,
         ClearProcess, ClearRestart, InitRun, SetProcess, ModulesUpdated, RunReturns, Loop,
         Crash, Local, Server, Goes, opened
<1>3. Way(p)
  <2> USE DEF Way, Making, Written, Running, Goes
  <2>1. CASE Begin(p) \/ Lock(p) \/ OpenMem(p) \/ UnlockFailed(p) \/ UnlockAgain(p) \/ Crash(p)
    BY <2>1 DEF Begin, Lock, Locking, LockTo, OpenMem, UnlockFailed, UnlockAgain, Crash
  <2>2. CASE OpenAgain(p) \/ OpenMemAgain(p)
    BY <2>2 DEF OpenAgain, OpenMemAgain
  <2>3. CASE \/ ClearProcess(p) \/ ClearRestart(p) \/ InitRun(p) \/ SetProcess(p)
             \/ ModulesUpdated(p) \/ RunReturns(p) \/ Loop(p)
    BY <2>3 DEF ClearProcess, ClearRestart, InitRun, SetProcess, ModulesUpdated, RunReturns,
                Loop, Server, Serving, opened
  <2> QED
    BY <2>1, <2>2, <2>3
<1>4. \A q \in Procs : Way(q)
  BY <1>2, <1>3 DEF Way
<1> QED
  BY <1>1, <1>4, NamesUnmoved

\* A signal moves processes on that it finds waiting for a semaphore.
LEMMA SignalledNames ==
  ASSUME LockInv, NamesInv, NEW p \in Procs, Send(p) \/ Signal(p)
  PROVE  NamesInv'
<1> USE DEF LockInv, TypeOK
<1>1. UNCHANGED <<mutexName, memName, memory, passed, refused, command, mem>>
  BY DEF Send, Signal, kernel, opened
<1>2. ASSUME NEW q \in Procs
      PROVE  \/ After(q) = pc[q]
             \/ pc[q] = "lock" /\ After(q) = "openMem"
             \/ pc[q] = "lockAgain" /\ After(q) = "openMemAgain"
  BY DEF After, LockTo, Blocked, Locking
<1>3. \A q \in Procs : Way(q)
  <2>1. CASE Signal(p)
    BY <1>1, <1>2, <2>1 DEF Signal, Way, Making, Running, Written
  <2>2. CASE Send(p)
    BY <1>1, <1>2, <2>2 DEF Send, Way, Making, Running, Written
  <2> QED
    BY <2>1, <2>2
<1> QED
  BY <1>1, <1>3, NamesUnmoved

\* The check of lines 1042-1061: whoever finds no server running has passed.
LEMMA CheckNames ==
  ASSUME LockInv, NamesInv, NEW p \in Procs, Open(p) \/ Unlock(p)
  PROVE  NamesInv'
<1>1. /\ UNCHANGED <<mutexName, memName, memory, refused, command, mem>>
      /\ pc[p] \in {"open", "unlock"}
      /\ \/ pc'[p] \in {"lock", "ended", "send"} /\ passed' = passed
         \/ pc'[p] = "openAgain" /\ passed' = passed \union {p}
      /\ \A q \in Procs \ {p} : pc'[q] = pc[q]
  BY DEF Open, Unlock, Goes, kernel, opened, LockInv, TypeOK
<1>2. CASE pc'[p] \in {"lock", "ended", "send"} /\ passed' = passed
  <2>1. \A q \in Procs : Way(q)
    BY <1>1, <1>2 DEF Way, Running, Making, Written
  <2> QED
    BY <1>1, <1>2, <2>1, NamesUnmoved DEF LockInv, TypeOK
<1>3. CASE pc'[p] = "openAgain" /\ passed' = passed \union {p}
  <2>1. RunningHasPassed' /\ ForcedOnly'
    BY <1>1, <1>3 DEF NamesInv, RunningHasPassed, ForcedOnly
  <2>2. NamesAreOwed'
    BY <1>1, <1>3 DEF NamesAreOwed, Running
  <2>3. LoneServerNames'
    BY <1>1, <1>3 DEF NamesInv, LoneServerNames, Lone, RunningHasPassed, Making, Written,
                      Running
  <2> QED
    BY <2>1, <2>2, <2>3 DEF NamesInv
<1> QED
  BY <1>1, <1>2, <1>3

\* What makes, uses and removes the names, and what is refused.
LEMMA MakerNames ==
  ASSUME LockInv, NamesInv, NEW p \in Procs,
         \/ Read(p) \/ CreateMutex(p) \/ CreateMutexFails(p) \/ CreateMem(p)
         \/ CreateMemFails(p) \/ Write(p) \/ WriteFails(p) \/ EndMem(p) \/ EndMutex(p)
         \/ ForceMem(p) \/ ForceMutex(p)
  PROVE  NamesInv'
<1> USE DEF NamesInv, RunningHasPassed, NamesAreOwed, LoneServerNames, Lone, ForcedOnly,
            Making, Written, Running, Goes, Local, kernel, opened, history, LockInv, TypeOK
<1>1. CASE Read(p)
  BY <1>1 DEF Read, BusError, Refuse
<1>2. CASE CreateMutex(p)
  BY <1>2 DEF CreateMutex, Objects
<1>3. CASE CreateMutexFails(p)
  BY <1>3 DEF CreateMutexFails, Refuse
<1>4. CASE CreateMem(p)
  BY <1>4 DEF CreateMem, Objects
<1>5. CASE CreateMemFails(p)
  BY <1>5 DEF CreateMemFails, Refuse
<1>6. CASE Write(p)
  BY <1>6 DEF Write, BusError
<1>7. CASE WriteFails(p)
  BY <1>7 DEF WriteFails, Refuse
<1>8. CASE EndMem(p)
  BY <1>8 DEF EndMem
<1>9. CASE EndMutex(p)
  BY <1>9 DEF EndMutex
<1>10. CASE ForceMem(p)
  BY <1>10 DEF ForceMem
<1>11. CASE ForceMutex(p)
  BY <1>11 DEF ForceMutex
<1> QED
  BY <1>1, <1>2, <1>3, <1>4, <1>5, <1>6, <1>7, <1>8, <1>9, <1>10, <1>11

LEMMA NamesStep == LockInv /\ NamesInv /\ [Next]_vars => NamesInv'
<1> SUFFICES ASSUME LockInv, NamesInv, [Next]_vars PROVE NamesInv'
  OBVIOUS
<1>1. CASE UNCHANGED vars
  <2>1. UNCHANGED <<mutexName, memName, memory, passed, refused, command>>
        /\ \A q \in Procs : Way(q)
    BY <1>1 DEF vars, kernel, opened, history, Way
  <2> QED
    BY <2>1, NamesUnmoved DEF LockInv, TypeOK
<1>2. CASE Next
  BY <1>2, QuietNames, SignalledNames, CheckNames, MakerNames DEF Next, Step
<1> QED
  BY <1>1, <1>2

\* The inductive invariant of the names.
THEOREM NamesCorrect == Spec => []NamesInv
  BY NamesInit, NamesStep, LockCorrect, PTL DEF Spec

\* A server that alone has passed the check can be found by the other commands, and its
\* memory holds its pid, for any number of processes.
THEOREM LoneServerFound == Spec => []LoneServerIsFound
<1>1. NamesInv => LoneServerIsFound
  BY DEF NamesInv, LoneServerNames, Lone, LoneServerIsFound, Written
<1> QED
  BY <1>1, NamesCorrect, PTL

\* When every process has ended of itself, a server that ran has left no name behind.
THEOREM NamesRemoved == Spec => []NamesAreGone
<1>1. LockInv /\ NamesInv => NamesAreGone
  <2> SUFFICES ASSUME LockInv, NamesInv, \A p \in Procs : pc[p] = "ended", passed # {},
                      refused = {}
               PROVE  mutexName = "none" /\ memName = "none"
    BY DEF NamesAreGone
  <2> QED
    BY DEF NamesInv, NamesAreOwed, Running, Making, Written, LockInv, TypeOK
<1> QED
  BY <1>1, NamesCorrect, LockCorrect, PTL
=============================================================================
