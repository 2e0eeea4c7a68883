-------------------------- MODULE ServerLifecycle --------------------------
(***************************************************************************)
(* The processes of one server name: what the commands of the program      *)
(* (src/src/Main.cpp) do to the named semaphore and the named shared       *)
(* memory, and to each other by signals.  Each process runs one command.   *)
(* command_start looks for a running server, registers its pid, calls run  *)
(* until nobody asks for a restart, and removes both names; the other      *)
(* commands read the pid and send it a signal.                             *)
(*                                                                         *)
(* A name leads to an object, which lives on without its name for those    *)
(* who have opened it.  The object a process creates is named after the    *)
(* process; "old" is what an earlier program left behind.                  *)
(***************************************************************************)
EXTENDS Integers, FiniteSets

CONSTANTS Procs,       \* the processes, each one standing for its pid
          Commands,    \* the commands they are started with
          MaxAccidents \* bound: how many SIGINT, crashes and refusals of the system come

ASSUME ProcsAssumption == Procs \intersect {"none", "old", "stranger"} = {}

ASSUME CommandsAssumption ==
  Commands \subseteq {"start", "force", "restart", "kill", "update"}

ASSUME LifecycleBounds == MaxAccidents \in Nat

Objects == Procs \union {"old"}

VARIABLES
  mutexName, memName,  \* the objects that the two names lead to
  sem,                 \* the value of each semaphore
  memory,              \* each shared memory: has it room for a pid, and which pid
  pc, command,
  mtx, mem,            \* glob_mtx and glob_mem: the objects a process has opened
  pid,                 \* the pid it has read, "none" for 0
  holds,               \* the semaphore that it took and has not posted
  processFlag, restartFlag, updateOwed,  \* controls of a server
  passed,              \* the processes that found no server running
  refused,             \* those to which the system refused an object
  interruptions,       \* how many sem_wait a signal has ended
  accidents            \* how many have come

kernel  == <<mutexName, memName, sem, memory>>
opened  == <<mtx, mem>>
flags   == <<processFlag, restartFlag, updateOwed>>
history == <<passed, refused, interruptions, accidents>>
vars    == <<kernel, opened, flags, history, pc, command, pid, holds>>

Label == {"begin", "destroyMem", "destroyMutex", "open", "lock", "openMem", "read",
          "unlock", "openAgain", "create", "lockAgain", "openMemAgain", "createMem",
          "write", "unlockFailed", "unlockAgain", "clearProcess", "clearRestart",
          "init", "setProcess", "serving", "loop", "endMem", "endMutex", "send",
          "ended", "dead"}

Starting(p) == command[p] \in {"start", "force"}
Alive(p)    == pc[p] \notin {"ended", "dead", "begin"}
Locking(p)  == pc[p] \in {"lock", "lockAgain"}
Serving(p)  == pc[p] = "serving"

\* Between a lock and an unlock of glob_mtx.
Inside(p) == pc[p] \in {"openMem", "read", "unlock", "openMemAgain", "createMem", "write",
                        "unlockFailed", "unlockAgain"}

\* The names may exist already, left by a program that made the memory as large as
\* a pid and died outside its critical section.
Init ==
  /\ mutexName \in {"none", "old"} /\ memName \in {"none", "old"}
  /\ sem = [o \in Objects |-> 1]
  /\ memory = [o \in Objects |-> [sized |-> TRUE, pid |-> "stranger"]]
  /\ pc = [p \in Procs |-> "begin"] /\ command \in [Procs -> Commands]
  /\ mtx = [p \in Procs |-> "none"] /\ mem = [p \in Procs |-> "none"]
  /\ pid = [p \in Procs |-> "none"] /\ holds = [p \in Procs |-> "none"]
  /\ processFlag = [p \in Procs |-> FALSE] /\ restartFlag = [p \in Procs |-> FALSE]
  /\ updateOwed = [p \in Procs |-> FALSE]
  /\ passed = {} /\ refused = {} /\ interruptions = 0 /\ accidents = 0

-----------------------------------------------------------------------------
Goes(p, from, to) == pc[p] = from /\ pc' = [pc EXCEPT ![p] = to]

\* A step that leaves everything but the kernel's objects and the labels alone.
Local == UNCHANGED <<command, flags, history>>

\* The process is started from the shell: SharedMemory::destroy and
\* GlobalMutex::destroy come first only with --force (lines 1034-1038).
Begin(p) == /\ Goes(p, "begin", IF command[p] = "force" THEN "destroyMem" ELSE "open")
            /\ Local /\ UNCHANGED <<kernel, opened, pid, holds>>

ForceMem(p) == /\ Goes(p, "destroyMem", "destroyMutex") /\ memName' = "none"
               /\ Local /\ UNCHANGED <<mutexName, sem, memory, opened, pid, holds>>

ForceMutex(p) == /\ Goes(p, "destroyMutex", "open") /\ mutexName' = "none"
                 /\ Local /\ UNCHANGED <<memName, sem, memory, opened, pid, holds>>

\* Lines 912 and 1042.  Without a mutex a start goes on, and the others have no pid.
Open(p) ==
  /\ Goes(p, "open", IF mutexName # "none" THEN "lock"
                     ELSE IF Starting(p) THEN "openAgain" ELSE "ended")
  /\ mtx' = [mtx EXCEPT ![p] = mutexName]
  /\ passed' = IF mutexName = "none" /\ Starting(p) THEN passed \union {p} ELSE passed
  /\ UNCHANGED <<kernel, mem, pid, holds, command, flags, refused,
                 interruptions, accidents>>

LockTo(label) == IF label = "lock" THEN "openMem" ELSE "openMemAgain"

\* Fault: the semaphore is decremented without waiting for it.
LockUnchecked(p) ==
  /\ Locking(p) /\ Goes(p, pc[p], LockTo(pc[p]))
  /\ sem' = [sem EXCEPT ![mtx[p]] = @ - 1] /\ holds' = [holds EXCEPT ![p] = mtx[p]]
  /\ Local /\ UNCHANGED <<mutexName, memName, memory, opened, pid>>

\* GlobalMutex::lock: sem_wait returns with the semaphore taken.
Lock(p) ==
  /\ Locking(p) /\ Goes(p, pc[p], LockTo(pc[p]))
  /\ sem[mtx[p]] > 0
  /\ sem' = [sem EXCEPT ![mtx[p]] = @ - 1] /\ holds' = [holds EXCEPT ![p] = mtx[p]]
  /\ Local /\ UNCHANGED <<mutexName, memName, memory, opened, pid>>

\* Post of the mutex of p by any of its unlocks, whoever holds it.
Post(p) == /\ sem' = [sem EXCEPT ![mtx[p]] = @ + 1]
           /\ holds' = [holds EXCEPT ![p] = "none"]

\* Lines 918 and 1046: the memory is opened if its name exists.
OpenMem(p) ==
  /\ Goes(p, "openMem", IF memName = "none" THEN "unlock" ELSE "read")
  /\ mem' = [mem EXCEPT ![p] = memName]
  /\ Local /\ UNCHANGED <<kernel, mtx, pid, holds>>

\* A process that touches a mapped page beyond the end of the memory gets SIGBUS.
BusError(p) == /\ pc' = [pc EXCEPT ![p] = "dead"]
               /\ Local /\ UNCHANGED <<kernel, opened, pid, holds>>

\* The system refuses p what it asks for.
Refuse(p) == /\ accidents < MaxAccidents /\ accidents' = accidents + 1
             /\ refused' = refused \union {p}
             /\ UNCHANGED <<command, flags, passed, interruptions>>

\* SharedMemory::read.  It may fail: there is no pid then.
Read(p) ==
  /\ pc[p] = "read"
  /\ \/ ~memory[mem[p]].sized /\ BusError(p)
     \/ /\ memory[mem[p]].sized /\ Goes(p, "read", "unlock")
        /\ pid' = [pid EXCEPT ![p] = memory[mem[p]].pid]
        /\ Local /\ UNCHANGED <<kernel, opened, holds>>
     \/ /\ Goes(p, "read", "unlock") /\ Refuse(p)
        /\ UNCHANGED <<kernel, opened, pid, holds>>

\* System::isProcessExists at the time of the check.  The pid of a stranger may have been
\* given to another process meanwhile.
Exists(q) == IF q = "stranger" THEN {TRUE, FALSE}
             ELSE {q # "none" /\ Alive(q)}

\* Fault: a start that is refused returns without the unlock.
UnlockUnlessRefused(p) ==
  /\ pc[p] = "unlock"
  /\ \E exists \in Exists(pid[p]) :
       /\ Goes(p, "unlock", IF ~Starting(p) THEN "send"
                            ELSE IF exists THEN "ended" ELSE "openAgain")
       /\ passed' = IF Starting(p) /\ ~exists THEN passed \union {p} ELSE passed
       /\ IF Starting(p) /\ exists THEN UNCHANGED <<sem, holds>> ELSE Post(p)
  /\ UNCHANGED <<mutexName, memName, memory, opened, pid, command, flags, refused,
                 interruptions, accidents>>

\* Lines 922 and 1051-1061: a start is refused while the registered process exists.
Unlock(p) ==
  /\ pc[p] = "unlock"
  /\ \E exists \in Exists(pid[p]) :
       /\ Goes(p, "unlock", IF ~Starting(p) THEN "send"
                            ELSE IF exists THEN "ended" ELSE "openAgain")
       /\ passed' = IF Starting(p) /\ ~exists THEN passed \union {p} ELSE passed
  /\ Post(p)
  /\ UNCHANGED <<mutexName, memName, memory, opened, pid, command, flags, refused,
                 interruptions, accidents>>

\* Fault: a semaphore that exists already gets the initial value once more.
CreateMutexAnew(p) ==
  /\ pc[p] = "create"
  /\ LET o == IF mutexName = "none" THEN p ELSE mutexName
     IN  /\ Goes(p, "create", "lockAgain")
         /\ mutexName' = o /\ mtx' = [mtx EXCEPT ![p] = o] /\ sem' = [sem EXCEPT ![o] = 1]
  /\ Local /\ UNCHANGED <<memName, memory, mem, pid, holds>>

\* Line 1063: open closes what was opened before, and the name may have changed.
OpenAgain(p) ==
  /\ Goes(p, "openAgain", IF mutexName # "none" THEN "lockAgain" ELSE "create")
  /\ mtx' = [mtx EXCEPT ![p] = mutexName]
  /\ Local /\ UNCHANGED <<kernel, mem, pid, holds>>

\* GlobalMutex::create: O_CREAT without O_EXCL opens a semaphore that has come meanwhile.
\* It may fail: exit code 0x4.
CreateMutex(p) ==
  /\ pc[p] = "create"
  /\ LET o == IF mutexName = "none" THEN p ELSE mutexName
     IN  /\ Goes(p, "create", "lockAgain")
         /\ mutexName' = o /\ mtx' = [mtx EXCEPT ![p] = o]
  /\ Local /\ UNCHANGED <<memName, sem, memory, mem, pid, holds>>

CreateMutexFails(p) == /\ Goes(p, "create", "ended") /\ Refuse(p)
                       /\ UNCHANGED <<kernel, opened, pid, holds>>

\* Line 1074.
OpenMemAgain(p) ==
  /\ Goes(p, "openMemAgain", IF memName = "none" THEN "createMem" ELSE "write")
  /\ mem' = [mem EXCEPT ![p] = memName]
  /\ Local /\ UNCHANGED <<kernel, mtx, pid, holds>>

\* SharedMemory::create: the comparison stands inside the argument of ftruncate64, so
\* that the memory gets the size 0.  It may fail: exit code 0x5.
CreateMem(p) ==
  /\ Goes(p, "createMem", "write")
  /\ LET o == IF memName = "none" THEN p ELSE memName
     IN  /\ memName' = o /\ mem' = [mem EXCEPT ![p] = o]
         /\ memory' = [memory EXCEPT ![o].sized = FALSE]
  /\ Local /\ UNCHANGED <<mutexName, sem, mtx, pid, holds>>

\* shm_open fails, or ftruncate64: then the name is unlinked (lines 31-35).
CreateMemFails(p) == /\ Goes(p, "createMem", "unlockFailed") /\ Refuse(p)
                     /\ memName' \in {memName, "none"}
                     /\ UNCHANGED <<mutexName, sem, memory, opened, pid, holds>>

\* Fault: the pid is written only to a memory that the process has made itself.
WriteOwnOnly(p) ==
  /\ Goes(p, "write", "unlockAgain")
  /\ memory' = IF mem[p] = p THEN [memory EXCEPT ![p].pid = p] ELSE memory
  /\ Local /\ UNCHANGED <<mutexName, memName, sem, opened, pid, holds>>

\* SharedMemory::write of getpid(), and its failure: exit code 0x6.
Write(p) ==
  /\ pc[p] = "write"
  /\ \/ ~memory[mem[p]].sized /\ BusError(p)
     \/ /\ memory[mem[p]].sized /\ Goes(p, "write", "unlockAgain")
        /\ memory' = [memory EXCEPT ![mem[p]].pid = p]
        /\ Local /\ UNCHANGED <<mutexName, memName, sem, opened, pid, holds>>

WriteFails(p) == /\ Goes(p, "write", "unlockFailed") /\ memName' = "none" /\ Refuse(p)
                 /\ UNCHANGED <<mutexName, sem, memory, opened, pid, holds>>

UnlockFailed(p) == /\ Goes(p, "unlockFailed", "ended") /\ Post(p)
                   /\ Local /\ UNCHANGED <<mutexName, memName, memory, opened, pid>>

UnlockAgain(p) == /\ Goes(p, "unlockAgain", "clearProcess") /\ Post(p)
                  /\ Local /\ UNCHANGED <<mutexName, memName, memory, opened, pid>>

-----------------------------------------------------------------------------
(***************************************************************************)
(* The loop of command_start (lines 1097-1103) around run.  Of run there   *)
(* is what the loop and the signals can tell: it may fail before it sets   *)
(* process_flag; it returns when the flag is down and no update is owed;   *)
(* and an update ends by setting the flag.                                 *)
(***************************************************************************)
Server(p) == UNCHANGED <<kernel, opened, history, command, pid, holds>>

ClearProcess(p) == /\ Goes(p, "clearProcess", "clearRestart")
                   /\ processFlag' = [processFlag EXCEPT ![p] = FALSE]
                   /\ Server(p) /\ UNCHANGED <<restartFlag, updateOwed>>

ClearRestart(p) == /\ Goes(p, "clearRestart", "init")
                   /\ restartFlag' = [restartFlag EXCEPT ![p] = FALSE]
                   /\ Server(p) /\ UNCHANGED <<processFlag, updateOwed>>

\* Lines 302-331: run returns 0x10 or 0x20, or makes its events.
InitRun(p) == /\ Goes(p, "init", "setProcess") \/ Goes(p, "init", "loop")
              /\ Server(p) /\ UNCHANGED flags

SetProcess(p) == /\ Goes(p, "setProcess", "serving")
                 /\ processFlag' = [processFlag EXCEPT ![p] = TRUE]
                 /\ Server(p) /\ UNCHANGED <<restartFlag, updateOwed>>

ModulesUpdated(p) == /\ Serving(p) /\ updateOwed[p]
                     /\ processFlag' = [processFlag EXCEPT ![p] = TRUE]
                     /\ updateOwed' = [updateOwed EXCEPT ![p] = FALSE]
                     /\ Server(p) /\ UNCHANGED <<pc, restartFlag>>

RunReturns(p) == /\ Goes(p, "serving", "loop")
                 /\ ~processFlag[p] /\ ~updateOwed[p]
                 /\ Server(p) /\ UNCHANGED flags

Loop(p) == /\ Goes(p, "loop", IF processFlag[p] \/ restartFlag[p] THEN "clearProcess"
                                                                  ELSE "endMem")
           /\ Server(p) /\ UNCHANGED flags

\* glob_mem.destroy and glob_mtx.destroy unlink the names, whatever they lead to now.
EndMem(p) == /\ Goes(p, "endMem", "endMutex") /\ memName' = "none"
             /\ Local /\ UNCHANGED <<mutexName, sem, memory, opened, pid, holds>>

\* Fault: only the memory is removed at the end.
EndMutexKept(p) == /\ Goes(p, "endMutex", "ended")
                   /\ Local /\ UNCHANGED <<kernel, opened, pid, holds>>

EndMutex(p) == /\ Goes(p, "endMutex", "ended") /\ mutexName' = "none"
               /\ Local /\ UNCHANGED <<memName, sem, memory, opened, pid, holds>>

-----------------------------------------------------------------------------
(***************************************************************************)
(* Signals and crashes.  A handler changes the flags of the process it     *)
(* runs in, and ends a sem_wait that was blocked: lock returns false,      *)
(* which no caller looks at, and the process goes on without the mutex.    *)
(***************************************************************************)
Blocked(q) == Locking(q) /\ sem[mtx[q]] = 0

\* What a signal of command sort c does to a process q that is alive.
Handle(q, c) ==
  /\ processFlag' = [processFlag EXCEPT ![q] = FALSE]
  /\ restartFlag' = IF c = "restart" THEN [restartFlag EXCEPT ![q] = TRUE] ELSE restartFlag
  /\ updateOwed'  = IF c = "update" /\ pc[q] \in {"setProcess", "serving"}
                    THEN [updateOwed EXCEPT ![q] = TRUE] ELSE updateOwed
  /\ interruptions' = IF Blocked(q) THEN interruptions + 1 ELSE interruptions

After(q) == IF Blocked(q) THEN LockTo(pc[q]) ELSE pc[q]

\* command_restart, command_terminate and command_update_module: System::sendSignal.
Send(p) ==
  LET q == pid[p]
  IN  /\ pc[p] = "send"
      /\ IF q \in Procs /\ Alive(q)
         THEN /\ Handle(q, command[p])
              /\ pc' = [pc EXCEPT ![q] = After(q), ![p] = "ended"]
         ELSE /\ pc' = [pc EXCEPT ![p] = "ended"]
              /\ UNCHANGED <<flags, interruptions>>
      /\ UNCHANGED <<kernel, opened, command, pid, holds, passed, refused, accidents>>

\* SIGINT, from a terminal.
Signal(q) == /\ accidents < MaxAccidents /\ accidents' = accidents + 1
             /\ Alive(q) /\ Handle(q, "kill")
             /\ pc' = [pc EXCEPT ![q] = After(q)]
             /\ UNCHANGED <<kernel, opened, command, pid, holds, passed, refused>>

Crash(p) == /\ accidents < MaxAccidents /\ accidents' = accidents + 1
            /\ Alive(p) /\ pc' = [pc EXCEPT ![p] = "dead"]
            /\ UNCHANGED <<kernel, opened, command, pid, holds, flags, passed, refused,
                           interruptions>>

Step(p) == \/ Begin(p) \/ ForceMem(p) \/ ForceMutex(p)
           \/ Open(p) \/ Lock(p) \/ OpenMem(p) \/ Read(p) \/ Unlock(p)
           \/ OpenAgain(p) \/ CreateMutex(p) \/ CreateMutexFails(p)
           \/ OpenMemAgain(p) \/ CreateMem(p) \/ CreateMemFails(p)
           \/ Write(p) \/ WriteFails(p) \/ UnlockFailed(p) \/ UnlockAgain(p)
           \/ ClearProcess(p) \/ ClearRestart(p) \/ InitRun(p) \/ SetProcess(p)
           \/ ModulesUpdated(p) \/ RunReturns(p) \/ Loop(p)
           \/ EndMem(p) \/ EndMutex(p) \/ Send(p)

Next == \E p \in Procs : Step(p) \/ Signal(p) \/ Crash(p)

Spec == Init /\ [][Next]_vars

-----------------------------------------------------------------------------
\* The types of the variables.  No semaphore is ever negative.
TypeOK ==
  /\ mutexName \in Objects \union {"none"} /\ memName \in Objects \union {"none"}
  /\ sem \in [Objects -> Nat]
  /\ memory \in [Objects -> [sized : BOOLEAN, pid : Procs \union {"stranger"}]]
  /\ pc \in [Procs -> Label] /\ command \in [Procs -> Commands]
  /\ mtx \in [Procs -> Objects \union {"none"}] /\ mem \in [Procs -> Objects \union {"none"}]
  /\ pid \in [Procs -> Procs \union {"none", "stranger"}]
  /\ holds \in [Procs -> Objects \union {"none"}]
  /\ flags \in [Procs -> BOOLEAN] \X [Procs -> BOOLEAN] \X [Procs -> BOOLEAN]
  /\ passed \subseteq Procs /\ refused \subseteq Procs
  /\ interruptions \in Nat /\ accidents \in Nat

\* Two processes are between lock and unlock of one semaphore only after a signal has
\* ended a sem_wait whose failure lock's callers do not see (lines 916, 1044, 1072).
MutexExcludes ==
  interruptions = 0 =>
    \A p, q \in Procs : Inside(p) /\ Inside(q) /\ mtx[p] = mtx[q] => p = q

\* A server that alone has passed the check, and that no --force has passed by, can be
\* found: the names lead to a memory that holds its pid (lines 1086-1093).
LoneServerIsFound ==
  \A p \in Procs :
    /\ pc[p] \in {"clearProcess", "clearRestart", "init", "setProcess", "serving", "loop"}
    /\ passed = {p}
    /\ \A q \in Procs \ {p} : command[q] # "force"
    => mutexName # "none" /\ memName # "none" /\ memory[memName].pid = p

\* When every process has ended of itself and the system refused them nothing, a server
\* that ran has left no name behind, even if several ran at once (lines 1105-1106).
NamesAreGone ==
  /\ \A p \in Procs : pc[p] = "ended"
  /\ passed # {} /\ refused = {}
  => mutexName = "none" /\ memName = "none"

\* A process that waits for the mutex waits for one that is inside, and so will post
\* it, or for one that died there: no return of a command forgets an unlock.
WaitsForAHolder ==
  \A p \in Procs : Locking(p) /\ sem[mtx[p]] = 0 =>
    \E q \in Procs : holds[q] = mtx[p] /\ (Inside(q) \/ pc[q] = "dead")

\* A process uses a semaphore or a memory only when it has one open.
UsesWhatIsOpen ==
  \A p \in Procs : /\ Locking(p) \/ Inside(p) => mtx[p] # "none"
                   /\ pc[p] \in {"read", "write"} => mem[p] # "none"

\* A process that took a semaphore and has not posted it is inside it, or died there.
HoldersAreInside ==
  \A p \in Procs : holds[p] # "none" =>
    holds[p] = mtx[p] /\ (Inside(p) \/ pc[p] = "dead")

\* Unless a signal has ended a sem_wait, a semaphore is 0 or 1, it is 0 while a process
\* holds it, no two hold the same, and who is inside holds it.
HeldByOne ==
  interruptions = 0 =>
    /\ \A o \in Objects : sem[o] <= 1
    /\ \A p \in Procs : holds[p] # "none" => sem[holds[p]] = 0
    /\ \A p, q \in Procs : holds[p] # "none" /\ holds[p] = holds[q] => p = q
    /\ \A p \in Procs : Inside(p) => holds[p] = mtx[p]

\* A semaphore that is 0 is held.
ZeroIsHeld == \A o \in Objects : sem[o] = 0 => \E p \in Procs : holds[p] = o

\* The inductive invariant of the named semaphore.
LockInv == TypeOK /\ UsesWhatIsOpen /\ HoldersAreInside /\ HeldByOne /\ ZeroIsHeld

-----------------------------------------------------------------------------
(***************************************************************************)
(* What the program says of itself, and its code does not do.              *)
(***************************************************************************)

\* "Server Instance with name ... Already running" (Server.cpp:1059): without --force
\* two servers of one name do not serve at the same time.
OneServer == \A p, q \in Procs : Serving(p) /\ Serving(q) => p = q

\* "Store PID at front of sharedMemory" (Server.cpp:1083): a process that nothing has
\* killed does not die.
NobodyDies == accidents = 0 => \A p \in Procs : pc[p] # "dead"
=============================================================================
