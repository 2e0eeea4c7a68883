-------------------------- MODULE ServerCoreProofs --------------------------
(***************************************************************************)
(* Proofs about ServerCore, for any set of workers, any connections and    *)
(* any queue limit: what every step keeps (CoreInv), and who may sleep on  *)
(* which event (EventInv).                                                 *)
(***************************************************************************)
EXTENDS ServerCore, FiniteSetTheorems, TLAPS

-----------------------------------------------------------------------------
\* What the operations of an event return is an event: Event.cpp:72-89.
LEMMA EventClosed ==
  ASSUME NEW T, NEW e \in EventOf(T), NEW t \in T
  PROVE  /\ Notify(e) \in EventOf(T)
         /\ Reset(e) \in EventOf(T)
         /\ Block(e, t) \in EventOf(T)
         /\ SpuriousWake(e, t) \in EventOf(T)
  BY DEF EventOf, Notify, Reset, Block, SpuriousWake

LEMMA NotifySomeClosed ==
  ASSUME NEW T, NEW e \in EventOf(T), NEW n, NEW f \in NotifySome(e, n)
  PROVE  f \in EventOf(T)
<1>1. PICK W \in SUBSET e.sleepers :
        f = [signaled |-> TRUE, sleepers |-> e.sleepers \ W]
  BY DEF NotifySome
<1>2. e.sleepers \subseteq T
  BY DEF EventOf
<1> QED
  BY <1>1, <1>2 DEF EventOf

\* The event array after one of its events has been replaced by another one.
LEMMA EventUpdateTyped ==
  ASSUME NEW T, NEW a \in [EventName -> EventOf(T)],
         NEW n \in EventName, NEW e \in EventOf(T)
  PROVE  [a EXCEPT ![n] = e] \in [EventName -> EventOf(T)]
  OBVIOUS

\* The typed pieces of an event array that an action replaces one event of.
LEMMA EventStepsTyped ==
  ASSUME NEW a \in [EventName -> EventOf(Threads)], NEW n \in EventName
  PROVE  /\ [a EXCEPT ![n] = Notify(@)] \in [EventName -> EventOf(Threads)]
         /\ [a EXCEPT ![n] = Reset(@)] \in [EventName -> EventOf(Threads)]
         /\ \A t \in Threads :
              /\ [a EXCEPT ![n] = Block(@, t)] \in [EventName -> EventOf(Threads)]
              /\ [a EXCEPT ![n] = SpuriousWake(@, t)] \in [EventName -> EventOf(Threads)]
<1>1. a[n] \in EventOf(Threads)
  OBVIOUS
<1>2. /\ Notify(a[n]) \in EventOf(Threads)
      /\ Reset(a[n]) \in EventOf(Threads)
      /\ \A t \in Threads : /\ Block(a[n], t) \in EventOf(Threads)
                            /\ SpuriousWake(a[n], t) \in EventOf(Threads)
  <2>1. "main" \in Threads
    BY DEF Threads
  <2> QED
    BY <1>1, <2>1, EventClosed
<1> QED
  BY <1>2

-----------------------------------------------------------------------------
\* The numbers of line 464: no more threads work than there are.
LEMMA IdleIsNatural ==
  ASSUME TypeOK, WorkingCountsBusy
  PROVE  /\ Cardinality(active) - working \in Nat
         /\ IsFiniteSet(active) /\ IsFiniteSet(Busy)
<1>1. IsFiniteSet(active)
  BY WorkersAssumption, FS_Subset DEF TypeOK
<1>2. /\ IsFiniteSet(Busy) /\ Cardinality(Busy) \in Nat /\ Cardinality(active) \in Nat
      /\ Cardinality(Busy) <= Cardinality(active)
  BY <1>1, FS_Subset, FS_CardinalityType DEF WorkingCountsBusy
<1> QED
  BY <1>1, <1>2 DEF WorkingCountsBusy

\* The initial state.
LEMMA CoreInit == Init => CoreInv
<1> SUFFICES ASSUME Init PROVE CoreInv
  OBVIOUS
<1>1. Live = {} /\ Busy = {}
  BY DEF Init, Live, Busy
<1>2. TypeOK
  <2>1. event \in [EventName -> EventOf(Threads)]
    BY DEF Init, EventName, EventOf, New
  <2>2. queue \in Seq(Conns)
    BY DEF Init
  <2>3. sock \in [Workers -> Conns \union {NoConn}] /\ workerPc \in [Workers -> WorkerLabel]
    BY DEF Init, WorkerLabel
  <2> QED
    BY <2>1, <2>2, <2>3 DEF Init, TypeOK, MainLabel, CycleLabel, HandlerLabel
<1>3. LockIsHeld /\ PopsWhatItRead /\ OwnsASocket
  BY WorkersAssumption DEF Init, LockIsHeld, PopsWhatItRead, OwnsASocket
<1>4. LiveIsActive /\ WorkingCountsBusy /\ TeardownIsLast
  BY <1>1, FS_EmptySet DEF Init, LiveIsActive, WorkingCountsBusy, TeardownIsLast
<1> QED
  BY <1>2, <1>3, <1>4 DEF CoreInv

-----------------------------------------------------------------------------
\* Types after a step of the main thread (Server.cpp:341-398).
LEMMA MainTypes == ASSUME TypeOK, MainStep PROVE TypeOK'
<1> USE DEF MainGoes, TypeOK, MainLabel, controlVars, connVars, poolVars, signalVars, pcs
<1>1. CASE MainEnterEpoll
  BY <1>1 DEF MainEnterEpoll
<1>2. CASE MainAccept
  BY <1>2 DEF MainAccept
<1>3. CASE MainLock
  BY <1>3 DEF MainLock
<1>4. CASE MainEmplace
  BY <1>4 DEF MainEmplace
<1>5. CASE MainUnlock
  BY <1>5 DEF MainUnlock
<1>6. CASE MainNotifyProcess
  BY <1>6, EventStepsTyped DEF MainNotifyProcess, EventName
<1>7. CASE MainCheckLimit
  BY <1>7 DEF MainCheckLimit
<1>8. CASE MainResetNotFull
  BY <1>8, EventStepsTyped DEF MainResetNotFull, EventName
<1>9. CASE MainWait
  BY <1>9 DEF MainWait
<1>10. CASE MainBlock
  BY <1>10, EventStepsTyped DEF MainBlock, EventName, Threads
<1>11. CASE MainReadFlag
  BY <1>11 DEF MainReadFlag
<1>12. CASE MainReadUpdate
  BY <1>12 DEF MainReadUpdate
<1>13. CASE MainLastNotify
  BY <1>13, EventStepsTyped DEF MainLastNotify, EventName
<1>14. CASE MainJoin
  BY <1>14 DEF MainJoin
<1>15. CASE MainClose
  BY <1>15 DEF MainClose
<1>16. CASE MainClear
  BY <1>16 DEF MainClear
<1> QED
  BY <1>1, <1>2, <1>3, <1>4, <1>5, <1>6, <1>7, <1>8, <1>9, <1>10, <1>11, <1>12,
     <1>13, <1>14, <1>15, <1>16 DEF MainStep

\* Types after a step of cycleQueue (Server.cpp:442-485).
LEMMA CycleTypes == ASSUME TypeOK, WorkingCountsBusy, CycleStep PROVE TypeOK'
<1> USE DEF CycleGoes, TypeOK, CycleLabel, controlVars, connVars, poolVars, signalVars, pcs
<1>1. CASE CycleOuter
  BY <1>1 DEF CycleOuter
<1>2. CASE CycleUpdateModules
  BY <1>2 DEF CycleUpdateModules
<1>3. CASE CycleSetProcess
  BY <1>3 DEF CycleSetProcess
<1>4. CASE CycleResetUpdate
  BY <1>4, EventStepsTyped DEF CycleResetUpdate, EventName
<1>5. CASE CycleGrow
  BY <1>5 DEF CycleGrow
<1>6. CASE CycleCreate
  BY <1>6 DEF CycleCreate, WorkerLabel
<1>7. CASE CycleQueueEmpty
  BY <1>7 DEF CycleQueueEmpty
<1>8. CASE CycleCountIdle
  BY <1>8, IdleIsNatural DEF CycleCountIdle
<1>9. CASE CycleCompareSize
  BY <1>9 DEF CycleCompareSize
<1>10. CASE CycleCapToSize
  <2>1. RacySize("cycle") \subseteq Nat
    BY BoundsAssumption, ConnsAssumption, FS_CardinalityType DEF RacySize
  <2> QED
    BY <1>10, <2>1 DEF CycleCapToSize
<1>11. CASE CycleNotifyWorkers
  <2>1. PICK e \in NotifySome(event["threadCycle"], notifyCount) :
          event' = [event EXCEPT !["threadCycle"] = e]
    BY <1>11 DEF CycleNotifyWorkers
  <2>2. event["threadCycle"] \in EventOf(Threads)
    BY DEF EventName
  <2>3. e \in EventOf(Threads)
    BY <2>1, <2>2, NotifySomeClosed
  <2>4. event' \in [EventName -> EventOf(Threads)]
    BY <2>1, <2>3, EventUpdateTyped DEF EventName
  <2> QED
    BY <1>11, <2>4 DEF CycleNotifyWorkers
<1>12. CASE CycleWait
  BY <1>12 DEF CycleWait
<1>13. CASE CycleBlock
  BY <1>13, EventStepsTyped DEF CycleBlock, EventName, Threads
<1>14. CASE CycleConsume
  BY <1>14, EventStepsTyped DEF CycleConsume, EventName
<1>15. CASE CycleReadFlag
  BY <1>15 DEF CycleReadFlag
<1>16. CASE CycleJoin
  BY <1>16 DEF CycleJoin, WorkerLabel
<1>17. CASE CycleNotifyNotFull
  BY <1>17, EventStepsTyped DEF CycleNotifyNotFull, EventName
<1>18. CASE CycleAgain
  BY <1>18 DEF CycleAgain
<1> QED
  BY <1>1, <1>2, <1>3, <1>4, <1>5, <1>6, <1>7, <1>8, <1>9, <1>10, <1>11, <1>12,
     <1>13, <1>14, <1>15, <1>16, <1>17, <1>18 DEF CycleStep

\* Types after a step of a worker (Server.cpp:710-789).
LEMMA WorkerTypes ==
  ASSUME CoreInv, NEW w \in Workers, WorkerStep(w)
  PROVE  TypeOK'
<1> USE DEF WorkerGoes, TypeOK, WorkerLabel, controlVars, connVars, poolVars, signalVars, pcs
<1> TypeOK
  BY DEF CoreInv
<1>1. CASE WorkerWait(w)
  BY <1>1 DEF WorkerWait
<1>2. CASE WorkerBlock(w)
  BY <1>2, EventStepsTyped DEF WorkerBlock, EventName, Threads
<1>3. CASE WorkerReadFlag(w)
  BY <1>3 DEF WorkerReadFlag
<1>4. CASE WorkerLock(w)
  BY <1>4 DEF WorkerLock
<1>5. CASE WorkerFront(w)
  <2>1. (IF queue = <<>> THEN NoConn ELSE Head(queue)) \in Conns \union {NoConn}
    OBVIOUS
  <2> QED
    BY <1>5, <2>1 DEF WorkerFront
<1>6. CASE WorkerPop(w)
  <2>1. queue' \in Seq(Conns)
    BY <1>6 DEF WorkerPop, CoreInv, PopsWhatItRead
  <2> QED
    BY <1>6, <2>1 DEF WorkerPop
<1>7. CASE WorkerIncrement(w)
  BY <1>7 DEF WorkerIncrement
<1>8. CASE WorkerServe(w)
  BY <1>8 DEF WorkerServe, CoreInv, OwnsASocket
<1>9. CASE WorkerDecrement(w)
  <2>1. w \in Busy
    BY <1>9 DEF WorkerDecrement, Busy
  <2>2. working \in Nat /\ working # 0
    BY <2>1, IdleIsNatural, FS_EmptySet DEF CoreInv, WorkingCountsBusy
  <2> QED
    BY <1>9, <2>2 DEF WorkerDecrement
<1> QED
  BY <1>1, <1>2, <1>3, <1>4, <1>5, <1>6, <1>7, <1>8, <1>9 DEF WorkerStep

\* Types after a step of the environment or of a signal handler.
LEMMA OtherTypes ==
  ASSUME TypeOK,
         \/ \E c \in Conns : Connect(c)
         \/ \E e \in EventName : Spurious(e)
         \/ SignalStop \/ SignalUpdate \/ HandlerStep
  PROVE  TypeOK'
<1> USE DEF TypeOK, controlVars, connVars, poolVars, signalVars, pcs
<1>1. CASE \E c \in Conns : Connect(c)
  BY <1>1 DEF Connect
<1>2. CASE \E e \in EventName : Spurious(e)
  <2>1. PICK e \in EventName : Spurious(e)
    BY <1>2
  <2>2. PICK t \in event[e].sleepers : event' = [event EXCEPT ![e] = SpuriousWake(@, t)]
    BY <2>1 DEF Spurious
  <2>3. t \in Threads
    BY <2>2 DEF EventOf
  <2> QED
    BY <2>1, <2>2, <2>3, EventStepsTyped DEF Spurious
<1>3. CASE SignalStop \/ SignalUpdate
  BY <1>3 DEF SignalStop, SignalUpdate, Interrupt, HandlerLabel, MainLabel
<1>4. CASE HandlerStep
  BY <1>4, EventStepsTyped DEF HandlerStep, Handle, StopFlag, StopNotFull,
     StopProcessQueue, StopClose, UpdateEvent, UpdateFlag, UpdateProcessQueue,
     HandlerLabel, EventName
<1> QED
  BY <1>1, <1>2, <1>3, <1>4

-----------------------------------------------------------------------------
(***************************************************************************)
(* The parts of CoreInv other than the types, one lemma per thread.        *)
(***************************************************************************)

\* The main thread takes no socket, owns no worker and ends last.
LEMMA MainKeeps ==
  ASSUME CoreInv, MainStep
  PROVE  (LockIsHeld /\ PopsWhatItRead /\ OwnsASocket /\ LiveIsActive
            /\ WorkingCountsBusy /\ TeardownIsLast)'
<1> USE DEF MainGoes, controlVars, connVars, poolVars, signalVars, pcs
<1>1. UNCHANGED <<workerPc, active, working, cyclePc, sock>> /\ Live' = Live /\ Busy' = Busy
  BY DEF MainStep, MainEnterEpoll, MainAccept, MainLock, MainEmplace, MainUnlock,
     MainNotifyProcess, MainCheckLimit, MainResetNotFull, MainWait, MainBlock,
     MainReadFlag, MainReadUpdate, MainLastNotify, MainJoin, MainClose, MainClear,
     Live, Busy
<1>2. OwnsASocket' /\ LiveIsActive' /\ WorkingCountsBusy'
  BY <1>1 DEF CoreInv, OwnsASocket, LiveIsActive, WorkingCountsBusy
<1>3. LockIsHeld'
  BY WorkersAssumption DEF CoreInv, LockIsHeld, MainStep, MainEnterEpoll, MainAccept,
     MainLock, MainEmplace, MainUnlock, MainNotifyProcess, MainCheckLimit,
     MainResetNotFull, MainWait, MainBlock, MainReadFlag, MainReadUpdate,
     MainLastNotify, MainJoin, MainClose, MainClear
<1>4. PopsWhatItRead'
  <2>1. CASE MainEmplace
    \* The main thread holds the mutex, so no worker is about to pop.
    <3>1. \A w \in Workers : workerPc[w] # "pop"
      BY <2>1, WorkersAssumption DEF CoreInv, LockIsHeld, MainEmplace
    <3> QED
      BY <3>1, <1>1 DEF PopsWhatItRead
  <2>2. CASE ~MainEmplace
    <3>1. queue' = queue
      BY <2>2 DEF MainStep, MainEnterEpoll, MainAccept, MainLock, MainUnlock,
         MainNotifyProcess, MainCheckLimit, MainResetNotFull, MainWait, MainBlock,
         MainReadFlag, MainReadUpdate, MainLastNotify, MainJoin, MainClose, MainClear
    <3> QED
      BY <3>1, <1>1 DEF CoreInv, PopsWhatItRead
  <2> QED
    BY <2>1, <2>2
<1>5. TeardownIsLast'
  <2>1. CASE MainJoin
    <3>1. cyclePc = "done" /\ active = {} /\ Live = {}
      BY <2>1 DEF MainJoin, CoreInv, LiveIsActive
    <3> QED
      BY <3>1, <1>1 DEF TeardownIsLast
  <2>2. CASE ~MainJoin
    BY <2>2, <1>1 DEF CoreInv, TeardownIsLast, MainStep, MainEnterEpoll, MainAccept,
       MainLock, MainEmplace, MainUnlock, MainNotifyProcess, MainCheckLimit,
       MainResetNotFull, MainWait, MainBlock, MainReadFlag, MainReadUpdate,
       MainLastNotify, MainClose, MainClear
  <2> QED
    BY <2>1, <2>2
<1> QED
  BY <1>2, <1>3, <1>4, <1>5

\* cycleQueue makes and joins workers, and has nothing more to do once it has ended.
LEMMA CycleKeeps ==
  ASSUME CoreInv, CycleStep
  PROVE  (LockIsHeld /\ PopsWhatItRead /\ OwnsASocket /\ LiveIsActive
            /\ WorkingCountsBusy /\ TeardownIsLast)'
<1> USE DEF CycleGoes, controlVars, connVars, poolVars, signalVars, pcs
<1>1. UNCHANGED <<mainPc, queue, queueLock, sock, working>> /\ cyclePc # "done"
  BY DEF CycleStep, CycleOuter, CycleUpdateModules, CycleSetProcess, CycleResetUpdate,
     CycleGrow, CycleCreate, CycleQueueEmpty, CycleCountIdle, CycleCompareSize,
     CycleCapToSize, CycleNotifyWorkers, CycleWait, CycleBlock, CycleConsume,
     CycleReadFlag, CycleJoin, CycleNotifyNotFull, CycleAgain
<1>2. CASE CycleCreate
  <2>1. PICK w \in Workers \ active :
          active' = active \union {w} /\ workerPc' = [workerPc EXCEPT ![w] = "wait"]
    BY <1>2 DEF CycleCreate
  <2>2. workerPc[w] = "none" /\ workerPc \in [Workers -> WorkerLabel]
    BY DEF CoreInv, LiveIsActive, Live, TypeOK
  <2>3. Busy' = Busy /\ Live' = Live \union {w}
    BY <2>1, <2>2 DEF Busy, Live
  <2>4. LockIsHeld' /\ PopsWhatItRead' /\ OwnsASocket'
    BY <1>1, <2>1, <2>2 DEF CoreInv, LockIsHeld, PopsWhatItRead, OwnsASocket
  <2>5. LiveIsActive' /\ WorkingCountsBusy'
    BY <1>1, <1>2, <2>1, <2>3 DEF CoreInv, LiveIsActive, WorkingCountsBusy, CycleCreate
  <2>6. TeardownIsLast'
    BY <1>1 DEF CoreInv, TeardownIsLast
  <2> QED
    BY <2>4, <2>5, <2>6
<1>3. CASE CycleJoin
  <2>1. /\ \A w \in active : workerPc[w] = "exit"
        /\ workerPc' = [w \in Workers |-> IF w \in active THEN "none" ELSE workerPc[w]]
        /\ active' = {}
    BY <1>3 DEF CycleJoin
  <2>2. \A w \in Workers : workerPc'[w] = "none"
    BY <2>1 DEF CoreInv, LiveIsActive, Live
  <2>3. \A w \in Workers : workerPc[w] \in {"none", "exit"}
    BY <2>1 DEF CoreInv, LiveIsActive, Live
  <2>4. Live' = {} /\ Busy' = {} /\ Busy = {}
    BY <2>2, <2>3 DEF Live, Busy
  <2>5. LockIsHeld' /\ PopsWhatItRead' /\ OwnsASocket'
    BY <1>1, <2>2, <2>3 DEF CoreInv, LockIsHeld, PopsWhatItRead, OwnsASocket
  <2>6. LiveIsActive' /\ WorkingCountsBusy'
    BY <1>1, <2>1, <2>4 DEF CoreInv, LiveIsActive, WorkingCountsBusy
  <2>7. TeardownIsLast'
    BY <1>1 DEF CoreInv, TeardownIsLast
  <2> QED
    BY <2>5, <2>6, <2>7
<1>4. CASE ~CycleCreate /\ ~CycleJoin
  <2>1. UNCHANGED <<workerPc, active>> /\ Live' = Live /\ Busy' = Busy
    BY <1>4 DEF CycleStep, CycleOuter, CycleUpdateModules, CycleSetProcess,
       CycleResetUpdate, CycleGrow, CycleQueueEmpty, CycleCountIdle, CycleCompareSize,
       CycleCapToSize, CycleNotifyWorkers, CycleWait, CycleBlock, CycleConsume,
       CycleReadFlag, CycleNotifyNotFull, CycleAgain, Live, Busy
  <2>2. LockIsHeld' /\ PopsWhatItRead' /\ OwnsASocket' /\ WorkingCountsBusy'
    BY <1>1, <2>1 DEF CoreInv, LockIsHeld, PopsWhatItRead, OwnsASocket, WorkingCountsBusy
  <2>3. TeardownIsLast'
    BY <1>1 DEF CoreInv, TeardownIsLast
  <2>4. LiveIsActive'
    BY <1>4, <2>1 DEF CoreInv, LiveIsActive, CycleStep, CycleOuter, CycleUpdateModules,
       CycleSetProcess, CycleResetUpdate, CycleGrow, CycleQueueEmpty, CycleCountIdle,
       CycleCompareSize, CycleCapToSize, CycleNotifyWorkers, CycleWait, CycleBlock,
       CycleConsume, CycleReadFlag, CycleNotifyNotFull, CycleAgain
  <2> QED
    BY <2>2, <2>3, <2>4
<1> QED
  BY <1>2, <1>3, <1>4

\* A worker holds the mutex while it looks at the queue, and counts itself.
LEMMA WorkerKeeps ==
  ASSUME CoreInv, NEW w \in Workers, WorkerStep(w)
  PROVE  (LockIsHeld /\ PopsWhatItRead /\ OwnsASocket /\ LiveIsActive
            /\ WorkingCountsBusy /\ TeardownIsLast)'
<1> USE DEF WorkerGoes, controlVars, connVars, poolVars, signalVars, pcs
<1>1. /\ UNCHANGED <<mainPc, cyclePc, active>>
      /\ workerPc[w] # "none" /\ workerPc'[w] # "none"
      /\ \A v \in Workers \ {w} : workerPc'[v] = workerPc[v] /\ sock'[v] = sock[v]
  BY DEF CoreInv, TypeOK, WorkerStep, WorkerWait, WorkerBlock, WorkerReadFlag,
     WorkerLock, WorkerFront, WorkerPop, WorkerIncrement, WorkerServe, WorkerDecrement
<1>2. LockIsHeld'
  BY WorkersAssumption DEF CoreInv, TypeOK, LockIsHeld, WorkerStep, WorkerWait,
     WorkerBlock, WorkerReadFlag, WorkerLock, WorkerFront, WorkerPop, WorkerIncrement,
     WorkerServe, WorkerDecrement
<1>3. PopsWhatItRead'
  <2>1. CASE WorkerFront(w)
    BY <2>1, <1>1 DEF WorkerFront, CoreInv, TypeOK, PopsWhatItRead
  <2>2. CASE WorkerPop(w)
    <3>1. \A v \in Workers \ {w} : workerPc[v] # "pop"
      BY <2>2 DEF WorkerPop, CoreInv, LockIsHeld
    <3>2. workerPc'[w] # "pop"
      BY <2>2 DEF WorkerPop, CoreInv, TypeOK
    <3> QED
      BY <3>1, <3>2, <1>1 DEF PopsWhatItRead
  <2>3. CASE ~WorkerFront(w) /\ ~WorkerPop(w)
    <3>1. queue' = queue /\ workerPc'[w] # "pop"
      BY <2>3 DEF CoreInv, TypeOK, WorkerStep, WorkerWait, WorkerBlock, WorkerReadFlag,
         WorkerLock, WorkerIncrement, WorkerServe, WorkerDecrement
    <3> QED
      BY <3>1, <1>1 DEF CoreInv, PopsWhatItRead
  <2> QED
    BY <2>1, <2>2, <2>3
<1>4. OwnsASocket'
  <2>1. workerPc'[w] \in {"taken", "serve"} => sock'[w] # NoConn
    BY DEF CoreInv, TypeOK, OwnsASocket, WorkerStep, WorkerWait, WorkerBlock,
       WorkerReadFlag, WorkerLock, WorkerFront, WorkerPop, WorkerIncrement,
       WorkerServe, WorkerDecrement
  <2> QED
    BY <2>1, <1>1 DEF CoreInv, OwnsASocket
<1>5. LiveIsActive'
  <2>1. Live' = Live
    BY <1>1 DEF Live
  <2> QED
    BY <2>1, <1>1 DEF CoreInv, LiveIsActive
<1>6. WorkingCountsBusy'
  <2>1. Busy' \subseteq active'
    <3>1. w \in active
      BY <1>1 DEF CoreInv, LiveIsActive, Live
    <3> QED
      BY <3>1, <1>1 DEF CoreInv, WorkingCountsBusy, Busy
  <2>2. IsFiniteSet(Busy)
    BY IdleIsNatural DEF CoreInv
  <2>3. CASE WorkerIncrement(w)
    <3>1. w \notin Busy /\ Busy' = Busy \union {w} /\ working' = working + 1
      BY <2>3, <1>1 DEF WorkerIncrement, Busy, CoreInv, TypeOK
    <3> QED
      BY <3>1, <2>1, <2>2, FS_AddElement DEF CoreInv, WorkingCountsBusy
  <2>4. CASE WorkerDecrement(w)
    <3>1. w \in Busy /\ Busy' = Busy \ {w} /\ working' = working - 1
      BY <2>4, <1>1 DEF WorkerDecrement, Busy, CoreInv, TypeOK
    <3> QED
      BY <3>1, <2>1, <2>2, FS_RemoveElement DEF CoreInv, WorkingCountsBusy
  <2>5. CASE ~WorkerIncrement(w) /\ ~WorkerDecrement(w)
    <3>1. Busy' = Busy /\ working' = working
      BY <2>5, <1>1 DEF Busy, CoreInv, TypeOK, WorkerStep, WorkerWait, WorkerBlock,
         WorkerReadFlag, WorkerLock, WorkerFront, WorkerPop, WorkerServe
    <3> QED
      BY <3>1, <2>1 DEF CoreInv, WorkingCountsBusy
  <2> QED
    BY <2>3, <2>4, <2>5
<1>7. TeardownIsLast'
  <2>1. Live' = Live
    BY <1>1 DEF Live
  <2> QED
    BY <2>1, <1>1 DEF CoreInv, TeardownIsLast
<1> QED
  BY <1>2, <1>3, <1>4, <1>5, <1>6, <1>7

\* Clients, spurious wake-ups and signal handlers leave the threads where they are,
\* except that a signal takes the main thread out of epoll_wait.
LEMMA OtherKeeps ==
  ASSUME CoreInv,
         \/ \E c \in Conns : Connect(c)
         \/ \E e \in EventName : Spurious(e)
         \/ SignalStop \/ SignalUpdate \/ HandlerStep
  PROVE  (LockIsHeld /\ PopsWhatItRead /\ OwnsASocket /\ LiveIsActive
            /\ WorkingCountsBusy /\ TeardownIsLast)'
<1> USE DEF controlVars, connVars, poolVars, signalVars, pcs
<1>1. /\ UNCHANGED <<workerPc, cyclePc, queue, queueLock, sock, active, working>>
      /\ mainPc' = mainPc \/ (mainPc = "epoll" /\ mainPc' = "flag")
  <2>1. CASE \E c \in Conns : Connect(c)
    BY <2>1 DEF Connect
  <2>2. CASE \E e \in EventName : Spurious(e)
    BY <2>2 DEF Spurious
  <2>3. CASE SignalStop \/ SignalUpdate
    BY <2>3 DEF SignalStop, SignalUpdate, Interrupt
  <2>4. CASE HandlerStep
    BY <2>4 DEF HandlerStep, Handle, StopFlag, StopNotFull, StopProcessQueue, StopClose,
       UpdateEvent, UpdateFlag, UpdateProcessQueue
  <2> QED
    BY <2>1, <2>2, <2>3, <2>4
<1>2. Live' = Live /\ Busy' = Busy
  BY <1>1 DEF Live, Busy
<1> QED
  BY <1>1, <1>2 DEF CoreInv, LockIsHeld, PopsWhatItRead, OwnsASocket, LiveIsActive,
     WorkingCountsBusy, TeardownIsLast

-----------------------------------------------------------------------------
\* CoreInv is inductive.
LEMMA CoreStep == CoreInv /\ [Next]_vars => CoreInv'
<1> SUFFICES ASSUME CoreInv, [Next]_vars PROVE CoreInv'
  OBVIOUS
<1> USE DEF CoreInv
<1>1. CASE MainStep
  BY <1>1, MainTypes, MainKeeps
<1>2. CASE CycleStep
  BY <1>2, CycleTypes, CycleKeeps
<1>3. CASE \E w \in Workers : WorkerStep(w)
  BY <1>3, WorkerTypes, WorkerKeeps
<1>4. CASE \/ \E c \in Conns : Connect(c)
           \/ \E e \in EventName : Spurious(e)
           \/ SignalStop \/ SignalUpdate \/ HandlerStep
  BY <1>4, OtherTypes, OtherKeeps
<1>5. CASE UNCHANGED vars
  <2>1. TypeOK'
    BY <1>5 DEF vars, controlVars, connVars, poolVars, signalVars, pcs, TypeOK
  <2>2. Live' = Live /\ Busy' = Busy
    BY <1>5 DEF vars, pcs, Live, Busy
  <2> QED
    BY <1>5, <2>1, <2>2 DEF vars, connVars, poolVars, pcs, LockIsHeld, PopsWhatItRead,
       OwnsASocket, LiveIsActive, WorkingCountsBusy, TeardownIsLast
<1> QED
  BY <1>1, <1>2, <1>3, <1>4, <1>5 DEF Next, Finished

\* In every reachable state of the server the invariant holds.
THEOREM CoreCorrect == Spec => []CoreInv
  BY CoreInit, CoreStep, PTL DEF Spec

\* The variables have their types; in particular the size_t of line 464 never wraps.
THEOREM TypeCorrect == Spec => []TypeOK
<1>1. CoreInv => TypeOK
  BY DEF CoreInv
<1> QED
  BY <1>1, CoreCorrect, PTL

\* threads_working_count is the number of workers that serve a connection.
THEOREM WorkingCorrect == Spec => []WorkingCountsBusy
<1>1. CoreInv => WorkingCountsBusy
  BY DEF CoreInv
<1> QED
  BY <1>1, CoreCorrect, PTL

\* updateModules never runs while a worker exists.
THEOREM UpdateQuiescent == Spec => []UpdateIsQuiescent
<1>1. CoreInv => UpdateIsQuiescent
  BY DEF CoreInv, LiveIsActive, UpdateIsQuiescent
<1> QED
  BY <1>1, CoreCorrect, PTL

\* The events and the modules are destroyed after every thread has ended.
THEOREM TeardownCorrect == Spec => []TeardownIsLast
<1>1. CoreInv => TeardownIsLast
  BY DEF CoreInv
<1> QED
  BY <1>1, CoreCorrect, PTL

-----------------------------------------------------------------------------
(* The events: who may sleep on which of them, and when their flags are     *)
(* clear.                                                                   *)

\* At first nobody sleeps.
LEMMA EventInit == Init => EventInv
<1> SUFFICES ASSUME Init PROVE EventInv
  OBVIOUS
<1>1. /\ event["threadCycle"].sleepers = {} /\ ~Notified(event["threadCycle"])
      /\ Notified(event["notFull"])
      /\ ~Notified(event["update"])
  BY DEF Init, EventName, New, Notified
<1>2. FirstNotification
  BY <1>1 DEF Init, FirstNotification
<1>3. SleeperIsAlone
  BY <1>1 DEF Init, SleeperIsAlone
<1>4. ClearOnlyInWait /\ UpdateIsOwed
  BY <1>1 DEF Init, ClearOnlyInWait, UpdateIsOwed
<1> QED
  BY <1>2, <1>3, <1>4 DEF EventInv

-----------------------------------------------------------------------------
\* The flag of eventNotFullQueue is cleared by the main thread on its way to the wait.
LEMMA ClearStep ==
  ASSUME CoreInv, ClearOnlyInWait, [Next]_vars
  PROVE  ClearOnlyInWait'
<1> USE DEF ClearOnlyInWait, controlVars, connVars, poolVars, signalVars, pcs
<1>1. event \in [EventName -> EventOf(Threads)]
  BY DEF CoreInv, TypeOK
<1>2. CASE MainStep
  BY <1>1, <1>2 DEF EventName, Notify, Reset, Block, Notified, EventOf, MainGoes,
     MainStep, MainEnterEpoll, MainAccept, MainLock, MainEmplace, MainUnlock,
     MainNotifyProcess, MainCheckLimit, MainResetNotFull, MainWait, MainBlock,
     MainReadFlag, MainReadUpdate, MainLastNotify, MainJoin, MainClose, MainClear
<1>3. CASE ~MainStep
  <2>1. Notified(event["notFull"]) => Notified(event'["notFull"])
    <3>1. CASE CycleStep
      BY <1>1, <3>1 DEF EventName, Notify, Reset, Block, Notified, EventOf, CycleGoes,
         CycleStep, CycleOuter, CycleUpdateModules, CycleSetProcess, CycleResetUpdate,
         CycleGrow, CycleCreate, CycleQueueEmpty, CycleCountIdle, CycleCompareSize,
         CycleCapToSize, CycleNotifyWorkers, CycleWait, CycleBlock, CycleConsume,
         CycleReadFlag, CycleJoin, CycleNotifyNotFull, CycleAgain
    <3>2. CASE \E w \in Workers : WorkerStep(w)
      BY <1>1, <3>2 DEF EventName, Block, Notified, EventOf, WorkerGoes, WorkerStep,
         WorkerWait, WorkerBlock, WorkerReadFlag, WorkerLock, WorkerFront, WorkerPop,
         WorkerIncrement, WorkerServe, WorkerDecrement
    <3>3. CASE HandlerStep
      BY <1>1, <3>3 DEF EventName, Notify, Notified, EventOf, HandlerStep, Handle,
         StopFlag, StopNotFull, StopProcessQueue, StopClose, UpdateEvent, UpdateFlag,
         UpdateProcessQueue
    <3>4. CASE \/ \E c \in Conns : Connect(c)
               \/ \E e \in EventName : Spurious(e)
               \/ SignalStop \/ SignalUpdate
      BY <1>1, <3>4 DEF EventName, SpuriousWake, Notified, EventOf, Connect, Spurious,
         SignalStop, SignalUpdate, Interrupt
    <3>5. CASE UNCHANGED vars
      BY <3>5 DEF vars
    <3> QED
      BY <1>3, <3>1, <3>2, <3>3, <3>4, <3>5 DEF Next, Finished
  <2>2. mainPc' = mainPc \/ mainPc = "epoll"
    <3>1. CASE CycleStep
      BY <3>1 DEF CycleGoes, CycleStep, CycleOuter, CycleUpdateModules,
         CycleSetProcess, CycleResetUpdate, CycleGrow, CycleCreate, CycleQueueEmpty,
         CycleCountIdle, CycleCompareSize, CycleCapToSize, CycleNotifyWorkers, CycleWait,
         CycleBlock, CycleConsume, CycleReadFlag, CycleJoin, CycleNotifyNotFull, CycleAgain
    <3>2. CASE \E w \in Workers : WorkerStep(w)
      BY <3>2 DEF WorkerGoes, WorkerStep, WorkerWait, WorkerBlock, WorkerReadFlag,
         WorkerLock, WorkerFront, WorkerPop, WorkerIncrement, WorkerServe, WorkerDecrement
    <3>3. CASE HandlerStep
      BY <3>3 DEF HandlerStep, Handle, StopFlag, StopNotFull, StopProcessQueue, StopClose,
         UpdateEvent, UpdateFlag, UpdateProcessQueue
    <3>4. CASE \/ \E c \in Conns : Connect(c)
               \/ \E e \in EventName : Spurious(e)
               \/ SignalStop \/ SignalUpdate
      BY <3>4 DEF Connect, Spurious, SignalStop, SignalUpdate, Interrupt
    <3>5. CASE UNCHANGED vars
      BY <3>5 DEF vars
    <3> QED
      BY <1>3, <3>1, <3>2, <3>3, <3>4, <3>5 DEF Next, Finished
  <2> QED
    BY <2>1, <2>2
<1> QED
  BY <1>2, <1>3

-----------------------------------------------------------------------------
\* Each request is served at most once.
LEMMA OwedStep ==
  ASSUME CoreInv, UpdateIsOwed, [Next]_vars
  PROVE  UpdateIsOwed'
<1> USE DEF UpdateIsOwed, controlVars, connVars, poolVars, signalVars, pcs
<1>1. /\ event \in [EventName -> EventOf(Threads)]
      /\ version \in Nat /\ updates \in Nat
  BY DEF CoreInv, TypeOK
<1>2. CASE CycleStep
  <2>1. UNCHANGED <<updates, handler>>
    BY <1>2 DEF CycleGoes, CycleStep, CycleOuter, CycleUpdateModules, CycleSetProcess,
       CycleResetUpdate, CycleGrow, CycleCreate, CycleQueueEmpty, CycleCountIdle,
       CycleCompareSize, CycleCapToSize, CycleNotifyWorkers, CycleWait, CycleBlock,
       CycleConsume, CycleReadFlag, CycleJoin, CycleNotifyNotFull, CycleAgain
  <2>2. CASE CycleUpdateModules
    BY <1>1, <2>1, <2>2 DEF CycleUpdateModules, CycleGoes
  <2>3. CASE CycleSetProcess
    BY <1>1, <2>1, <2>3 DEF CycleSetProcess, CycleGoes
  <2>4. CASE CycleResetUpdate
    <3>1. ~Notified(event'["update"])
      BY <1>1, <2>4 DEF CycleResetUpdate, EventName, EventOf, Notified, Reset
    <3> QED
      BY <1>1, <2>1, <2>4, <3>1 DEF CycleResetUpdate, CycleGoes
  <2>5. CASE ~CycleUpdateModules /\ ~CycleSetProcess /\ ~CycleResetUpdate
    <3>1. Notified(event'["update"]) = Notified(event["update"]) /\ version' = version
      BY <1>1, <1>2, <2>5 DEF EventName, Notify, Reset, Block, Notified, EventOf,
         CycleGoes, CycleStep, CycleOuter, CycleGrow, CycleCreate, CycleQueueEmpty,
         CycleCountIdle, CycleCompareSize, CycleCapToSize, CycleNotifyWorkers, CycleWait,
         CycleBlock, CycleConsume, CycleReadFlag, CycleJoin, CycleNotifyNotFull, CycleAgain
    <3>2. /\ cyclePc \notin {"setProcess", "resetUpdate"}
          /\ cyclePc' \notin {"setProcess", "resetUpdate"}
          /\ cyclePc' = "update" => Notified(event["update"])
      BY <1>2, <2>5 DEF CycleGoes, CycleStep, CycleOuter, CycleGrow, CycleCreate,
         CycleQueueEmpty, CycleCountIdle, CycleCompareSize, CycleCapToSize,
         CycleNotifyWorkers, CycleWait, CycleBlock, CycleConsume, CycleReadFlag,
         CycleJoin, CycleNotifyNotFull, CycleAgain
    <3> QED
      BY <1>1, <2>1, <3>1, <3>2
  <2> QED
    BY <2>2, <2>3, <2>4, <2>5
<1>3. CASE HandlerStep
  <2>1. UNCHANGED <<version, updates, cyclePc>>
    BY <1>3 DEF HandlerStep, Handle, StopFlag, StopNotFull, StopProcessQueue, StopClose,
       UpdateEvent, UpdateFlag, UpdateProcessQueue
  <2>2. CASE UpdateEvent
    <3>1. Notified(event'["update"]) /\ handler = "update.event" /\ handler' = "update.flag"
      BY <1>1, <2>2 DEF UpdateEvent, Handle, EventName, EventOf, Notify, Notified
    <3> QED
      BY <1>1, <2>1, <3>1
  <2>3. CASE ~UpdateEvent
    <3>1. Notified(event'["update"]) = Notified(event["update"])
      BY <1>1, <1>3, <2>3 DEF EventName, Notify, Notified, EventOf, HandlerStep, Handle,
         StopFlag, StopNotFull, StopProcessQueue, StopClose, UpdateFlag,
         UpdateProcessQueue
    <3>2. handler' # "update.event" /\ handler # "update.event"
      BY <1>3, <2>3 DEF HandlerStep, Handle, StopFlag, StopNotFull, StopProcessQueue,
         StopClose, UpdateFlag, UpdateProcessQueue
    <3> QED
      BY <1>1, <2>1, <3>1, <3>2
  <2> QED
    BY <2>2, <2>3
<1>4. CASE SignalStop \/ SignalUpdate
  BY <1>1, <1>4 DEF SignalStop, SignalUpdate, Interrupt
<1>5. CASE \/ MainStep
           \/ \E w \in Workers : WorkerStep(w)
           \/ \E c \in Conns : Connect(c)
           \/ \E e \in EventName : Spurious(e)
           \/ UNCHANGED vars
  <2>1. UNCHANGED <<version, updates, handler, cyclePc>>
    <3>1. CASE MainStep
      BY <3>1 DEF MainGoes, MainStep, MainEnterEpoll, MainAccept, MainLock, MainEmplace,
         MainUnlock, MainNotifyProcess, MainCheckLimit, MainResetNotFull, MainWait,
         MainBlock, MainReadFlag, MainReadUpdate, MainLastNotify, MainJoin, MainClose,
         MainClear
    <3>2. CASE \E w \in Workers : WorkerStep(w)
      BY <3>2 DEF WorkerGoes, WorkerStep, WorkerWait, WorkerBlock, WorkerReadFlag,
         WorkerLock, WorkerFront, WorkerPop, WorkerIncrement, WorkerServe, WorkerDecrement
    <3> QED
      BY <1>5, <3>1, <3>2 DEF Connect, Spurious, vars
  <2>2. Notified(event'["update"]) = Notified(event["update"])
    <3>1. CASE MainStep
      BY <1>1, <3>1 DEF EventName, Notify, Reset, Block, Notified, EventOf, MainGoes,
         MainStep, MainEnterEpoll, MainAccept, MainLock, MainEmplace, MainUnlock,
         MainNotifyProcess, MainCheckLimit, MainResetNotFull, MainWait, MainBlock,
         MainReadFlag, MainReadUpdate, MainLastNotify, MainJoin, MainClose, MainClear
    <3>2. CASE \E w \in Workers : WorkerStep(w)
      BY <1>1, <3>2 DEF EventName, Block, Notified, EventOf, WorkerGoes, WorkerStep,
         WorkerWait, WorkerBlock, WorkerReadFlag, WorkerLock, WorkerFront, WorkerPop,
         WorkerIncrement, WorkerServe, WorkerDecrement
    <3>3. CASE \E c \in Conns : Connect(c)
      BY <3>3 DEF Connect
    <3>4. CASE \E e \in EventName : Spurious(e)
      BY <1>1, <3>4 DEF EventName, SpuriousWake, Notified, EventOf, Spurious
    <3> QED
      BY <1>5, <3>1, <3>2, <3>3, <3>4 DEF vars
  <2> QED
    BY <2>1, <2>2
<1> QED
  BY <1>2, <1>3, <1>4, <1>5 DEF Next, Finished

-----------------------------------------------------------------------------
(***************************************************************************)
(* eventThreadCycle.  Only a worker blocks on it, only cycleQueue notifies *)
(* it, and nothing clears its flag.                                        *)
(***************************************************************************)
SleepInv == FirstNotification /\ SleeperIsAlone

\* The steps that leave the event, the workers and the pool alone.
LEMMA SleepFrame ==
  ASSUME SleepInv,
         UNCHANGED <<workerPc, active, working>>,
         event'["threadCycle"] = event["threadCycle"],
         cyclePc' # "growEmpty" \/ cyclePc' = cyclePc
  PROVE  SleepInv'
  BY DEF SleepInv, FirstNotification, SleeperIsAlone

\* A worker that is not cleared to go stays alone, and one that is leaves no trace.
LEMMA SleepWorker ==
  ASSUME CoreInv, SleepInv, NEW w \in Workers, WorkerStep(w)
  PROVE  SleepInv'
<1> USE DEF WorkerGoes, controlVars, connVars, poolVars, signalVars, pcs
<1> DEFINE e == event["threadCycle"]
<1>1. /\ event \in [EventName -> EventOf(Threads)]
      /\ workerPc \in [Workers -> WorkerLabel] /\ working \in Nat
  BY DEF CoreInv, TypeOK
<1>2. w \in active /\ UNCHANGED <<active, cyclePc>>
  <2>1. workerPc[w] # "none"
    BY DEF WorkerStep, WorkerWait, WorkerBlock, WorkerReadFlag, WorkerLock, WorkerFront,
       WorkerPop, WorkerIncrement, WorkerServe, WorkerDecrement
  <2>2. UNCHANGED <<active, cyclePc>>
    BY DEF WorkerStep, WorkerWait, WorkerBlock, WorkerReadFlag, WorkerLock, WorkerFront,
       WorkerPop, WorkerIncrement, WorkerServe, WorkerDecrement
  <2> QED
    BY <2>1, <2>2 DEF CoreInv, LiveIsActive, Live
<1>3. CASE WorkerBlock(w)
  <2>1. event'["threadCycle"] = [signaled |-> e.signaled, sleepers |-> e.sleepers \union {w}]
    BY <1>1, <1>3 DEF WorkerBlock, Block, EventName, EventOf
  <2>2. workerPc[w] = "gap" /\ workerPc' = [workerPc EXCEPT ![w] = "wait"]
        /\ working' = working
    BY <1>3 DEF WorkerBlock
  <2>3. active = {w} /\ working = 0
    BY <2>2 DEF SleepInv, SleeperIsAlone
  <2>4. FirstNotification'
    BY <1>1, <1>2, <2>1, <2>2, <2>3 DEF SleepInv, FirstNotification, Notified
  <2>5. SleeperIsAlone'
    BY <1>1, <1>2, <2>1, <2>2, <2>3 DEF SleepInv, SleeperIsAlone
  <2> QED
    BY <2>4, <2>5 DEF SleepInv
<1>4. CASE WorkerWait(w)
  <2>1. event' = event /\ working' = working /\ workerPc[w] = "wait"
        /\ w \notin e.sleepers
        /\ workerPc' = [workerPc EXCEPT ![w] = IF Notified(e) THEN "flag" ELSE "gap"]
    BY <1>4 DEF WorkerWait
  <2>2. FirstNotification'
    BY <1>1, <1>2, <2>1 DEF SleepInv, FirstNotification
  <2>3. SleeperIsAlone'
    <3>1. CASE Notified(e)
      BY <1>1, <1>2, <2>1, <3>1 DEF SleepInv, SleeperIsAlone
    <3>2. CASE ~Notified(e)
      <4>1. active = {w} /\ working = 0
        BY <1>2, <3>2 DEF SleepInv, FirstNotification
      <4>2. \A v \in Workers \ {w} : workerPc[v] = "none"
        BY <4>1 DEF CoreInv, LiveIsActive, Live
      <4> QED
        BY <1>1, <1>2, <2>1, <4>1, <4>2 DEF SleepInv, FirstNotification, SleeperIsAlone
    <3> QED
      BY <3>1, <3>2
  <2> QED
    BY <2>2, <2>3 DEF SleepInv
<1>5. CASE ~WorkerBlock(w) /\ ~WorkerWait(w)
  \* The worker has passed its wait, so the event is notified and nobody sleeps with it.
  <2>1. /\ event' = event
        /\ workerPc[w] \notin {"none", "wait", "gap"} /\ workerPc'[w] # "gap"
        /\ workerPc' = [workerPc EXCEPT ![w] = workerPc'[w]]
    BY <1>1, <1>5 DEF WorkerStep, WorkerReadFlag, WorkerLock, WorkerFront, WorkerPop,
       WorkerIncrement, WorkerServe, WorkerDecrement
  <2>2. Notified(e)
    BY <2>1 DEF SleepInv, FirstNotification
  <2>3. \A v \in Workers : workerPc[v] # "gap" /\ v \notin e.sleepers
    <3> SUFFICES ASSUME NEW v \in Workers, workerPc[v] = "gap" \/ v \in e.sleepers
                 PROVE  FALSE
      OBVIOUS
    <3>1. active = {v} /\ workerPc[v] \in {"wait", "gap"}
      BY DEF SleepInv, SleeperIsAlone, FirstNotification
    <3> QED
      BY <3>1, <1>2, <2>1
  <2>4. FirstNotification'
    BY <1>1, <1>2, <2>1, <2>2, <2>3 DEF SleepInv, FirstNotification
  <2>5. SleeperIsAlone'
    BY <1>1, <1>2, <2>1, <2>3 DEF SleeperIsAlone
  <2> QED
    BY <2>4, <2>5 DEF SleepInv
<1> QED
  BY <1>3, <1>4, <1>5

\* cycleQueue makes a second worker only when the first is at work.
LEMMA SleepCycle ==
  ASSUME CoreInv, SleepInv, CycleStep
  PROVE  SleepInv'
<1> USE DEF CycleGoes, controlVars, connVars, poolVars, signalVars, pcs
<1> DEFINE e == event["threadCycle"]
<1>1. /\ event \in [EventName -> EventOf(Threads)]
      /\ workerPc \in [Workers -> WorkerLabel] /\ working \in Nat
      /\ IsFiniteSet(active)
  BY IdleIsNatural DEF CoreInv, TypeOK
<1>2. CASE CycleCreate
  <2>1. PICK w \in Workers \ active :
          active' = active \union {w} /\ workerPc' = [workerPc EXCEPT ![w] = "wait"]
    BY <1>2 DEF CycleCreate
  <2>2. /\ event' = event /\ working' = working /\ cyclePc = "growEmpty" /\ cyclePc' = "grow"
    BY <1>2 DEF CycleCreate
  <2>3. FirstNotification'
    BY <1>1, <2>1, <2>2 DEF SleepInv, FirstNotification
  <2>4. SleeperIsAlone'
    <3>1. w \notin e.sleepers
      BY <2>1 DEF CoreInv, LiveIsActive, Live, SleepInv, FirstNotification
    <3>2. \A v \in Workers : workerPc'[v] = "gap" \/ v \in event'["threadCycle"].sleepers =>
                               v # w /\ (workerPc[v] = "gap" \/ v \in e.sleepers)
      BY <1>1, <2>1, <2>2, <3>1
    <3>3. \A v \in Workers : workerPc[v] = "gap" \/ v \in e.sleepers => active # {}
      BY DEF SleepInv, SleeperIsAlone
    <3> QED
      BY <2>2, <3>2, <3>3 DEF SleepInv, FirstNotification, SleeperIsAlone
  <2> QED
    BY <2>3, <2>4 DEF SleepInv
<1>3. CASE CycleGrow
  <2>1. UNCHANGED <<event, workerPc, active, working>>
    BY <1>3 DEF CycleGrow
  <2>2. cyclePc' = "growEmpty" /\ active # {} => working # 0
    BY <1>1, <1>3, FS_EmptySet DEF CycleGrow
  <2>3. working # 0 => /\ Notified(e)
                       /\ \A w \in Workers : w \notin e.sleepers /\ workerPc[w] # "gap"
    BY DEF SleepInv, FirstNotification, SleeperIsAlone
  <2>4. FirstNotification'
    BY <2>1, <2>2, <2>3 DEF SleepInv, FirstNotification
  <2>5. SleeperIsAlone'
    BY <2>1 DEF SleepInv, SleeperIsAlone
  <2> QED
    BY <2>4, <2>5 DEF SleepInv
<1>4. CASE CycleNotifyWorkers
  <2>1. PICK f \in NotifySome(e, notifyCount) : event' = [event EXCEPT !["threadCycle"] = f]
    BY <1>4 DEF CycleNotifyWorkers
  <2>2. PICK W \in SUBSET e.sleepers : f = [signaled |-> TRUE, sleepers |-> e.sleepers \ W]
    BY <2>1 DEF NotifySome
  <2>3. event'["threadCycle"].signaled = TRUE /\ event'["threadCycle"].sleepers = e.sleepers \ W
    BY <1>1, <2>1, <2>2 DEF EventName
  <2>4. UNCHANGED <<workerPc, active, working>> /\ cyclePc' = "wait"
    BY <1>4 DEF CycleNotifyWorkers
  <2>5. FirstNotification'
    BY <2>3, <2>4 DEF SleepInv, FirstNotification, Notified
  <2>6. SleeperIsAlone'
    BY <2>3, <2>4 DEF SleepInv, SleeperIsAlone
  <2> QED
    BY <2>5, <2>6 DEF SleepInv
<1>5. CASE CycleJoin
  <2>1. /\ event' = event /\ working' = working /\ cyclePc' = "notFull" /\ active' = {}
        /\ \A w \in active : workerPc[w] = "exit"
        /\ workerPc' = [w \in Workers |-> IF w \in active THEN "none" ELSE workerPc[w]]
    BY <1>5 DEF CycleJoin
  <2>2. \A w \in Workers : workerPc[w] \in {"none", "exit"} /\ workerPc'[w] = "none"
    BY <2>1 DEF CoreInv, LiveIsActive, Live
  <2>3. e.sleepers = {}
    BY <1>1, <2>2 DEF SleepInv, FirstNotification, EventName, EventOf
  <2>4. FirstNotification'
    BY <2>1, <2>2, <2>3 DEF SleepInv, FirstNotification
  <2>5. SleeperIsAlone'
    BY <2>1, <2>2, <2>3 DEF SleeperIsAlone
  <2> QED
    BY <2>4, <2>5 DEF SleepInv
<1>6. CASE ~CycleCreate /\ ~CycleGrow /\ ~CycleNotifyWorkers /\ ~CycleJoin
  <2>1. UNCHANGED <<workerPc, active, working>> /\ cyclePc' # "growEmpty"
    BY <1>6 DEF CycleStep, CycleOuter, CycleUpdateModules, CycleSetProcess,
       CycleResetUpdate, CycleQueueEmpty, CycleCountIdle, CycleCompareSize,
       CycleCapToSize, CycleWait, CycleBlock, CycleConsume, CycleReadFlag,
       CycleNotifyNotFull, CycleAgain
  <2>2. event'["threadCycle"] = e
    BY <1>1, <1>6 DEF EventName, CycleStep, CycleOuter, CycleUpdateModules,
       CycleSetProcess, CycleResetUpdate, CycleQueueEmpty, CycleCountIdle,
       CycleCompareSize, CycleCapToSize, CycleWait, CycleBlock, CycleConsume,
       CycleReadFlag, CycleNotifyNotFull, CycleAgain
  <2> QED
    BY <2>1, <2>2, SleepFrame
<1> QED
  BY <1>2, <1>3, <1>4, <1>5, <1>6

\* A spurious wake-up only takes a thread from the sleepers.
LEMMA SleepSpurious ==
  ASSUME CoreInv, SleepInv, NEW n \in EventName, Spurious(n)
  PROVE  SleepInv'
<1>1. event \in [EventName -> EventOf(Threads)]
  BY DEF CoreInv, TypeOK
<1>2. UNCHANGED <<workerPc, active, working, cyclePc>>
  BY DEF Spurious, poolVars, pcs
<1>3. /\ event'["threadCycle"].sleepers \subseteq event["threadCycle"].sleepers
      /\ Notified(event'["threadCycle"]) = Notified(event["threadCycle"])
  BY <1>1 DEF Spurious, SpuriousWake, EventName, EventOf, Notified
<1> QED
  BY <1>2, <1>3 DEF SleepInv, FirstNotification, SleeperIsAlone

LEMMA SleepStep ==
  ASSUME CoreInv, SleepInv, [Next]_vars
  PROVE  SleepInv'
<1> USE DEF controlVars, connVars, poolVars, signalVars, pcs
<1>1. event \in [EventName -> EventOf(Threads)]
  BY DEF CoreInv, TypeOK
<1>2. CASE MainStep
  <2>1. UNCHANGED <<workerPc, active, working, cyclePc>>
    BY <1>2 DEF MainGoes, MainStep, MainEnterEpoll, MainAccept, MainLock, MainEmplace,
       MainUnlock, MainNotifyProcess, MainCheckLimit, MainResetNotFull, MainWait,
       MainBlock, MainReadFlag, MainReadUpdate, MainLastNotify, MainJoin, MainClose,
       MainClear
  <2>2. event'["threadCycle"] = event["threadCycle"]
    BY <1>1, <1>2 DEF EventName, MainStep, MainEnterEpoll, MainAccept, MainLock,
       MainEmplace, MainUnlock, MainNotifyProcess, MainCheckLimit, MainResetNotFull,
       MainWait, MainBlock, MainReadFlag, MainReadUpdate, MainLastNotify, MainJoin,
       MainClose, MainClear
  <2> QED
    BY <2>1, <2>2, SleepFrame
<1>3. CASE HandlerStep
  <2>1. UNCHANGED <<workerPc, active, working, cyclePc>>
    BY <1>3 DEF HandlerStep, Handle, StopFlag, StopNotFull, StopProcessQueue, StopClose,
       UpdateEvent, UpdateFlag, UpdateProcessQueue
  <2>2. event'["threadCycle"] = event["threadCycle"]
    BY <1>1, <1>3 DEF EventName, HandlerStep, StopFlag, StopNotFull, StopProcessQueue,
       StopClose, UpdateEvent, UpdateFlag, UpdateProcessQueue
  <2> QED
    BY <2>1, <2>2, SleepFrame
<1>4. CASE (\E c \in Conns : Connect(c)) \/ SignalStop \/ SignalUpdate \/ UNCHANGED vars
  <2>1. UNCHANGED <<event, workerPc, active, working, cyclePc>>
    BY <1>4 DEF Connect, SignalStop, SignalUpdate, Interrupt, vars
  <2> QED
    BY <2>1, SleepFrame
<1>5. CASE CycleStep
  BY <1>5, SleepCycle
<1>6. CASE \E w \in Workers : WorkerStep(w)
  BY <1>6, SleepWorker
<1>7. CASE \E n \in EventName : Spurious(n)
  BY <1>7, SleepSpurious
<1> QED
  BY <1>2, <1>3, <1>4, <1>5, <1>6, <1>7 DEF Next, Finished

-----------------------------------------------------------------------------
\* The inductive invariant of the threads and of the events holds in every state.
THEOREM EventsCorrect == Spec => [](CoreInv /\ EventInv)
<1>1. CoreInv /\ EventInv /\ [Next]_vars => CoreInv' /\ EventInv'
  BY CoreStep, ClearStep, OwedStep, SleepStep DEF EventInv, SleepInv
<1> QED
  BY CoreInit, EventInit, <1>1, PTL DEF Spec

\* A worker that is blocked on eventThreadCycle is the only thread of the pool.
THEOREM SleeperAlone == Spec => []SleeperIsAlone
<1>1. CoreInv /\ EventInv => SleeperIsAlone
  BY DEF EventInv
<1> QED
  BY <1>1, EventsCorrect, PTL

\* No connection is taken from the kernel while eventNotFullQueue is clear.
THEOREM AcceptsNotFull == Spec => []AcceptsOnlyWhenNotFull
<1>1. CoreInv /\ EventInv => AcceptsOnlyWhenNotFull
  BY DEF EventInv, ClearOnlyInWait, AcceptsOnlyWhenNotFull
<1> QED
  BY <1>1, EventsCorrect, PTL

\* The modules are updated at most once for each SIGUSR2.
THEOREM UpdatesRequested == Spec => []UpdatesAreRequested
<1>1. CoreInv /\ EventInv => UpdatesAreRequested
  BY DEF CoreInv, TypeOK, EventInv, UpdateIsOwed, UpdatesAreRequested
<1> QED
  BY <1>1, EventsCorrect, PTL
=============================================================================
