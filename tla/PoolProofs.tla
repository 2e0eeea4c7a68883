----------------------------- MODULE PoolProofs -----------------------------
(***************************************************************************)
(* ServerCore keeps the promises of ConnectionPool, for any set of workers *)
(* and connections: the conservation of the connections and the refinement.*)
(***************************************************************************)
EXTENDS ServerCoreProofs, SequenceTheorems

Waiting == ToSet(queue)
Owned   == { sock[w] : w \in Serving }

\* The six places do not overlap, and no connection is outside all of them.
Apart ==
  /\ outside \intersect pending = {} /\ outside \intersect batch = {}
  /\ outside \intersect Waiting = {} /\ outside \intersect Owned = {}
  /\ outside \intersect served = {}
  /\ pending \intersect batch = {} /\ pending \intersect Waiting = {}
  /\ pending \intersect Owned = {} /\ pending \intersect served = {}
  /\ batch \intersect Waiting = {} /\ batch \intersect Owned = {}
  /\ batch \intersect served = {}
  /\ Waiting \intersect Owned = {} /\ Waiting \intersect served = {}
  /\ Owned \intersect served = {}
Together == outside \union pending \union batch \union Waiting \union Owned \union served = Conns

\* Nobody is twice in the queue, and no two workers have one socket.
NoTwice ==
  /\ \A i, j \in 1 .. Len(queue) : queue[i] = queue[j] => i = j
  /\ \A v, w \in Serving : sock[v] = sock[w] => v = w

\* accept_sockets holds connections only from accept to their push (lines 343-366).
BatchIsPassedOn == batch # {} => mainPc \in {"lock", "emplace"}

PlaceInv == Apart /\ Together /\ NoTwice /\ BatchIsPassedOn

-----------------------------------------------------------------------------
\* The queue after a push and after a pop.
LEMMA QueuePushed ==
  ASSUME NEW q \in Seq(Conns), NEW c \in Conns, c \notin ToSet(q),
         \A i, j \in 1 .. Len(q) : q[i] = q[j] => i = j
  PROVE  /\ ToSet(Append(q, c)) = ToSet(q) \union {c}
         /\ \A i, j \in 1 .. Len(Append(q, c)) : Append(q, c)[i] = Append(q, c)[j] => i = j
<1> DEFINE r == Append(q, c)
<1>1. /\ Len(q) \in Nat /\ Len(r) = Len(q) + 1 /\ r \in Seq(Conns)
      /\ \A i \in 1 .. Len(q) : r[i] = q[i]
      /\ r[Len(q) + 1] = c
  BY AppendProperties, LenProperties
<1>2. DOMAIN q = 1 .. Len(q) /\ DOMAIN r = 1 .. Len(r)
  BY <1>1, LenProperties
<1> HIDE DEF r
<1>3. \A i \in 1 .. Len(q) : q[i] # c
  BY <1>2 DEF ToSet
<1>4. \A i \in 1 .. Len(r) : i \in 1 .. Len(q) \/ i = Len(q) + 1
  BY <1>1
<1>5. 1 .. Len(r) = (1 .. Len(q)) \union {Len(q) + 1}
  BY <1>1
<1>6. ToSet(r) = ToSet(q) \union {c}
  <2>1. ToSet(r) = { r[i] : i \in 1 .. Len(r) } /\ ToSet(q) = { q[i] : i \in 1 .. Len(q) }
    BY <1>2 DEF ToSet
  <2>2. ASSUME NEW x \in ToSet(r) PROVE x \in ToSet(q) \union {c}
    BY <2>1, <1>1, <1>4
  <2>3. ASSUME NEW x \in ToSet(q) \union {c} PROVE x \in ToSet(r)
    BY <2>1, <1>1, <1>5
  <2> QED
    BY <2>2, <2>3
<1>7. \A i, j \in 1 .. Len(r) : r[i] = r[j] => i = j
  BY <1>1, <1>3, <1>4
<1> QED
  BY <1>6, <1>7 DEF r

LEMMA QueuePopped ==
  ASSUME NEW q \in Seq(Conns), q # <<>>,
         \A i, j \in 1 .. Len(q) : q[i] = q[j] => i = j
  PROVE  /\ ToSet(Tail(q)) = ToSet(q) \ {Head(q)} /\ Head(q) \in ToSet(q)
         /\ \A i, j \in 1 .. Len(Tail(q)) : Tail(q)[i] = Tail(q)[j] => i = j
<1> DEFINE r == Tail(q)
<1>1. /\ Len(q) \in Nat \ {0} /\ Len(r) = Len(q) - 1 /\ r \in Seq(Conns)
      /\ \A i \in 1 .. Len(r) : r[i] = q[i + 1]
      /\ Head(q) = q[1]
  BY HeadTailProperties, LenProperties, EmptySeq
<1>2. DOMAIN q = 1 .. Len(q) /\ DOMAIN r = 1 .. Len(r)
  BY <1>1, LenProperties
<1> HIDE DEF r
<1>3. \A i \in 1 .. Len(r) : i + 1 \in 1 .. Len(q) /\ i + 1 # 1
  BY <1>1
<1>4. \A k \in 1 .. Len(q) : k = 1 \/ (k - 1 \in 1 .. Len(r) /\ (k - 1) + 1 = k)
  BY <1>1
<1>5. 1 \in 1 .. Len(q)
  BY <1>1
<1>6. ToSet(r) = { r[i] : i \in 1 .. Len(r) } /\ ToSet(q) = { q[i] : i \in 1 .. Len(q) }
  BY <1>2 DEF ToSet
<1>7. ToSet(r) = ToSet(q) \ {Head(q)}
  <2>1. ASSUME NEW i \in 1 .. Len(r) PROVE r[i] \in ToSet(q) \ {Head(q)}
    <3>1. r[i] = q[i + 1] /\ i + 1 \in 1 .. Len(q) /\ i + 1 # 1
      BY <1>1, <1>3
    <3> QED
      BY <3>1, <1>1, <1>5, <1>6
  <2>2. ASSUME NEW k \in 1 .. Len(q), q[k] # Head(q) PROVE q[k] \in ToSet(r)
    <3>1. k # 1
      BY <2>2, <1>1
    <3>2. k - 1 \in 1 .. Len(r) /\ r[k - 1] = q[k]
      BY <3>1, <1>1, <1>4
    <3> QED
      BY <3>2, <1>6
  <2> QED
    BY <2>1, <2>2, <1>6
<1>8. \A i, j \in 1 .. Len(r) : r[i] = r[j] => i = j
  <2> SUFFICES ASSUME NEW i \in 1 .. Len(r), NEW j \in 1 .. Len(r), r[i] = r[j] PROVE i = j
    OBVIOUS
  <2>1. q[i + 1] = q[j + 1] /\ i + 1 \in 1 .. Len(q) /\ j + 1 \in 1 .. Len(q)
    BY <1>1, <1>3
  <2>2. i + 1 = j + 1
    BY <2>1
  <2> QED
    BY <2>2
<1>9. Head(q) \in ToSet(q)
  BY <1>1, <1>5, <1>6
<1> QED
  BY <1>7, <1>8, <1>9 DEF r

-----------------------------------------------------------------------------
\* No step but these moves a connection: it comes, it is accepted, it is put into the
\* queue, a worker pops it, and its service ends.
Moves == \/ \E c \in Conns : Connect(c)
         \/ MainAccept \/ MainEmplace
         \/ \E w \in Workers : WorkerPop(w) \/ WorkerServe(w)

\* The workers' sockets stay where no worker begins or ends to own one.
LEMMA OwnedStays ==
  ASSUME Serving' = Serving, \A w \in Serving : sock'[w] = sock[w]
  PROVE  Owned' = Owned /\ (NoTwice /\ queue' = queue => NoTwice')
<1>1. Owned' = Owned
  BY DEF Owned
<1>2. NoTwice /\ queue' = queue => NoTwice'
  BY DEF NoTwice
<1> QED
  BY <1>1, <1>2

LEMMA OthersMoveNone ==
  ASSUME CoreInv, [Next]_vars, ~Moves
  PROVE  /\ UNCHANGED <<outside, pending, batch, queue, served>>
         /\ Serving' = Serving /\ \A w \in Serving : sock'[w] = sock[w]
<1> USE DEF controlVars, connVars, poolVars, signalVars, pcs
<1>1. CASE MainStep
  BY <1>1 DEF Moves, MainStep, MainGoes, Serving, MainEnterEpoll, MainLock, MainUnlock,
     MainNotifyProcess, MainCheckLimit, MainResetNotFull, MainWait, MainBlock,
     MainReadFlag, MainReadUpdate, MainLastNotify, MainJoin, MainClose, MainClear
<1>2. CASE CycleStep
  <2>1. UNCHANGED connVars
    BY <1>2 DEF CycleGoes, CycleStep, CycleOuter, CycleUpdateModules, CycleSetProcess,
       CycleResetUpdate, CycleGrow, CycleCreate, CycleQueueEmpty, CycleCountIdle,
       CycleCompareSize, CycleCapToSize, CycleNotifyWorkers, CycleWait, CycleBlock,
       CycleConsume, CycleReadFlag, CycleJoin, CycleNotifyNotFull, CycleAgain
  <2>2. \A w \in Workers : w \notin active => workerPc[w] = "none"
    BY DEF CoreInv, LiveIsActive, Live
  <2>3. workerPc \in [Workers -> WorkerLabel]
    BY DEF CoreInv, TypeOK
  <2>4. Serving' = Serving
    <3>1. CASE CycleCreate
      BY <3>1, <2>2, <2>3 DEF CycleCreate, Serving
    <3>2. CASE CycleJoin
      BY <3>2, <2>2, <2>3 DEF CycleJoin, Serving
    <3>3. CASE ~CycleCreate /\ ~CycleJoin
      BY <1>2, <3>3 DEF CycleGoes, CycleStep, CycleOuter, CycleUpdateModules,
         CycleSetProcess, CycleResetUpdate, CycleGrow, CycleQueueEmpty, CycleCountIdle,
         CycleCompareSize, CycleCapToSize, CycleNotifyWorkers, CycleWait, CycleBlock,
         CycleConsume, CycleReadFlag, CycleNotifyNotFull, CycleAgain, Serving
    <3> QED
      BY <3>1, <3>2, <3>3
  <2> QED
    BY <2>1, <2>4
<1>3. ASSUME NEW w \in Workers, WorkerStep(w)
      PROVE  /\ UNCHANGED <<outside, pending, batch, queue, served>>
             /\ Serving' = Serving /\ \A v \in Serving : sock'[v] = sock[v]
  <2>1. ~WorkerPop(w) /\ ~WorkerServe(w)
    BY DEF Moves
  <2>2. UNCHANGED <<outside, pending, batch, queue, served>>
    BY <1>3, <2>1 DEF WorkerStep, WorkerGoes, WorkerWait, WorkerBlock, WorkerReadFlag,
       WorkerLock, WorkerFront, WorkerIncrement, WorkerDecrement
  <2>3. workerPc \in [Workers -> WorkerLabel] /\ sock \in [Workers -> Conns \union {NoConn}]
    BY DEF CoreInv, TypeOK
  <2>4. Serving' = Serving
    BY <1>3, <2>1, <2>3 DEF WorkerStep, WorkerGoes, WorkerWait, WorkerBlock,
       WorkerReadFlag, WorkerLock, WorkerFront, WorkerIncrement, WorkerDecrement, Serving
  <2>5. \A v \in Serving : sock'[v] = sock[v]
    BY <1>3, <2>1, <2>3 DEF WorkerStep, WorkerGoes, WorkerWait, WorkerBlock,
       WorkerReadFlag, WorkerLock, WorkerFront, WorkerIncrement, WorkerDecrement, Serving
  <2> QED
    BY <2>2, <2>4, <2>5
<1>4. CASE \/ \E e \in EventName : Spurious(e)
           \/ SignalStop \/ SignalUpdate \/ HandlerStep
  BY <1>4 DEF Spurious, SignalStop, SignalUpdate, Interrupt, HandlerStep, Handle,
     StopFlag, StopNotFull, StopProcessQueue, StopClose, UpdateEvent, UpdateFlag,
     UpdateProcessQueue, Serving
<1>5. CASE UNCHANGED vars
  BY <1>5 DEF vars, Serving
<1> QED
  BY <1>1, <1>2, <1>3, <1>4, <1>5 DEF Next, Finished, Moves

-----------------------------------------------------------------------------
LEMMA PlaceInit == Init => PlaceInv
<1> SUFFICES ASSUME Init PROVE PlaceInv
  OBVIOUS
<1>1. Serving = {} /\ Owned = {}
  BY DEF Init, Serving, Owned
<1>2. Waiting = {} /\ Len(queue) = 0
  BY DEF Init, Waiting, ToSet
<1> QED
  BY <1>1, <1>2 DEF Init, PlaceInv, Apart, Together, NoTwice, BatchIsPassedOn

\* What each of the five moves does to the six places.
LEMMA ConnectMoves ==
  ASSUME PlaceInv, NEW c \in Conns, Connect(c)
  PROVE  PlaceInv'
<1>1. /\ c \in outside /\ outside' = outside \ {c} /\ pending' = pending \union {c}
      /\ UNCHANGED <<batch, queue, sock, served, workerPc, mainPc>>
  BY DEF Connect, pcs
<1>2. Serving' = Serving /\ Owned' = Owned /\ Waiting' = Waiting
  BY <1>1 DEF Serving, Owned, Waiting
<1>3. NoTwice' /\ BatchIsPassedOn'
  BY <1>1, <1>2 DEF PlaceInv, NoTwice, BatchIsPassedOn
<1>4. Apart' /\ Together'
  BY <1>1, <1>2 DEF PlaceInv, Apart, Together
<1> QED
  BY <1>3, <1>4 DEF PlaceInv

LEMMA AcceptMoves ==
  ASSUME PlaceInv, MainAccept
  PROVE  PlaceInv'
<1>1. /\ batch' = pending /\ pending' = {} /\ mainPc = "epoll" /\ mainPc' = "lock"
      /\ UNCHANGED <<outside, queue, sock, served, workerPc>>
  BY DEF MainAccept, MainGoes
<1>2. Serving' = Serving /\ Owned' = Owned /\ Waiting' = Waiting /\ batch = {}
  BY <1>1 DEF Serving, Owned, Waiting, PlaceInv, BatchIsPassedOn
<1>3. NoTwice' /\ BatchIsPassedOn'
  BY <1>1, <1>2 DEF PlaceInv, NoTwice, BatchIsPassedOn
<1>4. Apart' /\ Together'
  BY <1>1, <1>2 DEF PlaceInv, Apart, Together
<1> QED
  BY <1>3, <1>4 DEF PlaceInv

LEMMA EmplaceMoves ==
  ASSUME CoreInv, PlaceInv, MainEmplace
  PROVE  PlaceInv'
<1>1. PICK c \in batch : batch' = batch \ {c} /\ queue' = Append(queue, c)
  BY DEF MainEmplace
<1>2. /\ mainPc' = "emplace"
      /\ UNCHANGED <<outside, pending, sock, served, workerPc>>
  BY DEF MainEmplace, MainGoes
<1>3. queue \in Seq(Conns) /\ c \in Conns /\ c \notin ToSet(queue)
  BY DEF CoreInv, TypeOK, PlaceInv, Apart, Waiting
<1>4. \A i, j \in 1 .. Len(queue) : queue[i] = queue[j] => i = j
  BY DEF PlaceInv, NoTwice
<1>5. /\ ToSet(queue') = ToSet(queue) \union {c}
      /\ \A i, j \in 1 .. Len(queue') : queue'[i] = queue'[j] => i = j
  BY <1>1, <1>3, <1>4, QueuePushed
<1>6. Serving' = Serving /\ Owned' = Owned /\ Waiting' = Waiting \union {c}
  BY <1>2, <1>5 DEF Serving, Owned, Waiting
<1>7. NoTwice' /\ BatchIsPassedOn'
  BY <1>2, <1>5, <1>6 DEF PlaceInv, NoTwice, BatchIsPassedOn
<1>8. Apart' /\ Together'
  BY <1>1, <1>2, <1>6 DEF PlaceInv, Apart, Together
<1> QED
  BY <1>7, <1>8 DEF PlaceInv

\* The pop of a socket: the head of the queue becomes the worker's.
LEMMA PopTakesHead ==
  ASSUME CoreInv, PlaceInv, NEW w \in Workers, WorkerPop(w), sock[w] # NoConn
  PROVE  /\ queue # <<>> /\ queue' = Tail(queue) /\ sock[w] = Head(queue)
         /\ w \notin Serving /\ Serving' = Serving \union {w}
         /\ Owned' = Owned \union {Head(queue)}
         /\ UNCHANGED <<outside, pending, batch, served, sock, mainPc, version>>
<1>1. /\ workerPc[w] = "pop" /\ workerPc' = [workerPc EXCEPT ![w] = "taken"]
      /\ queue' = Tail(queue)
      /\ UNCHANGED <<outside, pending, batch, served, sock, mainPc, version>>
  BY DEF WorkerPop, WorkerGoes
<1>2. queue # <<>> /\ sock[w] = Head(queue)
  BY <1>1 DEF CoreInv, PopsWhatItRead
<1>3. workerPc \in [Workers -> WorkerLabel]
  BY DEF CoreInv, TypeOK
<1>4. w \notin Serving /\ Serving' = Serving \union {w}
  BY <1>1, <1>3 DEF Serving
<1>5. Owned' = Owned \union {Head(queue)}
  BY <1>1, <1>2, <1>4 DEF Owned
<1> QED
  BY <1>1, <1>2, <1>4, <1>5

LEMMA PopMoves ==
  ASSUME CoreInv, PlaceInv, NEW w \in Workers, WorkerPop(w)
  PROVE  PlaceInv'
<1>1. CASE sock[w] = NoConn
  <2>1. UNCHANGED <<outside, pending, batch, queue, served, sock, mainPc>>
    BY <1>1 DEF WorkerPop, WorkerGoes
  <2>2. Serving' = Serving
    BY <1>1 DEF WorkerPop, WorkerGoes, Serving, CoreInv, TypeOK
  <2>3. Owned' = Owned /\ Waiting' = Waiting /\ NoTwice'
    BY <2>1, <2>2, OwnedStays DEF PlaceInv, Waiting
  <2> QED
    BY <2>1, <2>3 DEF PlaceInv, Apart, Together, BatchIsPassedOn
<1>2. CASE sock[w] # NoConn
  <2>1. /\ queue # <<>> /\ queue' = Tail(queue) /\ sock[w] = Head(queue)
        /\ w \notin Serving /\ Serving' = Serving \union {w}
        /\ Owned' = Owned \union {Head(queue)}
        /\ UNCHANGED <<outside, pending, batch, served, sock, mainPc>>
    BY <1>2, PopTakesHead
  <2>2. queue \in Seq(Conns) /\ \A i, j \in 1 .. Len(queue) : queue[i] = queue[j] => i = j
    BY DEF CoreInv, TypeOK, PlaceInv, NoTwice
  <2>3. /\ ToSet(queue') = ToSet(queue) \ {Head(queue)} /\ Head(queue) \in ToSet(queue)
        /\ \A i, j \in 1 .. Len(queue') : queue'[i] = queue'[j] => i = j
    BY <2>1, <2>2, QueuePopped
  <2>4. Waiting' = Waiting \ {Head(queue)} /\ Head(queue) \in Waiting
    BY <2>3 DEF Waiting
  <2>5. Apart' /\ Together'
    BY <2>1, <2>4 DEF PlaceInv, Apart, Together
  <2>6. \A v \in Serving : sock[v] # sock[w]
    BY <2>1, <2>4 DEF PlaceInv, Apart, Owned
  <2>7. NoTwice'
    BY <2>1, <2>3, <2>6 DEF PlaceInv, NoTwice
  <2> QED
    BY <2>1, <2>5, <2>7 DEF PlaceInv, BatchIsPassedOn
<1> QED
  BY <1>1, <1>2

\* The end of a service.
LEMMA ServeEnds ==
  ASSUME CoreInv, PlaceInv, NEW w \in Workers, WorkerServe(w)
  PROVE  /\ w \in Serving /\ Serving' = Serving \ {w}
         /\ sock[w] \in Owned /\ Owned' = Owned \ {sock[w]}
         /\ served' = served \union {sock[w]}
         /\ \A v \in Serving' : sock'[v] = sock[v]
         /\ UNCHANGED <<outside, pending, batch, queue, mainPc, version>>
<1>1. /\ workerPc[w] = "serve" /\ workerPc' = [workerPc EXCEPT ![w] = "counted"]
      /\ served' = served \union {sock[w]} /\ sock' = [sock EXCEPT ![w] = NoConn]
      /\ UNCHANGED <<outside, pending, batch, queue, mainPc, version>>
  BY DEF WorkerServe, WorkerGoes
<1>2. workerPc \in [Workers -> WorkerLabel] /\ sock \in [Workers -> Conns \union {NoConn}]
  BY DEF CoreInv, TypeOK
<1>3. w \in Serving /\ Serving' = Serving \ {w}
  BY <1>1, <1>2 DEF Serving
<1>4. \A v \in Serving' : sock'[v] = sock[v]
  BY <1>1, <1>2, <1>3 DEF Serving
<1>5. \A v \in Serving : v # w => sock[v] # sock[w]
  BY <1>3 DEF PlaceInv, NoTwice
<1>6. sock[w] \in Owned /\ Owned' = Owned \ {sock[w]}
  BY <1>3, <1>4, <1>5 DEF Owned
<1> QED
  BY <1>1, <1>3, <1>4, <1>6

LEMMA ServeMoves ==
  ASSUME CoreInv, PlaceInv, NEW w \in Workers, WorkerServe(w)
  PROVE  PlaceInv'
<1>1. /\ w \in Serving /\ Serving' = Serving \ {w}
      /\ sock[w] \in Owned /\ Owned' = Owned \ {sock[w]}
      /\ served' = served \union {sock[w]}
      /\ \A v \in Serving' : sock'[v] = sock[v]
      /\ UNCHANGED <<outside, pending, batch, queue, mainPc>>
  BY ServeEnds
<1>2. Waiting' = Waiting
  BY <1>1 DEF Waiting
<1>3. Apart' /\ Together'
  BY <1>1, <1>2 DEF PlaceInv, Apart, Together
<1>4. NoTwice' /\ BatchIsPassedOn'
  BY <1>1 DEF PlaceInv, NoTwice, BatchIsPassedOn
<1> QED
  BY <1>3, <1>4 DEF PlaceInv

LEMMA PlaceStep == CoreInv /\ PlaceInv /\ [Next]_vars => PlaceInv'
<1> SUFFICES ASSUME CoreInv, PlaceInv, [Next]_vars PROVE PlaceInv'
  OBVIOUS
<1>1. CASE Moves
  BY <1>1, ConnectMoves, AcceptMoves, EmplaceMoves, PopMoves, ServeMoves DEF Moves
<1>2. CASE ~Moves
  <2>1. /\ UNCHANGED <<outside, pending, batch, queue, served>>
        /\ Owned' = Owned /\ Waiting' = Waiting /\ NoTwice'
    BY <1>2, OthersMoveNone, OwnedStays DEF PlaceInv, Waiting
  <2>2. BatchIsPassedOn'
    <3>1. mainPc \in {"lock", "emplace"} => mainPc' \in {"lock", "emplace"} \/ batch = {}
      BY DEF Next, Finished, vars, pcs, Connect, Spurious, SignalStop, SignalUpdate,
         Interrupt, HandlerStep, Handle, StopFlag, StopNotFull, StopProcessQueue,
         StopClose, UpdateEvent, UpdateFlag, UpdateProcessQueue, CycleStep, CycleGoes,
         CycleOuter, CycleUpdateModules, CycleSetProcess, CycleResetUpdate, CycleGrow,
         CycleCreate, CycleQueueEmpty, CycleCountIdle, CycleCompareSize, CycleCapToSize,
         CycleNotifyWorkers, CycleWait, CycleBlock, CycleConsume, CycleReadFlag,
         CycleJoin, CycleNotifyNotFull, CycleAgain, WorkerStep, WorkerGoes, WorkerWait,
         WorkerBlock, WorkerReadFlag, WorkerLock, WorkerFront, WorkerPop,
         WorkerIncrement, WorkerServe, WorkerDecrement, MainStep, MainGoes,
         MainEnterEpoll, MainAccept, MainLock, MainEmplace, MainUnlock,
         MainNotifyProcess, MainCheckLimit, MainResetNotFull, MainWait, MainBlock,
         MainReadFlag, MainReadUpdate, MainLastNotify, MainJoin, MainClose, MainClear
    <3> QED
      BY <3>1, <2>1 DEF PlaceInv, BatchIsPassedOn
  <2> QED
    BY <2>1, <2>2 DEF PlaceInv, Apart, Together
<1> QED
  BY <1>1, <1>2

THEOREM PlacesCorrect == Spec => []PlaceInv
<1>1. CoreInv /\ PlaceInv /\ [Next]_vars => PlaceInv'
  BY PlaceStep
<1> QED
  BY <1>1, PlaceInit, CoreCorrect, PTL DEF Spec

\* No connection is lost or handed to two workers.
THEOREM ConnectionsConserved == Spec => []ConnectionInOnePlace
<1>1. CoreInv /\ PlaceInv => ConnectionInOnePlace
  <2> SUFFICES ASSUME CoreInv, PlaceInv PROVE ConnectionInOnePlace
    OBVIOUS
  <2> DEFINE places == <<outside, pending, batch, ToSet(queue), Owned, served>>
  <2>1. \A i, j \in 1 .. 6 : i # j => places[i] \intersect places[j] = {}
    BY DEF PlaceInv, Apart, Waiting
  <2>2. UNION Range(places) = Conns
    <3>1. Range(places) = {outside, pending, batch, ToSet(queue), Owned, served}
      <4>1. DOMAIN places = {1, 2, 3, 4, 5, 6}
        OBVIOUS
      <4> QED
        BY <4>1 DEF Range
    <3> QED
      BY <3>1 DEF PlaceInv, Together, Waiting
  <2>3. IsInjective(queue)
    <3>1. DOMAIN queue = 1 .. Len(queue)
      BY LenProperties DEF CoreInv, TypeOK
    <3> QED
      BY <3>1 DEF IsInjective, PlaceInv, NoTwice
  <2>4. \A v, w \in Serving : sock[v] = sock[w] => v = w
    BY DEF PlaceInv, NoTwice
  <2> QED
    BY <2>1, <2>2, <2>3, <2>4 DEF ConnectionInOnePlace, Owned
<1> QED
  BY <1>1, PlacesCorrect, CoreCorrect, PTL

-----------------------------------------------------------------------------
\* There is a worker for each connection that is served, and one is left for the next.
LEMMA AWorkerIsLeft ==
  ASSUME NEW w \in Workers, w \notin Serving
  PROVE  Cardinality(Owned) < Cardinality(Workers)
<1>1. Serving \subseteq Workers /\ Serving # Workers
  BY DEF Serving
<1>2. /\ IsFiniteSet(Serving) /\ Cardinality(Serving) \in Nat /\ Cardinality(Workers) \in Nat
      /\ Cardinality(Serving) <= Cardinality(Workers)
      /\ Cardinality(Workers) # Cardinality(Serving)
  BY <1>1, WorkersAssumption, FS_Subset, FS_CardinalityType
<1>3. IsFiniteSet(Owned) /\ Cardinality(Owned) <= Cardinality(Serving)
  <2> DEFINE f == [v \in Serving |-> sock[v]]
  <2>1. f \in Surjection(Serving, Owned)
    BY DEF Surjection, Owned
  <2> QED
    BY <2>1, <1>2, FS_Surjection
<1>4. Cardinality(Owned) \in Nat
  BY <1>3, FS_CardinalityType
<1> QED
  BY <1>2, <1>3, <1>4

\* The operators of the standard modules are those of ConnectionPool.
LEMMA SameOperators ==
  /\ \A S : Pool!Cardinality(S) = Cardinality(S)
  /\ Pool!ToSet(queue) = ToSet(queue)
<1>1. \A S : Pool!Cardinality(S) = Cardinality(S)
  BY DEF Pool!Cardinality, Cardinality
<1>2. Pool!ToSet(queue) = ToSet(queue)
  BY DEF Pool!ToSet, ToSet
<1> QED
  BY <1>1, <1>2

\* Every step is a step of the pool, or none.
LEMMA PoolStep ==
  ASSUME CoreInv, PlaceInv, [Next]_vars
  PROVE  [Pool!PoolNext]_(Pool!poolVars)
<1> USE DEF Pool!PoolNext, Pool!poolVars
<1>1. CASE (\E c \in Conns : Connect(c)) \/ MainAccept
  BY <1>1 DEF Connect, MainAccept, MainGoes, pcs, poolVars, Serving
<1>2. CASE MainEmplace
  <2>1. PICK c \in batch : batch' = batch \ {c} /\ queue' = Append(queue, c)
    BY <1>2 DEF MainEmplace
  <2>2. UNCHANGED <<sock, served, workerPc, version>>
    BY <1>2 DEF MainEmplace, MainGoes, poolVars
  <2>3. Owned' = Owned
    BY <2>2 DEF Owned, Serving
  <2>4. c \in Conns \ (ToSet(queue) \union Owned \union served)
    BY DEF CoreInv, TypeOK, PlaceInv, Apart, Waiting
  <2> QED
    BY <2>1, <2>2, <2>3, <2>4, SameOperators DEF Pool!Enqueue, Owned
<1>3. ASSUME NEW w \in Workers, WorkerPop(w)
      PROVE  [Pool!PoolNext]_(Pool!poolVars)
  <2>1. CASE sock[w] = NoConn
    <3>1. UNCHANGED <<queue, served, sock, version>>
      BY <1>3, <2>1 DEF WorkerPop, WorkerGoes
    <3>2. Serving' = Serving
      BY <1>3, <2>1 DEF WorkerPop, WorkerGoes, Serving, CoreInv, TypeOK
    <3> QED
      BY <3>1, <3>2
  <2>2. CASE sock[w] # NoConn
    <3>1. /\ queue # <<>> /\ queue' = Tail(queue) /\ w \notin Serving
          /\ Owned' = Owned \union {Head(queue)} /\ UNCHANGED <<served, version>>
      BY <1>3, <2>2, PopTakesHead
    <3>2. Cardinality(Owned) < Cardinality(Workers)
      BY <3>1, AWorkerIsLeft
    <3> QED
      BY <3>1, <3>2, SameOperators DEF Pool!Take, Owned
  <2> QED
    BY <2>1, <2>2
<1>4. ASSUME NEW w \in Workers, WorkerServe(w)
      PROVE  [Pool!PoolNext]_(Pool!poolVars)
  <2>1. /\ sock[w] \in Owned /\ Owned' = Owned \ {sock[w]}
        /\ served' = served \union {sock[w]} /\ UNCHANGED <<queue, version>>
    BY <1>4, ServeEnds
  <2> QED
    BY <2>1 DEF Pool!Finish, Owned
<1>5. CASE CycleUpdateModules
  <2>1. version' = version + 1 /\ UNCHANGED <<queue, served, sock, workerPc>>
    BY <1>5 DEF CycleUpdateModules, CycleGoes, connVars
  <2>2. Serving = {}
    BY <1>5 DEF CycleUpdateModules, CycleGoes, CoreInv, LiveIsActive, Live, Serving
  <2>3. Owned = {} /\ Owned' = Owned
    BY <2>1, <2>2 DEF Owned, Serving
  <2> QED
    BY <2>1, <2>3 DEF Pool!ReplaceModules, Owned
<1>6. CASE ~Moves /\ ~CycleUpdateModules
  <2>1. queue' = queue /\ served' = served /\ Owned' = Owned
    BY <1>6, OthersMoveNone, OwnedStays
  <2>2. version' = version
    BY <1>6 DEF Next, Finished, vars, pcs, poolVars, Connect, Spurious, SignalStop, SignalUpdate,
       Interrupt, HandlerStep, Handle, StopFlag, StopNotFull, StopProcessQueue,
       StopClose, UpdateEvent, UpdateFlag, UpdateProcessQueue, CycleStep, CycleGoes,
       CycleOuter, CycleSetProcess, CycleResetUpdate, CycleGrow,
       CycleCreate, CycleQueueEmpty, CycleCountIdle, CycleCompareSize, CycleCapToSize,
       CycleNotifyWorkers, CycleWait, CycleBlock, CycleConsume, CycleReadFlag,
       CycleJoin, CycleNotifyNotFull, CycleAgain, WorkerStep, WorkerGoes, WorkerWait,
       WorkerBlock, WorkerReadFlag, WorkerLock, WorkerFront, WorkerPop,
       WorkerIncrement, WorkerServe, WorkerDecrement, MainStep, MainGoes,
       MainEnterEpoll, MainAccept, MainLock, MainEmplace, MainUnlock,
       MainNotifyProcess, MainCheckLimit, MainResetNotFull, MainWait, MainBlock,
       MainReadFlag, MainReadUpdate, MainLastNotify, MainJoin, MainClose, MainClear
  <2> QED
    BY <2>1, <2>2 DEF Owned
<1> HIDE DEF Pool!PoolNext, Pool!poolVars
<1> QED
  BY <1>1, <1>2, <1>3, <1>4, <1>5, <1>6 DEF Moves

\* The queue and the threads implement ConnectionPool.
THEOREM PoolImplemented == Spec => ImplementsPool
<1>1. Init => Pool!PoolInit
  BY DEF Init, Pool!PoolInit, Serving
<1>2. CoreInv /\ PlaceInv /\ [Next]_vars => [Pool!PoolNext]_(Pool!poolVars)
  BY PoolStep
<1> QED
  BY <1>1, <1>2, PlacesCorrect, CoreCorrect, PTL DEF Spec, ImplementsPool, Pool!PoolSpec
=============================================================================
