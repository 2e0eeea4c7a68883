----------------------------- MODULE ServerCore -----------------------------
(***************************************************************************)
(* One call of Server::run (src/src/server/Server.cpp:300-403) from the    *)
(* moment its threads exist: the main thread that accepts connections,     *)
(* cycleQueue's thread that owns the pool, the pool's workers, the flags   *)
(* and events of ServerControls, and the signal handlers, which run on the *)
(* main thread between any two of its steps.                               *)
(*                                                                         *)
(* Each thread has a program counter; a step is what the thread does       *)
(* between two accesses to shared state that another thread may see.  An   *)
(* Event::wait is the two labels "wait" and "gap" that module Event        *)
(* describes.                                                              *)
(***************************************************************************)
EXTENDS Integers, Sequences, SequencesExt, FiniteSets, Event

CONSTANTS Workers,     \* the threads the pool may hold: thread_max_count many
          Conns,       \* the client connections that may come
          NoConn,      \* a socket variable that holds no open socket
          QueueLimit,  \* queue_max_length
          MaxStops,    \* bound: how many SIGTERM, SIGINT or SIGUSR1 come
          MaxUpdates   \* bound: how many SIGUSR2 come

ASSUME WorkersAssumption ==
  /\ IsFiniteSet(Workers)
  /\ Workers # {}
  /\ Workers \intersect {"main", "cycle", "none"} = {}

ASSUME ConnsAssumption == IsFiniteSet(Conns) /\ NoConn \notin Conns

ASSUME BoundsAssumption ==
  /\ QueueLimit \in Nat \ {0}
  /\ MaxStops \in Nat
  /\ MaxUpdates \in Nat

Threads == Workers \union {"main", "cycle"}

VARIABLES
  processFlag,    \* controls.process_flag
  event,          \* the three events of controls and eventThreadCycle
  mainPc, cyclePc, workerPc,
  handler,        \* the rest of the signal handler the main thread is in
  listenersOpen,  \* the listening sockets have not been closed
  outside,        \* the clients that have not connected yet
  pending,        \* connections in the kernel's accept queue
  batch,          \* accept_sockets
  queue,          \* sockets
  queueLock,      \* who holds the mutex of sockets
  sock,           \* each worker's local socket
  served,         \* connections whose service has ended
  active,         \* active_threads
  working,        \* threads_working_count
  notifyCount,    \* cycleQueue's notify_count
  version,        \* how many times updateModules has run
  stops, updates  \* how many signals of each sort have come

controlVars == <<processFlag, event>>
connVars    == <<outside, pending, batch, queue, sock, served>>
poolVars    == <<active, working, notifyCount, version>>
signalVars  == <<handler, listenersOpen, stops, updates>>
pcs         == <<mainPc, cyclePc, workerPc>>
vars        == <<controlVars, connVars, poolVars, signalVars, pcs, queueLock>>

EventName == {"process", "notFull", "update", "threadCycle"}

MainLabel == {"accept", "epoll", "lock", "emplace", "notify", "limit", "reset",
              "wait", "gap", "flag", "updated", "last", "join", "close",
              "clear", "done"}

CycleLabel == {"outer", "update", "setProcess", "resetUpdate", "grow",
               "growEmpty", "count", "cap", "capAgain", "notify", "wait", "gap",
               "consume", "flag", "join", "notFull", "again", "done"}

WorkerLabel == {"none", "wait", "gap", "flag", "lock", "front", "pop", "taken",
                "serve", "counted", "exit"}

HandlerLabel == {"none", "stop.flag", "stop.notFull", "stop.process", "stop.close",
                 "update.event", "update.flag", "update.process"}

\* The threads of the pool that cycleQueue has not joined yet.
Live == {w \in Workers : workerPc[w] # "none"}

\* The workers between the increment and the decrement of threads_working_count.
Busy == {w \in Workers : workerPc[w] \in {"serve", "counted"}}

\* The workers that own a connection: they have popped it and still serve it.
Serving == {w \in Workers : workerPc[w] \in {"taken", "serve"}}

\* Server::run after line 336: the events have just been made and cycleQueue has
\* not run its first line.
Init ==
  /\ processFlag = TRUE
  /\ event = [e \in EventName |-> New(e = "notFull")]
  /\ mainPc = "accept" /\ cyclePc = "outer"
  /\ workerPc = [w \in Workers |-> "none"]
  /\ handler = "none" /\ listenersOpen = TRUE
  /\ outside = Conns /\ pending = {} /\ batch = {} /\ queue = <<>> /\ served = {}
  /\ queueLock = "none" /\ sock = [w \in Workers |-> NoConn]
  /\ active = {} /\ working = 0 /\ notifyCount = 0 /\ version = 0
  /\ stops = 0 /\ updates = 0

(***************************************************************************)
(* sockets.size() and sockets.empty() without the mutex (lines 371, 454,   *)
(* 465, 467).  While another thread is inside the critical section the     *)
(* read races with its push or pop, and may see any size.                  *)
(***************************************************************************)
RacySize(t) == IF queueLock \in {"none", t} THEN {Len(queue)}
                                            ELSE 0 .. QueueLimit + Cardinality(Conns)

-----------------------------------------------------------------------------
(***************************************************************************)
(* The environment: clients, and the accept queue of the listening socket. *)
(***************************************************************************)
Connect(c) ==
  /\ listenersOpen /\ c \in outside
  /\ outside' = outside \ {c} /\ pending' = pending \union {c}
  /\ UNCHANGED <<controlVars, batch, queue, sock, served, poolVars, signalVars,
                 pcs, queueLock>>

\* A thread blocked on event e comes out of cv.wait with nobody having notified it.
Spurious(e) ==
  /\ \E t \in event[e].sleepers : event' = [event EXCEPT ![e] = SpuriousWake(@, t)]
  /\ UNCHANGED <<processFlag, connVars, poolVars, signalVars, pcs, queueLock>>

-----------------------------------------------------------------------------
(***************************************************************************)
(* Signals.  The kernel interrupts the main thread, which runs the handler *)
(* to its end before it goes on.  An epoll_wait that is interrupted        *)
(* returns EINTR and accept returns false; an interrupted cv.wait or join  *)
(* goes on waiting.  Bound: one handler at a time.                         *)
(***************************************************************************)
Interrupt(first) ==
  /\ handler = "none" /\ mainPc \notin {"clear", "done"}
  /\ handler' = first
  /\ mainPc' = IF mainPc = "epoll" THEN "flag" ELSE mainPc
  /\ UNCHANGED <<controlVars, connVars, poolVars, listenersOpen, cyclePc, workerPc,
                 queueLock>>

\* SIGTERM and SIGINT, and SIGUSR1 but for restart_flag, which run never reads.
SignalStop == /\ stops < MaxStops /\ Interrupt("stop.flag")
              /\ stops' = stops + 1 /\ UNCHANGED updates

SignalUpdate == /\ updates < MaxUpdates /\ Interrupt("update.event")
                /\ updates' = updates + 1 /\ UNCHANGED stops

Handle(label, next) ==
  /\ handler = label /\ handler' = next
  /\ UNCHANGED <<connVars, poolVars, stops, updates, pcs, queueLock>>

\* ServerControls::stopProcess, then close_listeners.
StopFlag == /\ Handle("stop.flag", "stop.notFull")
            /\ processFlag' = FALSE /\ UNCHANGED <<event, listenersOpen>>

StopNotFull == /\ Handle("stop.notFull", "stop.process")
               /\ event' = [event EXCEPT !["notFull"] = Notify(@)]
               /\ UNCHANGED <<processFlag, listenersOpen>>

\* Fault: stopProcess does not wake cycleQueue.
StopProcessQueueSilent == /\ Handle("stop.process", "stop.close")
                          /\ UNCHANGED <<controlVars, listenersOpen>>

StopProcessQueue == /\ Handle("stop.process", "stop.close")
                    /\ event' = [event EXCEPT !["process"] = Notify(@)]
                    /\ UNCHANGED <<processFlag, listenersOpen>>

StopClose == /\ Handle("stop.close", "none")
             /\ listenersOpen' = FALSE /\ UNCHANGED controlVars

\* Server::update: setUpdateModule, setProcess(false), setProcessQueue.
UpdateEvent == /\ Handle("update.event", "update.flag")
               /\ event' = [event EXCEPT !["update"] = Notify(@)]
               /\ UNCHANGED <<processFlag, listenersOpen>>

UpdateFlag == /\ Handle("update.flag", "update.process")
              /\ processFlag' = FALSE /\ UNCHANGED <<event, listenersOpen>>

\* Fault: Server::update does not wake cycleQueue.
UpdateProcessQueueSilent == /\ Handle("update.process", "none")
                            /\ UNCHANGED <<controlVars, listenersOpen>>

UpdateProcessQueue == /\ Handle("update.process", "none")
                      /\ event' = [event EXCEPT !["process"] = Notify(@)]
                      /\ UNCHANGED <<processFlag, listenersOpen>>

HandlerStep == \/ StopFlag \/ StopNotFull \/ StopProcessQueue \/ StopClose
               \/ UpdateEvent \/ UpdateFlag \/ UpdateProcessQueue

-----------------------------------------------------------------------------
(***************************************************************************)
(* The main thread: the loop of run (lines 341-379) and its end.           *)
(***************************************************************************)
MainGoes(from, to) == /\ handler = "none"
                      /\ mainPc = from /\ mainPc' = to
                      /\ UNCHANGED <<processFlag, poolVars, handler, stops, updates,
                                     cyclePc, workerPc, outside, sock, served>>

\* The call of epoll_wait: from here on a signal is noticed.
MainEnterEpoll == /\ MainGoes("accept", "epoll")
                  /\ UNCHANGED <<event, listenersOpen, pending, batch, queue, queueLock>>

\* Socket::List::accept takes every connection the kernel has queued.
MainAccept == /\ MainGoes("epoll", "lock")
              /\ listenersOpen /\ pending # {}
              /\ batch' = pending /\ pending' = {}
              /\ UNCHANGED <<event, listenersOpen, queue, queueLock>>

MainLock == /\ MainGoes("lock", "emplace")
            /\ queueLock = "none" /\ queueLock' = "main"
            /\ UNCHANGED <<event, listenersOpen, pending, batch, queue>>

MainEmplace == /\ MainGoes("emplace", "emplace")
               /\ \E c \in batch : batch' = batch \ {c} /\ queue' = Append(queue, c)
               /\ UNCHANGED <<event, listenersOpen, pending, queueLock>>

\* Fault: the mutex of the queue is never released.
MainUnlockForgotten == /\ MainGoes("emplace", "notify")
                       /\ batch = {}
                       /\ UNCHANGED <<event, listenersOpen, pending, batch, queue, queueLock>>

MainUnlock == /\ MainGoes("emplace", "notify")
              /\ batch = {} /\ queueLock' = "none"
              /\ UNCHANGED <<event, listenersOpen, pending, batch, queue>>

\* Fault: cycleQueue is not told of the new connections.
MainNotifyProcessSilent == /\ MainGoes("notify", "limit")
                           /\ UNCHANGED <<event, listenersOpen, pending, batch, queue,
                                          queueLock>>

MainNotifyProcess == /\ MainGoes("notify", "limit")
                     /\ event' = [event EXCEPT !["process"] = Notify(@)]
                     /\ UNCHANGED <<listenersOpen, pending, batch, queue, queueLock>>

MainCheckLimit == /\ \E size \in RacySize("main") :
                       MainGoes("limit", IF size >= QueueLimit THEN "reset" ELSE "wait")
                  /\ UNCHANGED <<event, listenersOpen, pending, batch, queue, queueLock>>

MainResetNotFull == /\ MainGoes("reset", "wait")
                    /\ event' = [event EXCEPT !["notFull"] = Reset(@)]
                    /\ UNCHANGED <<listenersOpen, pending, batch, queue, queueLock>>

\* Fault: the acceptor goes on without waiting for eventNotFullQueue.
MainWaitSkipped == /\ MainGoes("wait", "flag")
                   /\ UNCHANGED <<event, listenersOpen, pending, batch, queue, queueLock>>

MainWait == /\ "main" \notin event["notFull"].sleepers
            /\ MainGoes("wait", IF Notified(event["notFull"]) THEN "flag" ELSE "gap")
            /\ UNCHANGED <<event, listenersOpen, pending, batch, queue, queueLock>>

MainBlock == /\ MainGoes("gap", "wait")
             /\ event' = [event EXCEPT !["notFull"] = Block(@, "main")]
             /\ UNCHANGED <<listenersOpen, pending, batch, queue, queueLock>>

\* The loop condition of line 379 reads process_flag and then the update event.
MainReadFlag == /\ MainGoes("flag", IF processFlag THEN "accept" ELSE "updated")
                /\ UNCHANGED <<event, listenersOpen, pending, batch, queue, queueLock>>

MainReadUpdate == /\ MainGoes("updated", IF Notified(event["update"]) THEN "accept"
                                                                      ELSE "last")
                  /\ UNCHANGED <<event, listenersOpen, pending, batch, queue, queueLock>>

MainLastNotify == /\ MainGoes("last", "join")
                  /\ event' = [event EXCEPT !["process"] = Notify(@)]
                  /\ UNCHANGED <<listenersOpen, pending, batch, queue, queueLock>>

\* Fault: the thread of cycleQueue is not joined.
MainJoinSkipped == /\ MainGoes("join", "close")
                   /\ UNCHANGED <<event, listenersOpen, pending, batch, queue, queueLock>>

MainJoin == /\ MainGoes("join", "close")
            /\ cyclePc = "done"
            /\ UNCHANGED <<event, listenersOpen, pending, batch, queue, queueLock>>

\* sockets_list.destroy and the close of the listeners that are still open.
MainClose == /\ MainGoes("close", "clear")
             /\ listenersOpen' = FALSE
             /\ UNCHANGED <<event, pending, batch, queue, queueLock>>

\* Server::clear deletes the events and unloads the application modules.
MainClear == /\ MainGoes("clear", "done")
             /\ UNCHANGED <<event, listenersOpen, pending, batch, queue, queueLock>>

MainStep == \/ MainEnterEpoll \/ MainAccept \/ MainLock \/ MainEmplace \/ MainUnlock
            \/ MainNotifyProcess \/ MainCheckLimit \/ MainResetNotFull
            \/ MainWait \/ MainBlock \/ MainReadFlag \/ MainReadUpdate
            \/ MainLastNotify \/ MainJoin \/ MainClose \/ MainClear

-----------------------------------------------------------------------------
(***************************************************************************)
(* cycleQueue (lines 405-488).                                             *)
(***************************************************************************)
CycleGoes(from, to) == /\ cyclePc = from /\ cyclePc' = to
                       /\ UNCHANGED <<connVars, signalVars, mainPc, queueLock, working>>

\* Lines 444-447.
CycleOuter == /\ CycleGoes("outer", IF Notified(event["update"]) THEN "update" ELSE "grow")
              /\ UNCHANGED <<controlVars, workerPc, active, notifyCount, version>>

\* updateModules up to line 533: the application modules are replaced.
CycleUpdateModules == /\ CycleGoes("update", "setProcess")
                      /\ version' = version + 1
                      /\ UNCHANGED <<controlVars, workerPc, active, notifyCount>>

CycleSetProcess == /\ CycleGoes("setProcess", "resetUpdate")
                   /\ processFlag' = TRUE
                   /\ UNCHANGED <<event, workerPc, active, notifyCount, version>>

\* Fault: the request to update is not reset when it has been served.
CycleResetUpdateSkipped ==
  /\ CycleGoes("resetUpdate", "grow")
  /\ UNCHANGED <<controlVars, workerPc, active, notifyCount, version>>

CycleResetUpdate == /\ CycleGoes("resetUpdate", "grow")
                    /\ event' = [event EXCEPT !["update"] = Reset(@)]
                    /\ UNCHANGED <<processFlag, workerPc, active, notifyCount, version>>

\* Fault: the pool grows whenever it is not full, idle threads or not.
CycleGrowEager ==
  /\ CycleGoes("grow", IF Cardinality(active) < Cardinality(Workers) THEN "growEmpty"
                                                                     ELSE "count")
  /\ UNCHANGED <<controlVars, workerPc, active, notifyCount, version>>

\* The condition of the loop at 451: two thread counts, then sockets.empty().
CycleGrow == /\ CycleGoes("grow", IF /\ working = Cardinality(active)
                                     /\ Cardinality(active) < Cardinality(Workers)
                                  THEN "growEmpty" ELSE "count")
             /\ UNCHANGED <<controlVars, workerPc, active, notifyCount, version>>

CycleCreate == /\ CycleGoes("growEmpty", "grow")
               /\ \E size \in RacySize("cycle") : size > 0
               /\ \E w \in Workers \ active :
                    /\ active' = active \union {w}
                    /\ workerPc' = [workerPc EXCEPT ![w] = "wait"]
               /\ UNCHANGED <<controlVars, notifyCount, version>>

CycleQueueEmpty == /\ CycleGoes("growEmpty", "count")
                   /\ 0 \in RacySize("cycle")
                   /\ UNCHANGED <<controlVars, workerPc, active, notifyCount, version>>

\* Lines 464-468: the number of idle threads, or what size() says when that is less.
CycleCountIdle == /\ CycleGoes("count", "cap")
                  /\ notifyCount' = Cardinality(active) - working
                  /\ UNCHANGED <<controlVars, workerPc, active, version>>

CycleCompareSize == /\ \E size \in RacySize("cycle") :
                         CycleGoes("cap", IF notifyCount > size THEN "capAgain"
                                                                ELSE "notify")
                    /\ UNCHANGED <<controlVars, workerPc, active, notifyCount, version>>

CycleCapToSize == /\ CycleGoes("capAgain", "notify")
                  /\ notifyCount' \in RacySize("cycle")
                  /\ UNCHANGED <<controlVars, workerPc, active, version>>

CycleNotifyWorkers == /\ CycleGoes("notify", "wait")
                      /\ \E e \in NotifySome(event["threadCycle"], notifyCount) :
                           event' = [event EXCEPT !["threadCycle"] = e]
                      /\ notifyCount' = 0
                      /\ UNCHANGED <<processFlag, workerPc, active, version>>

CycleWait == /\ "cycle" \notin event["process"].sleepers
             /\ CycleGoes("wait", IF Notified(event["process"]) THEN "consume" ELSE "gap")
             /\ UNCHANGED <<controlVars, workerPc, active, notifyCount, version>>

CycleBlock == /\ CycleGoes("gap", "wait")
              /\ event' = [event EXCEPT !["process"] = Block(@, "cycle")]
              /\ UNCHANGED <<processFlag, workerPc, active, notifyCount, version>>

\* The event is automatic: wait ends by clearing its flag.
CycleConsume == /\ CycleGoes("consume", "flag")
                /\ event' = [event EXCEPT !["process"] = Reset(@)]
                /\ UNCHANGED <<processFlag, workerPc, active, notifyCount, version>>

CycleReadFlag == /\ CycleGoes("flag", IF processFlag THEN "grow" ELSE "join")
                 /\ UNCHANGED <<controlVars, workerPc, active, notifyCount, version>>

\* Fault: the pool is cleared without joining its threads.
CycleJoinDetached == /\ CycleGoes("join", "notFull")
                     /\ active' = {}
                     /\ UNCHANGED <<controlVars, workerPc, notifyCount, version>>

\* Lines 475-482: every thread of the pool is joined, and the pool is empty.
CycleJoin == /\ CycleGoes("join", "notFull")
             /\ \A w \in active : workerPc[w] = "exit"
             /\ workerPc' = [w \in Workers |-> IF w \in active THEN "none" ELSE workerPc[w]]
             /\ active' = {}
             /\ UNCHANGED <<controlVars, notifyCount, version>>

CycleNotifyNotFull == /\ CycleGoes("notFull", "again")
                      /\ event' = [event EXCEPT !["notFull"] = Notify(@)]
                      /\ UNCHANGED <<processFlag, workerPc, active, notifyCount, version>>

CycleAgain == /\ CycleGoes("again", IF Notified(event["update"]) THEN "outer" ELSE "done")
              /\ UNCHANGED <<controlVars, workerPc, active, notifyCount, version>>

CycleStep == \/ CycleOuter \/ CycleUpdateModules \/ CycleSetProcess \/ CycleResetUpdate
             \/ CycleGrow \/ CycleCreate \/ CycleQueueEmpty \/ CycleCountIdle
             \/ CycleCompareSize \/ CycleCapToSize \/ CycleNotifyWorkers
             \/ CycleWait \/ CycleBlock \/ CycleConsume \/ CycleReadFlag
             \/ CycleJoin \/ CycleNotifyNotFull \/ CycleAgain

-----------------------------------------------------------------------------
(***************************************************************************)
(* threadRequestCycle (lines 700-792), the loop of a worker.               *)
(***************************************************************************)
WorkerGoes(w, from, to) == /\ workerPc[w] = from
                           /\ workerPc' = [workerPc EXCEPT ![w] = to]
                           /\ UNCHANGED <<processFlag, signalVars, mainPc, cyclePc, outside,
                                          pending, batch, active, notifyCount, version>>

\* Fault: eventThreadCycle is made an automatic event.
WorkerWaitAutomatic(w) ==
  /\ w \notin event["threadCycle"].sleepers
  /\ WorkerGoes(w, "wait", IF Notified(event["threadCycle"]) THEN "flag" ELSE "gap")
  /\ event' = [event EXCEPT !["threadCycle"] = Reset(@)]
  /\ UNCHANGED <<queue, queueLock, sock, served, working>>

WorkerWait(w) ==
  /\ w \notin event["threadCycle"].sleepers
  /\ WorkerGoes(w, "wait", IF Notified(event["threadCycle"]) THEN "flag" ELSE "gap")
  /\ UNCHANGED <<event, queue, queueLock, sock, served, working>>

WorkerBlock(w) ==
  /\ WorkerGoes(w, "gap", "wait")
  /\ event' = [event EXCEPT !["threadCycle"] = Block(@, w)]
  /\ UNCHANGED <<queue, queueLock, sock, served, working>>

WorkerReadFlag(w) ==
  /\ WorkerGoes(w, "flag", IF processFlag THEN "lock" ELSE "exit")
  /\ UNCHANGED <<event, queue, queueLock, sock, served, working>>

WorkerLock(w) ==
  /\ WorkerGoes(w, "lock", "front")
  /\ queueLock = "none" /\ queueLock' = w
  /\ UNCHANGED <<event, queue, sock, served, working>>

\* Fault: back() is read where front() is popped.
WorkerFrontIsBack(w) ==
  /\ WorkerGoes(w, "front", "pop")
  /\ sock' = [sock EXCEPT ![w] = IF queue = <<>> THEN NoConn ELSE queue[Len(queue)]]
  /\ UNCHANGED <<event, queue, queueLock, served, working>>

\* The socket at the front is copied, if there is one.
WorkerFront(w) ==
  /\ WorkerGoes(w, "front", "pop")
  /\ sock' = [sock EXCEPT ![w] = IF queue = <<>> THEN NoConn ELSE Head(queue)]
  /\ UNCHANGED <<event, queue, queueLock, served, working>>

\* Fault: the socket that was copied stays in the queue.
WorkerPopForgotten(w) ==
  /\ WorkerGoes(w, "pop", IF sock[w] = NoConn THEN "wait" ELSE "taken")
  /\ queueLock' = "none"
  /\ UNCHANGED <<event, queue, sock, served, working>>

\* It is popped, the mutex released, and line 728 tests whether a socket was got.
WorkerPop(w) ==
  /\ WorkerGoes(w, "pop", IF sock[w] = NoConn THEN "wait" ELSE "taken")
  /\ queue' = IF sock[w] = NoConn THEN queue ELSE Tail(queue)
  /\ queueLock' = "none"
  /\ UNCHANGED <<event, sock, served, working>>

WorkerIncrement(w) ==
  /\ WorkerGoes(w, "taken", "serve")
  /\ working' = working + 1
  /\ UNCHANGED <<event, queue, queueLock, sock, served>>

\* threadRequestProc, with the application it calls, comes to its end.
WorkerServe(w) ==
  /\ WorkerGoes(w, "serve", "counted")
  /\ served' = served \union {sock[w]}
  /\ sock' = [sock EXCEPT ![w] = NoConn]
  /\ UNCHANGED <<event, queue, queueLock, working>>

\* Fault: the count of working threads is not taken back.
WorkerDecrementSkipped(w) ==
  /\ WorkerGoes(w, "counted", "wait")
  /\ UNCHANGED <<event, queue, queueLock, sock, served, working>>

WorkerDecrement(w) ==
  /\ WorkerGoes(w, "counted", "wait")
  /\ working' = working - 1
  /\ UNCHANGED <<event, queue, queueLock, sock, served>>

WorkerStep(w) == \/ WorkerWait(w) \/ WorkerBlock(w) \/ WorkerReadFlag(w)
                 \/ WorkerLock(w) \/ WorkerFront(w) \/ WorkerPop(w)
                 \/ WorkerIncrement(w) \/ WorkerServe(w) \/ WorkerDecrement(w)

-----------------------------------------------------------------------------
\* The run is over: the program goes on in command_start.
Finished == mainPc = "done" /\ UNCHANGED vars

Next == \/ \E c \in Conns : Connect(c)
        \/ \E e \in EventName : Spurious(e)
        \/ SignalStop \/ SignalUpdate \/ HandlerStep
        \/ MainStep \/ CycleStep
        \/ \E w \in Workers : WorkerStep(w)
        \/ Finished

Spec == Init /\ [][Next]_vars

(***************************************************************************)
(* The operating system goes on scheduling each thread, and an application *)
(* returns from each request.  Nothing makes a client connect, a signal    *)
(* come, or a condition variable wake for no reason.                       *)
(***************************************************************************)
Fairness == /\ WF_vars(HandlerStep) /\ WF_vars(MainStep) /\ WF_vars(CycleStep)
            /\ \A w \in Workers : WF_vars(WorkerStep(w))

FairSpec == Spec /\ Fairness

-----------------------------------------------------------------------------
(***************************************************************************)
(* Properties.                                                             *)
(***************************************************************************)

\* The types of the variables.  notifyCount is a size_t in the code (line 464): that
\* it is a natural number here says that the subtraction never wraps around.
TypeOK ==
  /\ processFlag \in BOOLEAN
  /\ event \in [EventName -> EventOf(Threads)]
  /\ mainPc \in MainLabel /\ cyclePc \in CycleLabel
  /\ workerPc \in [Workers -> WorkerLabel]
  /\ handler \in HandlerLabel /\ listenersOpen \in BOOLEAN
  /\ outside \subseteq Conns /\ pending \subseteq Conns /\ batch \subseteq Conns
  /\ queue \in Seq(Conns) /\ served \subseteq Conns
  /\ queueLock \in {"none", "main"} \union Workers
  /\ sock \in [Workers -> Conns \union {NoConn}]
  /\ active \subseteq Workers
  /\ working \in Nat /\ notifyCount \in Nat /\ version \in Nat
  /\ stops \in Nat /\ updates \in Nat

\* A connection is in one place at a time: not yet come, in the kernel's queue, in
\* accept_sockets, in sockets, with one worker, or served.  Two workers never get the
\* same socket from the queue (lines 717-726), and none is lost while the server runs.
ConnectionInOnePlace ==
  LET owned  == {sock[w] : w \in Serving}
      places == <<outside, pending, batch, ToSet(queue), owned, served>>
  IN  /\ \A i, j \in 1 .. 6 : i # j => places[i] \intersect places[j] = {}
      /\ UNION Range(places) = Conns
      /\ IsInjective(queue)
      /\ \A v, w \in Serving : sock[v] = sock[w] => v = w

\* threads_working_count counts the threads between lines 730 and 789, which are
\* threads of the pool: active_threads.size() - threads_working_count, which
\* line 464 computes without a lock, is the number of the others.
WorkingCountsBusy == /\ working = Cardinality(Busy)
                     /\ Busy \subseteq active

\* updateModules (lines 491-536) never runs while a thread of the pool exists, so no
\* request is inside a module that is being replaced.
UpdateIsQuiescent ==
  cyclePc \in {"update", "setProcess", "resetUpdate"} => active = {} /\ Live = {}

\* Server::clear, which deletes the events and unloads the modules, runs after the
\* thread of cycleQueue and every thread of its pool have ended.
TeardownIsLast ==
  mainPc \in {"close", "clear", "done"} => cyclePc = "done" /\ Live = {}

\* A worker can be blocked on eventThreadCycle, or about to be, only if it is the
\* one thread of the pool and none has served anything yet: the event is never reset.
SleeperIsAlone ==
  \A w \in Workers :
    workerPc[w] = "gap" \/ w \in event["threadCycle"].sleepers
      => active = {w} /\ working = 0

\* The modules are replaced at most once for each request to do so.
UpdatesAreRequested == version <= updates

\* The server takes connections from the kernel only while eventNotFullQueue is set:
\* after it has been reset at the limit (line 373) nothing more enters the queue until
\* cycleQueue ends a round or the server is told to stop.
AcceptsOnlyWhenNotFull ==
  mainPc \in {"accept", "epoll", "lock", "emplace", "notify", "limit"}
    => Notified(event["notFull"])

\* The mutex of sockets is held exactly by the thread that is inside its critical
\* section (lines 345-367 and 717-726).
LockIsHeld ==
  /\ queueLock = "main" <=> mainPc = "emplace"
  /\ \A w \in Workers : queueLock = w <=> workerPc[w] \in {"front", "pop"}

\* A worker that is about to pop has copied the socket it will remove.
PopsWhatItRead ==
  \A w \in Workers :
    workerPc[w] = "pop" /\ sock[w] # NoConn => queue # <<>> /\ sock[w] = Head(queue)

\* A worker past line 728 has an open socket.
OwnsASocket == \A w \in Workers : workerPc[w] \in {"taken", "serve"} => sock[w] # NoConn

\* The threads that exist are those of active_threads, and there are none from the
\* join of line 479 to the loop at 450.
LiveIsActive ==
  /\ Live = active
  /\ cyclePc \in {"outer", "update", "setProcess", "resetUpdate", "notFull", "again", "done"}
       => active = {}

\* The inductive invariant of the server: what its safety properties rest on.
CoreInv == /\ TypeOK
           /\ LockIsHeld /\ PopsWhatItRead /\ OwnsASocket
           /\ LiveIsActive
           /\ WorkingCountsBusy
           /\ TeardownIsLast

\* What is known of eventThreadCycle.  Before its first notification no worker has
\* gone past its wait and there is at most one; a worker that blocks on it afterwards is
\* that first one, and cycleQueue makes no other while it sleeps.
FirstNotification ==
  LET e == event["threadCycle"]
  IN  /\ \A w \in e.sleepers : w \in Workers /\ workerPc[w] = "wait"
      /\ ~Notified(e) => /\ working = 0
                         /\ \A w \in Workers : workerPc[w] \in {"none", "wait", "gap"}
                         /\ \A v, w \in active : v = w
      /\ cyclePc = "growEmpty" /\ active # {} =>
           Notified(e) /\ \A w \in Workers : w \notin e.sleepers /\ workerPc[w] # "gap"

\* eventNotFullQueue is clear only while the main thread is in its wait for it.
ClearOnlyInWait == ~Notified(event["notFull"]) => mainPc \in {"wait", "gap"}

\* Each run of updateModules uses up one request; a request that is still to be
\* served is counted as well.
UpdateIsOwed ==
  LET coming == IF handler = "update.event" THEN 1 ELSE 0
      owed   == IF /\ Notified(event["update"])
                   /\ cyclePc \notin {"setProcess", "resetUpdate"} THEN 1 ELSE 0
  IN  /\ version + coming + owed <= updates
      /\ cyclePc = "update" => Notified(event["update"])

\* What the events add to the inductive invariant.
EventInv == FirstNotification /\ SleeperIsAlone /\ ClearOnlyInWait /\ UpdateIsOwed

\* The pool seen from the connections.
Pool == INSTANCE ConnectionPool
          WITH waiting    <- queue,
               serving    <- {sock[w] : w \in Serving},
               MaxServing <- Cardinality(Workers)

\* The queue and the threads keep the promises of ConnectionPool: first come, first
\* taken, once each, by at most thread_max_count workers, and no change of the modules
\* under a request.
ImplementsPool == Pool!PoolSpec

\* A thread that is blocked on an event whose flag is set: the notification came
\* while the thread was in the gap of Event::wait, and nobody will repeat it.
Overslept(t, e) == t \in event[e].sleepers /\ Notified(event[e])

SomebodyOversleeps == \/ Overslept("main", "notFull")
                      \/ Overslept("cycle", "process")
                      \/ \E w \in Workers : Overslept(w, "threadCycle")

\* The acceptor is in its wait for eventNotFullQueue (line 376).
MainInWait == mainPc \in {"wait", "gap"}

\* A connection does not stay in the queue for ever, unless the round of the server
\* is over or a thread oversleeps its notification in Event::wait.
QueuedIsTaken ==
  \A c \in Conns : \/ []<>(c \notin ToSet(queue) \/ cyclePc = "done")
                   \/ <>[]SomebodyOversleeps

\* A request to update the modules does not stay unanswered for ever, unless
\* cycleQueue has ended or a thread oversleeps its notification.
UpdateIsTaken == \/ []<>(~Notified(event["update"]) \/ cyclePc = "done")
                 \/ <>[]SomebodyOversleeps

\* The ways of the main thread back to epoll_wait under a signal to stop, where no signal
\* interrupts it any more: it had passed line 379 when the signal came; it reads
\* process_flag that updateModules has set again (line 534); or it finds the request to
\* update, which is reset only afterwards (line 535).
MissesStop ==
  \/ handler = "stop.close" /\ mainPc = "accept"
  \/ stops > 0 /\ handler = "none" /\ mainPc = "flag" /\ processFlag /\ version > 0
  \/ stops > 0 /\ handler = "none" /\ mainPc = "updated" /\ Notified(event["update"])

\* After a signal to stop, run returns, with four exceptions: the main thread misses the
\* signal on its way to epoll_wait, and stays there; it waits for cycleQueue, which goes
\* on because process_flag was set again (line 534); it had seen the queue at its limit,
\* and resets eventNotFullQueue (line 373) after the last notification of it; or a thread
\* oversleeps its notification.
StopEndsRun == \/ []<>(stops = 0 \/ mainPc = "done")
               \/ <>(MissesStop /\ [](mainPc \in {"flag", "updated", "accept", "epoll"}))
               \/ <>[](mainPc = "join" /\ processFlag)
               \/ <>[](MainInWait /\ ~Notified(event["notFull"]))
               \/ <>[]SomebodyOversleeps

-----------------------------------------------------------------------------
(***************************************************************************)
(* What the program says of itself, and its code does not do.              *)
(***************************************************************************)

\* "--kill  Shutdown http server" (Server.cpp:1002): a server that is sent the signal
\* ends its run.
KillShutsDown == stops > 0 ~> mainPc = "done"

\* "--update-module  Update applications modules" (Server.cpp:1001): the acceptor
\* leaves its loop to end the run only if somebody asked the server to stop.
UpdateKeepsServing ==
  mainPc \in {"last", "join", "close", "clear", "done"} => stops > 0

\* "Cycle for receiving new connections" (Server.cpp:340): the acceptor does not wait
\* for ever between two calls of accept while nobody has stopped the server.
AcceptorComesBack == []<>(~MainInWait \/ stops > 0)
=============================================================================
