------------------------------- MODULE Event -------------------------------
(***************************************************************************)
(* Utils::Event (src/src/utils/Event.cpp): an atomic flag and a condition  *)
(* variable.  An event is a record of the flag and of the threads blocked  *)
(* in cv.wait.                                                             *)
(*                                                                         *)
(* Event::wait is not one atomic operation, and a module that uses events  *)
(* has to give a waiting thread two labels:                                *)
(*   "wait"  it is about to load the flag (line 10, and again line 17): if *)
(*           the flag is set the wait is over, else it goes to "gap";      *)
(*   "gap"   it has seen the flag clear and has not yet blocked (12-15):   *)
(*           its step is Block, which takes it back to "wait", where it    *)
(*           stays for as long as it is among the sleepers.                *)
(* notify and reset take no mutex, so nothing stops them from running      *)
(* while a thread is in its gap.                                           *)
(***************************************************************************)
EXTENDS Naturals, FiniteSets

\* The set of events whose sleepers are threads of T.
EventOf(T) == [signaled : BOOLEAN, sleepers : SUBSET T]

\* Event::Event(signaled, manually): nobody waits yet.
New(signaled) == [signaled |-> signaled, sleepers |-> {}]

\* Event::notified, and the load of the flag in wait.
Notified(e) == e.signaled

\* cv.wait of a thread that has seen the flag clear.
Block(e, t) == [e EXCEPT !.sleepers = @ \union {t}]

\* A thread leaves cv.wait without having been notified, as the standard allows.
SpuriousWake(e, t) == [e EXCEPT !.sleepers = @ \ {t}]

\* Event::notify(): set the flag, notify_all.
Notify(e) == [e EXCEPT !.signaled = TRUE, !.sleepers = {}]

\* Event::notify(threadCount): set the flag, threadCount times notify_one.  Any
\* sleeper may be the one that notify_one picks.
NotifySome(e, threadCount) ==
  { [signaled |-> TRUE, sleepers |-> e.sleepers \ woken] :
      woken \in { W \in SUBSET e.sleepers :
                    \/ Cardinality(W) = threadCount
                    \/ W = e.sleepers /\ Cardinality(W) < threadCount } }

\* Event::reset, and the store at the end of the wait of an automatic event.
Reset(e) == [e EXCEPT !.signaled = FALSE]
=============================================================================
