--------------------------- MODULE ConnectionPool ---------------------------
(***************************************************************************)
(* What the server's queue and thread pool promise to the connections they *)
(* are given, with no thread, flag, lock or event in sight: a connection   *)
(* waits in line, is taken in the order of the line by one of at most      *)
(* MaxServing servers, and is served to its end by one version of the      *)
(* application modules.                                                    *)
(***************************************************************************)
EXTENDS Naturals, Sequences, SequencesExt

CONSTANTS Conns,       \* the connections that may come
          MaxServing   \* how many may be served at a time

VARIABLES waiting,     \* the line
          serving,     \* the connections being served
          served,      \* the connections whose service has ended
          version      \* how many times the modules have been replaced

poolVars == <<waiting, serving, served, version>>

PoolInit == waiting = <<>> /\ serving = {} /\ served = {} /\ version = 0

\* A connection that has never been in the pool joins the line.
Enqueue == \E c \in Conns \ (ToSet(waiting) \union serving \union served) :
             /\ waiting' = Append(waiting, c)
             /\ UNCHANGED <<serving, served, version>>

\* The connection at the head of the line gets a server.
Take == /\ waiting # <<>>
        /\ Cardinality(serving) < MaxServing
        /\ serving' = serving \union {Head(waiting)}
        /\ waiting' = Tail(waiting)
        /\ UNCHANGED <<served, version>>

Finish == \E c \in serving :
            /\ serving' = serving \ {c}
            /\ served' = served \union {c}
            /\ UNCHANGED <<waiting, version>>

\* The modules are replaced only while no connection is being served by them.
ReplaceModules == /\ serving = {}
                  /\ version' = version + 1
                  /\ UNCHANGED <<waiting, serving, served>>

PoolNext == Enqueue \/ Take \/ Finish \/ ReplaceModules

PoolSpec == PoolInit /\ [][PoolNext]_poolVars
=============================================================================
