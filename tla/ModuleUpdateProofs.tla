------------------------- MODULE ModuleUpdateProofs -------------------------
(***************************************************************************)
(* Proofs about ModuleUpdate, for any applications, libraries, update      *)
(* files and any sequence of failures.                                     *)
(***************************************************************************)
EXTENDS ModuleUpdate, TLAPS

USE PathsAssumption, UpdateBounds

-----------------------------------------------------------------------------
\* The records of files that the actions make are files.
LEMMA FileTyped ==
  ASSUME NEW v \in 0 .. MaxVersions + 1, NEW s \in Sizes \union {0}, NEW t \in 0 .. MaxTime
  PROVE  File(v, s, t) \in Files
  BY DEF File, Files

LEMMA AbsentTyped == Absent \in Files
<1>1. 0 \in 0 .. MaxVersions + 1 /\ 0 \in 0 .. MaxTime
  OBVIOUS
<1> QED
  BY <1>1, FileTyped DEF Absent

LEMMA CopyTyped ==
  ASSUME NEW f \in Files, NEW t \in 0 .. MaxTime
  PROVE  [f EXCEPT !.time = t] \in Files
  BY DEF Files

-----------------------------------------------------------------------------
\* The server after loadConfig satisfies the invariant.
LEMMA UpdateInit == Init => UpdateInv
<1> SUFFICES ASSUME Init PROVE UpdateInv
  OBVIOUS
<1>1. PICK s \in Sizes : disk = [p \in Libs \union Updates |->
                                   IF p \in Libs THEN File(1, s, 0) ELSE Absent]
  BY DEF Init
<1>2. File(1, s, 0) \in Files
  <2>1. 1 \in 0 .. MaxVersions + 1 /\ 0 \in 0 .. MaxTime
    OBVIOUS
  <2> QED
    BY <2>1, FileTyped
<1>3. TypeOK
  <2>1. disk \in [Libs \union Updates -> Files]
    BY <1>1, <1>2, AbsentTyped
  <2>2. /\ loaded \in [Libs -> Versions] /\ functions \in [Apps -> Versions]
        /\ published \in Versions /\ clock \in 0 .. MaxTime
    BY DEF Init, Versions
  <2> QED
    BY <2>1, <2>2, AbsentTyped DEF Init, TypeOK
<1>4. \A l \in Libs : disk[l].version = 1
  BY <1>1 DEF File
<1>5. FunctionsAreLoaded /\ RunningIsOnDisk
  BY <1>3, <1>4 DEF Init, FunctionsAreLoaded, RunningIsOnDisk, TypeOK
<1>6. DroppedWhileReplaced /\ OpenedIsPlaced
  BY DEF Init, DroppedWhileReplaced, OpenedIsPlaced
<1> QED
  BY <1>3, <1>5, <1>6 DEF UpdateInv

\* Every action keeps the types.
LEMMA UpdateTypes ==
  ASSUME TypeOK, Next
  PROVE  TypeOK'
<1> USE DEF TypeOK
<1>1. ASSUME NEW u \in Updates, Publish(u) PROVE TypeOK'
  <2>1. PICK s \in Sizes : disk' = [disk EXCEPT ![u] = File(published + 1, s, clock)]
    BY <1>1 DEF Publish
  <2>2. published + 1 \in 0 .. MaxVersions + 1 /\ published' \in Versions
    BY <1>1 DEF Publish, Versions
  <2>3. File(published + 1, s, clock) \in Files
    BY <2>2, FileTyped
  <2>4. disk' \in [Libs \union Updates -> Files]
    BY <2>1, <2>3
  <2> QED
    BY <1>1, <2>2, <2>4 DEF Publish, config, local
<1>2. CASE Tick
  BY <1>2 DEF Tick, config, local, Versions
<1>3. CASE Request
  BY <1>3 DEF Request, config, outside
<1>4. CASE Looked
  BY <1>4 DEF Looked, Goes, config, outside, local
<1>5. ASSUME NEW a \in Apps, Look(a) PROVE TypeOK'
  BY <1>5 DEF Look, Goes, config, outside
<1>6. CASE Unload
  <2>1. functions' \in [Apps -> Versions] /\ loaded' \in [Libs -> Versions]
    BY <1>6 DEF Unload, Closed, Versions
  <2> QED
    BY <1>6, <2>1 DEF Unload, Goes, config, outside, local
<1>7. CASE Copy
  <2>1. temp' \in Files
    <3>1. ASSUME NEW a \in Apps, updateOf[a] # "absent"
          PROVE  [disk[updateOf[a]] EXCEPT !.time = clock] \in Files
      BY <3>1, CopyTyped
    <3>2. File(Broken, 0, clock) \in Files
      <4>1. Broken \in 0 .. MaxVersions + 1
        BY DEF Broken
      <4> QED
        BY <4>1, FileTyped
    <3> QED
      BY <1>7, <3>1, <3>2 DEF Copy, Same
  <2> QED
    BY <1>7, <2>1 DEF Copy, Return, Goes, config, outside, local
<1>8. CASE Open
  <2>1. temp.version \in 0 .. MaxVersions + 1
    BY DEF Files
  <2>2. \A v \in {temp.version, Closed} \ {Broken} : v \in Versions
    BY <2>1 DEF Versions, Closed, Broken
  <2> QED
    BY <1>8, <2>2 DEF Open, Goes, config, outside, local
<1>9. CASE Remove
  <2>1. disk' \in [Libs \union Updates -> Files]
    BY <1>9, AbsentTyped DEF Remove, Return
  <2> QED
    BY <1>9, <2>1 DEF Remove, Return, Goes, config, outside, local
<1>10. CASE Rename
  <2>1. disk' \in [Libs \union Updates -> Files] /\ temp' \in Files
    BY <1>10, AbsentTyped DEF Rename, Return
  <2> QED
    BY <1>10, <2>1 DEF Rename, Return, Goes, config, outside, local
<1>11. CASE Bind
  BY <1>11 DEF Bind, Return, Goes, config, outside, local
<1> QED
  BY <1>1, <1>2, <1>3, <1>4, <1>5, <1>6, <1>7, <1>8, <1>9, <1>10, <1>11 DEF Next

\* What runs is what is loaded and what is on the disk, after every action.
LEMMA UpdateKeepsRunning ==
  ASSUME UpdateInv, Next
  PROVE  (FunctionsAreLoaded /\ RunningIsOnDisk)'
<1> USE DEF UpdateInv, FunctionsAreLoaded, RunningIsOnDisk, TypeOK
<1>1. ASSUME NEW u \in Updates, Publish(u) PROVE (FunctionsAreLoaded /\ RunningIsOnDisk)'
  <2>1. \A l \in Libs : disk'[l] = disk[l]
    BY <1>1 DEF Publish
  <2> QED
    BY <1>1, <2>1 DEF Publish, config
<1>2. CASE Tick
  BY <1>2 DEF Tick, config
<1>3. CASE Request
  BY <1>3 DEF Request, config
<1>4. CASE Looked
  BY <1>4 DEF Looked, Goes, config
<1>5. ASSUME NEW a \in Apps, Look(a) PROVE (FunctionsAreLoaded /\ RunningIsOnDisk)'
  BY <1>5 DEF Look, Goes, config
<1>6. CASE Unload
  BY <1>6 DEF Unload, Goes, config
<1>7. CASE Copy
  BY <1>7 DEF Copy, Return, Goes, config
<1>8. CASE Open
  <2>1. pc = "open" /\ \A a \in Apps : functions'[a] # Closed => libOf'[a] # lib
    BY <1>8 DEF Open, Goes, config, DroppedWhileReplaced
  <2>2. \A l \in Libs : l # lib => loaded'[l] = loaded[l]
    BY <1>8 DEF Open
  <2> QED
    BY <1>8, <2>1, <2>2 DEF Open, Goes, config
<1>9. CASE Remove
  <2>1. pc = "remove" /\ \A a \in Apps : functions'[a] # Closed => libOf'[a] # lib
    BY <1>9 DEF Remove, Return, Goes, config, DroppedWhileReplaced
  <2>2. \A l \in Libs : l # lib => disk'[l] = disk[l]
    BY <1>9 DEF Remove, Return
  <2> QED
    BY <1>9, <2>1, <2>2 DEF Remove, Return, Goes, config
<1>10. CASE Rename
  <2>1. pc = "rename" /\ \A a \in Apps : functions'[a] # Closed => libOf'[a] # lib
    BY <1>10 DEF Rename, Return, Goes, config, DroppedWhileReplaced
  <2>2. \A l \in Libs : l # lib => disk'[l] = disk[l]
    BY <1>10 DEF Rename, Return
  <2> QED
    BY <1>10, <2>1, <2>2 DEF Rename, Return, Goes, config
<1>11. CASE Bind
  <2>1. CASE UNCHANGED functions
    BY <1>11, <2>1 DEF Bind, Return, Goes, config
  <2>2. CASE /\ functions' = [a \in Apps |-> IF libOf[a] = lib THEN loaded[lib] ELSE functions[a]]
             /\ loaded[lib] # Closed /\ pc = "bind"
             /\ UNCHANGED <<loaded, disk, libOf>>
    BY <2>2 DEF OpenedIsPlaced
  <2> QED
    BY <1>11, <2>1, <2>2 DEF Bind, Return, Goes, config
<1> QED
  BY <1>1, <1>2, <1>3, <1>4, <1>5, <1>6, <1>7, <1>8, <1>9, <1>10, <1>11 DEF Next

\* updateModule keeps its own two promises from the step that makes them on.
LEMMA UpdateKeepsOpened ==
  ASSUME UpdateInv, Next
  PROVE  (DroppedWhileReplaced /\ OpenedIsPlaced)'
<1> USE DEF UpdateInv, DroppedWhileReplaced, OpenedIsPlaced, TypeOK
<1>1. ASSUME NEW u \in Updates, Publish(u) PROVE (DroppedWhileReplaced /\ OpenedIsPlaced)'
  <2>1. \A l \in Libs : disk'[l] = disk[l]
    BY <1>1 DEF Publish
  <2> QED
    BY <1>1, <2>1 DEF Publish, config, local
<1>2. CASE Tick
  BY <1>2 DEF Tick, config, local
<1>3. CASE Request \/ Looked \/ \E a \in Apps : Look(a)
  <2>1. pc' \in {"look", "idle", "unload"}
    BY <1>3 DEF Request, Looked, Look, Goes
  <2> QED
    BY <2>1
<1>4. CASE Unload
  BY <1>4 DEF Unload, Goes, config, local
<1>5. CASE Copy
  BY <1>5 DEF Copy, Return, Goes, config, local
<1>6. CASE Open
  BY <1>6 DEF Open, Goes, config, local
<1>7. CASE Remove
  BY <1>7 DEF Remove, Return, Goes, config, local
<1>8. CASE Rename
  <2>1. disk'[lib] = temp \/ pc' = "look"
    BY <1>8 DEF Rename, Return
  <2> QED
    BY <1>8, <2>1 DEF Rename, Return, Goes, config, local
<1>9. CASE Bind
  BY <1>9 DEF Bind, Return, Goes
<1> QED
  BY <1>1, <1>2, <1>3, <1>4, <1>5, <1>6, <1>7, <1>8, <1>9 DEF Next

LEMMA UpdateStep == UpdateInv /\ [Next]_vars => UpdateInv'
<1> SUFFICES ASSUME UpdateInv, [Next]_vars PROVE UpdateInv'
  OBVIOUS
<1>1. CASE Next
  <2>1. TypeOK'
    BY <1>1, UpdateTypes DEF UpdateInv
  <2> QED
    BY <1>1, <2>1, UpdateKeepsRunning, UpdateKeepsOpened DEF UpdateInv
<1>2. CASE UNCHANGED vars
  BY <1>2 DEF vars, config, outside, local, UpdateInv, TypeOK, FunctionsAreLoaded,
              RunningIsOnDisk, DroppedWhileReplaced, OpenedIsPlaced
<1> QED
  BY <1>1, <1>2

\* The inductive invariant of the update of the modules (lines 491-698).
THEOREM UpdateCorrect == Spec => []UpdateInv
  BY UpdateInit, UpdateStep, PTL DEF Spec

\* Whatever fails in updateModule, no application is left with functions of a library that
\* line 572 has closed.
THEOREM NoDanglingFunctions == Spec => []FunctionsAreLoaded
<1>1. UpdateInv => FunctionsAreLoaded
  BY DEF UpdateInv
<1> QED
  BY <1>1, UpdateCorrect, PTL

\* Whatever fails, an application that still has its functions would get the same ones from
\* the file that the next start loads.
THEOREM DiskAgrees == Spec => []RunningIsOnDisk
<1>1. UpdateInv => RunningIsOnDisk
  BY DEF UpdateInv
<1> QED
  BY <1>1, UpdateCorrect, PTL

-----------------------------------------------------------------------------
LEMMA AgeInit == Init => AgeInv
<1> SUFFICES ASSUME Init PROVE AgeInv
  OBVIOUS
<1>1. PICK s \in Sizes : disk = [p \in Libs \union Updates |->
                                   IF p \in Libs THEN File(1, s, 0) ELSE Absent]
  BY DEF Init
<1>2. /\ \A l \in Libs : disk[l].version = 1
      /\ \A u \in Updates : disk[u] = Absent
  BY <1>1 DEF File
<1>3. PublishedOnce /\ CopiesAreLater
  BY <1>2 DEF Init, PublishedOnce, CopiesAreLater, CopyOf, Absent, File
<1>4. UnloadIsDue
  BY DEF Init, UnloadIsDue
<1> QED
  BY <1>3, <1>4 DEF AgeInv

\* A step that leaves the files alone keeps the facts about them.
LEMMA AgeUnmoved ==
  ASSUME TypeOK, AgeInv, UNCHANGED <<disk, temp, published>>,
         clock' \in Nat, clock' >= clock
  PROVE  PublishedOnce' /\ CopiesAreLater'
<1>1. \A u \in Updates : disk[u].time \in 0 .. MaxTime /\ clock \in 0 .. MaxTime
  BY DEF TypeOK, Files
<1> QED
  BY <1>1 DEF AgeInv, PublishedOnce, CopiesAreLater, CopyOf

\* A new version is younger than everything that was copied.
LEMMA AgePublish ==
  ASSUME TypeOK, AgeInv, NEW u \in Updates, Publish(u)
  PROVE  AgeInv'
<1> USE DEF TypeOK
<1>1. PICK s \in Sizes : disk' = [disk EXCEPT ![u] = File(published + 1, s, clock)]
  BY DEF Publish
<1>2. /\ disk'[u].version = published + 1 /\ disk'[u].time = clock
      /\ \A p \in Libs \union Updates : p # u => disk'[p] = disk[p]
      /\ \A l \in Libs : disk'[l] = disk[l]
  BY <1>1 DEF File
<1>3. /\ published' = published + 1 /\ published < MaxVersions
      /\ published \in Nat /\ clock \in Nat
      /\ UNCHANGED <<libOf, updateOf, temp, clock, pc, lib>>
  BY DEF Publish, config, local, Versions
<1>4. /\ \A l \in Libs : disk[l].version # published + 1
      /\ \A v \in Updates : disk[v].version # published + 1
      /\ temp.version # published + 1
  BY <1>3 DEF AgeInv, PublishedOnce, Broken, Absent, File
<1>5. PublishedOnce'
  BY <1>2, <1>3, <1>4 DEF AgeInv, PublishedOnce, Broken
<1>6. CopiesAreLater'
  BY <1>2, <1>3, <1>4 DEF AgeInv, CopiesAreLater, CopyOf
<1>7. UnloadIsDue'
  <2> SUFFICES ASSUME pc = "unload" PROVE UnloadIsDue'
    BY <1>3 DEF UnloadIsDue
  <2>1. PICK a \in Same(lib) : /\ updateOf[a] # "absent"
                               /\ disk[updateOf[a]] # Absent
                               /\ disk[lib].version # disk[updateOf[a]].version
    BY DEF AgeInv, UnloadIsDue
  <2>2. a \in Apps /\ updateOf[a] \in Updates /\ a \in Same(lib)'
    BY <1>3, <2>1 DEF Same
  <2>3. disk'[u] # Absent
    BY <1>2, <1>3 DEF Absent, File
  <2>4. disk'[updateOf[a]] # Absent /\ disk'[lib].version # disk'[updateOf[a]].version
    BY <1>2, <1>4, <2>1, <2>2, <2>3
  <2> QED
    BY <1>3, <2>1, <2>2, <2>4 DEF UnloadIsDue
<1> QED
  BY <1>5, <1>6, <1>7 DEF AgeInv

\* What a round of updateModules decides to unload is due: a copy of the update file is
\* as large and not older.
LEMMA AgeLook ==
  ASSUME TypeOK, AgeInv, NEW a \in Apps, Look(a)
  PROVE  AgeInv'
<1> USE DEF TypeOK
<1>1. UNCHANGED <<libOf, updateOf, disk, temp, published, clock>>
  BY DEF Look, Goes, config, outside
<1>2. PublishedOnce' /\ CopiesAreLater'
  BY <1>1, AgeUnmoved
<1>3. CASE pc' = "unload"
  <2>1. Newer(a) /\ lib' = libOf[a]
    BY <1>3 DEF Look, Goes
  <2>2. /\ updateOf[a] \in Updates /\ libOf[a] \in Libs
        /\ disk[updateOf[a]] # Absent
        /\ Differs(disk[libOf[a]], disk[updateOf[a]])
    BY <2>1 DEF Newer, Comparable
  <2>3. disk[libOf[a]].time \in Nat /\ disk[updateOf[a]].time \in Nat
    BY <2>2 DEF Files
  <2>4. disk[libOf[a]].version # disk[updateOf[a]].version
    BY <2>2, <2>3 DEF AgeInv, CopiesAreLater, CopyOf, Differs
  <2>5. a \in Same(lib)'
    BY <1>1, <2>1 DEF Same
  <2>6. UnloadIsDue'
    BY <1>1, <2>1, <2>2, <2>4, <2>5 DEF UnloadIsDue, Newer, Comparable
  <2> QED
    BY <1>2, <2>6 DEF AgeInv
<1>4. CASE pc' # "unload"
  BY <1>2, <1>4 DEF AgeInv, UnloadIsDue
<1> QED
  BY <1>3, <1>4

LEMMA AgeCopy ==
  ASSUME TypeOK, AgeInv, Copy
  PROVE  PublishedOnce' /\ CopiesAreLater'
<1> USE DEF TypeOK
<1>1. /\ UNCHANGED <<libOf, updateOf, disk, published, clock>>
      /\ clock \in Nat /\ published \in 0 .. MaxVersions
  BY DEF Copy, Return, Goes, config, outside, Versions
<1>2. /\ temp'.version \in 0 .. published \union {Broken}
      /\ \A u \in Updates : CopyOf(temp', disk[u])
  <2>1. CASE UNCHANGED temp
    BY <2>1 DEF AgeInv, PublishedOnce, CopiesAreLater
  <2>2. CASE temp' = File(Broken, 0, clock)
    BY <1>1, <2>2 DEF AgeInv, PublishedOnce, CopyOf, File, Broken
  <2>3. ASSUME NEW a \in Apps, updateOf[a] # "absent", disk[updateOf[a]] # Absent,
               temp' = [disk[updateOf[a]] EXCEPT !.time = clock]
        PROVE  /\ temp'.version \in 0 .. published \union {Broken}
               /\ \A u \in Updates : CopyOf(temp', disk[u])
    <3>1. /\ updateOf[a] \in Updates
          /\ disk[updateOf[a]] \in Files
      BY <2>3
    <3>2. /\ temp'.version = disk[updateOf[a]].version
          /\ temp'.size = disk[updateOf[a]].size /\ temp'.time = clock
      BY <2>3, <3>1 DEF Files
    <3>3. ASSUME NEW u \in Updates PROVE CopyOf(temp', disk[u])
      <4>1. disk[u].time \in Nat
        BY DEF Files
      <4> QED
        BY <1>1, <3>1, <3>2, <4>1 DEF AgeInv, PublishedOnce, CopyOf
    <3> QED
      BY <2>3, <1>1, <3>1, <3>2, <3>3 DEF AgeInv, PublishedOnce
  <2> QED
    BY <2>1, <2>2, <2>3 DEF Copy, Same
<1>3. CopiesAreLater'
  BY <1>1, <1>2 DEF AgeInv, CopiesAreLater
<1>4. PublishedOnce'
  BY <1>1, <1>2 DEF AgeInv, PublishedOnce
<1> QED
  BY <1>3, <1>4

LEMMA AgePlace ==
  ASSUME TypeOK, AgeInv, Remove \/ Rename
  PROVE  PublishedOnce' /\ CopiesAreLater'
<1> USE DEF TypeOK
<1>1. /\ UNCHANGED <<published, clock>> /\ lib \in Libs
      /\ \A u \in Updates : disk'[u] = disk[u]
      /\ \A l \in Libs : disk'[l] \in {disk[l], temp, Absent}
      /\ temp' \in {temp, Absent}
  BY DEF Remove, Rename, Return, Goes, outside
<1>2. \A u \in Updates : CopyOf(Absent, disk[u])
  BY DEF AgeInv, PublishedOnce, CopyOf, Absent, File
<1>3. Absent.version = 0 /\ published \in Nat
  BY DEF Absent, File, Versions
<1>4. CopiesAreLater'
  BY <1>1, <1>2 DEF AgeInv, CopiesAreLater
<1>5. PublishedOnce'
  BY <1>1, <1>3 DEF AgeInv, PublishedOnce
<1> QED
  BY <1>4, <1>5

LEMMA AgeStep == TypeOK /\ AgeInv /\ [Next]_vars => AgeInv'
<1> SUFFICES ASSUME TypeOK, AgeInv, [Next]_vars PROVE AgeInv'
  OBVIOUS
<1>1. CASE \E u \in Updates : Publish(u)
  BY <1>1, AgePublish
<1>2. CASE Tick
  <2>1. /\ UNCHANGED <<libOf, updateOf, disk, temp, published, pc, lib>>
        /\ clock' \in Nat /\ clock' >= clock
    BY <1>2 DEF Tick, config, local, TypeOK
  <2>2. UnloadIsDue'
    BY <2>1 DEF AgeInv, UnloadIsDue, Same
  <2> QED
    BY <2>1, <2>2, AgeUnmoved DEF AgeInv
<1>3. CASE \E a \in Apps : Look(a)
  BY <1>3, AgeLook
<1>4. CASE Request \/ Looked \/ Unload \/ Open \/ Bind
  <2>1. /\ UNCHANGED <<disk, temp, published, clock>> /\ pc' # "unload"
        /\ clock' \in Nat /\ clock' >= clock
    BY <1>4 DEF Request, Looked, Unload, Open, Bind, Return, Goes, outside, TypeOK
  <2> QED
    BY <2>1, AgeUnmoved DEF AgeInv, UnloadIsDue
<1>5. CASE Copy \/ Remove \/ Rename
  <2>1. pc' # "unload"
    BY <1>5 DEF Copy, Remove, Rename, Return, Goes
  <2> QED
    BY <1>5, <2>1, AgeCopy, AgePlace DEF AgeInv, UnloadIsDue
<1>6. CASE UNCHANGED vars
  <2>1. /\ UNCHANGED <<libOf, updateOf, disk, temp, published, pc, lib, clock>>
        /\ clock' \in Nat /\ clock' >= clock
    BY <1>6 DEF vars, config, outside, local, TypeOK
  <2>2. UnloadIsDue'
    BY <2>1 DEF AgeInv, UnloadIsDue, Same
  <2> QED
    BY <2>1, <2>2, AgeUnmoved DEF AgeInv
<1> QED
  BY <1>1, <1>2, <1>3, <1>4, <1>5, <1>6 DEF Next

\* The invariant of the ages of the files (line 522).
THEOREM AgesCorrect == Spec => []AgeInv
<1>1. UpdateInv => TypeOK
  BY DEF UpdateInv
<1> QED
  BY <1>1, AgeInit, AgeStep, UpdateCorrect, PTL DEF Spec

\* An update is done once: whatever the clock and the sizes, a library whose applications
\* agree on the update file is not closed for a version that it runs already.
THEOREM UpdatesOnce == Spec => NoNeedlessUnload
<1>1. TypeOK /\ AgeInv =>
        [\A a \in Apps : Unload /\ libOf[a] = lib /\ Agreed(lib)
           => disk[lib].version # disk[updateOf[a]].version]_vars
  <2> SUFFICES ASSUME TypeOK, AgeInv, NEW a \in Apps, Unload, libOf[a] = lib, Agreed(lib)
               PROVE  disk[lib].version # disk[updateOf[a]].version
    OBVIOUS
  <2>1. PICK b \in Same(lib) : disk[lib].version # disk[updateOf[b]].version
    BY DEF Unload, Goes, AgeInv, UnloadIsDue
  <2>2. a \in Same(lib)
    BY DEF Same
  <2> QED
    BY <2>1, <2>2 DEF Agreed
<1>2. UpdateInv => TypeOK
  BY DEF UpdateInv
<1> QED
  BY <1>1, <1>2, AgesCorrect, UpdateCorrect, PTL DEF NoNeedlessUnload

\* Every state of the update has the types of its variables: the libraries, the files on
\* disk and the place of updateModule that is being executed.
THEOREM ModuleTypes == Spec => []TypeOK
<1>1. UpdateInv => TypeOK
  BY DEF UpdateInv
<1> QED
  BY <1>1, UpdateCorrect, PTL

-----------------------------------------------------------------------------
\* No update is missed.  A library that was looked at is settled until it is looked at
\* again: its applications run the new file, or the new file looks like the old one.
Settled(a) ==
  LET new == disk[updateOf[a]]
      cur == disk[libOf[a]]
  IN  functions[a] = new.version \/ (cur.size = new.size /\ cur.time >= new.time)

Replacing == {"unload", "copy", "open", "remove", "rename", "bind"}
Undisturbed == calm /\ ~failed

LookedIsSettled ==
  pc # "idle" /\ Undisturbed =>
    \A a \in Apps : libOf[a] \in updated /\ (pc = "look" \/ libOf[a] # lib)
                    /\ Agreed(libOf[a]) /\ Comparable(a) => Settled(a)

\* updateModules passes over an application only when its library was looked at.
NoneIsPassedOver ==
  pc # "idle" => \A a \in Apps \ todo : libOf[a] \in updated

\* From the copy on updateModule has the version of the update file in its hands.
NewIsTaken ==
  Undisturbed /\ Agreed(lib) =>
    \A a \in Same(lib) :
      /\ pc \in {"open", "remove", "rename"} => temp.version = disk[updateOf[a]].version
      /\ pc \in {"remove", "rename", "bind"} =>
           loaded[lib] \in {disk[updateOf[a]].version, Closed}
      /\ pc \in {"open", "remove", "rename", "bind"} => updateOf[a] # "absent"

MissInv == LookedIsSettled /\ NoneIsPassedOver /\ NewIsTaken

LEMMA MissInit == Init => MissInv
BY DEF Init, MissInv, LookedIsSettled, NoneIsPassedOver, NewIsTaken

\* A round of updateModules in which the library is left as it is.
LEMMA MissLook ==
  ASSUME TypeOK, MissInv, NEW a \in Apps, Look(a)
  PROVE  MissInv'
<1> USE DEF Goes, config, outside
<1>1. /\ pc = "look" /\ pc' \in {"look", "unload"}
      /\ UNCHANGED <<libOf, updateOf, disk, temp, loaded, functions, calm>>
      /\ todo' = todo \ {a} /\ updated' = updated \union {libOf[a]}
      /\ failed' = failed \/ failed' = TRUE
  BY DEF Look
<1>2. NoneIsPassedOver'
  BY <1>1 DEF MissInv, NoneIsPassedOver
<1>3. NewIsTaken'
  BY <1>1 DEF NewIsTaken
<1>4. LookedIsSettled'
  <2> SUFFICES ASSUME Undisturbed', NEW b \in Apps, libOf[b] \in updated',
                      pc' = "look" \/ libOf[b] # lib', Agreed(libOf[b]), Comparable(b)
               PROVE  Settled(b)
    BY <1>1 DEF LookedIsSettled, Agreed, Same, Comparable, Settled
  <2>1. calm /\ ~failed
    BY <1>1 DEF Undisturbed
  <2>2. CASE libOf[b] \in updated
    BY <2>2, <2>1, <1>1 DEF MissInv, LookedIsSettled, Undisturbed
  <2>3. CASE libOf[b] \notin updated
    <3>1. libOf[b] = libOf[a]
      BY <2>3, <1>1
    <3>2. ~Newer(a)
      BY <2>3, <3>1, <2>1, <1>1 DEF Look, Undisturbed
    <3>3. updateOf[a] = updateOf[b]
      BY <3>1 DEF Agreed, Same
    <3>4. ~Differs(disk[libOf[b]], disk[updateOf[b]])
      BY <3>1, <3>2, <3>3 DEF Newer, Comparable
    <3>5. disk[libOf[b]] \in Files /\ disk[updateOf[b]] \in Files
      BY DEF TypeOK, Comparable
    <3>6. disk[libOf[b]].time \in Int /\ disk[updateOf[b]].time \in Int
      BY <3>5, UpdateBounds DEF Files
    <3> QED
      BY <3>4, <3>6 DEF Differs, Settled
  <2> QED
    BY <2>2, <2>3
<1> QED
  BY <1>2, <1>3, <1>4 DEF MissInv

\* A step of updateModule before its end touches nothing but the library that it replaces.
LEMMA MissInside ==
  ASSUME TypeOK, MissInv, Unload \/ Copy \/ Open \/ Remove \/ Rename, pc' # "look"
  PROVE  MissInv'
<1> USE DEF Goes, config, outside, local, Return
<1>0. /\ pc \in Replacing /\ pc' \in Replacing
      /\ UNCHANGED <<libOf, updateOf, calm, todo, updated, lib>>
      /\ (failed' = failed \/ failed' = TRUE)
  BY DEF Unload, Copy, Open, Remove, Rename, Replacing
<1>1. /\ \A p \in Libs \union Updates : p # lib => disk'[p] = disk[p]
      /\ \A a \in Apps : libOf[a] # lib => functions'[a] = functions[a]
  BY DEF TypeOK, Unload, Copy, Open, Remove, Rename
<1>2. \A a \in Apps : updateOf[a] # "absent" => disk'[updateOf[a]] = disk[updateOf[a]]
  BY <1>1, PathsAssumption DEF TypeOK
<1>3. NoneIsPassedOver'
  BY <1>0 DEF MissInv, NoneIsPassedOver, Replacing
<1>4. LookedIsSettled'
  <2> SUFFICES ASSUME Undisturbed', NEW a \in Apps, libOf[a] \in updated,
                      libOf[a] # lib, Agreed(libOf[a]), Comparable(a)'
               PROVE  Settled(a)'
    BY <1>0 DEF LookedIsSettled, Agreed, Same, Replacing
  <2>1. disk'[libOf[a]] = disk[libOf[a]] /\ functions'[a] = functions[a]
    BY <1>1 DEF TypeOK
  <2>2. updateOf[a] # "absent" /\ disk'[updateOf[a]] = disk[updateOf[a]]
    BY <1>0, <1>2 DEF Comparable
  <2>3. Comparable(a)
    BY <2>1, <2>2, <1>0 DEF Comparable
  <2>4. calm /\ ~failed /\ pc # "idle"
    BY <1>0 DEF Undisturbed, Replacing
  <2>5. Settled(a)
    BY <2>3, <2>4 DEF MissInv, LookedIsSettled, Undisturbed
  <2> QED
    BY <2>5, <2>1, <2>2, <1>0 DEF Settled
<1>5. NewIsTaken'
  <2> SUFFICES ASSUME Undisturbed', Agreed(lib), NEW a \in Same(lib)
               PROVE  /\ pc' \in {"open", "remove", "rename"} => temp'.version = disk'[updateOf[a]].version
                      /\ pc' \in {"remove", "rename", "bind"} =>
                           loaded'[lib] \in {disk'[updateOf[a]].version, Closed}
                      /\ pc' \in {"open", "remove", "rename", "bind"} => updateOf[a] # "absent"
    BY <1>0 DEF NewIsTaken, Agreed, Same
  <2>1. calm /\ ~failed /\ a \in Apps
    BY <1>0 DEF Undisturbed, Same
  <2>2. /\ pc \in {"open", "remove", "rename"} => temp.version = disk[updateOf[a]].version
        /\ pc \in {"remove", "rename", "bind"} =>
             loaded[lib] \in {disk[updateOf[a]].version, Closed}
        /\ pc \in {"open", "remove", "rename", "bind"} => updateOf[a] # "absent"
    BY <2>1 DEF MissInv, NewIsTaken, Undisturbed
  <2>3. CASE Unload
    BY <2>3 DEF Unload
  <2>4. CASE Copy
    <3>1. PICK b \in Same(lib) : /\ updateOf[b] # "absent"
                                 /\ temp' = [disk[updateOf[b]] EXCEPT !.time = clock]
                                 /\ disk' = disk /\ pc' = "open"
      BY <2>4, <2>1 DEF Copy, Undisturbed
    <3>2. updateOf[b] = updateOf[a]
      BY DEF Agreed
    <3>3. disk[updateOf[b]] \in Files
      BY <3>1 DEF TypeOK, Same
    <3> QED
      BY <3>1, <3>2, <3>3 DEF Files
  <2>5. CASE Open
    BY <2>5, <2>2 DEF Open, TypeOK
  <2>6. CASE Remove
    BY <2>6, <2>2, <1>2, <2>1 DEF Remove
  <2>7. CASE Rename
    BY <2>7, <2>2, <1>2, <2>1 DEF Rename
  <2> QED
    BY <2>3, <2>4, <2>5, <2>6, <2>7
<1> QED
  BY <1>3, <1>4, <1>5 DEF MissInv

\* The end of updateModule: it has failed, or the functions of the new file are bound.
LEMMA MissEnd ==
  ASSUME TypeOK, MissInv, pc' = "look", Copy \/ Remove \/ Rename \/ Bind
  PROVE  MissInv'
<1> USE DEF Goes, config, outside, local, Return
<1>0. pc \in Replacing /\ UNCHANGED <<libOf, updateOf, calm, todo, updated, lib, disk, loaded>>
  BY DEF Copy, Remove, Rename, Bind, Replacing
<1>1. NoneIsPassedOver'
  BY <1>0 DEF MissInv, NoneIsPassedOver, Replacing
<1>2. NewIsTaken'
  BY DEF NewIsTaken
<1>3. LookedIsSettled'
  <2>1. CASE failed'
    BY <2>1 DEF LookedIsSettled, Undisturbed
  <2>2. CASE ~failed'
    <3>1. /\ Bind /\ ~failed /\ loaded[lib] # Closed /\ pc = "bind"
          /\ functions' = [a \in Apps |-> IF libOf[a] = lib THEN loaded[lib] ELSE functions[a]]
      BY <2>2 DEF Copy, Remove, Rename, Bind
    <3> SUFFICES ASSUME calm, NEW a \in Apps, libOf[a] \in updated, Agreed(libOf[a]),
                        Comparable(a)
                 PROVE  Settled(a)'
      BY <1>0 DEF LookedIsSettled, Undisturbed, Agreed, Same, Comparable
    <3>2. CASE libOf[a] # lib
      <4>1. Settled(a) /\ functions'[a] = functions[a]
        BY <3>1, <3>2 DEF MissInv, LookedIsSettled, Undisturbed
      <4> QED
        BY <4>1, <1>0 DEF Settled
    <3>3. CASE libOf[a] = lib
      <4>1. a \in Same(lib)
        BY <3>3 DEF Same
      <4>2. loaded[lib] = disk[updateOf[a]].version
        BY <4>1, <3>1, <3>3 DEF MissInv, NewIsTaken, Undisturbed
      <4> QED
        BY <4>2, <3>1, <3>3, <1>0 DEF Settled
    <3> QED
      BY <3>2, <3>3
  <2> QED
    BY <2>1, <2>2
<1> QED
  BY <1>1, <1>2, <1>3 DEF MissInv

LEMMA MissStep == TypeOK /\ MissInv /\ [Next]_vars => MissInv'
<1> SUFFICES ASSUME TypeOK, MissInv, [Next]_vars PROVE MissInv'
  OBVIOUS
<1> USE DEF MissInv, LookedIsSettled, NoneIsPassedOver, NewIsTaken
<1>1. CASE \E u \in Updates : Publish(u)
  BY <1>1 DEF Publish, config, local, Undisturbed
<1>2. CASE Tick \/ UNCHANGED vars
  BY <1>2 DEF Tick, vars, config, local, outside, Undisturbed, Agreed, Same, Comparable, Settled
<1>3. CASE Request
  BY <1>3 DEF Request, config, outside
<1>4. CASE \E a \in Apps : Look(a)
  BY <1>4, MissLook
<1>5. CASE Looked
  BY <1>5 DEF Looked, Goes, config, local
<1>6. CASE Unload \/ Copy \/ Open \/ Remove \/ Rename \/ Bind
  <2>1. CASE pc' = "look"
    <3>1. Copy \/ Remove \/ Rename \/ Bind
      BY <1>6, <2>1 DEF Unload, Open, Goes
    <3> QED
      BY <3>1, <2>1, MissEnd
  <2>2. CASE pc' # "look"
    <3>1. Unload \/ Copy \/ Open \/ Remove \/ Rename
      BY <1>6, <2>2 DEF Bind, Goes, Return
    <3> QED
      BY <3>1, <2>2, MissInside
  <2> QED
    BY <2>1, <2>2
<1> QED
  BY <1>1, <1>2, <1>3, <1>4, <1>5, <1>6 DEF Next

\* What was looked at is settled, nothing is passed over, and what is opened is what was
\* put at the update path (lines 500-697).
THEOREM MissesCorrect == Spec => []MissInv
<1>1. UpdateInv => TypeOK
  BY DEF UpdateInv
<1> QED
  BY <1>1, MissInit, MissStep, UpdateCorrect, PTL DEF Spec

\* No update is missed: when updateModules has looked at everything, and nothing failed and
\* nothing was published meanwhile, every library whose applications agree runs its update
\* file, or the file has the old size and is not newer.
THEOREM UpdatesAreDone == Spec => []UpdatedUnlessAlike
<1>1. MissInv => UpdatedUnlessAlike
  BY DEF MissInv, LookedIsSettled, NoneIsPassedOver, UpdatedUnlessAlike, Undisturbed, Settled
<1> QED
  BY <1>1, MissesCorrect, PTL
=============================================================================
