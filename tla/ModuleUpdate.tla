---------------------------- MODULE ModuleUpdate ----------------------------
(***************************************************************************)
(* Server::updateModules and updateModule (src/src/server/Server.cpp:491-  *)
(* 698): cycleQueue's thread replaces the libraries of the applications by *)
(* the files that were put beside them, while an administrator may put new *)
(* ones there.  No worker exists meanwhile (ServerCore, UpdateIsQuiescent).*)
(*                                                                         *)
(* Of a file there is its version, and what the code compares: a size and  *)
(* a time of modification.  Any operation of the file system or of the     *)
(* dynamic linker may fail.                                                *)
(* System::getFileSizeAndTimeGmt and System::Module are stubs at this      *)
(* commit and are taken as they are declared (README.md, section 3).       *)
(***************************************************************************)
EXTENDS Integers, FiniteSets

CONSTANTS Apps,         \* the applications of the tree
          Libs,         \* the module indices, and the paths server_module
          Updates,      \* the paths server_module_update
          Sizes,        \* the sizes a file can have
          MaxVersions,  \* bound: how many versions are published
          MaxTime       \* bound: the last second of the clock

ASSUME PathsAssumption ==
  /\ Updates \intersect (Libs \union {"absent"}) = {}
  /\ Sizes # {} /\ IsFiniteSet(Apps)

ASSUME UpdateBounds == MaxVersions \in Nat \ {0} /\ MaxTime \in Nat /\ Sizes \subseteq Nat

VARIABLES
  libOf, updateOf,  \* each application's module_index and server_module_update
  disk,             \* the files of Libs and Updates
  temp,             \* module_name_temp
  loaded,           \* the version each System::Module has open
  functions,        \* the version whose functions each application calls
  clock, published, \* the time, and how many versions there are
  pc,
  todo,             \* the applications updateModules has still to look at
  updated,          \* its set of the module indices it has dealt with
  lib,              \* the moduleIndex of updateModule
  failed, calm      \* has an operation failed, or a file been published, in this run?

config  == <<libOf, updateOf>>
outside == <<clock, published>>
local   == <<todo, updated, lib>>
vars    == <<config, disk, temp, loaded, functions, outside, pc, local, failed, calm>>

File(v, s, t) == [version |-> v, size |-> s, time |-> t]
Absent        == File(0, 0, 0)
Files         == [version : 0 .. MaxVersions + 1, size : Sizes \union {0}, time : 0 .. MaxTime]
Closed        == 0
Broken        == MaxVersions + 1
Versions      == 0 .. MaxVersions

Same(l) == {a \in Apps : libOf[a] = l}

\* The applications of a library name the same update file.
Agreed(l) == \A a, b \in Same(l) : updateOf[a] = updateOf[b]

\* After loadConfig: the libraries of version 1 are loaded, nothing has been published.
Init ==
  /\ libOf \in [Apps -> Libs] /\ updateOf \in [Apps -> Updates \union {"absent"}]
  /\ \E s \in Sizes : disk = [p \in Libs \union Updates |->
                                IF p \in Libs THEN File(1, s, 0) ELSE Absent]
  /\ temp = Absent
  /\ loaded = [l \in Libs |-> 1] /\ functions = [a \in Apps |-> 1]
  /\ clock = 0 /\ published = 1
  /\ pc = "idle" /\ todo = {} /\ updated = {} /\ lib \in Libs
  /\ failed = FALSE /\ calm = TRUE

-----------------------------------------------------------------------------
\* The administrator puts a new version at an update path.
Publish(u) ==
  /\ published < MaxVersions /\ published' = published + 1
  /\ \E s \in Sizes : disk' = [disk EXCEPT ![u] = File(published + 1, s, clock)]
  /\ calm' = FALSE
  /\ UNCHANGED <<config, temp, loaded, functions, clock, pc, local, failed>>

Tick == /\ clock < MaxTime /\ clock' = clock + 1
        /\ UNCHANGED <<config, disk, temp, loaded, functions, published, pc, local, failed,
                       calm>>

-----------------------------------------------------------------------------
Goes(from, to) == pc = from /\ pc' = to /\ UNCHANGED <<config, outside, calm>>

\* cycleQueue calls updateModules.
Request == /\ pc = "idle" /\ pc' = "look"
           /\ todo' = Apps /\ updated' = {} /\ failed' = FALSE /\ calm' = TRUE
           /\ UNCHANGED <<config, outside, disk, temp, loaded, functions, lib>>

\* Fault: a file of the same age counts as newer.
DiffersOrAsOld(cur, new) == cur.size # new.size \/ cur.time <= new.time

\* Fault: both have to differ.
DiffersInBoth(cur, new) == cur.size # new.size /\ cur.time < new.time

\* The comparison of line 522.
Differs(cur, new) == cur.size # new.size \/ cur.time < new.time

\* Lines 505-520: the application has an update file and both files can be looked at.
Comparable(a) == /\ updateOf[a] # "absent"
                 /\ disk[updateOf[a]] # Absent /\ disk[libOf[a]] # Absent

\* The application's library is to be replaced, if getFileSizeAndTimeGmt says so.
Newer(a) == Comparable(a) /\ Differs(disk[libOf[a]], disk[updateOf[a]])

\* One round of the loop 500-531, which looks at each library once.
Look(a) ==
  /\ a \in todo /\ todo' = todo \ {a}
  /\ updated' = updated \union {libOf[a]}
  /\ \/ /\ libOf[a] \notin updated /\ Newer(a)
        /\ Goes("look", "unload") /\ lib' = libOf[a] /\ UNCHANGED failed
     \/ /\ libOf[a] \in updated \/ ~Newer(a)
        /\ Goes("look", "look") /\ UNCHANGED <<lib, failed>>
     \/ /\ libOf[a] \notin updated /\ Comparable(a)
        /\ Goes("look", "look") /\ failed' = TRUE /\ UNCHANGED lib
  /\ UNCHANGED <<disk, temp, loaded, functions>>

Looked == /\ todo = {} /\ Goes("look", "idle")
          /\ UNCHANGED <<local, failed, disk, temp, loaded, functions>>

\* Fault: the applications keep the functions of the library that is closed.
UnloadOnly ==
  /\ Goes("unload", "copy")
  /\ loaded' = [loaded EXCEPT ![lib] = Closed]
  /\ UNCHANGED <<local, failed, disk, temp, functions>>

\* Lines 544-572: application_final, the functions are dropped, the library is closed.
Unload ==
  /\ Goes("unload", "copy")
  /\ functions' = [a \in Apps |-> IF libOf[a] = lib THEN Closed ELSE functions[a]]
  /\ loaded' = [loaded EXCEPT ![lib] = Closed]
  /\ UNCHANGED <<local, failed, disk, temp>>

\* Any return of false from updateModule: updateModules does not look at it.
Return == /\ pc' = "look" /\ failed' = TRUE
          /\ UNCHANGED <<config, outside, calm, local, disk>>

\* Fault: a file that cannot be opened is copied as an empty one.
CopyUnopened ==
  /\ \E a \in Same(lib) :
       /\ Goes("copy", "open")
       /\ temp' = IF updateOf[a] = "absent" THEN File(-1, 0, clock)
                  ELSE [disk[updateOf[a]] EXCEPT !.time = clock]
  /\ UNCHANGED <<local, failed, disk, loaded, functions>>

\* Lines 573-611: the update file of any one of the applications is copied.  Nobody
\* looks whether it could be written to its end.
Copy ==
  \/ /\ \E a \in Same(lib) :
          /\ updateOf[a] # "absent" /\ disk[updateOf[a]] # Absent
          /\ Goes("copy", "open")
          /\ temp' = [disk[updateOf[a]] EXCEPT !.time = clock]
     /\ UNCHANGED <<local, failed, disk, loaded, functions>>
  \/ /\ Goes("copy", "open")
     /\ \E a \in Same(lib) : updateOf[a] # "absent" /\ disk[updateOf[a]] # Absent
     /\ temp' = File(Broken, 0, clock) /\ failed' = TRUE
     /\ UNCHANGED <<local, disk, loaded, functions>>
  \/ /\ pc = "copy" /\ Return
     /\ UNCHANGED <<temp, loaded, functions>>

\* Line 614: the copy is opened, and nobody looks yet whether it could be.
Open == /\ Goes("open", "remove")
        /\ \E v \in {temp.version, Closed} \ {Broken} : loaded' = [loaded EXCEPT ![lib] = v]
        /\ UNCHANGED <<local, failed, disk, temp, functions>>

\* Line 616.
Remove == \/ /\ Goes("remove", "rename")
             /\ disk' = [disk EXCEPT ![lib] = Absent]
             /\ UNCHANGED <<local, failed, temp, loaded, functions>>
          \/ /\ pc = "remove" /\ Return
             /\ UNCHANGED <<temp, loaded, functions>>

\* Fault: the file is not put in the place of the old one.
RenameSkipped == /\ Goes("rename", "bind")
                 /\ UNCHANGED <<local, failed, disk, temp, loaded, functions>>

\* Line 622.
Rename == \/ /\ Goes("rename", "bind")
             /\ disk' = [disk EXCEPT ![lib] = temp] /\ temp' = Absent
             /\ UNCHANGED <<local, failed, loaded, functions>>
          \/ /\ pc = "rename" /\ Return
             /\ UNCHANGED <<temp, loaded, functions>>

\* Lines 628-697: the library is open and has the functions, or it has not.  What
\* application_init returns or throws makes no difference.
Bind == \/ /\ loaded[lib] # Closed
           /\ Goes("bind", "look")
           /\ functions' = [a \in Apps |-> IF libOf[a] = lib THEN loaded[lib] ELSE functions[a]]
           /\ UNCHANGED <<local, failed, disk, temp, loaded>>
        \/ /\ pc = "bind" /\ Return
           /\ UNCHANGED <<temp, loaded, functions>>

Next == \/ \E u \in Updates : Publish(u)
        \/ Tick
        \/ Request \/ Looked \/ (\E a \in Apps : Look(a))
        \/ Unload \/ Copy \/ Open \/ Remove \/ Rename \/ Bind

Spec == Init /\ [][Next]_vars

-----------------------------------------------------------------------------
\* The types of the variables.
TypeOK ==
  /\ libOf \in [Apps -> Libs] /\ updateOf \in [Apps -> Updates \union {"absent"}]
  /\ disk \in [Libs \union Updates -> Files] /\ temp \in Files
  /\ loaded \in [Libs -> Versions] /\ functions \in [Apps -> Versions]
  /\ clock \in 0 .. MaxTime /\ published \in Versions
  /\ pc \in {"idle", "look", "unload", "copy", "open", "remove", "rename", "bind"}
  /\ todo \subseteq Apps /\ updated \subseteq Libs /\ lib \in Libs
  /\ failed \in BOOLEAN /\ calm \in BOOLEAN

\* An application that has functions has those of the library that is open: none points
\* into a library that line 572 has closed, whichever return of updateModule was taken.
FunctionsAreLoaded ==
  \A a \in Apps : functions[a] # Closed => functions[a] = loaded[libOf[a]]

\* What runs is what the next start would load: the file at server_module has the
\* version of the functions.
RunningIsOnDisk ==
  \A a \in Apps : functions[a] # Closed => functions[a] = disk[libOf[a]].version

\* An update is not done twice: a library whose applications agree on the update file is
\* unloaded only for a version that it has not got (lines 513-524).
NoNeedlessUnload ==
  [][\A a \in Apps : Unload /\ libOf[a] = lib /\ Agreed(lib)
       => disk[lib].version # disk[updateOf[a]].version]_vars

\* An update is not missed: after a run of updateModules in which nothing failed and
\* nothing was published, a library has the version of its update file, but for a new file
\* of the same size that was published in the second of the last copy.
UpdatedUnlessAlike ==
  \A a \in Apps :
    /\ pc = "look" /\ todo = {} /\ calm /\ ~failed
    /\ Agreed(libOf[a]) /\ Comparable(a)
    => LET new == disk[updateOf[a]]
           cur == disk[libOf[a]]
       IN  \/ functions[a] = new.version
           \/ cur.size = new.size /\ cur.time >= new.time

\* From line 572 to the end of updateModule no application has a function of the library.
DroppedWhileReplaced ==
  pc \in {"copy", "open", "remove", "rename", "bind"}
    => \A a \in Apps : libOf[a] = lib => functions[a] = Closed

\* The library that was opened under the temporary name is the file that is put in place.
OpenedIsPlaced ==
  /\ pc \in {"remove", "rename"} => loaded[lib] \in {temp.version, Closed}
  /\ pc = "bind" => loaded[lib] \in {disk[lib].version, Closed}

\* Every version is published once, and has been published when it is seen.
PublishedOnce ==
  /\ \A u \in Updates : disk[u] # Absent =>
       disk[u].version \in 1 .. published /\ disk[u].time <= clock
  /\ \A u, v \in Updates : disk[u].version = disk[v].version => u = v \/ disk[u] = Absent
  /\ \A l \in Libs : disk[l].version \in 0 .. published \union {Broken}
  /\ temp.version \in 0 .. published \union {Broken}

\* A copy of an update file is as large as the file and never older.
CopyOf(copy, file) == copy.version = file.version /\ file # Absent
                        => copy.size = file.size /\ copy.time >= file.time

CopiesAreLater == \A u \in Updates : /\ CopyOf(temp, disk[u])
                                     /\ \A l \in Libs : CopyOf(disk[l], disk[u])

\* A library that is about to be unloaded has an update file of another version.
UnloadIsDue ==
  pc = "unload" => \E a \in Same(lib) : /\ updateOf[a] # "absent"
                                        /\ disk[updateOf[a]] # Absent
                                        /\ disk[lib].version # disk[updateOf[a]].version

\* The inductive invariant of the update.
UpdateInv == /\ TypeOK /\ FunctionsAreLoaded /\ RunningIsOnDisk
             /\ DroppedWhileReplaced /\ OpenedIsPlaced

\* What it rests on that an update is not done twice.
AgeInv == PublishedOnce /\ CopiesAreLater /\ UnloadIsDue
=============================================================================
