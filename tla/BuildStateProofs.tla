-------------------------- MODULE BuildStateProofs --------------------------
(***************************************************************************)
(* Theorems about BuildState, for every set of processes and edges, when   *)
(* the commands of a killed forge die with it, and .forge_deps is read as  *)
(* it was saved or not at all.  (Neither need be so: see the runs          *)
(* state_orphan and log_cut.)                                              *)
(***************************************************************************)
EXTENDS BuildState, TLAPS

-----------------------------------------------------------------------------
(* The inductive invariant.                                                *)

(* Exactly the process that holds the lock is inside main(); an absent     *)
(* process has no memory, and only one that runs has commands running.     *)
LockInv ==
  \A p \in Process :
    /\ pc[p] # "off" <=> lock = p
    /\ running[p] # {} => pc[p] = "run"
    /\ pc[p] \in {"off", "check_marker", "load_build_log"} =>
         recorded[p] = NoEntries /\ discovered[p] = NoEntries /\ ~loaded[p]
    /\ pc[p] = "load_deps_log" =>
         discovered[p] = NoEntries /\ (loaded[p] \/ recorded[p] = NoEntries)
    /\ pc[p] \in {"run", "save_deps_log", "save_build_log", "remove_marker"} =>
         id[p] = builds /\ builds > 0
    /\ pc[p] # "run" => ~failing[p]

(* Where the marker must be, and where it cannot be.                       *)
MarkerInv ==
  \A p \in Process :
    /\ pc[p] \in {"run", "save_deps_log", "save_build_log", "remove_marker"} =>
         marker
    /\ pc[p] \in {"load_build_log", "load_deps_log"} => ~marker

(* The memory of the process in main() is true of the disk, except for the *)
(* outputs it is overwriting; half-way through a load, provided the other  *)
(* half can be read; half-way through a save, so is the file.              *)
MemoryInv ==
  \A p \in Process : \A e \in Edge :
    /\ pc[p] \in {"plan", "create_marker", "save_deps_log", "save_build_log",
                  "remove_marker"} \/ (pc[p] = "run" /\ ~failing[p]) =>
         e \in running[p] \/ TrueOf(e, recorded[p], discovered[p], outputs[e])
    /\ pc[p] = "load_deps_log" /\ loaded[p] /\ deps_log \in Log =>
         TrueOf(e, recorded[p], deps_log, outputs[e])

SavedInv ==
  \A p \in Process :
    /\ pc[p] \in {"save_build_log", "remove_marker"} =>
         deps_log \in {discovered[p], unreadable}
    /\ pc[p] = "remove_marker" =>
         build_log \in LeftOf(recorded[p], "build")

(* No output is newer than the last build, and those of the current build  *)
(* are recorded when they are complete.                                    *)
BuiltInv ==
  \A e \in Edge :
    /\ outputs[e].by \in 0..builds
    /\ \A p \in Process :
         pc[p] \in {"save_deps_log", "save_build_log", "remove_marker"}
           \/ (pc[p] = "run" /\ ~failing[p]) =>
              e \in running[p]
                \/ (outputs[e].by = builds => recorded[p][e] = builds)

IInv == TypeOK /\ LockInv /\ MarkerInv /\ MemoryInv /\ SavedInv /\ BuiltInv
          /\ BelievedIsTrue /\ orphans = {}

(* While a process is inside main() every other one is out.                *)
LEMMA Alone ==
  ASSUME IInv, NEW p \in Process, pc[p] # "off"
  PROVE  /\ lock = p
         /\ \A q \in Process : q # p => pc[q] = "off" /\ running[q] = {}
BY DEF IInv, LockInv

LEMMA NoEntriesIsLog == NoEntries \in Log
BY RecordsAssumption DEF NoEntries, Log

LEMMA PairsAreBelieved ==
  ASSUME NEW b \in Log, NEW d \in Log
  PROVE  <<b, d>> # nothing
BY RecordsAssumption

(* What a process leaves behind is well typed.                             *)
LEMMA Leaving ==
  ASSUME TypeOK, NEW p \in Process, Leave(p)
  PROVE  /\ lock' \in Process \cup {nobody}
         /\ pc' \in [Process -> Place]
         /\ id' \in [Process -> 0..MaxBuilds]
         /\ recorded' \in [Process -> Log] /\ discovered' \in [Process -> Log]
         /\ loaded' \in [Process -> BOOLEAN]
         /\ failing' \in [Process -> BOOLEAN]
         /\ plan' \in [Process -> SUBSET Edge]
         /\ todo' \in [Process -> SUBSET Edge]
         /\ running' \in [Process -> SUBSET Edge]
<1>1. lock' \in Process \cup {nobody} /\ pc' \in [Process -> Place]
  BY DEF TypeOK, Leave, Go, Place
<1>2. id' \in [Process -> 0..MaxBuilds]
  BY RecordsAssumption DEF TypeOK, Leave
<1>3. recorded' \in [Process -> Log] /\ discovered' \in [Process -> Log]
  BY NoEntriesIsLog DEF TypeOK, Leave
<1>4. loaded' \in [Process -> BOOLEAN] /\ failing' \in [Process -> BOOLEAN]
  BY DEF TypeOK, Leave
<1>5. /\ plan' \in [Process -> SUBSET Edge]
      /\ todo' \in [Process -> SUBSET Edge]
      /\ running' \in [Process -> SUBSET Edge]
  BY DEF TypeOK, Leave
<1>. QED BY <1>1, <1>2, <1>3, <1>4, <1>5

LEMMA AcquireKeeps ==
  ASSUME ~CommandsOutliveForge, IInv, NEW p \in Process, Acquire(p)
  PROVE  IInv'
<1>1. \A q \in Process : pc[q] = "off" /\ running[q] = {}
  BY BuildStateAssumption DEF IInv, LockInv, Acquire, LockFree
<1>2. TypeOK'
  BY NoEntriesIsLog, BuildStateAssumption
    DEF IInv, TypeOK, LockInv, Acquire, Go, LockFree, files, memory, Place
<1>3. LockInv'
  BY <1>1, BuildStateAssumption
    DEF IInv, TypeOK, LockInv, Acquire, Go, LockFree, files, memory
<1>4. MarkerInv'
  BY <1>1 DEF IInv, TypeOK, MarkerInv, Acquire, Go, LockFree, files, memory
<1>5. MemoryInv'
  BY <1>1, PairsAreBelieved
    DEF IInv, TypeOK, LockInv, MarkerInv, MemoryInv, BelievedIsTrue, Believed,
        TrueOf, Acquire, Go, LockFree, files, memory
<1>6. SavedInv'
  BY <1>1 DEF IInv, TypeOK, SavedInv, Acquire, Go, LockFree, files, memory
<1>7. BelievedIsTrue'
  BY <1>1, PairsAreBelieved
    DEF IInv, TypeOK, MarkerInv, MemoryInv, SavedInv, LockInv, BelievedIsTrue,
        Believed, TrueOf, Acquire, Go, LockFree, files, memory
<1>8. orphans' = {}
  BY DEF IInv, Acquire, Go, LockFree, files, memory
<1>9. BuiltInv'
  BY <1>1
    DEF IInv, TypeOK, LockInv, BuiltInv, Acquire, Go, LockFree, files, memory
<1>. QED BY <1>2, <1>3, <1>4, <1>5, <1>6, <1>7, <1>8, <1>9 DEF IInv

LEMMA CheckMarkerKeeps ==
  ASSUME ~CommandsOutliveForge, IInv, NEW p \in Process, CheckMarker(p)
  PROVE  IInv'
<1>1. /\ lock = p
      /\ \A q \in Process : q # p => pc[q] = "off" /\ running[q] = {}
  BY Alone DEF CheckMarker
<1>2. TypeOK'
  BY NoEntriesIsLog, BuildStateAssumption
    DEF IInv, TypeOK, LockInv, CheckMarker, Go, files, memory, Place
<1>3. LockInv'
  BY <1>1, BuildStateAssumption
    DEF IInv, TypeOK, LockInv, CheckMarker, Go, files, memory
<1>4. MarkerInv'
  BY <1>1 DEF IInv, TypeOK, MarkerInv, CheckMarker, Go, files, memory
<1>5. MemoryInv'
  BY <1>1, PairsAreBelieved
    DEF IInv, TypeOK, LockInv, MarkerInv, MemoryInv, BelievedIsTrue, Believed,
        TrueOf, CheckMarker, Go, files, memory, NoEntries
<1>6. SavedInv'
  BY <1>1 DEF IInv, TypeOK, SavedInv, CheckMarker, Go, files, memory
<1>7. BelievedIsTrue'
  BY <1>1, PairsAreBelieved
    DEF IInv, TypeOK, MarkerInv, MemoryInv, SavedInv, LockInv, BelievedIsTrue,
        Believed, TrueOf, CheckMarker, Go, files, memory
<1>8. orphans' = {}
  BY DEF IInv, CheckMarker, Go, files, memory
<1>9. BuiltInv'
  BY <1>1 DEF IInv, TypeOK, LockInv, BuiltInv, CheckMarker, Go, files, memory
<1>. QED BY <1>2, <1>3, <1>4, <1>5, <1>6, <1>7, <1>8, <1>9 DEF IInv

LEMMA LoadBuildLogKeeps ==
  ASSUME ~CommandsOutliveForge, IInv, NEW p \in Process, LoadBuildLog(p)
  PROVE  IInv'
<1>1. /\ lock = p
      /\ \A q \in Process : q # p => pc[q] = "off" /\ running[q] = {}
  BY Alone DEF LoadBuildLog
<1>2. TypeOK'
  <2>1. recorded' \in [Process -> Log] /\ loaded' \in [Process -> BOOLEAN]
    BY DEF IInv, TypeOK, LoadBuildLog, Readable
  <2>2. pc' = [pc EXCEPT ![p] = "load_deps_log"]
    BY DEF LoadBuildLog, Go
  <2>. QED BY <2>1, <2>2 DEF IInv, TypeOK, Place, LoadBuildLog, files
<1>3. LockInv'
  BY <1>1, BuildStateAssumption
    DEF IInv, TypeOK, LockInv, LoadBuildLog, Go, Readable, files
<1>4. MarkerInv'
  BY <1>1 DEF IInv, TypeOK, MarkerInv, LoadBuildLog, Go, Readable, files
<1>5. MemoryInv'
  BY <1>1, PairsAreBelieved
    DEF IInv, TypeOK, LockInv, MarkerInv, MemoryInv, BelievedIsTrue, Believed,
        TrueOf, LoadBuildLog, Go, Readable, files, NoEntries
<1>6. SavedInv'
  BY <1>1 DEF IInv, TypeOK, SavedInv, LoadBuildLog, Go, Readable, files
<1>7. BelievedIsTrue'
  BY <1>1, PairsAreBelieved
    DEF IInv, TypeOK, MarkerInv, MemoryInv, SavedInv, LockInv, BelievedIsTrue,
        Believed, TrueOf, LoadBuildLog, Go, Readable, files
<1>8. orphans' = {}
  BY DEF IInv, LoadBuildLog, Go, Readable, files
<1>9. BuiltInv'
  BY <1>1
    DEF IInv, TypeOK, LockInv, BuiltInv, LoadBuildLog, Go, Readable, files
<1>. QED BY <1>2, <1>3, <1>4, <1>5, <1>6, <1>7, <1>8, <1>9 DEF IInv

LEMMA LoadDepsLogKeeps ==
  ASSUME ~CommandsOutliveForge, IInv, NEW p \in Process, LoadDepsLog(p)
  PROVE  IInv'
<1>1. /\ lock = p
      /\ \A q \in Process : q # p => pc[q] = "off" /\ running[q] = {}
  BY Alone DEF LoadDepsLog
<1>2. TypeOK'
  <2>1. recorded' \in [Process -> Log] /\ discovered' \in [Process -> Log]
    BY NoEntriesIsLog DEF IInv, TypeOK, LoadDepsLog, Readable
  <2>2. pc' = [pc EXCEPT ![p] = "plan"]
    BY DEF LoadDepsLog, Go
  <2>. QED BY <2>1, <2>2 DEF IInv, TypeOK, Place, LoadDepsLog, files
<1>3. LockInv'
  BY <1>1, BuildStateAssumption
    DEF IInv, TypeOK, LockInv, LoadDepsLog, Go, Readable, BothLoaded, files,
        NoEntries
<1>4. MarkerInv'
  BY <1>1
    DEF IInv, TypeOK, MarkerInv, LoadDepsLog, Go, Readable, BothLoaded, files,
        NoEntries
<1>5. MemoryInv'
  <2>1. \/ recorded'[p] = NoEntries
        \/ /\ loaded[p] /\ deps_log \in Log
           /\ recorded'[p] = recorded[p] /\ discovered'[p] = deps_log
    BY DEF IInv, TypeOK, LoadDepsLog, Readable, BothLoaded
  <2>2. \A f \in Edge : TrueOf(f, recorded'[p], discovered'[p], outputs[f])
    BY <2>1 DEF IInv, MemoryInv, LoadDepsLog, TrueOf, NoEntries
  <2>3. /\ outputs' = outputs /\ running' = running
        /\ pc' = [pc EXCEPT ![p] = "plan"] /\ DOMAIN pc = Process
    BY DEF IInv, TypeOK, LoadDepsLog, Go
  <2>. QED BY <1>1, <2>2, <2>3 DEF MemoryInv
<1>6. SavedInv'
  BY <1>1
    DEF IInv, TypeOK, SavedInv, LoadDepsLog, Go, Readable, BothLoaded, files,
        NoEntries
<1>7. BelievedIsTrue'
  BY <1>1, PairsAreBelieved
    DEF IInv, TypeOK, MarkerInv, MemoryInv, SavedInv, LockInv, BelievedIsTrue,
        Believed, TrueOf, LoadDepsLog, Go, Readable, BothLoaded, files,
        NoEntries
<1>8. orphans' = {}
  BY DEF IInv, LoadDepsLog, Go, Readable, BothLoaded, files, NoEntries
<1>9. BuiltInv'
  BY <1>1
    DEF IInv, TypeOK, LockInv, BuiltInv, LoadDepsLog, Go, Readable,
        BothLoaded, files, NoEntries
<1>. QED BY <1>2, <1>3, <1>4, <1>5, <1>6, <1>7, <1>8, <1>9 DEF IInv

LEMMA MakePlanKeeps ==
  ASSUME ~CommandsOutliveForge, IInv, NEW p \in Process, MakePlan(p)
  PROVE  IInv'
<1>1. /\ lock = p
      /\ \A q \in Process : q # p => pc[q] = "off" /\ running[q] = {}
  BY Alone DEF MakePlan
<1>2. TypeOK'
  BY RecordsAssumption, BuildStateAssumption
    DEF IInv, TypeOK, LockInv, MakePlan, Go, files, Log, Output, Build, Place
<1>3. LockInv'
  BY <1>1, BuildStateAssumption DEF IInv, TypeOK, LockInv, MakePlan, Go, files
<1>4. MarkerInv'
  BY <1>1 DEF IInv, TypeOK, MarkerInv, MakePlan, Go, files
<1>5. MemoryInv'
  BY <1>1, PairsAreBelieved
    DEF IInv, TypeOK, LockInv, MarkerInv, MemoryInv, BelievedIsTrue, Believed,
        TrueOf, MakePlan, Go, files
<1>6. SavedInv'
  BY <1>1 DEF IInv, TypeOK, SavedInv, MakePlan, Go, files
<1>7. BelievedIsTrue'
  BY <1>1, PairsAreBelieved
    DEF IInv, TypeOK, MarkerInv, MemoryInv, SavedInv, LockInv, BelievedIsTrue,
        Believed, TrueOf, MakePlan, Go, files
<1>8. orphans' = {}
  BY DEF IInv, MakePlan, Go, files
<1>9. BuiltInv'
  BY <1>1 DEF IInv, TypeOK, LockInv, BuiltInv, MakePlan, Go, files
<1>. QED BY <1>2, <1>3, <1>4, <1>5, <1>6, <1>7, <1>8, <1>9 DEF IInv

LEMMA CreateMarkerKeeps ==
  ASSUME ~CommandsOutliveForge, IInv, NEW p \in Process, CreateMarker(p)
  PROVE  IInv'
<1>1. /\ lock = p
      /\ \A q \in Process : q # p => pc[q] = "off" /\ running[q] = {}
  BY Alone DEF CreateMarker
<1>2. TypeOK'
  BY RecordsAssumption, BuildStateAssumption
    DEF IInv, TypeOK, LockInv, CreateMarker, Go, Marked, Log, Output, Build,
        Place
<1>3. LockInv'
  BY <1>1, BuildStateAssumption
    DEF IInv, TypeOK, LockInv, CreateMarker, Go, Marked
<1>4. MarkerInv'
  BY <1>1 DEF IInv, TypeOK, MarkerInv, CreateMarker, Go, Marked
<1>5. MemoryInv'
  BY <1>1, PairsAreBelieved
    DEF IInv, TypeOK, LockInv, MarkerInv, MemoryInv, BelievedIsTrue, Believed,
        TrueOf, CreateMarker, Go, Marked
<1>6. SavedInv'
  BY <1>1 DEF IInv, TypeOK, SavedInv, CreateMarker, Go, Marked
<1>7. BelievedIsTrue'
  BY <1>1, PairsAreBelieved
    DEF IInv, TypeOK, MarkerInv, MemoryInv, SavedInv, LockInv, BelievedIsTrue,
        Believed, TrueOf, CreateMarker, Go, Marked
<1>8. orphans' = {}
  BY DEF IInv, CreateMarker, Go, Marked
<1>9. BuiltInv'
  <2>1. builds \in Nat /\ builds' = builds + 1 /\ outputs' = outputs
    BY RecordsAssumption DEF IInv, TypeOK, CreateMarker
  <2>2. \A e \in Edge : outputs[e].by \in 0..builds
    BY DEF IInv, BuiltInv
  <2>3. \A e \in Edge : outputs'[e].by \in 0..builds' /\ outputs'[e].by # builds'
    BY <2>1, <2>2
  <2>4. \A q \in Process : q # p => pc'[q] = "off"
    BY <1>1 DEF IInv, TypeOK, CreateMarker, Go
  <2>. QED BY <2>3, <2>4 DEF BuiltInv
<1>. QED BY <1>2, <1>3, <1>4, <1>5, <1>6, <1>7, <1>8, <1>9 DEF IInv

LEMMA GiveUpKeeps ==
  ASSUME ~CommandsOutliveForge, IInv, NEW p \in Process, GiveUp(p)
  PROVE  IInv'
<1>1. /\ lock = p
      /\ \A q \in Process : q # p => pc[q] = "off" /\ running[q] = {}
  BY Alone DEF GiveUp
<1>2. TypeOK'
  BY Leaving DEF IInv, TypeOK, GiveUp, files
<1>3. LockInv'
  BY <1>1, BuildStateAssumption
    DEF IInv, TypeOK, LockInv, GiveUp, Leave, Go, files, NoEntries
<1>4. MarkerInv'
  BY <1>1 DEF IInv, TypeOK, MarkerInv, GiveUp, Leave, Go, files, NoEntries
<1>5. MemoryInv'
  BY <1>1, PairsAreBelieved
    DEF IInv, TypeOK, LockInv, MarkerInv, MemoryInv, BelievedIsTrue, Believed,
        TrueOf, GiveUp, Leave, Go, files, NoEntries
<1>6. SavedInv'
  BY <1>1 DEF IInv, TypeOK, SavedInv, GiveUp, Leave, Go, files, NoEntries
<1>7. BelievedIsTrue'
  BY <1>1, PairsAreBelieved
    DEF IInv, TypeOK, MarkerInv, MemoryInv, SavedInv, LockInv, BelievedIsTrue,
        Believed, TrueOf, GiveUp, Leave, Go, files, NoEntries
<1>8. orphans' = {}
  BY DEF IInv, GiveUp, Leave, Go, files, NoEntries
<1>9. BuiltInv'
  BY <1>1
    DEF IInv, TypeOK, LockInv, BuiltInv, GiveUp, Leave, Go, files, NoEntries
<1>. QED BY <1>2, <1>3, <1>4, <1>5, <1>6, <1>7, <1>8, <1>9 DEF IInv

LEMMA TakeEdgeKeeps ==
  ASSUME ~CommandsOutliveForge, IInv, NEW p \in Process, NEW e \in Edge, TakeEdge(p, e)
  PROVE  IInv'
<1>1. /\ lock = p
      /\ \A q \in Process : q # p => pc[q] = "off" /\ running[q] = {}
  BY Alone DEF TakeEdge
<1>2. TypeOK'
  BY RecordsAssumption, BuildStateAssumption
    DEF IInv, TypeOK, LockInv, TakeEdge, files, Log, Output, Build, Place
<1>3. LockInv'
  BY <1>1, BuildStateAssumption DEF IInv, TypeOK, LockInv, TakeEdge, files
<1>4. MarkerInv'
  BY <1>1 DEF IInv, TypeOK, MarkerInv, TakeEdge, files
<1>5. MemoryInv'
  BY <1>1, PairsAreBelieved
    DEF IInv, TypeOK, LockInv, MarkerInv, MemoryInv, BelievedIsTrue, Believed,
        TrueOf, TakeEdge, files
<1>6. SavedInv'
  BY <1>1 DEF IInv, TypeOK, SavedInv, TakeEdge, files
<1>7. BelievedIsTrue'
  BY <1>1, PairsAreBelieved
    DEF IInv, TypeOK, MarkerInv, MemoryInv, SavedInv, LockInv, BelievedIsTrue,
        Believed, TrueOf, TakeEdge, files
<1>8. orphans' = {}
  BY DEF IInv, TakeEdge, files
<1>9. BuiltInv'
  BY <1>1 DEF IInv, TypeOK, LockInv, BuiltInv, TakeEdge, files
<1>. QED BY <1>2, <1>3, <1>4, <1>5, <1>6, <1>7, <1>8, <1>9 DEF IInv

LEMMA CommandWritesKeeps ==
  ASSUME ~CommandsOutliveForge, IInv, NEW p \in Process, NEW e \in Edge, CommandWrites(p, e)
  PROVE  IInv'
<1>1. /\ lock = p
      /\ \A q \in Process : q # p => pc[q] = "off" /\ running[q] = {}
  BY Alone DEF CommandWrites
<1>2. TypeOK'
  BY RecordsAssumption, BuildStateAssumption
    DEF IInv, TypeOK, LockInv, CommandWrites, files, memory, Log, Output, Build, Place
<1>3. LockInv'
  BY <1>1, BuildStateAssumption DEF IInv, TypeOK, LockInv, CommandWrites, files, memory
<1>4. MarkerInv'
  BY <1>1 DEF IInv, TypeOK, MarkerInv, CommandWrites, files, memory
<1>5. MemoryInv'
  BY <1>1, PairsAreBelieved
    DEF IInv, TypeOK, LockInv, MarkerInv, MemoryInv, BelievedIsTrue, Believed,
        TrueOf, CommandWrites, files, memory
<1>6. SavedInv'
  BY <1>1 DEF IInv, TypeOK, SavedInv, CommandWrites, files, memory
<1>7. BelievedIsTrue'
  BY <1>1, PairsAreBelieved
    DEF IInv, TypeOK, MarkerInv, MemoryInv, SavedInv, LockInv, BelievedIsTrue,
        Believed, TrueOf, CommandWrites, files, memory
<1>8. orphans' = {}
  BY DEF IInv, CommandWrites, files, memory
<1>9. BuiltInv'
  BY <1>1 DEF IInv, TypeOK, LockInv, BuiltInv, CommandWrites, files, memory
<1>. QED BY <1>2, <1>3, <1>4, <1>5, <1>6, <1>7, <1>8, <1>9 DEF IInv

LEMMA FinishCommandKeeps ==
  ASSUME ~CommandsOutliveForge, IInv, NEW p \in Process, NEW e \in Edge, FinishCommand(p, e)
  PROVE  IInv'
<1>1. /\ lock = p
      /\ \A q \in Process : q # p => pc[q] = "off" /\ running[q] = {}
  BY Alone DEF FinishCommand
<1>2. TypeOK'
  BY RecordsAssumption, BuildStateAssumption
    DEF IInv, TypeOK, LockInv, FinishCommand, files, Log, Output, Build, Place
<1>3. LockInv'
  BY <1>1, BuildStateAssumption DEF IInv, TypeOK, LockInv, FinishCommand, files
<1>4. MarkerInv'
  BY <1>1 DEF IInv, TypeOK, MarkerInv, FinishCommand, files
<1>5. MemoryInv'
  <2>1. /\ pc' = pc /\ pc[p] = "run" /\ outputs' \in [Edge -> Output]
        /\ recorded'[p][e] = id[p]
        /\ e \in Discovering => discovered'[p][e] = outputs'[e].ran
        /\ outputs'[e].by = id[p] /\ outputs'[e].whole
    BY <1>2 DEF IInv, TypeOK, FinishCommand, Log, Output
  <2>2. \A f \in Edge \ {e} : /\ recorded'[p][f] = recorded[p][f]
                              /\ discovered'[p][f] = discovered[p][f]
                              /\ outputs'[f] = outputs[f]
                              /\ f \in running'[p] <=> f \in running[p]
    BY DEF IInv, TypeOK, FinishCommand, Log
  <2>3. \A f \in Edge :
          ~failing'[p] =>
            f \in running'[p]
              \/ TrueOf(f, recorded'[p], discovered'[p], outputs'[f])
    BY <2>1, <2>2 DEF IInv, MemoryInv, FinishCommand, TrueOf
  <2>. QED BY <1>1, <2>1, <2>3 DEF MemoryInv
<1>6. SavedInv'
  BY <1>1 DEF IInv, TypeOK, SavedInv, FinishCommand, files
<1>7. BelievedIsTrue'
  BY <1>1, PairsAreBelieved
    DEF IInv, TypeOK, MarkerInv, MemoryInv, SavedInv, LockInv, BelievedIsTrue,
        Believed, TrueOf, FinishCommand, files
<1>8. orphans' = {}
  BY DEF IInv, FinishCommand, files
<1>9. BuiltInv'
  <2>1. /\ UNCHANGED <<pc, builds, id>> /\ pc[p] = "run" /\ id[p] = builds
        /\ recorded'[p][e] = builds /\ outputs'[e].by = builds
        /\ builds \in Nat
    BY <1>2, RecordsAssumption
      DEF IInv, TypeOK, LockInv, FinishCommand, Log, Output
  <2>2. \A f \in Edge \ {e} : /\ recorded'[p][f] = recorded[p][f]
                              /\ outputs'[f] = outputs[f]
                              /\ f \in running'[p] <=> f \in running[p]
    BY DEF IInv, TypeOK, FinishCommand, Log
  <2>3. failing' = failing
    BY DEF FinishCommand
  <2>4. ASSUME NEW f \in Edge \ {e}
        PROVE  /\ outputs'[f].by \in 0..builds'
               /\ ~failing'[p] =>
                    f \in running'[p]
                      \/ (outputs'[f].by = builds' => recorded'[p][f] = builds')
    <3>0. /\ recorded'[p][f] = recorded[p][f] /\ outputs'[f] = outputs[f]
          /\ f \in running'[p] <=> f \in running[p]
      BY <2>2
    <3>1. outputs'[f].by = outputs[f].by /\ builds' = builds /\ failing'[p] = failing[p]
      BY <2>1, <2>3, <3>0
    <3>2. /\ outputs[f].by \in 0..builds
          /\ ~failing[p] =>
               f \in running[p]
                 \/ (outputs[f].by = builds => recorded[p][f] = builds)
      BY <2>1 DEF IInv, BuiltInv
    <3>. QED BY <3>0, <3>1, <3>2
  <2>5. /\ outputs'[e].by \in 0..builds'
        /\ recorded'[p][e] = builds'
    <3>1. outputs'[e].by = builds /\ builds' = builds /\ builds \in Nat
      BY <2>1
    <3>. QED BY <2>1, <3>1
  <2>. QED BY <1>1, <2>1, <2>4, <2>5 DEF BuiltInv
<1>. QED BY <1>2, <1>3, <1>4, <1>5, <1>6, <1>7, <1>8, <1>9 DEF IInv

LEMMA RestoreFromCacheKeeps ==
  ASSUME ~CommandsOutliveForge, IInv, NEW p \in Process, NEW e \in Edge, RestoreFromCache(p, e)
  PROVE  IInv'
<1>1. /\ lock = p
      /\ \A q \in Process : q # p => pc[q] = "off" /\ running[q] = {}
  BY Alone DEF RestoreFromCache
<1>2. TypeOK'
  BY RecordsAssumption, BuildStateAssumption
    DEF IInv, TypeOK, LockInv, RestoreFromCache, files, Log, Output, Build,
        Place
<1>3. LockInv'
  BY <1>1, BuildStateAssumption
    DEF IInv, TypeOK, LockInv, RestoreFromCache, files
<1>4. MarkerInv'
  BY <1>1 DEF IInv, TypeOK, MarkerInv, RestoreFromCache, files
<1>5. MemoryInv'
  <2>1. /\ pc' = pc /\ pc[p] = "run" /\ outputs' \in [Edge -> Output]
        /\ recorded'[p][e] = id[p]
        /\ e \in Discovering => discovered'[p][e] = outputs'[e].ran
        /\ outputs'[e].by = id[p] /\ outputs'[e].whole
    BY <1>2 DEF IInv, TypeOK, RestoreFromCache, Log, Output
  <2>2. \A f \in Edge \ {e} : /\ recorded'[p][f] = recorded[p][f]
                              /\ discovered'[p][f] = discovered[p][f]
                              /\ outputs'[f] = outputs[f]
                              /\ f \in running'[p] <=> f \in running[p]
    BY DEF IInv, TypeOK, RestoreFromCache, Log
  <2>3. \A f \in Edge :
          ~failing'[p] =>
            f \in running'[p]
              \/ TrueOf(f, recorded'[p], discovered'[p], outputs'[f])
    BY <2>1, <2>2 DEF IInv, MemoryInv, RestoreFromCache, TrueOf
  <2>. QED BY <1>1, <2>1, <2>3 DEF MemoryInv
<1>6. SavedInv'
  BY <1>1 DEF IInv, TypeOK, SavedInv, RestoreFromCache, files
<1>7. BelievedIsTrue'
  BY <1>1, PairsAreBelieved
    DEF IInv, TypeOK, MarkerInv, MemoryInv, SavedInv, LockInv, BelievedIsTrue,
        Believed, TrueOf, RestoreFromCache, files
<1>8. orphans' = {}
  BY DEF IInv, RestoreFromCache, files
<1>9. BuiltInv'
  <2>1. /\ UNCHANGED <<pc, builds, id>> /\ pc[p] = "run" /\ id[p] = builds
        /\ recorded'[p][e] = builds /\ outputs'[e].by = builds
        /\ builds \in Nat
    BY <1>2, RecordsAssumption
      DEF IInv, TypeOK, LockInv, RestoreFromCache, Log, Output
  <2>2. \A f \in Edge \ {e} : /\ recorded'[p][f] = recorded[p][f]
                              /\ outputs'[f] = outputs[f]
                              /\ f \in running'[p] <=> f \in running[p]
    BY DEF IInv, TypeOK, RestoreFromCache, Log
  <2>3. failing' = failing
    BY DEF RestoreFromCache
  <2>4. ASSUME NEW f \in Edge \ {e}
        PROVE  /\ outputs'[f].by \in 0..builds'
               /\ ~failing'[p] =>
                    f \in running'[p]
                      \/ (outputs'[f].by = builds' => recorded'[p][f] = builds')
    <3>0. /\ recorded'[p][f] = recorded[p][f] /\ outputs'[f] = outputs[f]
          /\ f \in running'[p] <=> f \in running[p]
      BY <2>2
    <3>1. outputs'[f].by = outputs[f].by /\ builds' = builds /\ failing'[p] = failing[p]
      BY <2>1, <2>3, <3>0
    <3>2. /\ outputs[f].by \in 0..builds
          /\ ~failing[p] =>
               f \in running[p]
                 \/ (outputs[f].by = builds => recorded[p][f] = builds)
      BY <2>1 DEF IInv, BuiltInv
    <3>. QED BY <3>0, <3>1, <3>2
  <2>5. /\ outputs'[e].by \in 0..builds'
        /\ recorded'[p][e] = builds'
    <3>1. outputs'[e].by = builds /\ builds' = builds /\ builds \in Nat
      BY <2>1
    <3>. QED BY <2>1, <3>1
  <2>. QED BY <1>1, <2>1, <2>4, <2>5 DEF BuiltInv
<1>. QED BY <1>2, <1>3, <1>4, <1>5, <1>6, <1>7, <1>8, <1>9 DEF IInv

LEMMA FailCommandKeeps ==
  ASSUME ~CommandsOutliveForge, IInv, NEW p \in Process, NEW e \in Edge, FailCommand(p, e)
  PROVE  IInv'
<1>1. /\ lock = p
      /\ \A q \in Process : q # p => pc[q] = "off" /\ running[q] = {}
  BY Alone DEF FailCommand
<1>2. TypeOK'
  BY RecordsAssumption, BuildStateAssumption
    DEF IInv, TypeOK, LockInv, FailCommand, files, Log, Output, Build, Place
<1>3. LockInv'
  BY <1>1, BuildStateAssumption DEF IInv, TypeOK, LockInv, FailCommand, files
<1>4. MarkerInv'
  BY <1>1 DEF IInv, TypeOK, MarkerInv, FailCommand, files
<1>5. MemoryInv'
  BY <1>1, PairsAreBelieved
    DEF IInv, TypeOK, LockInv, MarkerInv, MemoryInv, BelievedIsTrue, Believed,
        TrueOf, FailCommand, files
<1>6. SavedInv'
  BY <1>1 DEF IInv, TypeOK, SavedInv, FailCommand, files
<1>7. BelievedIsTrue'
  BY <1>1, PairsAreBelieved
    DEF IInv, TypeOK, MarkerInv, MemoryInv, SavedInv, LockInv, BelievedIsTrue,
        Believed, TrueOf, FailCommand, files
<1>8. orphans' = {}
  BY DEF IInv, FailCommand, files
<1>9. BuiltInv'
  BY <1>1 DEF IInv, TypeOK, LockInv, BuiltInv, FailCommand, files
<1>. QED BY <1>2, <1>3, <1>4, <1>5, <1>6, <1>7, <1>8, <1>9 DEF IInv

LEMMA EndRunKeeps ==
  ASSUME ~CommandsOutliveForge, IInv, NEW p \in Process, EndRun(p)
  PROVE  IInv'
<1>1. /\ lock = p
      /\ \A q \in Process : q # p => pc[q] = "off" /\ running[q] = {}
  BY Alone DEF EndRun
<1>2. TypeOK'
  <2>1. CASE Succeeded(p)
    BY <2>1 DEF IInv, TypeOK, EndRun, Go, files, memory, Place
  <2>2. CASE ~Succeeded(p)
    BY <2>2, Leaving DEF IInv, TypeOK, EndRun, files
  <2>. QED BY <2>1, <2>2
<1>3. LockInv'
  BY <1>1, BuildStateAssumption
    DEF IInv, TypeOK, LockInv, EndRun, Leave, Go, Succeeded, files, memory,
        NoEntries
<1>4. MarkerInv'
  BY <1>1
    DEF IInv, TypeOK, MarkerInv, EndRun, Leave, Go, Succeeded, files, memory,
        NoEntries
<1>5. MemoryInv'
  BY <1>1, PairsAreBelieved
    DEF IInv, TypeOK, LockInv, MarkerInv, MemoryInv, BelievedIsTrue, Believed,
        TrueOf, EndRun, Leave, Go, Succeeded, files, memory, NoEntries
<1>6. SavedInv'
  BY <1>1
    DEF IInv, TypeOK, SavedInv, EndRun, Leave, Go, Succeeded, files, memory,
        NoEntries
<1>7. BelievedIsTrue'
  BY <1>1, PairsAreBelieved
    DEF IInv, TypeOK, MarkerInv, MemoryInv, SavedInv, LockInv, BelievedIsTrue,
        Believed, TrueOf, EndRun, Leave, Go, Succeeded, files, memory,
        NoEntries
<1>8. orphans' = {}
  BY DEF IInv, EndRun, Leave, Go, Succeeded, files, memory, NoEntries
<1>9. BuiltInv'
  BY <1>1
    DEF IInv, TypeOK, LockInv, BuiltInv, EndRun, Leave, Go, Succeeded, files,
        memory, NoEntries
<1>. QED BY <1>2, <1>3, <1>4, <1>5, <1>6, <1>7, <1>8, <1>9 DEF IInv

LEMMA SaveDepsLogKeeps ==
  ASSUME ~CommandsOutliveForge, IInv, NEW p \in Process, SaveDepsLog(p)
  PROVE  IInv'
<1>1. /\ lock = p
      /\ \A q \in Process : q # p => pc[q] = "off" /\ running[q] = {}
  BY Alone DEF SaveDepsLog
<1>2. TypeOK'
  BY NoEntriesIsLog, BuildStateAssumption
    DEF IInv, TypeOK, LockInv, SaveDepsLog, Go, memory, Place
<1>3. LockInv'
  BY <1>1, BuildStateAssumption
    DEF IInv, TypeOK, LockInv, SaveDepsLog, Go, memory
<1>4. MarkerInv'
  BY <1>1 DEF IInv, TypeOK, MarkerInv, SaveDepsLog, Go, memory
<1>5. MemoryInv'
  BY <1>1, PairsAreBelieved
    DEF IInv, TypeOK, LockInv, MarkerInv, MemoryInv, BelievedIsTrue, Believed,
        TrueOf, SaveDepsLog, Go, memory
<1>6. SavedInv'
  BY <1>1 DEF IInv, TypeOK, SavedInv, SaveDepsLog, Go, memory
<1>7. BelievedIsTrue'
  BY <1>1, PairsAreBelieved
    DEF IInv, TypeOK, MarkerInv, MemoryInv, SavedInv, LockInv, BelievedIsTrue,
        Believed, TrueOf, SaveDepsLog, Go, memory
<1>8. orphans' = {}
  BY DEF IInv, SaveDepsLog, Go, memory
<1>9. BuiltInv'
  BY <1>1 DEF IInv, TypeOK, LockInv, BuiltInv, SaveDepsLog, Go, memory
<1>. QED BY <1>2, <1>3, <1>4, <1>5, <1>6, <1>7, <1>8, <1>9 DEF IInv

LEMMA SaveBuildLogKeeps ==
  ASSUME ~CommandsOutliveForge, IInv, NEW p \in Process, SaveBuildLog(p)
  PROVE  IInv'
<1>1. /\ lock = p
      /\ \A q \in Process : q # p => pc[q] = "off" /\ running[q] = {}
  BY Alone DEF SaveBuildLog
<1>2. TypeOK'
  BY NoEntriesIsLog, BuildStateAssumption
    DEF IInv, TypeOK, LockInv, SaveBuildLog, Go, memory, Place
<1>3. LockInv'
  BY <1>1, BuildStateAssumption
    DEF IInv, TypeOK, LockInv, SaveBuildLog, Go, memory
<1>4. MarkerInv'
  BY <1>1 DEF IInv, TypeOK, MarkerInv, SaveBuildLog, Go, memory
<1>5. MemoryInv'
  BY <1>1, PairsAreBelieved
    DEF IInv, TypeOK, LockInv, MarkerInv, MemoryInv, BelievedIsTrue, Believed,
        TrueOf, SaveBuildLog, Go, memory
<1>6. SavedInv'
  BY <1>1 DEF IInv, TypeOK, SavedInv, LeftOf, SaveBuildLog, Go, memory
<1>7. BelievedIsTrue'
  BY <1>1, PairsAreBelieved
    DEF IInv, TypeOK, MarkerInv, MemoryInv, SavedInv, LockInv, BelievedIsTrue,
        Believed, TrueOf, SaveBuildLog, Go, memory
<1>8. orphans' = {}
  BY DEF IInv, SaveBuildLog, Go, memory
<1>9. BuiltInv'
  BY <1>1 DEF IInv, TypeOK, LockInv, BuiltInv, SaveBuildLog, Go, memory
<1>. QED BY <1>2, <1>3, <1>4, <1>5, <1>6, <1>7, <1>8, <1>9 DEF IInv

LEMMA RemoveMarkerKeeps ==
  ASSUME ~CommandsOutliveForge, IInv, NEW p \in Process, RemoveMarker(p)
  PROVE  IInv'
<1>1. /\ lock = p
      /\ \A q \in Process : q # p => pc[q] = "off" /\ running[q] = {}
  BY Alone DEF RemoveMarker
<1>2. TypeOK'
  BY Leaving DEF IInv, TypeOK, RemoveMarker, files
<1>3. LockInv'
  BY <1>1, BuildStateAssumption
    DEF IInv, TypeOK, LockInv, RemoveMarker, Leave, Go, NoEntries
<1>4. MarkerInv'
  BY <1>1 DEF IInv, TypeOK, MarkerInv, RemoveMarker, Leave, Go, NoEntries
<1>5. MemoryInv'
  BY <1>1, PairsAreBelieved
    DEF IInv, TypeOK, LockInv, MarkerInv, MemoryInv, BelievedIsTrue, Believed,
        TrueOf, RemoveMarker, Leave, Go, NoEntries
<1>6. SavedInv'
  BY <1>1 DEF IInv, TypeOK, SavedInv, RemoveMarker, Leave, Go, NoEntries
<1>7. BelievedIsTrue'
  <2>1. /\ build_log \in LeftOf(recorded[p], "build")
        /\ deps_log \in {discovered[p], unreadable}
        /\ \A e \in Edge : TrueOf(e, recorded[p], discovered[p], outputs[e])
    BY DEF IInv, LockInv, MemoryInv, SavedInv, RemoveMarker
  <2>2. unreadable \notin Log
    BY RecordsAssumption
  <2>3. UNCHANGED <<build_log, deps_log, outputs>>
    BY DEF RemoveMarker
  <2>4. ASSUME build_log \in Log, NEW e \in Edge
        PROVE  TrueOf(e, build_log, discovered[p], outputs[e])
    <3>1. build_log[e] \in {recorded[p][e], 0}
      BY <2>1, <2>2, <2>4 DEF LeftOf, WithoutSome
    <3>. QED BY <2>1, <3>1 DEF TrueOf
  <2>. QED BY <2>1, <2>2, <2>3, <2>4 DEF BelievedIsTrue, Believed
<1>8. orphans' = {}
  BY DEF IInv, RemoveMarker, Leave, Go, NoEntries
<1>9. BuiltInv'
  BY <1>1
    DEF IInv, TypeOK, LockInv, BuiltInv, RemoveMarker, Leave, Go, NoEntries
<1>. QED BY <1>2, <1>3, <1>4, <1>5, <1>6, <1>7, <1>8, <1>9 DEF IInv

LEMMA KillKeeps ==
  ASSUME ~CommandsOutliveForge, IInv, NEW p \in Process, Kill(p)
  PROVE  IInv'
<1>1. /\ lock = p
      /\ \A q \in Process : q # p => pc[q] = "off" /\ running[q] = {}
  BY Alone DEF Kill
<1>2. TypeOK'
  BY Leaving DEF IInv, TypeOK, Kill, files
<1>3. LockInv'
  BY <1>1, BuildStateAssumption
    DEF IInv, TypeOK, LockInv, Kill, Leave, Go, files, NoEntries
<1>4. MarkerInv'
  BY <1>1 DEF IInv, TypeOK, MarkerInv, Kill, Leave, Go, files, NoEntries
<1>5. MemoryInv'
  BY <1>1, PairsAreBelieved
    DEF IInv, TypeOK, LockInv, MarkerInv, MemoryInv, BelievedIsTrue, Believed,
        TrueOf, Kill, Leave, Go, files, NoEntries
<1>6. SavedInv'
  BY <1>1 DEF IInv, TypeOK, SavedInv, Kill, Leave, Go, files, NoEntries
<1>7. BelievedIsTrue'
  BY <1>1, PairsAreBelieved
    DEF IInv, TypeOK, MarkerInv, MemoryInv, SavedInv, LockInv, BelievedIsTrue,
        Believed, TrueOf, Kill, Leave, Go, files, NoEntries
<1>8. orphans' = {}
  BY DEF IInv, Kill, Leave, Go, files, NoEntries
<1>9. BuiltInv'
  BY <1>1
    DEF IInv, TypeOK, LockInv, BuiltInv, Kill, Leave, Go, files, NoEntries
<1>. QED BY <1>2, <1>3, <1>4, <1>5, <1>6, <1>7, <1>8, <1>9 DEF IInv

(* The environment.  A lost log can only make the next process believe     *)
(* less; a removed output is not contradicted by its record.               *)
LEMMA RemoveOutputKeeps ==
  ASSUME IInv, NEW e \in Edge, RemoveOutput(e)
  PROVE  IInv'
<1>1. missing \in Output /\ missing.by = 0
  BY RecordsAssumption DEF missing, Output
<1>2. /\ outputs' = [outputs EXCEPT ![e] = missing]
      /\ UNCHANGED <<lock, marker, build_log, deps_log, orphans, builds, pc, id,
                     recorded, discovered, loaded, plan, todo, running, failing>>
  BY DEF RemoveOutput, files, memory
<1>3. TypeOK'
  BY <1>1, <1>2 DEF IInv, TypeOK
<1>4. LockInv' /\ MarkerInv' /\ SavedInv'
  BY <1>2 DEF IInv, LockInv, MarkerInv, SavedInv
<1>5. \A f \in Edge : outputs'[f] = outputs[f] \/ outputs'[f].by = 0
  BY <1>1, <1>2 DEF IInv, TypeOK
<1>6. MemoryInv'
  BY <1>2, <1>5 DEF IInv, MemoryInv, TrueOf
<1>7. BelievedIsTrue'
  BY <1>2, <1>5 DEF IInv, BelievedIsTrue, Believed, TrueOf
<1>8. BuiltInv'
  BY <1>2, <1>5 DEF IInv, TypeOK, LockInv, BuiltInv
<1>. QED BY <1>2, <1>3, <1>4, <1>6, <1>7, <1>8 DEF IInv

LEMMA LoseLogKeeps ==
  ASSUME IInv, LoseLog
  PROVE  IInv'
<1>1. /\ build_log' \in {build_log, unreadable}
      /\ deps_log' \in {deps_log, unreadable}
      /\ UNCHANGED <<lock, marker, outputs, orphans, builds, pc, id,
                     recorded, discovered, loaded, plan, todo, running, failing>>
  BY DEF LoseLog, memory
<1>2. unreadable \notin Log
  BY RecordsAssumption
<1>3. TypeOK' /\ LockInv' /\ MarkerInv' /\ SavedInv' /\ BuiltInv'
  BY <1>1 DEF IInv, TypeOK, LockInv, MarkerInv, SavedInv, LeftOf, BuiltInv
<1>4. MemoryInv'
  BY <1>1, <1>2 DEF IInv, MemoryInv
<1>5. BelievedIsTrue'
  BY <1>1, <1>2, PairsAreBelieved DEF IInv, BelievedIsTrue, Believed
<1>. QED BY <1>1, <1>3, <1>4, <1>5 DEF IInv

(* A log without some of its entries.                                      *)
LEMMA SomeLost ==
  ASSUME NEW f \in Log, NEW g \in WithoutSome(f)
  PROVE  g \in Log /\ \A e \in Edge : g[e] \in {f[e], 0}
BY RecordsAssumption DEF WithoutSome, Log

LEMMA LostTwice ==
  ASSUME NEW f, NEW g \in WithoutSome(f), NEW h \in WithoutSome(g)
  PROVE  h \in WithoutSome(f)
<1>1. PICK a \in SUBSET Edge : g = [e \in Edge |-> IF e \in a THEN f[e] ELSE 0]
  BY DEF WithoutSome
<1>2. PICK b \in SUBSET Edge : h = [e \in Edge |-> IF e \in b THEN g[e] ELSE 0]
  BY DEF WithoutSome
<1>3. h = [e \in Edge |-> IF e \in a \cap b THEN f[e] ELSE 0]
  BY <1>1, <1>2
<1>. QED BY <1>3 DEF WithoutSome

(* What .forge_log has lost is not believed any more.                      *)
LEMMA CutLogKeeps ==
  ASSUME "deps" \notin Cut, IInv, CutLog
  PROVE  IInv'
<1>1. /\ "build" \in Cut /\ build_log \in Log
      /\ build_log' \in WithoutSome(build_log)
      /\ UNCHANGED <<lock, marker, deps_log, outputs, orphans, builds, pc, id,
                     recorded, discovered, loaded, plan, todo, running,
                     failing>>
  BY DEF CutLog, memory
<1>2. build_log' \in Log /\ \A e \in Edge : build_log'[e] \in {build_log[e], 0}
  BY <1>1, SomeLost
<1>3. TypeOK' /\ LockInv' /\ MarkerInv' /\ BuiltInv'
  BY <1>1, <1>2 DEF IInv, TypeOK, LockInv, MarkerInv, BuiltInv
<1>4. MemoryInv'
  BY <1>1 DEF IInv, MemoryInv
<1>5. ASSUME NEW p \in Process, build_log \in LeftOf(recorded[p], "build")
      PROVE  build_log' \in LeftOf(recorded[p], "build")
  <2>1. build_log # unreadable
    BY <1>1, RecordsAssumption
  <2>2. build_log = recorded[p] \/ build_log \in WithoutSome(recorded[p])
    BY <1>5, <2>1 DEF LeftOf
  <2>3. build_log' \in WithoutSome(recorded[p])
    BY <1>1, <2>2, LostTwice
  <2>. QED BY <1>1, <2>3 DEF LeftOf
<1>6. SavedInv'
  BY <1>1, <1>5 DEF IInv, SavedInv
<1>7. BelievedIsTrue'
  <2>1. ASSUME ~marker, deps_log \in Log, NEW e \in Edge
        PROVE  TrueOf(e, build_log', deps_log, outputs[e])
    <3>1. TrueOf(e, build_log, deps_log, outputs[e])
      BY <1>1, <2>1, PairsAreBelieved DEF IInv, BelievedIsTrue, Believed
    <3>. QED BY <1>2, <3>1 DEF TrueOf
  <2>. QED BY <1>1, <2>1 DEF BelievedIsTrue, Believed
<1>. QED BY <1>1, <1>3, <1>4, <1>6, <1>7 DEF IInv

LEMMA InitEstablishes ==
  ASSUME Init
  PROVE  IInv
<1>1. missing \in Output /\ missing.by = 0
  BY RecordsAssumption DEF missing, Output
<1>2. TypeOK
  <2>1. outputs \in [Edge -> Output]
    BY <1>1 DEF Init
  <2>2. recorded \in [Process -> Log] /\ discovered \in [Process -> Log]
    BY NoEntriesIsLog DEF Init
  <2>3. builds \in 0..MaxBuilds /\ id \in [Process -> 0..MaxBuilds]
    BY RecordsAssumption DEF Init
  <2>4. pc \in [Process -> Place]
    BY DEF Init, Place
  <2>. QED BY <2>1, <2>2, <2>3, <2>4 DEF Init, TypeOK
<1>3. LockInv /\ MarkerInv /\ SavedInv /\ MemoryInv
  BY BuildStateAssumption DEF Init, LockInv, MarkerInv, SavedInv, MemoryInv
<1>4. BelievedIsTrue
  BY RecordsAssumption DEF Init, BelievedIsTrue, Believed
<1>5. BuiltInv
  <2>1. \A e \in Edge : outputs[e].by = 0
    BY <1>1 DEF Init
  <2>2. builds = 0 /\ \A p \in Process : pc[p] = "off"
    BY DEF Init
  <2>3. ASSUME NEW e \in Edge PROVE outputs[e].by \in 0..builds
    <3>1. outputs[e].by = 0 /\ builds = 0
      BY <2>1, <2>2
    <3>. QED BY <3>1
  <2>. QED BY <2>2, <2>3 DEF BuiltInv
<1>. QED BY <1>2, <1>3, <1>4, <1>5 DEF Init, IInv

LEMMA StepKeeps ==
  ASSUME ~CommandsOutliveForge, "deps" \notin Cut, IInv, [Next]_vars
  PROVE  IInv'
<1>1. CASE UNCHANGED vars
  BY <1>1 DEF vars, files, memory, IInv, TypeOK, LockInv, MarkerInv, MemoryInv,
              SavedInv, BuiltInv, BelievedIsTrue, Believed
<1>2. CASE \E p \in Process : Step(p)
  BY <1>2, AcquireKeeps, CheckMarkerKeeps, LoadBuildLogKeeps, LoadDepsLogKeeps,
     MakePlanKeeps, CreateMarkerKeeps, GiveUpKeeps, TakeEdgeKeeps,
     CommandWritesKeeps,
     FinishCommandKeeps, RestoreFromCacheKeeps, FailCommandKeeps, EndRunKeeps,
     SaveDepsLogKeeps, SaveBuildLogKeeps, RemoveMarkerKeeps DEF Step
<1>3. CASE Environment
  <2>1. ~OrphanWrites
    BY DEF IInv, OrphanWrites
  <2>. QED BY <1>3, <2>1, KillKeeps, RemoveOutputKeeps, LoseLogKeeps,
             CutLogKeeps DEF Environment
<1>. QED BY <1>1, <1>2, <1>3 DEF Next

-----------------------------------------------------------------------------
(* The inductive invariant holds in every reachable state.                 *)
THEOREM Inductive ==
  ASSUME ~CommandsOutliveForge, "deps" \notin Cut
  PROVE  Spec => []IInv
<1>1. Init => IInv
  BY InitEstablishes
<1>2. IInv /\ [Next]_vars => IInv'
  BY StepKeeps
<1>. QED BY <1>1, <1>2, PTL DEF Spec

(* Type correctness.                                                       *)
THEOREM TypeCorrect ==
  ASSUME ~CommandsOutliveForge, "deps" \notin Cut
  PROVE  Spec => []TypeOK
<1>1. IInv => TypeOK
  BY DEF IInv
<1>. QED BY <1>1, Inductive, PTL

(* At every instant, what the next forge process would believe of the      *)
(* directory is true of it: the commit of the two logs cannot be torn by a *)
(* crash, a failed write, a failed build or a second process.              *)
THEOREM BelievesTheTruth ==
  ASSUME ~CommandsOutliveForge, "deps" \notin Cut
  PROVE  Spec => []BelievedIsTrue
<1>1. IInv => BelievedIsTrue
  BY DEF IInv
<1>. QED BY <1>1, Inductive, PTL

(* A process plans with records that are true of the disk.                 *)
THEOREM PlansTruthfully ==
  ASSUME ~CommandsOutliveForge, "deps" \notin Cut
  PROVE  Spec => []PlansWithTheTruth
<1>1. IInv => PlansWithTheTruth
  BY DEF IInv, LockInv, MemoryInv, PlansWithTheTruth
<1>. QED BY <1>1, Inductive, PTL

(* The lock keeps the commands of two builds apart.                        *)
THEOREM BuildsAlone ==
  ASSUME ~CommandsOutliveForge, "deps" \notin Cut
  PROVE  Spec => []OneBuildWrites
<1>1. IInv => OneBuildWrites
  BY DEF IInv, LockInv, OneBuildWrites
<1>. QED BY <1>1, Inductive, PTL

(* An edge of the plan waits, runs, or has been recorded in this build,    *)
(* until one of them fails.                                                *)
PlanInv ==
  \A p \in Process :
    /\ pc[p] = "create_marker" => plan[p] \subseteq todo[p]
    /\ pc[p] = "run" /\ ~failing[p] =>
         \A e \in plan[p] : \/ e \in todo[p] \/ e \in running[p]
                            \/ recorded[p][e] = id[p]
    /\ pc[p] \in {"save_deps_log", "save_build_log", "remove_marker"} =>
         /\ todo[p] = {} /\ running[p] = {}
         /\ \A e \in plan[p] : recorded[p][e] = id[p]

LEMMA PlanKept == ASSUME TypeOK, PlanInv, [Next]_vars PROVE PlanInv'
<1>. USE DEF PlanInv
<1>1. CASE UNCHANGED vars
  BY <1>1 DEF vars, files, memory
<1>2. ASSUME NEW p \in Process, Step(p) PROVE PlanInv'
  <2>1. CASE Acquire(p) \/ CheckMarker(p)
    BY <2>1 DEF TypeOK, Acquire, CheckMarker, Go, files, memory
  <2>2. CASE LoadBuildLog(p) \/ LoadDepsLog(p)
    BY <2>2 DEF TypeOK, LoadBuildLog, LoadDepsLog, Go, files
  <2>3. CASE MakePlan(p)
    BY <2>3 DEF TypeOK, MakePlan, Go, files
  <2>4. CASE CreateMarker(p)
    BY <2>4 DEF TypeOK, CreateMarker, Go
  <2>5. CASE GiveUp(p) \/ RemoveMarker(p)
    BY <2>5 DEF TypeOK, GiveUp, RemoveMarker, Leave, Go, files
  <2>6. ASSUME NEW e \in Edge, TakeEdge(p, e) PROVE PlanInv'
    BY <2>6 DEF TypeOK, TakeEdge, files
  <2>7. ASSUME NEW e \in Edge, CommandWrites(p, e) PROVE PlanInv'
    BY <2>7 DEF CommandWrites, files, memory
  <2>8. ASSUME NEW e \in Edge, FinishCommand(p, e) PROVE PlanInv'
    BY <2>8 DEF TypeOK, FinishCommand, files, Log
  <2>9. ASSUME NEW e \in Edge, RestoreFromCache(p, e) PROVE PlanInv'
    BY <2>9 DEF TypeOK, RestoreFromCache, files, Log
  <2>10. ASSUME NEW e \in Edge, FailCommand(p, e) PROVE PlanInv'
    BY <2>10 DEF TypeOK, FailCommand, files
  <2>11. CASE EndRun(p)
    BY <2>11 DEF TypeOK, EndRun, Succeeded, Leave, Go, files, memory
  <2>12. CASE SaveDepsLog(p) \/ SaveBuildLog(p)
    BY <2>12 DEF TypeOK, SaveDepsLog, SaveBuildLog, Go, memory
  <2>. QED BY <1>2, <2>1, <2>2, <2>3, <2>4, <2>5, <2>6, <2>7, <2>8, <2>9,
              <2>10, <2>11, <2>12 DEF Step
<1>3. ASSUME NEW p \in Process, Kill(p) PROVE PlanInv'
  BY <1>3 DEF TypeOK, Kill, Leave, Go, files
<1>4. CASE OrphanWrites \/ LoseLog \/ CutLog
  BY <1>4 DEF OrphanWrites, LoseLog, CutLog, files, memory
<1>5. ASSUME NEW e \in Edge, RemoveOutput(e) PROVE PlanInv'
  BY <1>5 DEF RemoveOutput, files, memory
<1>. QED BY <1>1, <1>2, <1>3, <1>4, <1>5 DEF Next, Environment

LEMMA RecordsThePlan ==
  ASSUME ~CommandsOutliveForge, "deps" \notin Cut
  PROVE  Spec => []PlanInv
<1>1. Init => PlanInv
  BY DEF Init, PlanInv
<1>2. TypeOK /\ PlanInv /\ [Next]_vars => PlanInv'
  BY PlanKept
<1>. QED BY <1>1, <1>2, TypeCorrect, PTL DEF Spec

(* The marker is removed only when every edge of the plan was recorded by  *)
(* the build that is committed, and over logs that say no more and, but    *)
(* for what .forge_log has lost since, no less than its memory.            *)
THEOREM CommitsInFull ==
  ASSUME ~CommandsOutliveForge, "deps" \notin Cut
  PROVE  Spec => CommitsTheBuild
<1>1. ASSUME IInv, PlanInv, [Next]_vars, NEW p \in Process,
             marker, ~marker', lock = p
      PROVE  /\ todo[p] = {} /\ running[p] = {}
             /\ \A e \in plan[p] : recorded[p][e] = id[p]
             /\ build_log \in LeftOf(recorded[p], "build")
             /\ deps_log \in LeftOf(discovered[p], "deps")
  <2>1. PICK q \in Process : RemoveMarker(q)
    <3>1. ~UNCHANGED vars /\ ~Environment
      BY <1>1 DEF vars, files, Environment, Kill, OrphanWrites, RemoveOutput,
         LoseLog, CutLog
    <3>2. PICK q \in Process : Step(q)
      BY <1>1, <3>1 DEF Next
    <3>3. ~\E e \in Edge : \/ TakeEdge(q, e) \/ CommandWrites(q, e)
                          \/ FinishCommand(q, e) \/ RestoreFromCache(q, e)
                          \/ FailCommand(q, e)
      BY <1>1 DEF files, TakeEdge, CommandWrites, FinishCommand,
         RestoreFromCache, FailCommand
    <3>4. ~(\/ Acquire(q) \/ CheckMarker(q) \/ LoadBuildLog(q)
            \/ LoadDepsLog(q) \/ MakePlan(q) \/ GiveUp(q) \/ EndRun(q))
      BY <1>1 DEF files, Acquire, CheckMarker, LoadBuildLog, LoadDepsLog,
         MakePlan, GiveUp, EndRun
    <3>5. ~(CreateMarker(q) \/ SaveDepsLog(q) \/ SaveBuildLog(q))
      BY <1>1 DEF CreateMarker, Marked, SaveDepsLog, SaveBuildLog
    <3>. QED BY <3>2, <3>3, <3>4, <3>5 DEF Step
  <2>2. q = p /\ pc[p] = "remove_marker"
    BY <1>1, <2>1 DEF IInv, LockInv, RemoveMarker
  <2>3. deps_log \in {discovered[p], unreadable}
    BY <1>1, <2>2 DEF IInv, SavedInv
  <2>4. build_log \in LeftOf(recorded[p], "build")
    BY <1>1, <2>2 DEF IInv, SavedInv
  <2>. QED BY <1>1, <2>2, <2>3, <2>4 DEF PlanInv, LeftOf
<1>2. IInv /\ PlanInv /\ [Next]_vars =>
        [ \A p \in Process : marker /\ ~marker' /\ lock = p =>
            /\ todo[p] = {} /\ running[p] = {}
            /\ \A e \in plan[p] : recorded[p][e] = id[p]
            /\ build_log \in LeftOf(recorded[p], "build")
            /\ deps_log \in LeftOf(discovered[p], "deps") ]_vars
  BY <1>1
<1>. QED BY <1>2, Inductive, RecordsThePlan, PTL DEF Spec, CommitsTheBuild

-----------------------------------------------------------------------------
(* The refinement of TrustedState.                                         *)

LEMMA StepMaps ==
  ASSUME ~CommandsOutliveForge, "deps" \notin Cut, IInv, [Next]_vars
  PROVE  [State!Next]_(State!vars)
<1>1. CASE \/ UNCHANGED vars
           \/ \E p \in Process :
                \/ Acquire(p) \/ CheckMarker(p) \/ LoadBuildLog(p)
                \/ LoadDepsLog(p) \/ MakePlan(p) \/ GiveUp(p) \/ EndRun(p)
                \/ Kill(p)
                \/ \E e \in Edge : TakeEdge(p, e) \/ FailCommand(p, e)
  <2>1. UNCHANGED <<marker, build_log, deps_log, outputs>>
    BY <1>1 DEF vars, files, Acquire, CheckMarker, LoadBuildLog, LoadDepsLog,
       MakePlan, GiveUp, EndRun, Kill, TakeEdge, FailCommand
  <2>. QED BY <2>1 DEF Believed, State!vars
<1>2. CASE \E p \in Process : CreateMarker(p)
  <2>1. Believed' = nothing /\ outputs' = outputs
    BY <1>2 DEF CreateMarker, Marked, Believed
  <2>. QED BY <2>1 DEF State!Next, State!Distrust
<1>3. ASSUME NEW p \in Process, NEW e \in Edge,
             \/ CommandWrites(p, e) \/ FinishCommand(p, e)
             \/ RestoreFromCache(p, e)
      PROVE  State!Next
  <2>1. marker /\ UNCHANGED <<marker, build_log, deps_log>>
    BY <1>3 DEF IInv, LockInv, MarkerInv, CommandWrites, FinishCommand,
       RestoreFromCache, files
  <2>2. Believed = nothing /\ Believed' = nothing
    BY <2>1 DEF Believed
  <2>3. PICK o : outputs' = [outputs EXCEPT ![e] = o]
    BY <1>3 DEF CommandWrites, FinishCommand, RestoreFromCache
  <2>4. o \in Output
    <3>1. IInv'
      BY <1>3, CommandWritesKeeps, FinishCommandKeeps, RestoreFromCacheKeeps
    <3>2. outputs \in [Edge -> Output] /\ outputs' \in [Edge -> Output]
      BY <3>1 DEF IInv, TypeOK
    <3>3. outputs'[e] = o
      BY <2>3, <3>2
    <3>. QED BY <3>2, <3>3
  <2>5. State!Output = Output
    BY DEF State!Output, Output
  <2>. QED BY <2>2, <2>3, <2>4, <2>5 DEF State!Next, State!Write
<1>4. CASE \E p \in Process : SaveDepsLog(p) \/ SaveBuildLog(p)
  <2>1. marker /\ UNCHANGED <<marker, outputs>>
    BY <1>4 DEF IInv, MarkerInv, SaveDepsLog, SaveBuildLog
  <2>. QED BY <2>1 DEF Believed, State!vars
<1>5. ASSUME NEW p \in Process, RemoveMarker(p)
      PROVE  [State!Next]_(State!vars)
  <2>1. /\ marker /\ ~marker' /\ UNCHANGED <<build_log, deps_log, outputs>>
    BY <1>5 DEF IInv, MarkerInv, RemoveMarker
  <2>2. Believed = nothing
    BY <2>1 DEF Believed
  <2>3. CASE build_log \in Log /\ deps_log \in Log
    <3>1. Believed' = <<build_log, deps_log>> /\ Believed' # nothing
      BY <2>1, <2>3, PairsAreBelieved DEF Believed
    <3>2. \A e \in Edge : TrueOf(e, build_log, deps_log, outputs[e])
      BY <1>5, <2>1, <3>1, RemoveMarkerKeeps DEF IInv, BelievedIsTrue
    <3>3. /\ State!Log = Log
          /\ \A e \in Edge :
               State!TrueOf(e, build_log, deps_log, outputs[e])
                 <=> TrueOf(e, build_log, deps_log, outputs[e])
      BY DEF State!Log, Log, State!TrueOf, TrueOf
    <3>. QED BY <2>1, <2>2, <2>3, <3>1, <3>2, <3>3 DEF State!Next, State!Commit
  <2>4. CASE ~(build_log \in Log /\ deps_log \in Log)
    BY <2>1, <2>2, <2>4 DEF Believed, State!vars
  <2>. QED BY <2>3, <2>4
<1>6. CASE Environment /\ ~\E p \in Process : Kill(p)
  <2>1. CASE \E e \in Edge : RemoveOutput(e)
    <3>1. Believed' = Believed
      BY <2>1 DEF RemoveOutput, files, Believed
    <3>2. State!missing = missing
      BY DEF State!missing, missing
    <3>. QED BY <2>1, <3>1, <3>2 DEF RemoveOutput, State!Next, State!Remove
  <2>2. CASE LoseLog
    <3>1. UNCHANGED <<marker, outputs>>
      BY <2>2 DEF LoseLog
    <3>2. Believed' = Believed \/ Believed' = nothing
      BY <2>2, <3>1, RecordsAssumption DEF LoseLog, Believed
    <3>. QED BY <3>1, <3>2 DEF State!Next, State!Distrust, State!vars
  <2>3. CASE CutLog
    <3>1. /\ UNCHANGED <<marker, deps_log, outputs>> /\ build_log \in Log
          /\ build_log' \in WithoutSome(build_log)
      BY <2>3 DEF CutLog
    <3>2. /\ build_log' \in Log
          /\ \A e \in Edge : build_log'[e] \in {build_log[e], 0}
      BY <3>1, SomeLost
    <3>3. CASE ~marker /\ deps_log \in Log
      <4>1. Believed = <<build_log, deps_log>>
        BY <3>1, <3>3 DEF Believed
      <4>2. Believed' = <<build_log', deps_log>>
        BY <3>1, <3>2, <3>3 DEF Believed
      <4>3. State!Forget(build_log, deps_log)
        BY <3>1, <3>2, <4>1, <4>2 DEF State!Forget, State!Log, Log
      <4>4. build_log \in State!Log /\ deps_log \in State!Log
        BY <3>1, <3>3 DEF State!Log, Log
      <4>. QED BY <4>3, <4>4 DEF State!Next
    <3>4. CASE ~(~marker /\ deps_log \in Log)
      BY <3>1, <3>4 DEF Believed, State!vars
    <3>. QED BY <3>3, <3>4
  <2>4. ~OrphanWrites
    BY DEF IInv, OrphanWrites
  <2>. QED BY <1>6, <2>1, <2>2, <2>3, <2>4 DEF Environment
<1>. QED BY <1>1, <1>2, <1>3, <1>4, <1>5, <1>6 DEF Next, Step, Environment

(* main() implements the atomic, truthful state of TrustedState.           *)
THEOREM RefinesTrustedState ==
  ASSUME ~CommandsOutliveForge, "deps" \notin Cut
  PROVE  Spec => ImplementsTrustedState
<1>1. Init => State!Init
  BY RecordsAssumption DEF Init, Believed, State!Init, State!missing, missing
<1>2. IInv /\ [Next]_vars => [State!Next]_(State!vars)
  BY StepMaps
<1>. QED BY <1>1, <1>2, Inductive, PTL
        DEF Spec, ImplementsTrustedState, State!Spec

-----------------------------------------------------------------------------
(* A half-written output of the last build, whether or not the commands of *)
(* a killed forge die with it.  What a command without its forge writes    *)
(* belongs to a build that has not removed its marker and never will.      *)
Building == {"run", "save_deps_log", "save_build_log", "remove_marker"}

PartialInv ==
  /\ builds \in Nat /\ DOMAIN outputs = Edge
  /\ DOMAIN pc = Process /\ DOMAIN id = Process
  /\ DOMAIN running = Process /\ DOMAIN failing = Process
  /\ \A e \in Edge : outputs[e].by \in 0..builds
  /\ \A p \in Process :
       /\ pc[p] # "off" <=> lock = p
       /\ running[p] # {} => pc[p] = "run"
       /\ failing[p] => pc[p] = "run"
       /\ pc[p] \in Building => /\ marker /\ id[p] = builds /\ builds > 0
       /\ pc[p] \in Building /\ ~failing[p] =>
            \A e \in Edge : \/ e \in running[p]
                            \/ outputs[e].by = builds => outputs[e].whole
  /\ \A o \in orphans :
       /\ o[1] \in 0..builds
       /\ o[1] = builds => marker /\ \A p \in Process : pc[p] \notin Building
  /\ PartialIsMarked

LEMMA PartialKept == ASSUME PartialInv, [Next]_vars PROVE PartialInv'
<1>. USE DEF PartialInv, PartialIsMarked, Building
<1>1. CASE UNCHANGED vars
  BY <1>1 DEF vars, files, memory
<1>2. ASSUME NEW p \in Process, Step(p) PROVE PartialInv'
  <2>1. CASE Acquire(p)
    BY <2>1, BuildStateAssumption DEF Acquire, LockFree, Go, files, memory
  <2>2. CASE CheckMarker(p)
    BY <2>2 DEF CheckMarker, Go, files, memory
  <2>3. CASE LoadBuildLog(p) \/ LoadDepsLog(p) \/ MakePlan(p)
    BY <2>3 DEF LoadBuildLog, LoadDepsLog, MakePlan, Go, files
  <2>4. CASE CreateMarker(p)
    BY <2>4 DEF CreateMarker, Marked, Go
  <2>5. CASE GiveUp(p) \/ EndRun(p)
    BY <2>5, BuildStateAssumption
       DEF GiveUp, EndRun, Succeeded, Leave, Go, files, memory
  <2>6. ASSUME NEW e \in Edge, TakeEdge(p, e) PROVE PartialInv'
    BY <2>6 DEF TakeEdge, files
  <2>7. ASSUME NEW e \in Edge, CommandWrites(p, e) PROVE PartialInv'
    BY <2>7 DEF CommandWrites, files, memory
  <2>8. ASSUME NEW e \in Edge, FinishCommand(p, e) PROVE PartialInv'
    BY <2>8 DEF FinishCommand, files
  <2>9. ASSUME NEW e \in Edge, RestoreFromCache(p, e) PROVE PartialInv'
    BY <2>9 DEF RestoreFromCache, files
  <2>10. ASSUME NEW e \in Edge, FailCommand(p, e) PROVE PartialInv'
    BY <2>10 DEF FailCommand, files
  <2>11. CASE SaveDepsLog(p) \/ SaveBuildLog(p)
    BY <2>11 DEF SaveDepsLog, SaveBuildLog, Go, memory
  <2>12. CASE RemoveMarker(p)
    BY <2>12, BuildStateAssumption DEF RemoveMarker, Leave, Go
  <2>. QED BY <1>2, <2>1, <2>2, <2>3, <2>4, <2>5, <2>6, <2>7, <2>8, <2>9,
              <2>10, <2>11, <2>12 DEF Step
<1>3. ASSUME NEW p \in Process, Kill(p) PROVE PartialInv'
  BY <1>3, BuildStateAssumption DEF Kill, Leave, Go, files
<1>4. CASE OrphanWrites
  BY <1>4 DEF OrphanWrites, files, memory
<1>5. ASSUME NEW e \in Edge, RemoveOutput(e) PROVE PartialInv'
  BY <1>5, RecordsAssumption DEF RemoveOutput, missing, files, memory
<1>6. CASE LoseLog \/ CutLog
  BY <1>6 DEF LoseLog, CutLog, memory
<1>. QED BY <1>1, <1>2, <1>3, <1>4, <1>5, <1>6 DEF Next, Environment

(* A half-written output of the last build is never believed: the marker   *)
(* is there, even when a command outlives the forge that started it.       *)
THEOREM PartialsAreMarked == Spec => []PartialIsMarked
<1>1. Init => PartialInv
  BY BuildStateAssumption
     DEF Init, PartialInv, PartialIsMarked, Building, missing
<1>2. PartialInv /\ [Next]_vars => PartialInv'
  BY PartialKept
<1>3. PartialInv => PartialIsMarked
  BY DEF PartialInv
<1>. QED BY <1>1, <1>2, <1>3, PTL DEF Spec

=============================================================================
