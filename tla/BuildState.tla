----------------------------- MODULE BuildState -----------------------------
(***************************************************************************)
(* The life of forge processes in one build directory (main() of           *)
(* src/src/main.cpp): the directory lock, the marker .forge_in_progress,   *)
(* the two logs .forge_log and .forge_deps, and the outputs the commands   *)
(* write.  A process may be killed between any two steps; files are        *)
(* damaged or removed behind its back.                                     *)
(*                                                                         *)
(* Replacing a file is one step, because atomic_write_file renames a       *)
(* finished temporary file into place.  A log may lose its end afterwards  *)
(* (CutLog).  Loss of power is else outside the model: nothing is fsynced, *)
(* so what a disk keeps of several renames is not up to the program.       *)
(***************************************************************************)
EXTENDS BuildRecords

CONSTANTS
  Process,               (* forge processes; each may be started again     *)
  nobody,                (* the lock is free                               *)
  CommandsOutliveForge,  (* a killed process leaves its commands running   *)
  Cut                    (* the logs that may lose their end and still     *)
                         (* load: "build", "deps"                          *)

ASSUME BuildStateAssumption ==
  /\ nobody \notin Process /\ CommandsOutliveForge \in BOOLEAN
  /\ Cut \subseteq {"build", "deps"}

VARIABLES
  lock,         (* the owner of the flock on .forge_lock                   *)
  marker,       (* .forge_in_progress exists                               *)
  build_log,    (* .forge_log  : a log, or unreadable                      *)
  deps_log,     (* .forge_deps : likewise                                  *)
  outputs,      (* the outputs of each edge                                *)
  orphans,      (* <<build, edge>>: commands whose forge was killed        *)
  builds,       (* builds that have begun to run                           *)
  pc,           (* where each process is in main(); "off": not running     *)
  id,           (* the build it runs                                       *)
  recorded,     (* its BuildLog in memory                                  *)
  discovered,   (* its DepsLog in memory                                   *)
  loaded,       (* .forge_log was loaded                                   *)
  plan,         (* the edges of its plan                                   *)
  todo,         (* those that have not begun                               *)
  running,      (* those being executed                                    *)
  failing       (* some edge has failed                                    *)

files == <<marker, build_log, deps_log>>
memory == <<id, recorded, discovered, loaded, plan, todo, running, failing>>
vars == <<lock, files, outputs, orphans, builds, pc, memory>>

Init ==
  /\ lock = nobody
  /\ marker = FALSE /\ build_log = unreadable /\ deps_log = unreadable
  /\ outputs = [e \in Edge |-> missing]
  /\ orphans = {} /\ builds = 0
  /\ pc = [p \in Process |-> "off"]
  /\ id = [p \in Process |-> 0]
  /\ recorded = [p \in Process |-> NoEntries]
  /\ discovered = [p \in Process |-> NoEntries]
  /\ loaded = [p \in Process |-> FALSE]
  /\ plan = [p \in Process |-> {}]
  /\ todo = [p \in Process |-> {}] /\ running = [p \in Process |-> {}]
  /\ failing = [p \in Process |-> FALSE]

-----------------------------------------------------------------------------
Go(p, step) == pc' = [pc EXCEPT ![p] = step]

(* The process is gone: its lock is dropped and its memory forgotten.      *)
Leave(p) ==
  /\ Go(p, "off") /\ lock' = nobody
  /\ id' = [id EXCEPT ![p] = 0]
  /\ recorded' = [recorded EXCEPT ![p] = NoEntries]
  /\ discovered' = [discovered EXCEPT ![p] = NoEntries]
  /\ loaded' = [loaded EXCEPT ![p] = FALSE]
  /\ plan' = [plan EXCEPT ![p] = {}]
  /\ todo' = [todo EXCEPT ![p] = {}]
  /\ running' = [running EXCEPT ![p] = {}]
  /\ failing' = [failing EXCEPT ![p] = FALSE]

(* try_acquire().  A process that finds the lock taken returns at once,    *)
(* with nothing changed.  Mutant: the result of flock is not looked at.    *)
AnyLock(p) == TRUE
LockFree(p) == lock = nobody

Acquire(p) ==
  /\ pc[p] = "off" /\ LockFree(p)
  /\ lock' = p
  /\ Go(p, "check_marker")
  /\ UNCHANGED <<files, outputs, orphans, builds, memory>>

(* An uncommitted build is not believed: no log is loaded.                 *)
CheckMarker(p) ==
  /\ pc[p] = "check_marker"
  /\ Go(p, IF marker THEN "plan" ELSE "load_build_log")
  /\ UNCHANGED <<lock, files, outputs, orphans, builds, memory>>

(* BuildLog::load fills the log only from a readable file.  Mutant: from   *)
(* any file.                                                               *)
ReadAnything(log) == TRUE
Readable(log) == log \in Log

LoadBuildLog(p) ==
  /\ pc[p] = "load_build_log"
  /\ \/ /\ Readable(build_log)
        /\ recorded' = [recorded EXCEPT ![p] = build_log]
        /\ loaded' = [loaded EXCEPT ![p] = TRUE]
     \/ UNCHANGED <<recorded, loaded>>              (* not Ok, or IoError  *)
  /\ Go(p, "load_deps_log")
  /\ UNCHANGED <<lock, files, outputs, orphans, builds, id, discovered, plan,
                 todo, running, failing>>

(* DepsLog::load, and the decision: both logs or neither.  Mutant: a log   *)
(* that could be read is kept although the other could not.                *)
KeepReadable(p, ok) == loaded[p]
BothLoaded(p, ok) == loaded[p] /\ ok

LoadDepsLog(p) ==
  /\ pc[p] = "load_deps_log"
  /\ \E ok \in BOOLEAN :                              (* FALSE: not Ok    *)
       /\ ok => Readable(deps_log)
       /\ recorded' = [recorded EXCEPT
                        ![p] = IF BothLoaded(p, ok) THEN @ ELSE NoEntries]
       /\ discovered' = [discovered EXCEPT
                          ![p] = IF BothLoaded(p, ok) /\ ok THEN deps_log
                                                            ELSE NoEntries]
  /\ Go(p, "plan")
  /\ UNCHANGED <<lock, files, outputs, orphans, builds, id, loaded, plan,
                 todo, running, failing>>

(* Builder::build: of the edges some targets need, at least those without  *)
(* a record or without an output are planned; others may be dirty for      *)
(* reasons of time stamps.                                                 *)
MakePlan(p) ==
  /\ pc[p] = "plan"
  /\ \E closure \in SUBSET Edge :
       \E dirty \in (SUBSET closure) \ {{}} :
         /\ {e \in closure : recorded[p][e] = 0 \/ outputs[e].by = 0}
              \subseteq dirty
         /\ plan' = [plan EXCEPT ![p] = dirty]
         /\ todo' = [todo EXCEPT ![p] = dirty]
  /\ Go(p, "create_marker")
  /\ UNCHANGED <<lock, files, outputs, orphans, builds, id, recorded,
                 discovered, loaded, running, failing>>

(* The marker is on disk before the first command runs.  Mutant: that its  *)
(* write failed goes unnoticed.                                            *)
MarkerOrNot == marker
Marked == TRUE

CreateMarker(p) ==
  /\ pc[p] = "create_marker" /\ builds < MaxBuilds
  /\ marker' = Marked
  /\ builds' = builds + 1
  /\ id' = [id EXCEPT ![p] = builds + 1]
  /\ Go(p, "run")
  /\ UNCHANGED <<lock, build_log, deps_log, outputs, orphans, recorded,
                 discovered, loaded, plan, todo, running, failing>>

(* The ways out of main() other than through a commit: the plan is empty   *)
(* or cannot be made, or a file cannot be written or removed, which then   *)
(* stays as it was.                                                        *)
GiveUp(p) ==
  /\ pc[p] \in {"plan", "create_marker", "save_deps_log", "save_build_log",
                "remove_marker"}
  /\ Leave(p)
  /\ UNCHANGED <<files, outputs, orphans, builds>>

-----------------------------------------------------------------------------
(* scheduler.run(plan), as far as the disk and the logs can tell: several  *)
(* edges at a time, in any order.                                          *)

(* A worker takes an edge whose turn it is.                                *)
TakeEdge(p, e) ==
  /\ pc[p] = "run" /\ e \in todo[p] /\ ~failing[p]
  /\ todo' = [todo EXCEPT ![p] = @ \ {e}]
  /\ running' = [running EXCEPT ![p] = @ \cup {e}]
  /\ UNCHANGED <<lock, files, outputs, orphans, builds, pc, id, recorded,
                 discovered, loaded, plan, failing>>

(* Its command overwrites the outputs, if it is run and comes that far.    *)
CommandWrites(p, e) ==
  /\ pc[p] = "run" /\ e \in running[p]
  /\ outputs' = [outputs EXCEPT
                  ![e] = [by |-> id[p], ran |-> id[p], whole |-> FALSE]]
  /\ UNCHANGED <<lock, files, orphans, builds, pc, memory>>

(* It ends with status 0: the depfile and the outputs are recorded.        *)
FinishCommand(p, e) ==
  /\ pc[p] = "run" /\ e \in running[p]
  /\ running' = [running EXCEPT ![p] = @ \ {e}]
  /\ outputs' = [outputs EXCEPT
                  ![e] = [by |-> id[p], ran |-> id[p], whole |-> TRUE]]
  /\ recorded' = [recorded EXCEPT ![p][e] = id[p]]
  /\ discovered' = IF e \in Discovering
                     THEN [discovered EXCEPT ![p][e] = id[p]] ELSE discovered
  /\ UNCHANGED <<lock, files, orphans, builds, pc, id, loaded, plan, todo,
                 failing>>

(* A cache hit: the output is renamed into place, recorded in BuildLog     *)
(* alone; the dependencies that made the key stay those of the log.        *)
RestoreFromCache(p, e) ==
  /\ pc[p] = "run" /\ e \in running[p]
  /\ e \in Discovering /\ discovered[p][e] # 0
  /\ running' = [running EXCEPT ![p] = @ \ {e}]
  /\ outputs' = [outputs EXCEPT
                  ![e] = [by |-> id[p], ran |-> discovered[p][e],
                          whole |-> TRUE]]
  /\ recorded' = [recorded EXCEPT ![p][e] = id[p]]
  /\ UNCHANGED <<lock, files, orphans, builds, pc, id, discovered, loaded,
                 plan, todo, failing>>

(* It cannot be started, or ends with another status, or without one of    *)
(* its outputs or its depfile.                                             *)
FailCommand(p, e) ==
  /\ pc[p] = "run" /\ e \in running[p]
  /\ running' = [running EXCEPT ![p] = @ \ {e}]
  /\ failing' = [failing EXCEPT ![p] = TRUE]
  /\ UNCHANGED <<lock, files, outputs, orphans, builds, pc, id, recorded,
                 discovered, loaded, plan, todo>>

(* run() returns when no command runs any more; after a failure main()     *)
(* returns too, and the marker stays.  Mutant: the result is not tested.   *)
CommitAnyway(p) == TRUE
Succeeded(p) == ~failing[p]

EndRun(p) ==
  /\ pc[p] = "run" /\ running[p] = {}
  /\ failing[p] \/ todo[p] = {}
  /\ IF Succeeded(p) THEN Go(p, "save_deps_log") /\ UNCHANGED <<lock, memory>>
                     ELSE Leave(p)
  /\ UNCHANGED <<files, outputs, orphans, builds>>

-----------------------------------------------------------------------------
(* The commit: two renames and the removal of the marker.                  *)

SaveDepsLog(p) ==
  /\ pc[p] = "save_deps_log"
  /\ deps_log' = discovered[p]
  /\ Go(p, "save_build_log")
  /\ UNCHANGED <<lock, marker, build_log, outputs, orphans, builds, memory>>

SaveBuildLog(p) ==
  /\ pc[p] = "save_build_log"
  /\ build_log' = recorded[p]
  /\ Go(p, "remove_marker")
  /\ UNCHANGED <<lock, marker, deps_log, outputs, orphans, builds, memory>>

RemoveMarker(p) ==
  /\ pc[p] = "remove_marker"
  /\ marker' = FALSE
  /\ Leave(p)
  /\ UNCHANGED <<build_log, deps_log, outputs, orphans, builds>>

-----------------------------------------------------------------------------
(* The process dies: the kernel drops the lock, and the commands that ran  *)
(* die with it (Ctrl-C reaches the whole process group) or run on (the     *)
(* signal was sent to forge alone).                                        *)
Kill(p) ==
  /\ pc[p] # "off"
  /\ Leave(p)
  /\ orphans' = IF CommandsOutliveForge
                  THEN orphans \cup {id[p]} \X running[p]
                  ELSE orphans
  /\ UNCHANGED <<files, outputs, builds>>

(* A command without its forge goes on writing, to its end or not.         *)
OrphanWrites ==
  \E o \in orphans, whole \in BOOLEAN :
    /\ outputs' = [outputs EXCEPT
                    ![o[2]] = [by |-> o[1], ran |-> o[1], whole |-> whole]]
    /\ orphans' = orphans \ {o}
    /\ UNCHANGED <<lock, files, builds, pc, memory>>

(* The user cleans up, or a disk error or another version of forge leaves  *)
(* a log that cannot be read.                                              *)
RemoveOutput(e) ==
  /\ outputs' = [outputs EXCEPT ![e] = missing]
  /\ UNCHANGED <<lock, files, orphans, builds, pc, memory>>

LoseLog ==
  /\ \/ build_log' = unreadable /\ UNCHANGED deps_log
     \/ deps_log' = unreadable /\ UNCHANGED build_log
  /\ UNCHANGED <<lock, marker, outputs, orphans, builds, pc, memory>>

(* A log loses its end, and the part that is left loads: what load() does  *)
(* with such a file, LogFile says.  An entry that was cut counts as lost.  *)
WithoutSome(log) == {[e \in Edge |-> IF e \in left THEN log[e] ELSE 0] :
                       left \in SUBSET Edge}

CutLog ==
  /\ \/ /\ "build" \in Cut /\ build_log \in Log
        /\ build_log' \in WithoutSome(build_log) /\ UNCHANGED deps_log
     \/ /\ "deps" \in Cut /\ deps_log \in Log
        /\ deps_log' \in WithoutSome(deps_log) /\ UNCHANGED build_log
  /\ UNCHANGED <<lock, marker, outputs, orphans, builds, pc, memory>>

-----------------------------------------------------------------------------
Step(p) ==
  \/ Acquire(p) \/ CheckMarker(p) \/ LoadBuildLog(p) \/ LoadDepsLog(p)
  \/ MakePlan(p) \/ CreateMarker(p) \/ GiveUp(p)
  \/ \E e \in Edge : \/ TakeEdge(p, e) \/ CommandWrites(p, e)
                     \/ FinishCommand(p, e) \/ RestoreFromCache(p, e)
                     \/ FailCommand(p, e)
  \/ EndRun(p) \/ SaveDepsLog(p) \/ SaveBuildLog(p) \/ RemoveMarker(p)

Environment ==
  \/ \E p \in Process : Kill(p)
  \/ OrphanWrites
  \/ \E e \in Edge : RemoveOutput(e)
  \/ LoseLog \/ CutLog

Next == (\E p \in Process : Step(p)) \/ Environment

Spec == Init /\ [][Next]_vars

-----------------------------------------------------------------------------
Place == {"off", "check_marker", "load_build_log", "load_deps_log", "plan",
          "create_marker", "run", "save_deps_log", "save_build_log",
          "remove_marker"}

TypeOK ==
  /\ lock \in Process \cup {nobody}
  /\ marker \in BOOLEAN
  /\ build_log \in Log \cup {unreadable}
  /\ deps_log \in Log \cup {unreadable}
  /\ outputs \in [Edge -> Output]
  /\ orphans \subseteq Build \X Edge
  /\ builds \in 0..MaxBuilds
  /\ pc \in [Process -> Place]
  /\ id \in [Process -> 0..MaxBuilds]
  /\ recorded \in [Process -> Log] /\ discovered \in [Process -> Log]
  /\ loaded \in [Process -> BOOLEAN] /\ failing \in [Process -> BOOLEAN]
  /\ plan \in [Process -> SUBSET Edge]
  /\ todo \in [Process -> SUBSET Edge] /\ running \in [Process -> SUBSET Edge]

(* What a forge process that started now would believe.                    *)
Believed ==
  IF ~marker /\ build_log \in Log /\ deps_log \in Log
    THEN <<build_log, deps_log>> ELSE nothing

(* What the next process will believe is true of the disk: every record    *)
(* names the complete output that is there, with the dependencies of the   *)
(* command that produced it, at every instant, whatever was interrupted    *)
(* and whatever .forge_log has lost.  (Not so .forge_deps: an entry that   *)
(* is lost there reads like an edge that depends on nothing.)              *)
BelievedIsTrue ==
  Believed # nothing =>
    \A e \in Edge : TrueOf(e, build_log, deps_log, outputs[e])

(* A process plans with records that are true of the disk, although it     *)
(* looked at the marker and at the two logs one after the other.           *)
PlansWithTheTruth ==
  \A p \in Process :
    pc[p] \in {"plan", "create_marker"} =>
      \A e \in Edge : TrueOf(e, recorded[p], discovered[p], outputs[e])

(* The commands that may be writing outputs all belong to one build: two   *)
(* forge processes never modify the outputs of a directory together.       *)
OneBuildWrites ==
  \A b, c \in {id[p] : p \in {q \in Process : running[q] # {}}}
                \cup {o[1] : o \in orphans} : b = c

(* An output that the last build left half-written is never believed, even *)
(* when its command may still finish it: the marker is there.              *)
PartialIsMarked ==
  \A e \in Edge : outputs[e].by = builds /\ builds > 0 /\ ~outputs[e].whole
                    => marker

(* What may be on disk of a log that was saved.                            *)
LeftOf(log, kind) ==
  {log, unreadable} \cup (IF kind \in Cut THEN WithoutSome(log) ELSE {})

(* Only a whole build is committed: when the marker goes, the process that *)
(* removes it has recorded in this build every edge that it planned, none  *)
(* is left or still running; and the logs on disk are its own, but for     *)
(* what a file has lost since it was saved.                                *)
CommitsTheBuild ==
  [][ \A p \in Process : marker /\ ~marker' /\ lock = p =>
        /\ todo[p] = {} /\ running[p] = {}
        /\ \A e \in plan[p] : recorded[p][e] = id[p]
        /\ build_log \in LeftOf(recorded[p], "build")
        /\ deps_log \in LeftOf(discovered[p], "deps") ]_vars

(* The directory keeps the promise of TrustedState.                        *)
State == INSTANCE TrustedState WITH believed <- Believed
ImplementsTrustedState == State!Spec

=============================================================================
