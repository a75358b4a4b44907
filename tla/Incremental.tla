---------------------------- MODULE Incremental -----------------------------
(***************************************************************************)
(* What an incremental build leaves on disk: the dirty analysis of Builder *)
(* (src/src/builder.cpp), Executor::execute_edge (src/src/executor.cpp)    *)
(* with the two logs and the local cache, and a user who edits between     *)
(* and during the builds.                                                  *)
(*                                                                         *)
(* A source has a text; an output is known by what it was made from.       *)
(* Hashes and paths do not collide, and the commands of two edges differ,  *)
(* because they name files.  A time stamp is known by the files that were  *)
(* written later, so the clock moves with every write.  One forge runs at  *)
(* a time, its commands die with it, and a failed or interrupted run       *)
(* leaves no log that is believed (see BuildState).                        *)
(***************************************************************************)
EXTENDS BuildGraph

CONSTANTS
  Text,           (* what a source may say                                 *)
  Includes,       (* Includes[n][t]: the sources that n names if it says t *)
  Discovering,    (* edges with a depfile                                  *)
  Command,        (* the commands the manifest may give an edge            *)
  Compiler,       (* compiler identities                                   *)
  partial,        (* a file that a command did not finish                  *)
  nothing,        (* no entry in a log, no command that runs, no file      *)
  EditsWhileRead, (* sources change while a command reads them             *)
  InstallsInRun,  (* the compiler is replaced between commands of a run    *)
  MaxChanges      (* bound: how often something changes                    *)

Product == UNION {Outputs[e] : e \in Edge}
Source == Node \ Product

(* Only an edge with a depfile may read more than its inputs, it has one   *)
(* output, and what it includes is not generated.                          *)
ASSUME IncrementalAssumption ==
  /\ Includes \in [Source -> [Text -> SUBSET Source]]
  /\ Discovering \subseteq Edge
  /\ \A e \in Edge \ Discovering, n \in Source, t \in Text :
       n \in Inputs[e] => Includes[n][t] = {}
  /\ \A e \in Discovering : \E n \in Node : Outputs[e] = {n}
  /\ nothing \notin Command \cup Compiler
  /\ \A D \in SUBSET Node : D # nothing
  /\ {EditsWhileRead, InstallsInRun} \subseteq BOOLEAN /\ MaxChanges \in Nat

VARIABLES
  existing,   (* the files that exist                                      *)
  content,    (* what each file holds                                      *)
  newer,      (* newer[o]: the files written after the output o            *)
  command,    (* Edge::command() of the manifest                           *)
  compiler,   (* the identity of the compiler that is installed            *)
  build_log,  (* BuildLog: the command that made an edge's outputs         *)
  deps_log,   (* DepsLog: what the depfile of an edge said                 *)
  cache,      (* LocalCache: the object of every key                       *)
  phase,      (* what forge does, or that it has just succeeded            *)
  closure,    (* the edges of the targets of the run                       *)
  plan, done, (* the edges to run and those that succeeded                 *)
  reading,    (* reading[e]: what the running command of e has read        *)
  identity,   (* CompilerIdentityCache: what it knows of the compiler      *)
  calm,       (* nothing has changed since the run began                   *)
  changes     (* changes so far                                            *)

disk == <<existing, content, newer>>
manifest == <<command, compiler>>
logs == <<build_log, deps_log>>
run == <<closure, plan>>
vars ==
  <<disk, manifest, logs, cache, phase, run, done, reading, identity, calm,
    changes>>

Running == {e \in Edge : reading[e] # nothing}
NoEntries == [e \in Edge |-> nothing]

Init ==
  /\ existing = Source
  /\ \E text \in [Source -> Text] :
       content = [n \in Node |-> IF n \in Source THEN text[n] ELSE nothing]
  /\ newer = [o \in Product |-> {}]
  /\ command \in [Edge -> Command] /\ compiler \in Compiler
  /\ build_log = NoEntries /\ deps_log = NoEntries /\ cache = <<>>
  /\ phase = "idle" /\ closure = {} /\ plan = {} /\ done = {}
  /\ reading = NoEntries /\ identity = nothing
  /\ calm = TRUE /\ changes = 0

-----------------------------------------------------------------------------
(* Writing the files N; removing the file n, which is newer than no other  *)
(* from then on (what an output that is gone is older than, nobody asks).  *)
Touched(N) == [o \in Product |-> IF o \in N THEN {} ELSE newer[o] \cup N]
Removed(n) == [o \in Product |-> IF o = n THEN {} ELSE newer[o] \ {n}]
Holding(N, what) == [n \in Node |-> IF n \in N THEN what ELSE content[n]]

(* The files a command of e opens: its inputs and what they include.       *)
Named(n) == IF n \in Source \cap existing THEN Includes[n][content[n]] ELSE {}
Reads(e) ==
  {n \in Node :
     \A S \in SUBSET Node :
       Inputs[e] \subseteq S /\ (\A m \in S : Named(m) \subseteq S) => n \in S}

Contents(N) == [n \in N |-> content[n]]

(* What the command c of e, run by the compiler k, makes of what it read.  *)
Result(e, c, k, files) ==
  [edge |-> e, command |-> c, compiler |-> k, files |-> files]

-----------------------------------------------------------------------------
(* The user.                                                               *)
Unread(n) == EditsWhileRead \/ \A e \in Running : n \notin DOMAIN reading[e]

Active == phase \in {"running", "failing"}

Change ==
  /\ changes < MaxChanges
  /\ changes' = changes + 1
  /\ IF Active THEN calm' = FALSE /\ UNCHANGED <<phase, closure>>
               ELSE calm' = TRUE /\ phase' = "idle" /\ closure' = {}

Edit(n, t) ==
  /\ n \in Source /\ Unread(n)
  /\ Change
  /\ existing' = existing \cup {n}
  /\ content' = Holding({n}, t) /\ newer' = Touched({n})
  /\ UNCHANGED <<manifest, logs, cache, plan, done, reading, identity>>

Remove(n) ==
  /\ n \in existing /\ Unread(n)
  /\ Change
  /\ existing' = existing \ {n}
  /\ content' = Holding({n}, nothing) /\ newer' = Removed(n)
  /\ UNCHANGED <<manifest, logs, cache, plan, done, reading, identity>>

(* Forge reads the manifest when it starts; it changes between runs only.  *)
EditManifest(e, c) ==
  /\ ~Active
  /\ c # command[e]
  /\ Change
  /\ command' = [command EXCEPT ![e] = c]
  /\ UNCHANGED <<disk, compiler, logs, cache, plan, done, reading, identity>>

(* A compiler that works is not replaced.                                  *)
InstallCompiler(k) ==
  /\ InstallsInRun \/ ~Active
  /\ Running = {}
  /\ k # compiler
  /\ Change
  /\ compiler' = k
  /\ UNCHANGED <<disk, command, logs, cache, plan, done, reading, identity>>

-----------------------------------------------------------------------------
(* The dirty analysis.                                                     *)
FileStateReason(e) ==
  \/ ~(Outputs[e] \cup Inputs[e] \subseteq existing)
  \/ \E i \in Inputs[e], o \in Outputs[e] : i \in newer[o]

CommandChangeReason(e) == build_log[e] # command[e]

(* Mutant: a dependency that is gone gives no reason.                      *)
NewerDependency(e) ==
  /\ deps_log[e] # nothing
  /\ \E d \in deps_log[e] \ Inputs[e] : \E o \in Outputs[e] : d \in newer[o]
DynamicDependencyReason(e) ==
  /\ deps_log[e] # nothing
  /\ \E d \in deps_log[e] \ Inputs[e] :
       d \notin existing \/ \E o \in Outputs[e] : d \in newer[o]

Stale(e) ==
  FileStateReason(e) \/ CommandChangeReason(e) \/ DynamicDependencyReason(e)

(* The edges the targets T need, and the dirty ones among C: least sets,   *)
(* as Planning shows.  Mutant: dirt leaves C.                              *)
Closure(T) ==
  {e \in Edge :
     \A S \in SUBSET Edge :
       /\ \A p \in Edge : Outputs[p] \cap T # {} => p \in S
       /\ \A d \in S : Producers(d) \subseteq S
       => e \in S}
DirtyAnywhere(C) ==
  {e \in Edge :
     \A S \in SUBSET Edge :
       /\ \A p \in C : Stale(p) => p \in S
       /\ \A p \in S : Dependents(p) \subseteq S
       => e \in S}
Dirty(C) ==
  {e \in C :
     \A S \in SUBSET C :
       /\ \A p \in C : Stale(p) => p \in S
       /\ \A p \in S : Dependents(p) \cap C \subseteq S
       => e \in S}

StartRun ==
  /\ ~Active
  /\ \E T \in SUBSET (Product) :
       closure' = IF T = {} THEN Edge ELSE Closure(T)
  /\ plan' = Dirty(closure')
  /\ phase' = IF plan' = {} THEN "succeeded" ELSE "running"
  /\ done' = {} /\ calm' = TRUE
  /\ UNCHANGED <<disk, manifest, logs, cache, reading, identity, changes>>

-----------------------------------------------------------------------------
(* execute_edge.                                                           *)
Ready(e) ==
  /\ phase = "running" /\ e \in plan \ (done \cup Running)
  /\ Producers(e) \cap plan \subseteq done

(* The compiler is found in PATH and read once in a run; all workers get   *)
(* what the first one learnt.  That may fail, and is tried again.          *)
Cacheable(e) == e \in Discovering
Identity == IF identity = nothing THEN compiler ELSE identity
Identify(e) == identity' = IF Cacheable(e) THEN Identity ELSE identity
TryToIdentify(e) == Identify(e) \/ UNCHANGED identity

(* A key names the compiler, the command, and the dependencies in the log  *)
(* with their contents; there is none if one of them is gone.  Mutant: the *)
(* contents are left out.                                                  *)
PathsKey(e, deps) ==
  [edge |-> e, command |-> command[e], compiler |-> Identity,
   files |-> [d \in deps |-> d]]
Key(e, deps) == Result(e, command[e], Identity, Contents(deps))
HasKey(deps) == deps # nothing /\ deps \subseteq existing

Recorded(e) == [build_log EXCEPT ![e] = command[e]]

Hit(e) == /\ Cacheable(e) /\ HasKey(deps_log[e])
          /\ Key(e, deps_log[e]) \in DOMAIN cache

(* The object is copied, so the output is as new as the copy.  Mutant: it  *)
(* keeps the time stamp it had.                                            *)
KeptStamp(N) == newer
CopiedStamp(N) == Touched(N)

RestoreFromCache(e) ==
  /\ Ready(e) /\ Hit(e) /\ Identify(e)
  /\ existing' = existing \cup Outputs[e]
  /\ content' = Holding(Outputs[e], cache[Key(e, deps_log[e])])
  /\ newer' = CopiedStamp(Outputs[e])
  /\ build_log' = Recorded(e)
  /\ done' = done \cup {e}
  /\ UNCHANGED <<manifest, deps_log, cache, phase, run>>
  /\ UNCHANGED <<reading, calm, changes>>

(* The cache misses or cannot be read: the command starts.                 *)
RunCommand(e) ==
  /\ Ready(e) /\ TryToIdentify(e)
  /\ Reads(e) \subseteq existing
  /\ reading' = [reading EXCEPT ![e] = Contents(Reads(e))]
  /\ UNCHANGED <<disk, manifest, logs, cache, phase, run, done, calm, changes>>

(* It ends with its outputs written; the depfile lists what it read.  The  *)
(* key is computed now, with the identity known since the command began,   *)
(* and storing the object may fail.  Mutant: the depfile is not recorded.  *)
OldDependencies(e) == deps_log[e]
Dependencies(e) == DOMAIN reading[e]

Made(e) == Result(e, command[e], compiler, reading[e])
Storing(key, made) ==
  [k \in DOMAIN cache \cup {key} |-> IF k = key THEN made ELSE cache[k]]

FinishCommand(e) ==
  /\ e \in Running
  /\ existing' = existing \cup Outputs[e]
  /\ content' = Holding(Outputs[e], Made(e))
  /\ newer' = Touched(Outputs[e])
  /\ deps_log' = IF e \in Discovering
                   THEN [deps_log EXCEPT ![e] = Dependencies(e)] ELSE deps_log
  /\ build_log' = Recorded(e)
  /\ \/ UNCHANGED cache
     \/ /\ Cacheable(e) /\ identity # nothing /\ HasKey(deps_log'[e])
        /\ cache' = Storing(Key(e, deps_log'[e]), Made(e))
  /\ done' = done \cup {e}
  /\ reading' = [reading EXCEPT ![e] = nothing]
  /\ UNCHANGED <<manifest, phase, run, identity, calm, changes>>

(* A command fails, for want of a file or for a reason of its own; it may  *)
(* leave its outputs unfinished.  Nothing starts any more.                 *)
Spoilt(N) == /\ existing' = existing \cup N
             /\ content' = Holding(N, partial) /\ newer' = Touched(N)

FailCommand(e) ==
  /\ \/ e \in Running /\ UNCHANGED identity
     \/ Ready(e) /\ ~(Reads(e) \subseteq existing) /\ TryToIdentify(e)
  /\ \/ UNCHANGED disk
     \/ Spoilt(Outputs[e])
  /\ reading' = [reading EXCEPT ![e] = nothing]
  /\ phase' = "failing"
  /\ UNCHANGED <<manifest, logs, cache, run, done, calm, changes>>

(* The next run has an Executor of its own.                                *)
ForgetIdentity == identity' = nothing

(* The logs of a run that did not succeed are cleared by the next one.     *)
(* Mutant: they are believed.                                              *)
Believed(log) == log
Distrusted(log) == NoEntries

GiveUp ==
  /\ phase' = "idle" /\ closure' = {} /\ calm' = TRUE
  /\ build_log' = Distrusted(build_log) /\ deps_log' = Distrusted(deps_log)

EndRun ==
  /\ Running = {}
  /\ plan' = {} /\ done' = {} /\ ForgetIdentity
  /\ \/ /\ phase = "running" /\ done = plan
        /\ phase' = "succeeded"
        /\ UNCHANGED <<logs, closure, calm>>
     \/ /\ phase = "failing"
        /\ GiveUp
  /\ UNCHANGED <<disk, manifest, cache, reading, changes>>

(* Forge and its commands are killed.                                      *)
Interrupt ==
  /\ Active /\ changes < MaxChanges
  /\ changes' = changes + 1
  /\ LET spoilt == UNION {Outputs[e] : e \in Running} IN
       UNCHANGED disk \/ Spoilt(spoilt)
  /\ GiveUp /\ ForgetIdentity
  /\ reading' = NoEntries /\ plan' = {} /\ done' = {}
  /\ UNCHANGED <<manifest, cache>>

-----------------------------------------------------------------------------
Next ==
  \/ \E n \in Node :
       Remove(n) \/ \E t \in Text : Edit(n, t)
  \/ \E e \in Edge, c \in Command : EditManifest(e, c)
  \/ \E k \in Compiler : InstallCompiler(k)
  \/ StartRun \/ EndRun \/ Interrupt
  \/ \E e \in Edge :
       \/ RestoreFromCache(e) \/ RunCommand(e)
       \/ FinishCommand(e) \/ FailCommand(e)

Spec == Init /\ [][Next]_vars

-----------------------------------------------------------------------------
TypeOK ==
  /\ existing \subseteq Node
  /\ \A n \in Source \cap existing : content[n] \in Text
  /\ newer \in [Product -> SUBSET Node]
  /\ command \in [Edge -> Command] /\ compiler \in Compiler
  /\ identity \in Compiler \cup {nothing}
  /\ build_log \in [Edge -> Command \cup {nothing}]
  /\ deps_log \in [Edge -> (SUBSET Node) \cup {nothing}]
  /\ \A e \in Edge : deps_log[e] # nothing => e \in Discovering
  /\ phase \in {"idle", "running", "failing", "succeeded"}
  /\ plan \subseteq closure /\ closure \subseteq Edge /\ done \subseteq plan
  /\ Running \subseteq plan \ done
  /\ plan # {} => Active
  /\ calm \in BOOLEAN /\ changes \in 0..MaxChanges

(* What e would make today: from the files as they are, with its present   *)
(* command.  Which compiler it was is left open, because a new compiler is *)
(* no reason to build.                                                     *)
Current(e) ==
  /\ Outputs[e] \subseteq existing
  /\ \A o \in Outputs[e] : \E k \in Compiler :
       content[o] = Result(e, command[e], k, Contents(Reads(e)))

(* After a build that succeeds undisturbed, every output of the targets'   *)
(* closure is what a build from nothing would make, although most of them  *)
(* were not built again, or came from the cache; whatever was edited, lost *)
(* or interrupted before, also during other builds.                        *)
UpToDate == phase = "succeeded" /\ calm => \A e \in closure : Current(e)

(* Doing the same build again plans nothing.                               *)
NothingLeftToDo == phase = "succeeded" /\ calm => Dirty(closure) = {}

(* A cache hit is what the command would make: what is filed under the key *)
(* that the log and the files give now is what the present command of the  *)
(* edge, run by the present compiler, would make of all it reads.          *)
CacheHitsAreRight ==
  \A e \in Edge :
    Hit(e) => cache[Key(e, deps_log[e])] =
                Result(e, command[e], compiler, Contents(Reads(e)))

(* The same of the hits that a worker is about to take.                    *)
RestoresAreRight ==
  \A e \in Edge :
    Ready(e) /\ Hit(e) => cache[Key(e, deps_log[e])] =
                            Result(e, command[e], compiler, Contents(Reads(e)))

=============================================================================
