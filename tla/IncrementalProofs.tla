------------------------- MODULE IncrementalProofs --------------------------
(***************************************************************************)
(* Incremental builds are right for every graph, if no source changes      *)
(* while a command reads it and no compiler is replaced during a build.    *)
(***************************************************************************)
EXTENDS Incremental, TLAPS

(* f is all that e reads when the files hold what f says: its inputs and   *)
(* what they include, and nothing else.                                    *)
IncludedBy(f, S) ==
  \A m \in S \cap Source : Includes[m][f[m]] \subseteq S
Closed(e, f) ==
  /\ f = [n \in DOMAIN f |-> f[n]]
  /\ Inputs[e] \subseteq DOMAIN f /\ DOMAIN f \subseteq Node
  /\ \A m \in DOMAIN f \cap Source : f[m] \in Text
  /\ IncludedBy(f, DOMAIN f)
  /\ \A S \in SUBSET DOMAIN f :
       Inputs[e] \subseteq S /\ IncludedBy(f, S) => S = DOMAIN f

(* A running command has read the files as they are.                       *)
ReadInv ==
  /\ reading = [e \in Edge |-> reading[e]]
  /\ \A e \in Running : /\ Closed(e, reading[e])
                        /\ reading[e] = Contents(DOMAIN reading[e])
                        /\ DOMAIN reading[e] \subseteq existing

(* An object is what its key describes.                                    *)
CacheInv ==
  \A key \in DOMAIN cache : /\ cache[key] = key
                            /\ key.edge \in Edge
                            /\ Closed(key.edge, key.files)

(* What the logs say of an output that exists is how it was made; a file   *)
(* it was made from is as it was, is newer, or is gone.                    *)
MadeAsLogged(e, o) ==
  /\ \E k \in Compiler :
       content[o] = Result(e, build_log[e], k, content[o].files)
  /\ Closed(e, content[o].files)
  /\ e \in Discovering => deps_log[e] = DOMAIN content[o].files
  /\ \A n \in DOMAIN content[o].files :
       n \in newer[o] \/ n \notin existing \/ content[n] = content[o].files[n]
LogInv ==
  phase # "failing" =>
    \A e \in Edge : build_log[e] # nothing =>
      \A o \in Outputs[e] \cap existing : MadeAsLogged(e, o)

DepsInv ==
  \A e \in Edge :
    deps_log[e] # nothing => deps_log[e] \subseteq Inputs[e] \cup Source

(* A plan has the readers of what it builds, and runs them later.          *)
PlanInv ==
  /\ \A e \in closure \ plan : Producers(e) \cap plan = {}
  /\ \A e \in Running \cup done : Producers(e) \cap plan \subseteq done

(* What is not waiting for its turn is not stale.                          *)
FreshInv ==
  calm /\ phase \in {"running", "succeeded"} =>
    \A e \in closure \ (plan \ done) : ~Stale(e)

(* What a run knows of the compiler is so.                                 *)
IdentityInv ==
  identity \in {nothing, compiler} /\ (~Active => identity = nothing)

IInv == /\ TypeOK /\ ReadInv /\ CacheInv /\ LogInv /\ DepsInv
        /\ PlanInv /\ FreshInv /\ IdentityInv
-----------------------------------------------------------------------------
(* What a command reads.                                                   *)

LEMMA Files ==
  /\ \A e \in Edge : Inputs[e] \subseteq Node /\ Outputs[e] \subseteq Product
  /\ Product \subseteq Node /\ Source \subseteq Node
  /\ \A e \in Edge : \A o \in Outputs[e] : o \in Product /\ o \in Node
  /\ Product \cap Source = {}
  /\ \A d, e \in Edge : d # e => Outputs[d] \cap Outputs[e] = {}
BY GraphAssumption DEF Product, Source

(* If the files hold what f says, e reads what f names.                    *)
LEMMA ReadsAgree ==
  ASSUME NEW e \in Edge, NEW f, Closed(e, f),
         \A n \in DOMAIN f : n \in existing /\ content[n] = f[n]
  PROVE  Reads(e) = DOMAIN f /\ Contents(DOMAIN f) = f
<1>1. ASSUME NEW n \in Reads(e) PROVE n \in DOMAIN f
  <2>1. DOMAIN f \in SUBSET Node /\ Inputs[e] \subseteq DOMAIN f
    BY DEF Closed
  <2>2. \A m \in DOMAIN f : Named(m) \subseteq DOMAIN f
    BY DEF Closed, IncludedBy, Named
  <2>. QED BY <2>1, <2>2, <1>1 DEF Reads
<1>2. ASSUME NEW n \in DOMAIN f PROVE n \in Reads(e)
  <2>1. SUFFICES ASSUME NEW S \in SUBSET Node, Inputs[e] \subseteq S,
                        \A m \in S : Named(m) \subseteq S
                 PROVE  n \in S
    BY <1>2 DEF Reads, Closed
  <2>2. Inputs[e] \subseteq S \cap DOMAIN f
    BY <2>1 DEF Closed
  <2>3. IncludedBy(f, S \cap DOMAIN f)
    <3>1. SUFFICES ASSUME NEW m \in S \cap DOMAIN f, m \in Source
                   PROVE  Includes[m][f[m]] \subseteq S \cap DOMAIN f
      BY DEF IncludedBy
    <3>2. Includes[m][f[m]] = Named(m)
      BY <3>1 DEF Named
    <3>. QED BY <2>1, <3>1, <3>2 DEF Closed, IncludedBy
  <2>4. S \cap DOMAIN f = DOMAIN f
    BY <2>2, <2>3 DEF Closed
  <2>. QED BY <1>2, <2>4
<1>3. Contents(DOMAIN f) = f
  BY DEF Closed, Contents
<1>. QED BY <1>1, <1>2, <1>3

LEMMA ReadsClosed ==
  ASSUME TypeOK, NEW e \in Edge, Reads(e) \subseteq existing
  PROVE  Closed(e, Contents(Reads(e)))
<1>. DEFINE f == Contents(Reads(e))
<1>1. /\ DOMAIN f = Reads(e) /\ f = [n \in DOMAIN f |-> f[n]]
      /\ \A n \in Reads(e) : f[n] = content[n]
  BY DEF Contents
<1>2. Inputs[e] \subseteq Reads(e) /\ Reads(e) \subseteq Node
  BY Files DEF Reads
<1>3. \A m \in Reads(e) \cap Source : f[m] \in Text
  BY <1>1 DEF TypeOK
<1>4. \A m \in Reads(e) : Named(m) \subseteq Reads(e)
  <2>1. ASSUME NEW m \in Reads(e), NEW n \in Named(m) PROVE n \in Reads(e)
    <3>1. n \in Node
      BY IncrementalAssumption, Files DEF Named, TypeOK
    <3>. QED BY <2>1, <3>1 DEF Reads
  <2>. QED BY <2>1
<1>5. \A m \in Reads(e) \cap Source : Named(m) = Includes[m][f[m]]
  BY <1>1 DEF Named
<1>6. IncludedBy(f, Reads(e))
  BY <1>4, <1>5 DEF IncludedBy
<1>7. ASSUME NEW S \in SUBSET Reads(e), Inputs[e] \subseteq S, IncludedBy(f, S)
      PROVE  S = Reads(e)
  <2>1. \A m \in S : Named(m) \subseteq S
    BY <1>5, <1>7 DEF IncludedBy, Named
  <2>2. S \in SUBSET Node
    BY <1>2
  <2>. QED BY <1>7, <2>1, <2>2 DEF Reads
<1>. QED BY <1>1, <1>2, <1>3, <1>6, <1>7 DEF Closed

(* Beyond its inputs an edge reads sources, and only if it has a depfile.  *)
LEMMA ReadsKnown ==
  ASSUME NEW e \in Edge, NEW f, Closed(e, f)
  PROVE  /\ DOMAIN f \subseteq Inputs[e] \cup Source
         /\ e \notin Discovering => DOMAIN f = Inputs[e]
<1>. DEFINE S == DOMAIN f \cap (Inputs[e] \cup Source)
<1>1. IncludedBy(f, S)
  <2>1. SUFFICES ASSUME NEW m \in S, m \in Source
                 PROVE  Includes[m][f[m]] \subseteq S
    BY DEF IncludedBy
  <2>2. f[m] \in Text /\ Includes[m][f[m]] \subseteq DOMAIN f
    BY <2>1 DEF Closed, IncludedBy
  <2>3. Includes[m][f[m]] \subseteq Source
    BY <2>1, <2>2, IncrementalAssumption
  <2>. QED BY <2>2, <2>3
<1>2. Inputs[e] \subseteq S /\ S \in SUBSET DOMAIN f
  BY DEF Closed
<1>3. S = DOMAIN f
  BY <1>1, <1>2 DEF Closed
<1>4. ASSUME e \notin Discovering PROVE DOMAIN f = Inputs[e]
  <2>1. IncludedBy(f, Inputs[e])
    <3>1. SUFFICES ASSUME NEW m \in Inputs[e], m \in Source
                   PROVE  Includes[m][f[m]] \subseteq Inputs[e]
      BY DEF IncludedBy
    <3>2. f[m] \in Text
      BY <3>1 DEF Closed
    <3>. QED BY <1>4, <3>1, <3>2, IncrementalAssumption
  <2>. QED BY <2>1 DEF Closed
<1>. QED BY <1>3, <1>4

(* An edge whose producers have run does not read what is yet to be built. *)
LEMMA NotYetWritten ==
  ASSUME NEW e \in Edge, NEW p \in plan \ done, p \in Edge,
         NEW f, Closed(e, f),
         Producers(e) \cap plan \subseteq done
  PROVE  Outputs[p] \cap DOMAIN f = {}
<1>1. Outputs[p] \cap Inputs[e] = {}
  BY DEF Producers
<1>. QED BY <1>1, ReadsKnown, Files

-----------------------------------------------------------------------------
(* An output that is not stale is what its edge would make today.          *)
LEMMA FreshIsMade ==
  ASSUME TypeOK, LogInv, phase # "failing", NEW e \in Edge, ~Stale(e),
         NEW o \in Outputs[e]
  PROVE  /\ o \in existing /\ build_log[e] = command[e] /\ MadeAsLogged(e, o)
         /\ \A n \in DOMAIN content[o].files :
              n \in existing /\ content[n] = content[o].files[n]
<1>. DEFINE f == content[o].files
<1>1. /\ o \in existing /\ Inputs[e] \subseteq existing
      /\ \A i \in Inputs[e] : i \notin newer[o]
      /\ build_log[e] = command[e]
  BY DEF Stale, FileStateReason, CommandChangeReason
<1>2. command[e] # nothing
  BY IncrementalAssumption DEF TypeOK
<1>3. MadeAsLogged(e, o)
  BY <1>1, <1>2 DEF LogInv
<1>4. Closed(e, f)
  BY <1>3 DEF MadeAsLogged
<1>5. ASSUME NEW n \in DOMAIN f PROVE n \in existing /\ n \notin newer[o]
  <2>1. CASE n \in Inputs[e]
    BY <1>1, <2>1
  <2>2. CASE n \notin Inputs[e]
    <3>1. e \in Discovering
      BY <1>4, <1>5, <2>2, ReadsKnown
    <3>2. deps_log[e] = DOMAIN f /\ DOMAIN f \subseteq Node
      BY <1>3, <1>4, <3>1 DEF MadeAsLogged, Closed
    <3>3. deps_log[e] # nothing
      BY <3>2, IncrementalAssumption
    <3>. QED BY <1>5, <2>2, <3>2, <3>3 DEF Stale, DynamicDependencyReason
  <2>. QED BY <2>1, <2>2
<1>6. \A n \in DOMAIN f : content[n] = f[n]
  BY <1>3, <1>5 DEF MadeAsLogged
<1>. QED BY <1>1, <1>3, <1>5, <1>6

LEMMA FreshIsCurrent ==
  ASSUME TypeOK, LogInv, phase # "failing", NEW e \in Edge, ~Stale(e)
  PROVE  Current(e)
<1>1. Outputs[e] \subseteq existing
  BY FreshIsMade
<1>2. ASSUME NEW o \in Outputs[e]
      PROVE  \E k \in Compiler :
               content[o] = Result(e, command[e], k, Contents(Reads(e)))
  <2>. DEFINE f == content[o].files
  <2>1. /\ build_log[e] = command[e] /\ MadeAsLogged(e, o)
        /\ \A n \in DOMAIN f : n \in existing /\ content[n] = f[n]
    BY <1>2, FreshIsMade
  <2>2. Closed(e, f)
    BY <2>1 DEF MadeAsLogged
  <2>3. Contents(Reads(e)) = f
    BY <2>1, <2>2, ReadsAgree
  <2>4. PICK k \in Compiler : content[o] = Result(e, build_log[e], k, f)
    BY <2>1 DEF MadeAsLogged
  <2>. QED BY <2>1, <2>3, <2>4
<1>. QED BY <1>1, <1>2 DEF Current

LEMMA HitIsRight ==
  ASSUME CacheInv, IdentityInv, NEW e \in Edge, Hit(e)
  PROVE  cache[Key(e, deps_log[e])] =
           Result(e, command[e], compiler, Contents(Reads(e)))
<1>. DEFINE D == deps_log[e]  key == Key(e, D)
<1>1. key \in DOMAIN cache /\ D \subseteq existing
  BY DEF Hit, HasKey
<1>2. key.edge = e /\ key.files = Contents(D)
  BY DEF Key, Result
<1>3. cache[key] = key /\ Closed(e, Contents(D))
  BY <1>1, <1>2 DEF CacheInv
<1>4. /\ DOMAIN Contents(D) = D
      /\ \A n \in D : Contents(D)[n] = content[n]
  BY DEF Contents
<1>5. Reads(e) = D
  BY <1>1, <1>3, <1>4, ReadsAgree
<1>6. Identity = compiler
  BY DEF IdentityInv, Identity
<1>. QED BY <1>3, <1>5, <1>6 DEF Key

-----------------------------------------------------------------------------
(* What survives a change on disk.                                         *)

LEMMA ReadKept ==
  ASSUME ReadInv, NEW N,
         \A e \in Running' : /\ e \in Running /\ reading'[e] = reading[e]
                             /\ N \cap DOMAIN reading[e] = {},
         reading' = [e \in Edge |-> reading'[e]],
         \A n \in Node \ N : content'[n] = content[n],
         existing \ N \subseteq existing'
  PROVE  ReadInv'
<1>1. ASSUME NEW e \in Running'
      PROVE  /\ Closed(e, reading'[e])
             /\ reading'[e] = [n \in DOMAIN reading'[e] |-> content'[n]]
             /\ DOMAIN reading'[e] \subseteq existing'
  <2>1. /\ e \in Running /\ Closed(e, reading[e]) /\ reading'[e] = reading[e]
        /\ N \cap DOMAIN reading[e] = {}
        /\ reading[e] = [n \in DOMAIN reading[e] |-> content[n]]
        /\ DOMAIN reading[e] \subseteq existing
    BY <1>1 DEF ReadInv, Contents
  <2>2. \A n \in DOMAIN reading[e] :
          content'[n] = content[n] /\ n \in existing'
    BY <2>1 DEF Closed
  <2>. QED BY <2>1, <2>2
<1>. QED BY <1>1 DEF ReadInv, Contents

LEMMA LoggedKept ==
  ASSUME NEW e \in Edge, NEW o \in Outputs[e], MadeAsLogged(e, o),
         content'[o] = content[o],
         build_log'[e] = build_log[e], deps_log'[e] = deps_log[e],
         \A n \in Node : \/ n \in newer'[o] \/ n \notin existing'
                         \/ /\ content'[n] = content[n]
                            /\ n \in existing /\ n \notin newer[o]
  PROVE  MadeAsLogged(e, o)'
<1>. DEFINE f == content[o].files
<1>1. DOMAIN f \subseteq Node
  BY DEF MadeAsLogged, Closed
<1>2. \A n \in DOMAIN f :
        n \in newer'[o] \/ n \notin existing' \/ content'[n] = f[n]
  BY <1>1 DEF MadeAsLogged
<1>. QED BY <1>2 DEF MadeAsLogged

(* A producer that has yet to run writes nothing that a fresh edge read.   *)
LEMMA FreshKept ==
  ASSUME TypeOK, DepsInv, PlanInv, NEW p \in plan \ done,
         NEW e \in closure \ (plan \ done), ~Stale(e),
         existing' = existing \cup Outputs[p], newer' = Touched(Outputs[p]),
         command'[e] = command[e],
         build_log'[e] = build_log[e], deps_log'[e] = deps_log[e]
  PROVE  ~Stale(e)'
<1>1. p \in Edge /\ e \in Edge /\ e # p /\ p \notin Producers(e)
  BY DEF TypeOK, PlanInv
<1>2. Outputs[p] \cap Inputs[e] = {} /\ Outputs[p] \cap Outputs[e] = {}
  BY <1>1, Files DEF Producers
<1>3. \A o \in Outputs[e] : newer'[o] = newer[o] \cup Outputs[p]
  BY <1>1, <1>2, Files DEF Touched
<1>4. Outputs[p] \cap Source = {}
  BY <1>1, Files
<1>5. ~FileStateReason(e)'
  BY <1>2, <1>3 DEF Stale, FileStateReason
<1>6. ~CommandChangeReason(e)'
  BY DEF Stale, CommandChangeReason
<1>7. ~DynamicDependencyReason(e)'
  BY <1>1, <1>3, <1>4 DEF Stale, DynamicDependencyReason, DepsInv
<1>. QED BY <1>5, <1>6, <1>7 DEF Stale

-----------------------------------------------------------------------------
(* An edge p has been built, by its command or from the cache.             *)
Builds(p, f) ==
  /\ existing' = existing \cup Outputs[p]
  /\ content' = Holding(Outputs[p], Result(p, command[p], compiler, f))
  /\ newer' = Touched(Outputs[p])
  /\ build_log' = Recorded(p)
  /\ deps_log' = IF p \in Discovering
                   THEN [deps_log EXCEPT ![p] = DOMAIN f] ELSE deps_log
  /\ done' = done \cup {p}
  /\ UNCHANGED <<manifest, phase, run, calm>>

Built(p, f) ==
  /\ p \in plan \ done /\ Producers(p) \cap plan \subseteq done
  /\ Closed(p, f) /\ f = Contents(DOMAIN f) /\ DOMAIN f \subseteq existing
  /\ Builds(p, f)

LEMMA BuiltLogs ==
  ASSUME IInv, NEW p \in Edge, NEW f, Built(p, f)
  PROVE  LogInv' /\ DepsInv'
<1>. USE DEF IInv, Built, Builds
<1>1. ASSUME phase' # "failing", NEW e \in Edge, build_log'[e] # nothing,
             NEW o \in Outputs[e] \cap existing'
      PROVE  MadeAsLogged(e, o)'
  <2>1. CASE e = p
    <3>1. content'[o] = Result(p, command[p], compiler, f)
      BY <2>1, <1>1, Files DEF Holding
    <3>2. content'[o].files = f
      BY <3>1 DEF Result
    <3>3. build_log'[p] = command[p]
      BY DEF Recorded, TypeOK
    <3>4. p \in Discovering => deps_log'[p] = DOMAIN f
      BY DEF TypeOK
    <3>5. \A n \in DOMAIN f : content'[n] = f[n]
      <4>1. Outputs[p] \cap DOMAIN f = {}
        BY NotYetWritten
      <4>2. \A n \in DOMAIN f : n \in Node /\ f[n] = content[n]
        BY DEF Closed, Contents
      <4>. QED BY <4>1, <4>2 DEF Holding
    <3>6. compiler \in Compiler
      BY DEF TypeOK
    <3>. QED BY <2>1, <3>1, <3>2, <3>3, <3>4, <3>5, <3>6 DEF MadeAsLogged
  <2>2. CASE e # p
    <3>1. Outputs[e] \cap Outputs[p] = {}
      BY <2>2, Files
    <3>2. build_log'[e] = build_log[e] /\ deps_log'[e] = deps_log[e]
      BY <2>2 DEF Recorded, TypeOK
    <3>3. o \in existing /\ content'[o] = content[o]
          /\ newer'[o] = newer[o] \cup Outputs[p]
      BY <1>1, <3>1, Files DEF Holding, Touched
    <3>4. MadeAsLogged(e, o)
      BY <1>1, <3>2, <3>3 DEF LogInv
    <3>5. \A n \in Node \ Outputs[p] :
            content'[n] = content[n] /\ (n \in existing' => n \in existing)
      BY DEF Holding
    <3>. QED BY <3>2, <3>3, <3>4, <3>5, LoggedKept
  <2>. QED BY <2>1, <2>2
<1>2. DepsInv'
  <2>1. DOMAIN f \subseteq Inputs[p] \cup Source
    BY ReadsKnown
  <2>. QED BY <2>1 DEF DepsInv, TypeOK
<1>. QED BY <1>1, <1>2 DEF LogInv

LEMMA BuiltFresh ==
  ASSUME IInv, NEW p \in Edge, NEW f, Built(p, f)
  PROVE  FreshInv'
<1>. USE DEF IInv, Built, Builds, run, manifest
<1>1. SUFFICES ASSUME calm', phase' \in {"running", "succeeded"},
                      NEW e \in closure \ (plan \ done')
               PROVE  ~Stale(e)'
  BY DEF FreshInv
<1>2. CASE e # p
  <2>1. e \in closure \ (plan \ done) /\ ~Stale(e) /\ e \in Edge
    BY <1>1, <1>2 DEF FreshInv, TypeOK
  <2>2. build_log'[e] = build_log[e] /\ deps_log'[e] = deps_log[e]
    BY <1>2, <2>1 DEF Recorded, TypeOK
  <2>. QED BY <2>1, <2>2, FreshKept
<1>3. CASE e = p
  <2>1. \A o \in Outputs[p] : newer'[o] = {}
    BY Files DEF Touched
  <2>2. Inputs[p] \subseteq existing
    BY DEF Closed
  <2>3. build_log'[p] = command'[p]
    BY DEF Recorded, TypeOK
  <2>4. deps_log'[p] # nothing => deps_log'[p] = DOMAIN f
    BY DEF TypeOK
  <2>5. ~FileStateReason(p)'
    BY <2>1, <2>2 DEF FileStateReason
  <2>6. ~DynamicDependencyReason(p)'
    BY <2>1, <2>4 DEF DynamicDependencyReason
  <2>. QED BY <1>3, <2>3, <2>5, <2>6 DEF Stale, CommandChangeReason
<1>. QED BY <1>2, <1>3

-----------------------------------------------------------------------------
(* Every action preserves the invariant.                                   *)

LEMMA InitEstablishes == Init => IInv
<1>. SUFFICES ASSUME Init PROVE IInv
  OBVIOUS
<1>1. Running = {}
  BY DEF Init, Running, NoEntries
<1>2. TypeOK
  BY <1>1, IncrementalAssumption, Files DEF Init, TypeOK, NoEntries, Active
<1>3. ReadInv /\ CacheInv /\ LogInv /\ DepsInv /\ PlanInv /\ FreshInv
  BY <1>1 DEF Init, NoEntries, ReadInv, CacheInv, LogInv, DepsInv, PlanInv,
              FreshInv
<1>4. IdentityInv
  BY DEF Init, IdentityInv
<1>. QED BY <1>2, <1>3, <1>4 DEF IInv

(* An edge is not running when forge is not.                               *)
LEMMA Quiet ==
  ASSUME TypeOK, ~Active
  PROVE  plan = {} /\ done = {} /\ Running = {}
BY DEF TypeOK

LEMMA RunningReads ==
  ASSUME IInv, NEW e \in Running
  PROVE  /\ e \in Edge /\ e \in plan \ done
         /\ Producers(e) \cap plan \subseteq done
         /\ Closed(e, reading[e])
         /\ reading[e] = Contents(DOMAIN reading[e])
         /\ DOMAIN reading[e] \subseteq existing
BY DEF IInv, TypeOK, ReadInv, PlanInv, Running

(* Whoever asks for the compiler's identity learns it, or nothing.         *)
LEMMA IdentityLearnt ==
  ASSUME IInv, NEW e, TryToIdentify(e), compiler' = compiler,
         phase = "running", phase' \in {"running", "failing"}
  PROVE  IdentityInv' /\ identity' \in Compiler \cup {nothing}
BY DEF IInv, TypeOK, IdentityInv, TryToIdentify, Identify, Identity, Active

(* What is written by an edge whose turn it is, nobody reads.              *)
LEMMA WritesUnread ==
  ASSUME IInv, NEW p \in plan \ done, p \in Edge, NEW e \in Running
  PROVE  Outputs[p] \cap DOMAIN reading[e] = {}
<1>1. /\ e \in Edge /\ Producers(e) \cap plan \subseteq done
      /\ Closed(e, reading[e])
  BY RunningReads
<1>. QED BY <1>1, NotYetWritten

LEMMA FinishKeeps ==
  ASSUME IInv, NEW e \in Edge, FinishCommand(e)
  PROVE  IInv'
<1>. DEFINE f == reading[e]
<1>1. /\ e \in plan \ done /\ Producers(e) \cap plan \subseteq done
      /\ Closed(e, f) /\ f = Contents(DOMAIN f) /\ DOMAIN f \subseteq existing
  BY RunningReads DEF FinishCommand
<1>2. Builds(e, f)
  BY DEF FinishCommand, Builds, Made, Dependencies
<1>3. LogInv' /\ DepsInv' /\ FreshInv'
  <2>1. Built(e, f)
    BY <1>1, <1>2 DEF Built
  <2>. QED BY <2>1, BuiltLogs, BuiltFresh
<1>4. /\ Running' = Running \ {e}
      /\ \A d \in Running' : reading'[d] = reading[d]
      /\ reading' = [d \in Edge |-> reading'[d]]
  BY DEF FinishCommand, IInv, ReadInv, Running
<1>5. ReadInv'
  <2>1. \A d \in Running' : /\ d \in Running /\ reading'[d] = reading[d]
                            /\ Outputs[e] \cap DOMAIN reading[d] = {}
    BY <1>1, <1>4, WritesUnread
  <2>2. /\ \A n \in Node \ Outputs[e] : content'[n] = content[n]
        /\ existing \ Outputs[e] \subseteq existing'
    BY <1>2 DEF Builds, Holding
  <2>. QED BY <1>4, <2>1, <2>2, ReadKept DEF IInv
<1>6. CacheInv'
  <2>1. CASE UNCHANGED cache
    BY <2>1 DEF IInv, CacheInv
  <2>2. CASE /\ Cacheable(e)
             /\ cache' = Storing(Key(e, deps_log'[e]), Made(e))
    <3>1. deps_log'[e] = DOMAIN f
      BY <1>2, <2>2 DEF Builds, Cacheable, IInv, TypeOK
    <3>2. Key(e, deps_log'[e]) = Made(e)
      BY <1>1, <3>1 DEF Key, Made, Identity, IdentityInv, IInv
    <3>3. Made(e).edge = e /\ Made(e).files = f
      BY DEF Made, Result
    <3>. QED BY <1>1, <2>2, <3>2, <3>3 DEF IInv, CacheInv, Storing
  <2>. QED BY <2>1, <2>2 DEF FinishCommand
<1>7. PlanInv'
  BY <1>1, <1>2, <1>4 DEF IInv, PlanInv, Builds, run, Producers
<1>8. TypeOK'
  <2>1. \A n \in Source \cap existing' : content'[n] \in Text
    BY <1>2, Files DEF IInv, TypeOK, Builds, Holding
  <2>2. newer' \in [Product -> SUBSET Node]
    BY <1>2, Files DEF IInv, TypeOK, Builds, Touched
  <2>3. /\ build_log' \in [Edge -> Command \cup {nothing}]
        /\ deps_log' \in [Edge -> (SUBSET Node) \cup {nothing}]
        /\ \A d \in Edge : deps_log'[d] # nothing => d \in Discovering
    BY <1>1, <1>2 DEF IInv, TypeOK, Builds, Recorded, Closed
  <2>. QED BY <1>1, <1>2, <1>4, <2>1, <2>2, <2>3, Files
           DEF IInv, TypeOK, Builds, FinishCommand, manifest, run, Active
<1>9. IdentityInv'
  BY DEF IInv, IdentityInv, Active, FinishCommand, manifest
<1>. QED BY <1>3, <1>5, <1>6, <1>7, <1>8, <1>9 DEF IInv

LEMMA RestoreKeeps ==
  ASSUME IInv, NEW e \in Edge, RestoreFromCache(e)
  PROVE  IInv'
<1>. DEFINE D == deps_log[e]  f == Contents(D)  key == Key(e, D)
<1>1. /\ e \in plan \ done /\ Producers(e) \cap plan \subseteq done
      /\ e \in Discovering /\ key \in DOMAIN cache /\ D \subseteq existing
  BY DEF RestoreFromCache, Ready, Hit, HasKey, Cacheable
<1>2. key.edge = e /\ key.files = f
  BY DEF Key, Result
<1>3. cache[key] = key /\ Closed(e, f)
  BY <1>1, <1>2 DEF IInv, CacheInv
<1>4. DOMAIN f = D /\ f = Contents(DOMAIN f)
  BY DEF Contents
<1>5. Builds(e, f)
  <2>1. deps_log' = [deps_log EXCEPT ![e] = DOMAIN f]
    BY <1>4 DEF RestoreFromCache, IInv, TypeOK
  <2>2. Identity = compiler
    BY DEF IInv, IdentityInv, Identity
  <2>. QED BY <1>1, <1>3, <2>1, <2>2
           DEF RestoreFromCache, Builds, CopiedStamp, Key
<1>6. LogInv' /\ DepsInv' /\ FreshInv'
  <2>1. Built(e, f)
    BY <1>1, <1>3, <1>4, <1>5 DEF Built
  <2>. QED BY <2>1, BuiltLogs, BuiltFresh
<1>7. reading' = reading /\ Running' = Running /\ cache' = cache
  BY DEF RestoreFromCache, Running
<1>8. ReadInv'
  <2>1. \A d \in Running' : /\ d \in Running /\ reading'[d] = reading[d]
                            /\ Outputs[e] \cap DOMAIN reading[d] = {}
    BY <1>1, <1>7, WritesUnread
  <2>2. /\ \A n \in Node \ Outputs[e] : content'[n] = content[n]
        /\ existing \ Outputs[e] \subseteq existing'
        /\ reading' = [d \in Edge |-> reading'[d]]
    BY <1>5, <1>7 DEF Builds, Holding, IInv, ReadInv
  <2>. QED BY <2>1, <2>2, ReadKept DEF IInv
<1>9. CacheInv'
  BY <1>7 DEF IInv, CacheInv
<1>10. PlanInv'
  BY <1>1, <1>5, <1>7 DEF IInv, PlanInv, Builds, run, Producers
<1>11. IdentityInv' /\ identity' \in Compiler \cup {nothing}
  BY IdentityLearnt DEF RestoreFromCache, Ready, manifest, TryToIdentify
<1>12. TypeOK'
  <2>1. \A n \in Source \cap existing' : content'[n] \in Text
    BY <1>5, Files DEF IInv, TypeOK, Builds, Holding
  <2>2. newer' \in [Product -> SUBSET Node]
    BY <1>5, Files DEF IInv, TypeOK, Builds, Touched
  <2>3. Running' \subseteq plan' \ done'
    BY <1>5, <1>7 DEF IInv, TypeOK, Builds, run, RestoreFromCache, Ready
  <2>. QED BY <1>1, <1>5, <1>7, <1>11, <2>1, <2>2, <2>3, Files
           DEF IInv, TypeOK, Builds, Recorded, RestoreFromCache, manifest, run,
               Active
<1>. QED BY <1>6, <1>8, <1>9, <1>10, <1>11, <1>12 DEF IInv

LEMMA RunKeeps ==
  ASSUME IInv, NEW e \in Edge, RunCommand(e)
  PROVE  IInv'
<1>. USE DEF RunCommand, Ready, disk, manifest, logs, run
<1>1. \A d \in Edge : d # e => reading'[d] = reading[d]
  BY DEF IInv, ReadInv
<1>2. /\ reading'[e] = Contents(Reads(e))
      /\ reading' = [d \in Edge |-> reading'[d]]
  BY DEF IInv, ReadInv
<1>3. Running' \subseteq Running \cup {e}
  BY <1>1 DEF Running
<1>4. ReadInv'
  <2>1. /\ Closed(e, reading'[e]) /\ DOMAIN reading'[e] = Reads(e)
        /\ reading'[e] = [n \in DOMAIN reading'[e] |-> content[n]]
    BY <1>2, ReadsClosed DEF IInv, Contents
  <2>2. ASSUME NEW d \in Running', d # e
        PROVE  /\ Closed(d, reading'[d])
               /\ DOMAIN reading'[d] \subseteq existing
               /\ reading'[d] = [n \in DOMAIN reading'[d] |-> content[n]]
    BY <1>1, <1>3, <2>2 DEF IInv, ReadInv, Contents, Running
  <2>. QED BY <1>2, <2>1, <2>2 DEF ReadInv, Contents
<1>5. PlanInv' /\ CacheInv' /\ DepsInv'
  BY <1>3 DEF IInv, PlanInv, CacheInv, DepsInv, Producers
<1>6. LogInv'
  BY DEF IInv, LogInv, MadeAsLogged
<1>7. FreshInv'
  BY DEF IInv, FreshInv, Stale, FileStateReason, CommandChangeReason,
         DynamicDependencyReason
<1>8. IdentityInv' /\ identity' \in Compiler \cup {nothing}
  BY IdentityLearnt
<1>9. TypeOK'
  BY <1>3, <1>8 DEF IInv, TypeOK, Active
<1>. QED BY <1>4, <1>5, <1>6, <1>7, <1>8, <1>9 DEF IInv

(* After a failure only the types and what running commands read matter.   *)
LEMMA FailKeeps ==
  ASSUME IInv, NEW e \in Edge, FailCommand(e)
  PROVE  IInv'
<1>. USE DEF FailCommand, manifest, logs, run
<1>1. e \in plan \ done
  BY RunningReads DEF Ready
<1>2. /\ reading' = [d \in Edge |-> reading'[d]]
      /\ Running' = Running \ {e}
      /\ \A d \in Running' : reading'[d] = reading[d]
  BY DEF IInv, ReadInv, Running
<1>3. /\ \A n \in Node \ Outputs[e] : content'[n] = content[n]
      /\ existing \subseteq existing'
  BY DEF disk, Spoilt, Holding
<1>4. ReadInv'
  <2>1. \A d \in Running' : /\ d \in Running /\ reading'[d] = reading[d]
                            /\ Outputs[e] \cap DOMAIN reading[d] = {}
    BY <1>1, <1>2, WritesUnread
  <2>. QED BY <1>2, <1>3, <2>1, ReadKept DEF IInv
<1>5. LogInv' /\ FreshInv'
  BY DEF LogInv, FreshInv
<1>6. PlanInv' /\ CacheInv' /\ DepsInv'
  BY <1>2 DEF IInv, PlanInv, CacheInv, DepsInv, Producers
<1>7. IdentityInv' /\ identity' \in Compiler \cup {nothing}
  <2>1. CASE e \in Running /\ UNCHANGED identity
    BY <1>1, <2>1 DEF IInv, TypeOK, IdentityInv, Active
  <2>2. CASE Ready(e) /\ TryToIdentify(e)
    BY <2>2, IdentityLearnt DEF Ready
  <2>. QED BY <2>1, <2>2
<1>8. TypeOK'
  <2>1. /\ \A n \in Source \cap existing' : content'[n] \in Text
        /\ existing' \subseteq Node /\ newer' \in [Product -> SUBSET Node]
    BY Files DEF IInv, TypeOK, disk, Spoilt, Holding, Touched
  <2>. QED BY <1>2, <1>7, <2>1 DEF IInv, TypeOK, Active
<1>. QED BY <1>4, <1>5, <1>6, <1>7, <1>8 DEF IInv

LEMMA StartKeeps ==
  ASSUME IInv, StartRun
  PROVE  IInv'
<1>. USE DEF StartRun, disk, manifest, logs
<1>1. plan = {} /\ done = {} /\ Running = {} /\ Running' = {}
  BY Quiet DEF IInv, Running
<1>2. closure' \subseteq Edge /\ plan' \subseteq closure'
  BY DEF Closure, Dirty
<1>3. \A e \in closure' \ plan' : ~Stale(e)
  BY DEF Dirty
<1>4. ASSUME NEW e \in closure' \ plan', NEW p \in Producers(e) \cap plan'
      PROVE  FALSE
  <2>1. e \in Dependents(p) \cap closure'
    BY <1>2, <1>4 DEF Producers, Dependents
  <2>2. e \in Dirty(closure')
    BY <1>4, <2>1 DEF Dirty
  <2>. QED BY <1>4, <2>2
<1>5. PlanInv'
  BY <1>1, <1>4 DEF PlanInv, Producers
<1>6. FreshInv'
  BY <1>3 DEF FreshInv, Stale, FileStateReason, CommandChangeReason,
         DynamicDependencyReason
<1>7. ReadInv' /\ CacheInv' /\ DepsInv'
  BY <1>1 DEF IInv, ReadInv, CacheInv, DepsInv
<1>8. LogInv'
  BY DEF IInv, LogInv, MadeAsLogged, Active
<1>9. TypeOK' /\ IdentityInv'
  BY <1>1, <1>2 DEF IInv, TypeOK, IdentityInv, Active
<1>. QED BY <1>5, <1>6, <1>7, <1>8, <1>9 DEF IInv

LEMMA EndKeeps ==
  ASSUME IInv, EndRun
  PROVE  IInv'
<1>. USE DEF EndRun, ForgetIdentity, disk, manifest
<1>1. Running' = {} /\ plan' = {} /\ done' = {}
  BY DEF Running
<1>2. CASE phase = "failing" /\ GiveUp
  <2>1. \A e \in Edge : build_log'[e] = nothing /\ deps_log'[e] = nothing
    BY <1>2 DEF GiveUp, Distrusted, NoEntries
  <2>2. LogInv' /\ DepsInv' /\ FreshInv' /\ PlanInv'
    BY <1>1, <1>2, <2>1 DEF LogInv, DepsInv, FreshInv, PlanInv, GiveUp
  <2>3. ReadInv' /\ CacheInv'
    BY <1>1 DEF IInv, ReadInv, CacheInv
  <2>4. TypeOK' /\ IdentityInv'
    BY <1>1, <1>2 DEF IInv, TypeOK, IdentityInv, GiveUp, Distrusted, NoEntries,
                      Active
  <2>. QED BY <2>2, <2>3, <2>4 DEF IInv
<1>3. CASE /\ phase = "running" /\ done = plan /\ phase' = "succeeded"
           /\ UNCHANGED <<logs, closure, calm>>
  <2>. USE DEF logs
  <2>1. FreshInv'
    BY <1>1, <1>3 DEF IInv, FreshInv, Stale, FileStateReason,
       CommandChangeReason, DynamicDependencyReason
  <2>2. LogInv'
    BY <1>3 DEF IInv, LogInv, MadeAsLogged
  <2>3. ReadInv' /\ CacheInv' /\ DepsInv' /\ PlanInv'
    BY <1>1, <1>3 DEF IInv, ReadInv, CacheInv, DepsInv, PlanInv
  <2>4. TypeOK' /\ IdentityInv'
    BY <1>1, <1>3 DEF IInv, TypeOK, IdentityInv, Active
  <2>. QED BY <2>1, <2>2, <2>3, <2>4 DEF IInv
<1>. QED BY <1>2, <1>3

LEMMA InterruptKeeps ==
  ASSUME IInv, Interrupt
  PROVE  IInv'
<1>. USE DEF Interrupt, GiveUp, ForgetIdentity, manifest
<1>1. Running' = {}
  BY DEF Running, NoEntries
<1>2. \A e \in Edge : build_log'[e] = nothing /\ deps_log'[e] = nothing
  BY DEF Distrusted, NoEntries
<1>3. LogInv' /\ DepsInv' /\ FreshInv' /\ PlanInv'
  BY <1>1, <1>2 DEF LogInv, DepsInv, FreshInv, PlanInv
<1>4. ReadInv' /\ CacheInv'
  BY <1>1 DEF IInv, ReadInv, CacheInv, NoEntries
<1>5. TypeOK'
  <2>. DEFINE spoilt == UNION {Outputs[e] : e \in Running}
  <2>1. spoilt \subseteq Product
    BY Files DEF Running
  <2>2. UNCHANGED disk \/ Spoilt(spoilt)
    OBVIOUS
  <2>. HIDE DEF spoilt
  <2>3. /\ \A n \in Source \cap existing' : content'[n] \in Text
        /\ existing' \subseteq Node /\ newer' \in [Product -> SUBSET Node]
    BY <2>1, <2>2, Files DEF IInv, TypeOK, disk, Spoilt, Holding, Touched
  <2>4. changes' \in 0..MaxChanges
    BY IncrementalAssumption DEF IInv, TypeOK
  <2>. QED BY <1>1, <2>3, <2>4
           DEF IInv, TypeOK, Distrusted, NoEntries, Active
<1>6. IdentityInv'
  BY DEF IdentityInv
<1>. QED BY <1>3, <1>4, <1>5, <1>6 DEF IInv

(* What the user does: it ends a build's being undisturbed.                *)
LEMMA ChangeKeeps ==
  ASSUME IInv, Change, UNCHANGED <<plan, done, reading, identity>>
  PROVE  /\ FreshInv' /\ PlanInv'
         /\ phase' \in {"idle", "running", "failing", "succeeded"}
         /\ plan' \subseteq closure' /\ closure' \subseteq Edge
         /\ (plan' # {} => phase' \in {"running", "failing"})
         /\ calm' \in BOOLEAN /\ changes' \in 0..MaxChanges
         /\ Running' = Running
         /\ (phase' # "failing" => phase # "failing")
         /\ (compiler' = compiler \/ ~Active => IdentityInv')
<1>1. Running' = Running
  BY DEF Running
<1>2. CASE Active
  <2>1. /\ calm' = FALSE /\ UNCHANGED <<phase, closure>>
        /\ changes' = changes + 1 /\ changes < MaxChanges
    BY <1>2 DEF Change
  <2>2. changes' \in 0..MaxChanges
    BY <2>1, IncrementalAssumption DEF IInv, TypeOK
  <2>3. FreshInv'
    BY <2>1 DEF FreshInv
  <2>4. PlanInv'
    BY <1>1, <2>1 DEF IInv, PlanInv, Producers
  <2>. QED BY <1>1, <1>2, <2>1, <2>2, <2>3, <2>4
           DEF IInv, TypeOK, IdentityInv, Active
<1>3. CASE ~Active
  <2>1. plan' = {} /\ done' = {} /\ Running' = {}
    BY <1>1, <1>3, Quiet DEF IInv
  <2>. QED BY <1>1, <1>3, <2>1, IncrementalAssumption
           DEF Change, IInv, TypeOK, PlanInv, FreshInv, IdentityInv, Active
<1>. QED BY <1>2, <1>3

LEMMA EditKeeps ==
  ASSUME IInv, ~EditsWhileRead, NEW n \in Node, NEW t \in Text, Edit(n, t)
  PROVE  IInv'
<1>. USE DEF Edit, manifest, logs
<1>1. n \in Source /\ \A e \in Running : n \notin DOMAIN reading[e]
  BY DEF Unread
<1>2. FreshInv' /\ PlanInv' /\ IdentityInv' /\ Running' = Running
  BY ChangeKeeps
<1>3. ReadInv'
  <2>1. \A e \in Running' : /\ e \in Running /\ reading'[e] = reading[e]
                            /\ {n} \cap DOMAIN reading[e] = {}
    BY <1>1, <1>2
  <2>2. /\ reading' = [e \in Edge |-> reading'[e]]
        /\ \A m \in Node \ {n} : content'[m] = content[m]
        /\ existing \ {n} \subseteq existing'
    BY DEF Holding, IInv, ReadInv
  <2>. QED BY <2>1, <2>2, ReadKept DEF IInv
<1>4. LogInv'
  <2>1. SUFFICES ASSUME phase' # "failing", NEW e \in Edge,
                        build_log[e] # nothing,
                        NEW o \in Outputs[e] \cap existing'
                 PROVE  MadeAsLogged(e, o)'
    BY DEF LogInv
  <2>2. o # n /\ o \in existing /\ o \in Product
    BY <1>1, <2>1, Files
  <2>3. MadeAsLogged(e, o)
    BY <2>1, <2>2, ChangeKeeps DEF IInv, LogInv
  <2>4. newer'[o] = newer[o] \cup {n}
    BY <2>2 DEF Touched
  <2>5. \A m \in Node \ {n} :
          content'[m] = content[m] /\ (m \in existing' => m \in existing)
    BY DEF Holding
  <2>6. content'[o] = content[o]
    BY <2>1, <2>2, <2>5, Files
  <2>. QED BY <2>3, <2>4, <2>5, <2>6, LoggedKept
<1>5. CacheInv' /\ DepsInv'
  BY DEF IInv, CacheInv, DepsInv
<1>6. TypeOK'
  <2>1. /\ \A m \in Source \cap existing' : content'[m] \in Text
        /\ existing' \subseteq Node /\ newer' \in [Product -> SUBSET Node]
    BY DEF IInv, TypeOK, Holding, Touched
  <2>. QED BY <1>2, <2>1, ChangeKeeps DEF IInv, TypeOK, Active
<1>. QED BY <1>2, <1>3, <1>4, <1>5, <1>6 DEF IInv

LEMMA RemoveKeeps ==
  ASSUME IInv, ~EditsWhileRead, NEW n \in Node, Remove(n)
  PROVE  IInv'
<1>. USE DEF Remove, manifest, logs
<1>1. \A e \in Running : n \notin DOMAIN reading[e]
  BY DEF Unread
<1>2. FreshInv' /\ PlanInv' /\ IdentityInv' /\ Running' = Running
  BY ChangeKeeps
<1>3. ReadInv'
  <2>1. \A e \in Running' : /\ e \in Running /\ reading'[e] = reading[e]
                            /\ {n} \cap DOMAIN reading[e] = {}
    BY <1>1, <1>2
  <2>2. /\ reading' = [e \in Edge |-> reading'[e]]
        /\ \A m \in Node \ {n} : content'[m] = content[m]
        /\ existing \ {n} \subseteq existing'
    BY DEF Holding, IInv, ReadInv
  <2>. QED BY <2>1, <2>2, ReadKept DEF IInv
<1>4. LogInv'
  <2>1. SUFFICES ASSUME phase' # "failing", NEW e \in Edge,
                        build_log[e] # nothing,
                        NEW o \in Outputs[e] \cap existing'
                 PROVE  MadeAsLogged(e, o)'
    BY DEF LogInv
  <2>2. o # n /\ o \in existing /\ o \in Product
    BY <2>1, Files
  <2>3. MadeAsLogged(e, o)
    BY <2>1, <2>2, ChangeKeeps DEF IInv, LogInv
  <2>4. newer'[o] = newer[o] \ {n}
    BY <2>2 DEF Removed
  <2>5. \A m \in Node \ {n} :
          content'[m] = content[m] /\ (m \in existing' => m \in existing)
    BY DEF Holding
  <2>6. content'[o] = content[o]
    BY <2>1, <2>2, <2>5, Files
  <2>. QED BY <2>3, <2>4, <2>5, <2>6, LoggedKept
<1>5. CacheInv' /\ DepsInv'
  BY DEF IInv, CacheInv, DepsInv
<1>6. TypeOK'
  <2>1. /\ \A m \in Source \cap existing' : content'[m] \in Text
        /\ existing' \subseteq Node /\ newer' \in [Product -> SUBSET Node]
    BY DEF IInv, TypeOK, Holding, Removed
  <2>. QED BY <1>2, <2>1, ChangeKeeps DEF IInv, TypeOK, Active
<1>. QED BY <1>2, <1>3, <1>4, <1>5, <1>6 DEF IInv

LEMMA ManifestKeeps ==
  ASSUME IInv, ~InstallsInRun,
         \/ \E e \in Edge, c \in Command : EditManifest(e, c)
         \/ \E k \in Compiler : InstallCompiler(k)
  PROVE  IInv'
<1>1. /\ Change
      /\ UNCHANGED <<disk, logs, cache, plan, done, reading, identity>>
      /\ command' \in [Edge -> Command] /\ compiler' \in Compiler /\ ~Active
  BY DEF EditManifest, InstallCompiler, IInv, TypeOK
<1>. USE DEF disk, logs
<1>2. FreshInv' /\ PlanInv' /\ IdentityInv' /\ Running' = Running
  BY <1>1, ChangeKeeps
<1>3. ReadInv'
  BY <1>1, <1>2 DEF IInv, ReadInv, Contents
<1>4. CacheInv' /\ DepsInv'
  BY <1>1 DEF IInv, CacheInv, DepsInv
<1>5. LogInv'
  BY <1>1, ChangeKeeps DEF IInv, LogInv, MadeAsLogged
<1>6. TypeOK'
  BY <1>1, <1>2, ChangeKeeps DEF IInv, TypeOK, Active
<1>. QED BY <1>2, <1>3, <1>4, <1>5, <1>6 DEF IInv

LEMMA StutterKeeps ==
  ASSUME IInv, UNCHANGED vars
  PROVE  IInv'
<1>. USE DEF vars, disk, manifest, logs, run
<1>1. Running' = Running
  BY DEF Running
<1>2. TypeOK' /\ PlanInv' /\ IdentityInv'
  BY <1>1 DEF IInv, TypeOK, PlanInv, IdentityInv, Active, Producers
<1>3. ReadInv'
  BY <1>1 DEF IInv, ReadInv, Contents
<1>4. CacheInv' /\ DepsInv'
  BY DEF IInv, CacheInv, DepsInv
<1>5. LogInv' /\ FreshInv'
  BY DEF IInv, LogInv, MadeAsLogged, FreshInv, Stale, FileStateReason,
     CommandChangeReason, DynamicDependencyReason
<1>. QED BY <1>2, <1>3, <1>4, <1>5 DEF IInv

LEMMA NextKeeps ==
  ASSUME IInv, ~EditsWhileRead, ~InstallsInRun, [Next]_vars
  PROVE  IInv'
<1>1. ASSUME NEW n \in Node, Remove(n) \/ \E t \in Text : Edit(n, t)
      PROVE  IInv'
  BY <1>1, RemoveKeeps, EditKeeps
<1>2. ASSUME NEW e \in Edge,
             \/ RestoreFromCache(e) \/ RunCommand(e)
             \/ FinishCommand(e) \/ FailCommand(e)
      PROVE  IInv'
  BY <1>2, RestoreKeeps, RunKeeps, FinishKeeps, FailKeeps
<1>3. CASE StartRun \/ EndRun \/ Interrupt
  BY <1>3, StartKeeps, EndKeeps, InterruptKeeps
<1>4. CASE \/ \E e \in Edge, c \in Command : EditManifest(e, c)
           \/ \E k \in Compiler : InstallCompiler(k)
  BY <1>4, ManifestKeeps
<1>. QED BY <1>1, <1>2, <1>3, <1>4, StutterKeeps DEF Next

LEMMA Inductive ==
  ASSUME ~EditsWhileRead, ~InstallsInRun
  PROVE  Spec => []IInv
<1>1. IInv /\ [Next]_vars => IInv'
  BY NextKeeps
<1>. QED BY <1>1, InitEstablishes, PTL DEF Spec

-----------------------------------------------------------------------------
(* The theorems.  No source changes while a command reads it, no compiler  *)
(* during a run.                                                           *)

(* The files, logs and sets of edges keep their types: in particular a     *)
(* plan stays within the closure of its targets, and only what is planned  *)
(* and not done is running.                                                *)
THEOREM TypeCorrect ==
  ASSUME ~EditsWhileRead, ~InstallsInRun
  PROVE  Spec => []TypeOK
BY Inductive, PTL DEF IInv

(* An undisturbed build that succeeds leaves what a clean build would      *)
(* make, on any graph and after any history of edits, removals, changed    *)
(* commands and compilers, failures and interruptions.                     *)
THEOREM BuildsWhatIsCurrent ==
  ASSUME ~EditsWhileRead, ~InstallsInRun
  PROVE  Spec => []UpToDate
<1>1. IInv => UpToDate
  <2>1. SUFFICES ASSUME IInv, phase = "succeeded", calm, NEW e \in closure
                 PROVE  Current(e)
    BY DEF UpToDate
  <2>2. plan = {} /\ e \in Edge
    BY <2>1 DEF IInv, TypeOK, Active
  <2>3. ~Stale(e)
    BY <2>1, <2>2 DEF IInv, FreshInv
  <2>. QED BY <2>1, <2>2, <2>3, FreshIsCurrent DEF IInv
<1>. QED BY <1>1, Inductive, PTL

(* The same build again plans nothing.                                     *)
THEOREM BuildsOnlyOnce ==
  ASSUME ~EditsWhileRead, ~InstallsInRun
  PROVE  Spec => []NothingLeftToDo
<1>1. IInv => NothingLeftToDo
  <2>1. SUFFICES ASSUME IInv, phase = "succeeded", calm
                 PROVE  Dirty(closure) = {}
    BY DEF NothingLeftToDo
  <2>2. \A e \in closure : ~Stale(e)
    BY <2>1 DEF IInv, FreshInv, TypeOK, Active
  <2>3. {} \in SUBSET closure
    OBVIOUS
  <2>. QED BY <2>2, <2>3 DEF Dirty
<1>. QED BY <1>1, Inductive, PTL

(* Whatever the cache answers is what the command would make.              *)
THEOREM HitsAreRight ==
  ASSUME ~EditsWhileRead, ~InstallsInRun
  PROVE  Spec => []CacheHitsAreRight
<1>1. IInv => CacheHitsAreRight
  BY HitIsRight DEF CacheHitsAreRight, IInv
<1>. QED BY <1>1, Inductive, PTL

=============================================================================
