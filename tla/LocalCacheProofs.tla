-------------------------- MODULE LocalCacheProofs --------------------------
(***************************************************************************)
(* Theorems about LocalCache, for any number of workers, keys, kills and   *)
(* faults, and compilers that may make anything.                           *)
(***************************************************************************)
EXTENDS LocalCache, TLAPS

(* Every file and every local variable that is in use belongs to its key.  *)
FilesInv ==
  \A k \in Key : /\ object[k] \in Makes[k] \cup {absent, garbled}
                 /\ metadata[k] \in Makes[k] \cup {absent, garbled}
                 /\ garbled \in {object[k], metadata[k]} => faults # 0

Built == {"hash_output", "copy_output", "copying_output", "rename_object",
          "rename_metadata", "done"}

WorkersInv ==
  \A w \in Worker :
    LET mine == Makes[key[w]] IN
    /\ pc[w] \in Hashed => hash[w] \in mine
    /\ pc[w] \in Built => output[w] \in mine
    /\ pc[w] \in {"copying_object", "copying_output"} => source[w] \in mine
    /\ pc[w] \in {"rename_output", "rename_object"} => temp[w] \in mine
    /\ At(w, "copy_object") => object[key[w]] # garbled

(* Without a fault nobody finds a reason to evict what is always the same. *)
Undamaged(k) == faults = 0 /\ Deterministic(k)
KeepInv ==
  \A w \in Worker :
    Undamaged(key[w]) =>
      /\ pc[w] \notin {"evict_object", "evict_metadata"}
      /\ At(w, "read_metadata") => Complete(key[w])
      /\ At(w, "verify") => Complete(key[w])

IInv == TypeOK /\ FilesInv /\ WorkersInv /\ KeepInv

LEMMA InitEstablishes == Init => IInv
BY LocalCacheAssumption
   DEF Init, IInv, TypeOK, Step, Hashed, FilesInv, WorkersInv, Built, KeepInv,
       At

-----------------------------------------------------------------------------
(* Every action preserves the invariant.                                   *)

LEMMA ExecuteKeeps ==
  ASSUME IInv, NEW w \in Worker, NEW k \in Key, Execute(w, k)
  PROVE  IInv'
<1>. USE LocalCacheAssumption DEF Execute, At, Go, cache, locals, bounds
<1>1. TypeOK'
  BY DEF IInv, TypeOK, Step, Hashed, FilesInv, WorkersInv, Built
<1>2. FilesInv'
  BY DEF IInv, TypeOK, FilesInv, WorkersInv, Hashed
<1>3. WorkersInv'
  BY DEF IInv, TypeOK, FilesInv, WorkersInv, Hashed, Built
<1>4. KeepInv'
  BY DEF IInv, TypeOK, FilesInv, WorkersInv, Hashed, KeepInv, Undamaged,
     Deterministic, Complete
<1>. QED BY <1>1, <1>2, <1>3, <1>4 DEF IInv

LEMMA ContainsKeeps ==
  ASSUME IInv, NEW w \in Worker, Contains(w)
  PROVE  IInv'
<1>. USE LocalCacheAssumption DEF Contains, At, Go, cache, locals, bounds
<1>1. TypeOK'
  BY DEF IInv, TypeOK, Step, Hashed, FilesInv, WorkersInv, Built
<1>2. FilesInv'
  BY DEF IInv, TypeOK, FilesInv, WorkersInv, Hashed
<1>3. WorkersInv'
  BY DEF IInv, TypeOK, FilesInv, WorkersInv, Hashed, Built
<1>4. KeepInv'
  BY DEF IInv, TypeOK, FilesInv, WorkersInv, Hashed, KeepInv, Undamaged,
     Deterministic, Complete
<1>. QED BY <1>1, <1>2, <1>3, <1>4 DEF IInv

LEMMA ReadMetadataKeeps ==
  ASSUME IInv, NEW w \in Worker, ReadMetadata(w)
  PROVE  IInv'
<1>. USE LocalCacheAssumption
     DEF ReadMetadata, Parses, At, Go, cache, locals, bounds
<1>1. TypeOK'
  BY DEF IInv, TypeOK, Step, Hashed, FilesInv, WorkersInv, Built
<1>2. FilesInv'
  BY DEF IInv, TypeOK, FilesInv, WorkersInv, Hashed
<1>3. WorkersInv'
  BY DEF IInv, TypeOK, FilesInv, WorkersInv, Hashed, Built
<1>4. KeepInv'
  BY DEF IInv, TypeOK, FilesInv, WorkersInv, Hashed, KeepInv, Undamaged,
     Deterministic, Complete
<1>. QED BY <1>1, <1>2, <1>3, <1>4 DEF IInv

LEMMA VerifyKeeps ==
  ASSUME IInv, NEW w \in Worker, Verify(w)
  PROVE  IInv'
<1>. USE LocalCacheAssumption
     DEF Verify, Verified, At, Go, cache, locals, bounds
<1>1. TypeOK'
  BY DEF IInv, TypeOK, Step, Hashed, FilesInv, WorkersInv, Built
<1>2. FilesInv'
  BY DEF IInv, TypeOK, FilesInv, WorkersInv, Hashed
<1>3. WorkersInv'
  BY DEF IInv, TypeOK, FilesInv, WorkersInv, Hashed, Built
<1>4. KeepInv'
  BY DEF IInv, TypeOK, FilesInv, WorkersInv, Hashed, KeepInv, Undamaged,
     Deterministic, Complete
<1>. QED BY <1>1, <1>2, <1>3, <1>4 DEF IInv

LEMMA EvictObjectKeeps ==
  ASSUME IInv, NEW w \in Worker, EvictObject(w)
  PROVE  IInv'
<1>. USE LocalCacheAssumption DEF EvictObject, At, Go, cache, locals, bounds
<1>1. TypeOK'
  BY DEF IInv, TypeOK, Step, Hashed, FilesInv, WorkersInv, Built
<1>2. FilesInv'
  BY DEF IInv, TypeOK, FilesInv, WorkersInv, Hashed
<1>3. WorkersInv'
  BY DEF IInv, TypeOK, FilesInv, WorkersInv, Hashed, Built
<1>4. KeepInv'
  BY DEF IInv, TypeOK, FilesInv, WorkersInv, Hashed, KeepInv, Undamaged,
     Deterministic, Complete
<1>. QED BY <1>1, <1>2, <1>3, <1>4 DEF IInv

LEMMA EvictMetadataKeeps ==
  ASSUME IInv, NEW w \in Worker, EvictMetadata(w)
  PROVE  IInv'
<1>. USE LocalCacheAssumption DEF EvictMetadata, At, Go, cache, locals, bounds
<1>1. TypeOK'
  BY DEF IInv, TypeOK, Step, Hashed, FilesInv, WorkersInv, Built
<1>2. FilesInv'
  BY DEF IInv, TypeOK, FilesInv, WorkersInv, Hashed
<1>3. WorkersInv'
  BY DEF IInv, TypeOK, FilesInv, WorkersInv, Hashed, Built
<1>4. KeepInv'
  BY DEF IInv, TypeOK, FilesInv, WorkersInv, Hashed, KeepInv, Undamaged,
     Deterministic, Complete
<1>. QED BY <1>1, <1>2, <1>3, <1>4 DEF IInv

LEMMA CopyObjectKeeps ==
  ASSUME IInv, NEW w \in Worker, CopyObject(w)
  PROVE  IInv'
<1>. USE LocalCacheAssumption DEF CopyObject, At, Go, cache, locals, bounds
<1>1. TypeOK'
  BY DEF IInv, TypeOK, Step, Hashed, FilesInv, WorkersInv, Built
<1>2. FilesInv'
  BY DEF IInv, TypeOK, FilesInv, WorkersInv, Hashed
<1>3. WorkersInv'
  BY DEF IInv, TypeOK, FilesInv, WorkersInv, Hashed, Built
<1>4. KeepInv'
  BY DEF IInv, TypeOK, FilesInv, WorkersInv, Hashed, KeepInv, Undamaged,
     Deterministic, Complete
<1>. QED BY <1>1, <1>2, <1>3, <1>4 DEF IInv

LEMMA ObjectCopiedKeeps ==
  ASSUME IInv, NEW w \in Worker, ObjectCopied(w)
  PROVE  IInv'
<1>. USE LocalCacheAssumption
     DEF ObjectCopied, Copied, At, Go, cache, locals, bounds
<1>1. TypeOK'
  BY DEF IInv, TypeOK, Step, Hashed, FilesInv, WorkersInv, Built
<1>2. FilesInv'
  BY DEF IInv, TypeOK, FilesInv, WorkersInv, Hashed
<1>3. WorkersInv'
  BY DEF IInv, TypeOK, FilesInv, WorkersInv, Hashed, Built
<1>4. KeepInv'
  BY DEF IInv, TypeOK, FilesInv, WorkersInv, Hashed, KeepInv, Undamaged,
     Deterministic, Complete
<1>. QED BY <1>1, <1>2, <1>3, <1>4 DEF IInv

LEMMA RenameOutputKeeps ==
  ASSUME IInv, NEW w \in Worker, RenameOutput(w)
  PROVE  IInv'
<1>. USE LocalCacheAssumption DEF RenameOutput, At, Go, cache, locals, bounds
<1>1. TypeOK'
  BY DEF IInv, TypeOK, Step, Hashed, FilesInv, WorkersInv, Built
<1>2. FilesInv'
  BY DEF IInv, TypeOK, FilesInv, WorkersInv, Hashed
<1>3. WorkersInv'
  BY DEF IInv, TypeOK, FilesInv, WorkersInv, Hashed, Built
<1>4. KeepInv'
  BY DEF IInv, TypeOK, FilesInv, WorkersInv, Hashed, KeepInv, Undamaged,
     Deterministic, Complete
<1>. QED BY <1>1, <1>2, <1>3, <1>4 DEF IInv

LEMMA RunCommandKeeps ==
  ASSUME IInv, NEW w \in Worker, RunCommand(w)
  PROVE  IInv'
<1>. USE LocalCacheAssumption DEF RunCommand, At, Go, cache, locals, bounds
<1>1. TypeOK'
  BY DEF IInv, TypeOK, Step, Hashed, FilesInv, WorkersInv, Built
<1>2. FilesInv'
  BY DEF IInv, TypeOK, FilesInv, WorkersInv, Hashed
<1>3. WorkersInv'
  BY DEF IInv, TypeOK, FilesInv, WorkersInv, Hashed, Built
<1>4. KeepInv'
  BY DEF IInv, TypeOK, FilesInv, WorkersInv, Hashed, KeepInv, Undamaged,
     Deterministic, Complete
<1>. QED BY <1>1, <1>2, <1>3, <1>4 DEF IInv

LEMMA HashOutputKeeps ==
  ASSUME IInv, NEW w \in Worker, HashOutput(w)
  PROVE  IInv'
<1>. USE LocalCacheAssumption DEF HashOutput, At, Go, cache, locals, bounds
<1>1. TypeOK'
  BY DEF IInv, TypeOK, Step, Hashed, FilesInv, WorkersInv, Built
<1>2. FilesInv'
  BY DEF IInv, TypeOK, FilesInv, WorkersInv, Hashed
<1>3. WorkersInv'
  BY DEF IInv, TypeOK, FilesInv, WorkersInv, Hashed, Built
<1>4. KeepInv'
  BY DEF IInv, TypeOK, FilesInv, WorkersInv, Hashed, KeepInv, Undamaged,
     Deterministic, Complete
<1>. QED BY <1>1, <1>2, <1>3, <1>4 DEF IInv

LEMMA CopyOutputKeeps ==
  ASSUME IInv, NEW w \in Worker, CopyOutput(w)
  PROVE  IInv'
<1>. USE LocalCacheAssumption
     DEF CopyOutput, Apart, At, Go, cache, locals, bounds
<1>1. TypeOK'
  BY DEF IInv, TypeOK, Step, Hashed, FilesInv, WorkersInv, Built
<1>2. FilesInv'
  BY DEF IInv, TypeOK, FilesInv, WorkersInv, Hashed
<1>3. WorkersInv'
  BY DEF IInv, TypeOK, FilesInv, WorkersInv, Hashed, Built
<1>4. KeepInv'
  BY DEF IInv, TypeOK, FilesInv, WorkersInv, Hashed, KeepInv, Undamaged,
     Deterministic, Complete
<1>. QED BY <1>1, <1>2, <1>3, <1>4 DEF IInv

LEMMA OutputCopiedKeeps ==
  ASSUME IInv, NEW w \in Worker, OutputCopied(w)
  PROVE  IInv'
<1>. USE LocalCacheAssumption
     DEF OutputCopied, Copied, At, Go, cache, locals, bounds
<1>1. TypeOK'
  BY DEF IInv, TypeOK, Step, Hashed, FilesInv, WorkersInv, Built
<1>2. FilesInv'
  BY DEF IInv, TypeOK, FilesInv, WorkersInv, Hashed
<1>3. WorkersInv'
  BY DEF IInv, TypeOK, FilesInv, WorkersInv, Hashed, Built
<1>4. KeepInv'
  BY DEF IInv, TypeOK, FilesInv, WorkersInv, Hashed, KeepInv, Undamaged,
     Deterministic, Complete
<1>. QED BY <1>1, <1>2, <1>3, <1>4 DEF IInv

LEMMA RenameObjectKeeps ==
  ASSUME IInv, NEW w \in Worker, RenameObject(w)
  PROVE  IInv'
<1>. USE LocalCacheAssumption DEF RenameObject, At, Go, cache, locals, bounds
<1>1. TypeOK'
  BY DEF IInv, TypeOK, Step, Hashed, FilesInv, WorkersInv, Built
<1>2. /\ key[w] \in Key /\ temp[w] \in Makes[key[w]]
      /\ temp[w] # garbled /\ temp[w] # absent
  <2>1. pc[w] = "rename_object" /\ key[w] \in Key
    BY DEF IInv, TypeOK
  <2>2. temp[w] \in Makes[key[w]]
    BY <2>1 DEF IInv, WorkersInv
  <2>3. Makes[key[w]] \subseteq Bytes
    BY <2>1
  <2>. QED BY <2>1, <2>2, <2>3
<1>3. /\ object' = [object EXCEPT ![key[w]] = temp[w]]
      /\ object \in [Key -> Bytes \cup {absent, garbled}]
      /\ UNCHANGED <<metadata, key, faults>>
  BY DEF IInv, TypeOK
<1>4. FilesInv'
  <2>. SUFFICES ASSUME NEW k \in Key
                PROVE  /\ object'[k] \in Makes[k] \cup {absent, garbled}
                       /\ metadata'[k] \in Makes[k] \cup {absent, garbled}
                       /\ garbled \in {object'[k], metadata'[k]} => faults' # 0
    BY DEF FilesInv
  <2>1. /\ object[k] \in Makes[k] \cup {absent, garbled}
        /\ metadata[k] \in Makes[k] \cup {absent, garbled}
        /\ garbled \in {object[k], metadata[k]} => faults # 0
    BY DEF IInv, FilesInv
  <2>2. CASE k = key[w]
    BY <1>2, <1>3, <2>1, <2>2
  <2>3. CASE k # key[w]
    BY <1>2, <1>3, <2>1, <2>3
  <2>. QED BY <2>2, <2>3
<1>5. WorkersInv'
  <2>. SUFFICES ASSUME NEW v \in Worker
                PROVE  /\ pc'[v] \in Hashed => hash'[v] \in Makes[key'[v]]
                       /\ pc'[v] \in Built => output'[v] \in Makes[key'[v]]
                       /\ pc'[v] \in {"copying_object", "copying_output"}
                            => source'[v] \in Makes[key'[v]]
                       /\ pc'[v] \in {"rename_output", "rename_object"}
                            => temp'[v] \in Makes[key'[v]]
                       /\ At(v, "copy_object")' => object'[key'[v]] # garbled
    BY DEF WorkersInv
  <2>1. At(v, "copy_object") => object'[key[v]] # garbled
    BY <1>2, <1>3 DEF IInv, TypeOK, WorkersInv
  <2>2. CASE v = w
    BY <2>1, <2>2 DEF IInv, TypeOK, WorkersInv, Hashed, Built
  <2>3. CASE v # w
    BY <2>1, <2>3 DEF IInv, TypeOK, WorkersInv, Hashed, Built
  <2>. QED BY <2>2, <2>3
<1>6. KeepInv'
  BY DEF IInv, TypeOK, FilesInv, WorkersInv, Hashed, KeepInv, Undamaged,
     Deterministic, Complete
<1>. QED BY <1>1, <1>4, <1>5, <1>6 DEF IInv

LEMMA RenameMetadataKeeps ==
  ASSUME IInv, NEW w \in Worker, RenameMetadata(w)
  PROVE  IInv'
<1>. USE LocalCacheAssumption DEF RenameMetadata, At, Go, cache, locals, bounds
<1>1. TypeOK'
  BY DEF IInv, TypeOK, Step, Hashed, FilesInv, WorkersInv, Built
<1>2. FilesInv'
  BY DEF IInv, TypeOK, FilesInv, WorkersInv, Hashed
<1>3. WorkersInv'
  BY DEF IInv, TypeOK, FilesInv, WorkersInv, Hashed, Built
<1>4. KeepInv'
  BY DEF IInv, TypeOK, FilesInv, WorkersInv, Hashed, KeepInv, Undamaged,
     Deterministic, Complete
<1>. QED BY <1>1, <1>2, <1>3, <1>4 DEF IInv

LEMMA RestoreFailsKeeps ==
  ASSUME IInv, NEW w \in Worker, RestoreFails(w)
  PROVE  IInv'
<1>. USE LocalCacheAssumption
     DEF RestoreFails, Fault, At, Go, cache, locals, bounds
<1>1. TypeOK'
  BY DEF IInv, TypeOK, Step, Hashed, FilesInv, WorkersInv, Built
<1>2. FilesInv'
  BY DEF IInv, TypeOK, FilesInv, WorkersInv, Hashed
<1>3. WorkersInv'
  BY DEF IInv, TypeOK, FilesInv, WorkersInv, Hashed, Built
<1>4. KeepInv'
  BY DEF IInv, TypeOK, FilesInv, WorkersInv, Hashed, KeepInv, Undamaged,
     Deterministic, Complete
<1>. QED BY <1>1, <1>2, <1>3, <1>4 DEF IInv

LEMMA StoreFailsKeeps ==
  ASSUME IInv, NEW w \in Worker, StoreFails(w)
  PROVE  IInv'
<1>. USE LocalCacheAssumption
     DEF StoreFails, Fault, At, Go, cache, locals, bounds
<1>1. TypeOK'
  BY DEF IInv, TypeOK, Step, Hashed, FilesInv, WorkersInv, Built
<1>2. FilesInv'
  BY DEF IInv, TypeOK, FilesInv, WorkersInv, Hashed
<1>3. WorkersInv'
  BY DEF IInv, TypeOK, FilesInv, WorkersInv, Hashed, Built
<1>4. KeepInv'
  BY DEF IInv, TypeOK, FilesInv, WorkersInv, Hashed, KeepInv, Undamaged,
     Deterministic, Complete
<1>. QED BY <1>1, <1>2, <1>3, <1>4 DEF IInv

LEMMA DamageKeeps ==
  ASSUME IInv, NEW k \in Key, Damage(k)
  PROVE  IInv'
<1>. USE LocalCacheAssumption DEF Damage, Fault, At, Go, cache, locals, bounds
<1>1. TypeOK'
  BY DEF IInv, TypeOK, Step, Hashed, FilesInv, WorkersInv, Built
<1>2. FilesInv'
  BY DEF IInv, TypeOK, FilesInv, WorkersInv, Hashed
<1>3. WorkersInv'
  BY DEF IInv, TypeOK, FilesInv, WorkersInv, Hashed, Built
<1>4. KeepInv'
  BY DEF IInv, TypeOK, FilesInv, WorkersInv, Hashed, KeepInv, Undamaged,
     Deterministic, Complete
<1>. QED BY <1>1, <1>2, <1>3, <1>4 DEF IInv

LEMMA KillKeeps ==
  ASSUME IInv, Kill
  PROVE  IInv'
<1>. USE LocalCacheAssumption DEF Kill, At, Go, cache, locals, bounds
<1>1. TypeOK'
  BY DEF IInv, TypeOK, Step, Hashed, FilesInv, WorkersInv, Built
<1>2. FilesInv'
  BY DEF IInv, TypeOK, FilesInv, WorkersInv, Hashed
<1>3. WorkersInv'
  BY DEF IInv, TypeOK, FilesInv, WorkersInv, Hashed, Built
<1>4. KeepInv'
  BY DEF IInv, TypeOK, FilesInv, WorkersInv, Hashed, KeepInv, Undamaged,
     Deterministic, Complete
<1>. QED BY <1>1, <1>2, <1>3, <1>4 DEF IInv

-----------------------------------------------------------------------------
(* The theorems.                                                           *)

LEMMA StepKeeps == IInv /\ [Next]_vars => IInv'
<1>. SUFFICES ASSUME IInv, [Next]_vars
              PROVE  IInv'
  OBVIOUS
<1>1. CASE UNCHANGED vars
  BY <1>1 DEF IInv, TypeOK, FilesInv, WorkersInv, KeepInv, At, Undamaged,
     Complete, vars, cache, locals, bounds
<1>. QED
  BY <1>1, ExecuteKeeps, ContainsKeeps, ReadMetadataKeeps, VerifyKeeps,
     EvictObjectKeeps, EvictMetadataKeeps, CopyObjectKeeps, ObjectCopiedKeeps,
     RenameOutputKeeps, RunCommandKeeps, HashOutputKeeps, CopyOutputKeeps,
     OutputCopiedKeeps, RenameObjectKeeps, RenameMetadataKeeps,
     RestoreFailsKeeps, StoreFailsKeeps, DamageKeeps, KillKeeps DEF Next

THEOREM Inductive == Spec => []IInv
BY InitEstablishes, StepKeeps, PTL DEF Spec

(* Files, workers and their variables keep their types; what is compared   *)
(* with a hash has one.                                                    *)
THEOREM TypeCorrect == Spec => []TypeOK
<1>1. IInv => TypeOK
  BY DEF IInv
<1>. QED BY <1>1, Inductive, PTL

(* Whatever is killed, fails or is damaged, an edge that succeeds has an   *)
(* output its own command can have made.                                   *)
THEOREM DeliversGenuineOutputs == Spec => []OutputIsGenuine
<1>1. IInv => OutputIsGenuine
  BY DEF IInv, WorkersInv, OutputIsGenuine, At, Built
<1>. QED BY <1>1, Inductive, PTL

(* A kill never leaves an unfinished object under its final name.          *)
THEOREM NeverTorn == Spec => []NothingTorn
<1>1. IInv => NothingTorn
  BY DEF IInv, FilesInv, NothingTorn
<1>. QED BY <1>1, Inductive, PTL

(* Without faults, and if the compiler is deterministic, a complete entry  *)
(* stays complete.                                                         *)
LEMMA StepKeepsEntries ==
  ASSUME IInv, [Next]_vars, NEW k \in Key,
         faults' = 0, Deterministic(k), Complete(k)
  PROVE  Complete(k)'
<1>. USE LocalCacheAssumption DEF Complete, IInv, TypeOK, cache, locals, bounds
<1>1. faults = 0
  BY DEF Next, Fault, vars, Execute, Contains, ReadMetadata, Verify,
     EvictObject, EvictMetadata, CopyObject, ObjectCopied, Copied,
     RenameOutput, RunCommand,
     HashOutput, CopyOutput, OutputCopied, RenameObject, RenameMetadata,
     RestoreFails, StoreFails, Damage, Kill
<1>2. PICK b \in Bytes : Makes[k] = {b}
  BY DEF Deterministic
<1>3. object[k] = b /\ metadata[k] = b
  BY <1>2 DEF FilesInv
<1>4. ~\E w \in Worker : RestoreFails(w) \/ StoreFails(w)
  BY <1>1 DEF RestoreFails, StoreFails, Fault
<1>5. ~\E j \in Key : Damage(j)
  BY <1>1 DEF Damage, Fault
<1>6. ASSUME NEW w \in Worker, EvictObject(w) \/ EvictMetadata(w)
      PROVE  key[w] # k
  BY <1>1, <1>6 DEF EvictObject, EvictMetadata, KeepInv, Undamaged, At
<1>7. CASE \E w \in Worker : EvictObject(w) \/ EvictMetadata(w)
  BY <1>6, <1>7 DEF EvictObject, EvictMetadata
<1>8. CASE \E w \in Worker : RenameObject(w) \/ RenameMetadata(w)
  <2>1. PICK w \in Worker : RenameObject(w) \/ RenameMetadata(w)
    BY <1>8
  <2>2. CASE key[w] = k
    <3>1. CASE RenameObject(w)
      BY <1>2, <1>3, <2>2, <3>1 DEF RenameObject, WorkersInv, At
    <3>2. CASE RenameMetadata(w)
      BY <1>2, <1>3, <2>2, <3>2 DEF RenameMetadata, WorkersInv, At, Hashed
    <3>. QED BY <2>1, <3>1, <3>2
  <2>3. CASE key[w] # k
    BY <2>1, <2>3 DEF RenameObject, RenameMetadata
  <2>. QED BY <2>2, <2>3
<1>9. CASE /\ ~\E w \in Worker : EvictObject(w) \/ EvictMetadata(w)
           /\ ~\E w \in Worker : RenameObject(w) \/ RenameMetadata(w)
  <2>1. UNCHANGED <<object, metadata>>
    BY <1>4, <1>5, <1>9 DEF Next, vars, Execute, Contains, ReadMetadata,
       Verify,
       CopyObject, ObjectCopied, Copied, RenameOutput, RunCommand, HashOutput,
       CopyOutput, Apart, OutputCopied, Kill
  <2>. QED BY <2>1
<1>. QED BY <1>7, <1>8, <1>9

THEOREM KeepsEntries == Spec => EntriesStay
<1>1. IInv /\ [Next]_vars =>
        [\A k \in Key : faults' = 0 /\ Deterministic(k) /\ Complete(k)
                         => Complete(k)']_vars
  BY StepKeepsEntries
<1>. QED BY <1>1, Inductive, PTL DEF Spec, EntriesStay

=============================================================================
