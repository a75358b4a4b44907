----------------------------- MODULE LocalCache -----------------------------
(***************************************************************************)
(* LocalCache (src/src/local_cache.cpp), one file-system call at a time,   *)
(* as Executor::execute_edge drives it: worker threads try to restore the  *)
(* output of an edge, else run the command and store it.  Forge is killed  *)
(* at any instant and started again, calls fail, and the files in          *)
(* .forge_cache are damaged.                                               *)
(*                                                                         *)
(* An object is followed by metadata, its size and hash; the two are       *)
(* renamed into place one after the other.  A file is known by its bytes   *)
(* and a hash by the bytes it was computed from: hashes do not collide.    *)
(* Temporary files have names of their own and are never looked for again. *)
(* What a killed command leaves of an output is the subject of BuildState. *)
(***************************************************************************)
EXTENDS Naturals

CONSTANTS
  Worker,     (* the threads of the scheduler                              *)
  Key,        (* cache keys                                                *)
  Bytes,      (* what a file may be                                        *)
  Makes,      (* Makes[k]: what the command of the key k may make; more    *)
              (* than one thing if the compiler is not deterministic       *)
  absent,     (* there is no file                                          *)
  garbled,    (* unfinished or damaged bytes; metadata that do not parse   *)
  MaxKills,   (* bound: how often forge is killed                          *)
  MaxFaults   (* bound: how often a call fails or a file is damaged        *)

ASSUME LocalCacheAssumption ==
  /\ Makes \in [Key -> SUBSET Bytes]
  /\ absent \notin Bytes /\ garbled \notin Bytes /\ absent # garbled
  /\ MaxKills \in Nat /\ MaxFaults \in Nat

VARIABLES
  object,     (* the file object_path(key)                                 *)
  metadata,   (* the file metadata_path(key)                               *)
  output,     (* the output of the edge that a worker executes             *)
  pc,         (* where a worker is                                         *)
  key,        (* the key of its edge                                       *)
  hash,       (* output_hash in store(), expected_hash in restore()        *)
  source,     (* what it copies                                            *)
  temp,       (* its temporary file                                        *)
  kills, faults

cache == <<object, metadata>>
locals == <<key, hash, source, temp>>
bounds == <<kills, faults>>
vars == <<cache, output, pc, locals, bounds>>

Init ==
  /\ object = [k \in Key |-> absent] /\ metadata = [k \in Key |-> absent]
  /\ output = [w \in Worker |-> absent]
  /\ pc = [w \in Worker |-> "idle"]
  /\ key \in [Worker -> Key]
  /\ hash = [w \in Worker |-> absent]
  /\ source = [w \in Worker |-> absent]
  /\ temp = [w \in Worker |-> absent]
  /\ kills = 0 /\ faults = 0

-----------------------------------------------------------------------------
At(w, step) == pc[w] = step
Go(w, step) == pc' = [pc EXCEPT ![w] = step]

(* An edge without an entry in DepsLog is not looked up.                   *)
Execute(w, k) ==
  /\ pc[w] \in {"idle", "done"}
  /\ key' = [key EXCEPT ![w] = k]
  /\ Go(w, "contains") \/ Go(w, "command")
  /\ UNCHANGED <<cache, output, hash, source, temp, bounds>>

(* contains(): both files are there.                                       *)
Contains(w) ==
  /\ At(w, "contains")
  /\ Go(w, IF object[key[w]] # absent /\ metadata[key[w]] # absent
             THEN "read_metadata" ELSE "command")
  /\ UNCHANGED <<cache, output, locals, bounds>>

(* restore().  Mutant: metadata that do not parse are used.                *)
AnyMetadata(m) == TRUE
Parses(m) == m \in Bytes

ReadMetadata(w) ==
  /\ At(w, "read_metadata")
  /\ IF Parses(metadata[key[w]])
       THEN hash' = [hash EXCEPT ![w] = metadata[key[w]]] /\ Go(w, "verify")
       ELSE UNCHANGED hash /\ Go(w, "evict_object")
  /\ UNCHANGED <<cache, output, key, source, temp, bounds>>

(* Size and hash of the object must be the recorded ones.  Mutants: it is  *)
(* enough that it exists; a good object fails the test.                    *)
Exists(w) == object[key[w]] # absent
WrongSize(w) == FALSE
Verified(w) == object[key[w]] = hash[w]

Verify(w) ==
  /\ At(w, "verify")
  /\ Go(w, IF Verified(w) THEN "copy_object" ELSE "evict_object")
  /\ UNCHANGED <<cache, output, locals, bounds>>

EvictObject(w) ==
  /\ At(w, "evict_object")
  /\ object' = [object EXCEPT ![key[w]] = absent]
  /\ Go(w, "evict_metadata")
  /\ UNCHANGED <<metadata, output, locals, bounds>>

EvictMetadata(w) ==
  /\ At(w, "evict_metadata")
  /\ metadata' = [metadata EXCEPT ![key[w]] = absent]
  /\ Go(w, "command")
  /\ UNCHANGED <<object, output, locals, bounds>>

(* copy_file opens its source and fills a temporary file; a source that is *)
(* replaced or removed meanwhile stays open.                               *)
CopyObject(w) ==
  /\ At(w, "copy_object")
  /\ IF object[key[w]] = absent
       THEN Go(w, "command") /\ UNCHANGED <<source, temp>>
       ELSE /\ source' = [source EXCEPT ![w] = object[key[w]]]
            /\ temp' = [temp EXCEPT ![w] = garbled]
            /\ Go(w, "copying_object")
  /\ UNCHANGED <<cache, output, key, hash, bounds>>

Copied(w) ==
  /\ temp' = [temp EXCEPT ![w] = source[w]]
  /\ source' = [source EXCEPT ![w] = absent]
  /\ UNCHANGED <<cache, output, key, hash, bounds>>

ObjectCopied(w) ==
  At(w, "copying_object") /\ Copied(w) /\ Go(w, "rename_output")

RenameOutput(w) ==
  /\ At(w, "rename_output")
  /\ output' = [output EXCEPT ![w] = temp[w]]
  /\ temp' = [temp EXCEPT ![w] = absent]
  /\ Go(w, "done")
  /\ UNCHANGED <<cache, key, hash, source, bounds>>

-----------------------------------------------------------------------------
(* The key is computed again from what the command has read.               *)
RunCommand(w) ==
  /\ At(w, "command")
  /\ \E k \in Key : \E b \in Makes[k] :
       /\ key' = [key EXCEPT ![w] = k]
       /\ output' = [output EXCEPT ![w] = b]
  /\ Go(w, "hash_output")
  /\ UNCHANGED <<cache, hash, source, temp, bounds>>

(* store().                                                                *)
HashOutput(w) ==
  /\ At(w, "hash_output")
  /\ hash' = [hash EXCEPT ![w] = output[w]]
  /\ Go(w, "copy_output")
  /\ UNCHANGED <<cache, output, key, source, temp, bounds>>

(* Mutant: the object is written in place.                                 *)
InPlace(w) == [object EXCEPT ![key[w]] = garbled]
Apart(w) == object

CopyOutput(w) ==
  /\ At(w, "copy_output")
  /\ source' = [source EXCEPT ![w] = output[w]]
  /\ temp' = [temp EXCEPT ![w] = garbled]
  /\ object' = Apart(w)
  /\ Go(w, "copying_output")
  /\ UNCHANGED <<metadata, output, key, hash, bounds>>

OutputCopied(w) ==
  At(w, "copying_output") /\ Copied(w) /\ Go(w, "rename_object")

RenameObject(w) ==
  /\ At(w, "rename_object")
  /\ object' = [object EXCEPT ![key[w]] = temp[w]]
  /\ temp' = [temp EXCEPT ![w] = absent]
  /\ Go(w, "rename_metadata")
  /\ UNCHANGED <<metadata, output, key, hash, source, bounds>>

RenameMetadata(w) ==
  /\ At(w, "rename_metadata")
  /\ metadata' = [metadata EXCEPT ![key[w]] = hash[w]]
  /\ Go(w, "done")
  /\ UNCHANGED <<object, output, locals, bounds>>

-----------------------------------------------------------------------------
Fault == faults < MaxFaults /\ faults' = faults + 1 /\ UNCHANGED kills

(* A call of restore() fails: the command runs.                            *)
RestoreFails(w) ==
  /\ pc[w] \in {"copy_object", "copying_object", "rename_output"}
  /\ Fault
  /\ source' = [source EXCEPT ![w] = absent]
  /\ temp' = [temp EXCEPT ![w] = absent]
  /\ Go(w, "command")
  /\ UNCHANGED <<cache, output, key, hash>>

(* A call of store() fails: the edge has succeeded all the same.  When it  *)
(* is the second rename, the object is removed.                            *)
StoreFails(w) ==
  /\ pc[w] \in {"hash_output", "copy_output", "copying_output",
                "rename_object", "rename_metadata"}
  /\ Fault
  /\ source' = [source EXCEPT ![w] = absent]
  /\ temp' = [temp EXCEPT ![w] = absent]
  /\ object' = IF At(w, "rename_metadata")
                 THEN [object EXCEPT ![key[w]] = absent] ELSE object
  /\ Go(w, "done")
  /\ UNCHANGED <<metadata, output, key, hash>>

(* A file of the cache is damaged or removed; but not between the test of  *)
(* an object and its copy.                                                 *)
Damage(k) ==
  /\ ~\E w \in Worker : key[w] = k /\ At(w, "copy_object")
  /\ Fault
  /\ \E what \in {absent, garbled} :
       \/ object[k] # absent
            /\ object' = [object EXCEPT ![k] = what] /\ UNCHANGED metadata
       \/ metadata[k] # absent
            /\ metadata' = [metadata EXCEPT ![k] = what] /\ UNCHANGED object
  /\ UNCHANGED <<output, pc, locals>>

(* Forge is killed between two calls, or during a copy.                    *)
Kill ==
  /\ kills < MaxKills /\ kills' = kills + 1
  /\ \E w \in Worker : pc[w] # "idle"
  /\ pc' = [w \in Worker |-> "idle"]
  /\ hash' = [w \in Worker |-> absent]
  /\ source' = [w \in Worker |-> absent]
  /\ temp' = [w \in Worker |-> absent]
  /\ UNCHANGED <<cache, output, key, faults>>

Next ==
  \/ \E w \in Worker, k \in Key : Execute(w, k)
  \/ \E w \in Worker :
       \/ Contains(w) \/ ReadMetadata(w) \/ Verify(w)
       \/ EvictObject(w) \/ EvictMetadata(w)
       \/ CopyObject(w) \/ ObjectCopied(w) \/ RenameOutput(w)
       \/ RunCommand(w) \/ HashOutput(w) \/ CopyOutput(w) \/ OutputCopied(w)
       \/ RenameObject(w) \/ RenameMetadata(w)
       \/ RestoreFails(w) \/ StoreFails(w)
  \/ \E k \in Key : Damage(k)
  \/ Kill

Spec == Init /\ [][Next]_vars

-----------------------------------------------------------------------------
Step == {"idle", "done", "contains", "read_metadata", "verify", "evict_object",
         "evict_metadata", "copy_object", "copying_object", "rename_output",
         "command", "hash_output", "copy_output", "copying_output",
         "rename_object", "rename_metadata"}
Hashed == {"verify", "copy_object", "copying_object", "rename_output",
           "copy_output", "copying_output", "rename_object", "rename_metadata"}

TypeOK ==
  /\ object \in [Key -> Bytes \cup {absent, garbled}]
  /\ metadata \in [Key -> Bytes \cup {absent, garbled}]
  /\ output \in [Worker -> Bytes \cup {absent}]
  /\ pc \in [Worker -> Step] /\ key \in [Worker -> Key]
  /\ hash \in [Worker -> Bytes \cup {absent}]
  /\ \A w \in Worker : pc[w] \in Hashed => hash[w] \in Bytes
  /\ source \in [Worker -> Bytes \cup {absent}]
  /\ temp \in [Worker -> Bytes \cup {absent, garbled}]
  /\ kills \in 0..MaxKills /\ faults \in 0..MaxFaults

(* An edge that succeeds has an output that its own command can have made, *)
(* restored or not: no kill, fault, damage or other worker makes restore() *)
(* deliver what is torn, damaged, or another key's.                        *)
OutputIsGenuine ==
  \A w \in Worker : At(w, "done") => output[w] \in Makes[key[w]]

(* A kill never leaves an unfinished file under a final name: only damage  *)
(* does that.                                                              *)
NothingTorn == faults = 0 => \A k \in Key : object[k] # garbled

(* An entry that is complete stays so, whoever stores or restores its key  *)
(* and is killed at it, if the compiler is deterministic and nothing fails *)
(* or is damaged.                                                          *)
Complete(k) == object[k] \in Bytes /\ metadata[k] = object[k]
Deterministic(k) == \E b \in Bytes : Makes[k] = {b}
EntriesStay ==
  [][\A k \in Key : faults' = 0 /\ Deterministic(k) /\ Complete(k)
                      => Complete(k)']_vars

=============================================================================
