------------------------------ MODULE LogStore ------------------------------
(***************************************************************************)
(* What BuildLog and DepsLog promise their caller (abstract): the log on   *)
(* disk is replaced as a whole or not at all, loaded as it was saved or    *)
(* not at all, and the answers of save() and load() tell which.  This is   *)
(* the promise of src/README.md:612: a log that is damaged is not believed.*)
(***************************************************************************)
EXTENDS Naturals, Sequences

CONSTANT Word    (* paths and numerals: what a log is made of              *)

VARIABLES
  stored,   (* the log on disk: no log, or one                             *)
  entries,  (* the log in memory                                           *)
  answer    (* of the last call                                            *)

vars == <<stored, entries, answer>>

(* A log: of some outputs the hash of the command, as a list of one        *)
(* numeral, or the list of dependencies.                                   *)
IsLog(f) == DOMAIN f \subseteq Word /\ f \in [DOMAIN f -> Seq(Word)]
empty == [o \in {} |-> <<>>]

Init == stored = {} /\ entries = empty /\ answer = "none"

Change == IsLog(entries') /\ answer' = "none" /\ UNCHANGED stored

Save == stored' = {entries} /\ answer' = "saved" /\ UNCHANGED entries

SaveFails == answer' = "not_saved" /\ UNCHANGED <<stored, entries>>

Load == entries' \in stored /\ answer' = "ok" /\ UNCHANGED stored

(* A call failed, or there is nothing to load.                             *)
LoadFails == /\ \/ answer' \in {"io_error", "corrupted"}
                \/ answer' = "missing" /\ stored = {}
             /\ UNCHANGED <<stored, entries>>

Restart == entries' = empty /\ answer' = "none" /\ UNCHANGED stored

Next == Change \/ Save \/ SaveFails \/ Load \/ LoadFails \/ Restart

Spec == Init /\ [][Next]_vars

=============================================================================
