---------------------------- MODULE BuildRecords ----------------------------
(***************************************************************************)
(* What forge writes down about its outputs, and what is true of them.     *)
(***************************************************************************)
EXTENDS Naturals

CONSTANTS
  Edge,         (* the build statements of the manifest                    *)
  Discovering,  (* those with a depfile: their record has two halves       *)
  MaxBuilds,    (* bound: builds are numbered 1..MaxBuilds                 *)
  nothing,      (* no record is believed                                   *)
  unreadable    (* what load() sees in a log that is missing, damaged or   *)
                (* of another version: it keeps nothing of it              *)

Build == 1..MaxBuilds

(* An output: the build that put it there (0: it does not exist), the      *)
(* build whose command produced it (an older one when it came from the     *)
(* cache) and whether it is complete.                                      *)
Output == [by : 0..MaxBuilds, ran : 0..MaxBuilds, whole : BOOLEAN]
missing == [by |-> 0, ran |-> 0, whole |-> FALSE]

(* A log, per edge: the build that recorded it, 0 when it has no entry.    *)
(* In .forge_log that build put the output there; in .forge_deps its       *)
(* command discovered the dependencies.                                    *)
Log == [Edge -> 0..MaxBuilds]
NoEntries == [e \in Edge |-> 0]

ASSUME RecordsAssumption ==
  /\ Discovering \subseteq Edge
  /\ MaxBuilds \in Nat
  /\ nothing \notin Log \X Log
  /\ unreadable \notin Log

(* The records of e in the logs b and d are true of the output o: it is    *)
(* the complete output that was recorded, unless somebody removed it, and  *)
(* the dependencies are those of the command that produced it.             *)
TrueOf(e, b, d, o) ==
  b[e] # 0 /\ o.by # 0 =>
    /\ o.whole /\ o.by = b[e]
    /\ e \in Discovering => d[e] = o.ran

=============================================================================
