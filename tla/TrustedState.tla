---------------------------- MODULE TrustedState ----------------------------
(***************************************************************************)
(* What the persisted state of a build directory promises.  At every       *)
(* moment a new forge process would either believe nothing of the past, or *)
(* a pair of logs that is true of the outputs on disk.  Outputs are        *)
(* written only while nothing is believed, and belief is restored in one   *)
(* step, by a commit.  Records may be forgotten at any time.               *)
(***************************************************************************)
EXTENDS BuildRecords

VARIABLES
  believed,  (* nothing, or the two logs                                   *)
  outputs    (* the outputs of each edge                                   *)

vars == <<believed, outputs>>

Init == believed = nothing /\ outputs = [e \in Edge |-> missing]

Distrust == believed' = nothing /\ UNCHANGED outputs

Forget(b, d) == /\ believed = <<b, d>>
                /\ \E c \in Log : /\ \A e \in Edge : c[e] \in {b[e], 0}
                                  /\ believed' = <<c, d>>
                /\ UNCHANGED outputs

Write(e, o) == /\ believed = nothing
               /\ outputs' = [outputs EXCEPT ![e] = o]
               /\ UNCHANGED believed

Remove(e) == /\ outputs' = [outputs EXCEPT ![e] = missing]
             /\ UNCHANGED believed

Commit(b, d) == /\ believed = nothing
                /\ \A e \in Edge : TrueOf(e, b, d, outputs[e])
                /\ believed' = <<b, d>>
                /\ UNCHANGED outputs

Next == \/ Distrust
        \/ \E e \in Edge : Remove(e) \/ \E o \in Output : Write(e, o)
        \/ \E b, d \in Log : Forget(b, d) \/ Commit(b, d)

Spec == Init /\ [][Next]_vars

=============================================================================
