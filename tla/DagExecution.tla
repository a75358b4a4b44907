---------------------------- MODULE DagExecution ----------------------------
(***************************************************************************)
(* What a scheduler of build edges promises, without threads, queues or    *)
(* counters: edges of a plan run at most once each, an edge only after its *)
(* producers in the plan are done, none starts after a failure, and the    *)
(* outcome is announced when nothing runs any more.                        *)
(***************************************************************************)
EXTENDS BuildGraph

VARIABLES
  plan,     (* the edges to run                                            *)
  active,   (* those running                                               *)
  done,     (* those that succeeded                                        *)
  broken,   (* those that failed                                           *)
  outcome   (* "running", or what the last execution answered              *)

vars == <<plan, active, done, broken, outcome>>

Init == /\ plan = {} /\ active = {} /\ done = {} /\ broken = {}
        /\ outcome = "none"

Reject == /\ outcome # "running"
          /\ outcome' = "rejected"
          /\ UNCHANGED <<plan, active, done, broken>>

Begin(p) == /\ outcome # "running"
            /\ plan' = p
            /\ active' = {} /\ done' = {} /\ broken' = {}
            /\ outcome' = "running"

Start(e) == /\ outcome = "running" /\ broken = {}
            /\ e \in plan \ (active \cup done)
            /\ Producers(e) \cap plan \subseteq done
            /\ active' = active \cup {e}
            /\ UNCHANGED <<plan, done, broken, outcome>>

Succeed(e) == /\ e \in active
              /\ active' = active \ {e}
              /\ done' = done \cup {e}
              /\ UNCHANGED <<plan, broken, outcome>>

Fail(e) == /\ e \in active
           /\ active' = active \ {e}
           /\ broken' = broken \cup {e}
           /\ UNCHANGED <<plan, done, outcome>>

Answer == /\ outcome = "running" /\ active = {}
          /\ \/ broken # {} /\ outcome' = "failure"
             \/ broken = {} /\ done = plan /\ outcome' = "success"
          /\ UNCHANGED <<plan, active, done, broken>>

Next == \/ Reject \/ Answer
        \/ \E p \in SUBSET Edge : Begin(p)
        \/ \E e \in Edge : Start(e) \/ Succeed(e) \/ Fail(e)

Spec == Init /\ [][Next]_vars

=============================================================================
