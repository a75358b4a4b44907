---------------------------- MODULE MCScheduler -----------------------------
(***************************************************************************)
(* A code generator writes a source and a header; two compilations read    *)
(* them, one of them both; a link reads both objects and the header.  It   *)
(* has a diamond, a producer of two inputs of one edge, and an edge that   *)
(* skips a level.  Every subset of it is tried as a plan.                  *)
(***************************************************************************)
EXTENDS Scheduler

CONSTANTS gen, cc1, cc2, link, src, hdr, o1, o2, exe, w1, w2, w3

MCInputs == (gen :> {}) @@ (cc1 :> {src, hdr}) @@ (cc2 :> {hdr})
              @@ (link :> {o1, o2, hdr})
MCOutputs == (gen :> {src, hdr}) @@ (cc1 :> {o1}) @@ (cc2 :> {o2})
              @@ (link :> {exe})

(* BuildGraphValidator has accepted the graph by the time a plan is run.   *)
ASSUME Acyclic

(* The system may stop only when its caller has made all its calls.        *)
Terminated == main = "idle" /\ runs = MaxRuns /\ executor /\ UNCHANGED vars

MCSpec == Init /\ [][Next \/ Terminated]_vars
MCFairSpec == MCSpec /\ Fairness
=============================================================================
