------------------------------ MODULE Planning ------------------------------
(***************************************************************************)
(* How forge makes a plan: Builder::build (src/src/builder.cpp) collects   *)
(* the edges some targets need, finds those that are stale, spreads their  *)
(* dirt to whoever reads their outputs, and BuildPlanner::plan             *)
(* (src/src/build_planner.cpp) sorts the dirty edges by Kahn's algorithm.  *)
(* BuildGraphValidator::validate sorts all edges, only to find cycles.     *)
(* Every round of the three work-list loops is a step.  A call works on    *)
(* its own locals only, so one call is the whole behaviour.                *)
(*                                                                         *)
(* Which edges are stale is an input here: any set of them.  The order in  *)
(* which a node's edges and an edge's nodes are listed is the manifest's,  *)
(* so a loop over them may meet them in any order.                         *)
(***************************************************************************)
EXTENDS BuildGraph, SequencesExt

VARIABLES
  stage,          (* the loop that runs, or how the last call ended        *)
  targets,        (* what was asked for; {}: everything                    *)
  closure,        (* closure (allowed_edges): what the targets need        *)
  stale,          (* the edges with a reason of their own                  *)
  pending_edges,  (* pending_edges, a stack in the first loop and a queue  *)
                  (* in the second                                         *)
  queued_edges,   (* queued_edges                                          *)
  dirty,          (* result of collect_edges_to_build                      *)
  indegree,       (* indegree, of the dirty edges                          *)
  ready_queue,    (* ready_queue                                           *)
  plan            (* result of BuildPlanner::plan                          *)

request == <<targets, closure, stale>>
collected == <<queued_edges, dirty>>
vars == <<stage, request, pending_edges, collected, indegree, ready_queue,
          plan>>

Ended == {"planned", "cycle", "invalid", "rejected"}

Init ==
  /\ stage = "idle"
  /\ targets = {} /\ closure = {} /\ stale = {}
  /\ pending_edges = <<>> /\ queued_edges = {} /\ dirty = <<>>
  /\ indegree = [e \in {} |-> 0] /\ ready_queue = <<>> /\ plan = <<>>

-----------------------------------------------------------------------------
(* The edges that write some of the nodes N.                               *)
ProducersOf(N) == {e \in Edge : Outputs[e] \cap N # {}}

(* A work list that names the producers of the nodes of N, once per node,  *)
(* in any order; nodes nobody produces are skipped.                        *)
Produced(N) == {n \in N : ProducersOf({n}) # {}}
Producer(n) == CHOOSE e \in Edge : n \in Outputs[e]
ProducerLists(N) ==
  {[i \in DOMAIN s |-> Producer(s[i])] : s \in SetToSeqs(Produced(N))}

(* build(targets): unknown or unproduced targets are an error, no targets  *)
(* mean the whole graph.                                                   *)
RejectTargets ==
  /\ stage = "idle"
  /\ \E t \in (SUBSET Node) \ {{}} :
       /\ Produced(t) # t
       /\ targets' = t
  /\ stage' = "rejected"
  /\ UNCHANGED <<closure, stale, pending_edges, collected, indegree,
                 ready_queue, plan>>

BuildAll ==
  /\ stage = "idle"
  /\ targets' = {} /\ closure' = Edge
  /\ stage' = "scan"
  /\ UNCHANGED <<stale, pending_edges, collected, indegree, ready_queue, plan>>

BuildTargets ==
  /\ stage = "idle"
  /\ \E t \in (SUBSET Node) \ {{}} :
       /\ Produced(t) = t
       /\ targets' = t
       /\ pending_edges' \in ProducerLists(t)
  /\ closure' = {}
  /\ stage' = "close"
  /\ UNCHANGED <<stale, collected, indegree, ready_queue, plan>>

(* collect_target_closure: an edge met for the first time joins, and the   *)
(* producers of its inputs are pushed.  Mutants: an edge that joins is not *)
(* followed; an edge that has joined before stays on the stack.            *)
TargetsOnly(e) == {}
Upstream(e) == Inputs[e]
PopUnknown == IF Last(pending_edges) \in closure THEN pending_edges
                                                 ELSE Front(pending_edges)
Popped == Front(pending_edges)

CollectClosure ==
  /\ stage = "close" /\ pending_edges # <<>>
  /\ LET e == Last(pending_edges) IN
       /\ closure' = closure \cup {e}
       /\ IF e \in closure
            THEN pending_edges' = Popped
            ELSE \E more \in ProducerLists(Upstream(e)) :
                   pending_edges' = Popped \o more
  /\ UNCHANGED <<stage, targets, stale, collected, indegree, ready_queue,
                 plan>>

ClosureDone ==
  /\ stage = "close" /\ pending_edges = <<>>
  /\ stage' = "scan"
  /\ UNCHANGED <<request, pending_edges, collected, indegree, ready_queue,
                 plan>>

(* The first loop of collect_edges_to_build.                               *)
Scan ==
  /\ stage = "scan"
  /\ stale' \in SUBSET closure
  /\ pending_edges' \in SetToSeqs(stale')
  /\ queued_edges' = stale'
  /\ dirty' = <<>>
  /\ stage' = "spread"
  /\ UNCHANGED <<targets, closure, indegree, ready_queue, plan>>

(* The second: dirt spreads from an edge to the allowed edges that read    *)
(* its outputs, each queued once.  Mutant: dirt leaves the closure.        *)
Anywhere(e) == Dependents(e) \ queued_edges
NewlyDirty(e) == (Dependents(e) \cap closure) \ queued_edges

Spread ==
  /\ stage = "spread" /\ pending_edges # <<>>
  /\ LET e == Head(pending_edges) IN
       /\ dirty' = Append(dirty, e)
       /\ queued_edges' = queued_edges \cup NewlyDirty(e)
       /\ \E more \in SetToSeqs(NewlyDirty(e)) :
            pending_edges' = Tail(pending_edges) \o more
  /\ UNCHANGED <<stage, request, indegree, ready_queue, plan>>

-----------------------------------------------------------------------------
(* BuildPlanner::plan(edges) before its loop.                              *)
StartSort(edges) ==
  LET all == Range(edges) IN
  /\ dirty' = edges
  /\ indegree' = [e \in all |-> Indegree(e, all)]
  /\ ready_queue' \in SetToSeqs({e \in all : Indegree(e, all) = 0})
  /\ plan' = <<>>
  /\ stage' = "sort"

SpreadDone ==
  /\ stage = "spread" /\ pending_edges = <<>>
  /\ StartSort(dirty)
  /\ UNCHANGED <<request, pending_edges, queued_edges>>

(* validate(): the same for all edges of the graph.                        *)
Validate ==
  /\ stage = "idle"
  /\ \E edges \in SetToSeqs(Edge) : StartSort(edges)
  /\ targets' = {} /\ closure' = Edge /\ stale' = Edge /\ queued_edges' = Edge
  /\ UNCHANGED pending_edges

(* Those of the dependents of e that waited for e alone.  Mutant: whoever  *)
(* depends on e.                                                           *)
ReleasedEarly(e) == Dependents(e) \cap Range(dirty)
Released(e) == {d \in Dependents(e) \cap Range(dirty) : indegree[d] = 1}

(* A round of Kahn's loop.  A dependent whose indegree is zero already     *)
(* would be an internal error.                                             *)
Sort ==
  /\ stage = "sort" /\ ready_queue # <<>>
  /\ LET e == Head(ready_queue)
         waiting == Dependents(e) \cap Range(dirty) IN
       /\ plan' = Append(plan, e)
       /\ IF \E d \in waiting : indegree[d] = 0
            THEN stage' = "invalid" /\ UNCHANGED <<indegree, ready_queue>>
            ELSE /\ indegree' = [d \in DOMAIN indegree |->
                                   IF d \in waiting THEN indegree[d] - 1
                                                    ELSE indegree[d]]
                 /\ \E more \in SetToSeqs(Released(e)) :
                      ready_queue' = Tail(ready_queue) \o more
                 /\ UNCHANGED stage
  /\ UNCHANGED <<request, pending_edges, collected>>

(* Mutant: a plan that is shorter than it should be is returned.           *)
AnyLength == TRUE
Complete == Len(plan) = Len(dirty)

SortDone ==
  /\ stage = "sort" /\ ready_queue = <<>>
  /\ stage' = IF Complete THEN "planned" ELSE "cycle"
  /\ UNCHANGED <<request, pending_edges, collected, indegree, ready_queue,
                 plan>>

-----------------------------------------------------------------------------
Round ==
  \/ CollectClosure \/ ClosureDone \/ Scan \/ Spread \/ SpreadDone
  \/ Sort \/ SortDone

Next == RejectTargets \/ BuildAll \/ BuildTargets \/ Validate \/ Round

Spec == Init /\ [][Next]_vars

(* A call goes on once it has begun: a single thread runs it.              *)
Fairness == WF_vars(Round)

-----------------------------------------------------------------------------
TypeOK ==
  /\ stage \in Ended \cup {"idle", "close", "scan", "spread", "sort"}
  /\ targets \subseteq Node
  /\ closure \subseteq Edge /\ stale \subseteq Edge
  /\ queued_edges \subseteq Edge
  /\ pending_edges \in Seq(Edge) /\ dirty \in Seq(Edge)
  /\ ready_queue \in Seq(Edge) /\ plan \in Seq(Edge)
  /\ indegree \in [DOMAIN indegree -> Nat] /\ DOMAIN indegree \subseteq Edge
  /\ Len(plan) <= Len(dirty)

(* What the targets need, all of it and nothing else: the closure is the   *)
(* least set of edges that has the producers of the targets and, with an   *)
(* edge, the producers of its inputs.                                      *)
Needs(S) == /\ ProducersOf(targets) \subseteq S
            /\ \A e \in S : Producers(e) \subseteq S

ClosureIsLeast ==
  stage \in {"scan", "spread", "sort", "planned", "cycle"} /\ targets # {} =>
    /\ Needs(closure)
    /\ \A S \in SUBSET Edge : Needs(S) => closure \subseteq S

(* Dirt goes as far as it must and no further: the dirty edges, each       *)
(* listed once, are the least set that has the stale ones and, with an     *)
(* edge, whatever reads its outputs inside the closure.                    *)
Infected(S) == /\ stale \subseteq S
               /\ \A e \in S : Dependents(e) \cap closure \subseteq S

DirtIsLeast ==
  stage \in {"sort", "planned", "cycle"} =>
    /\ IsInjective(dirty)
    /\ Infected(Range(dirty))
    /\ \A S \in SUBSET Edge : Infected(S) => Range(dirty) \subseteq S

(* A returned plan lists exactly the dirty edges, each once, and an edge   *)
(* only after every dirty producer of its inputs.                          *)
PlanIsTopological ==
  stage = "planned" =>
    /\ IsInjective(plan) /\ Range(plan) = Range(dirty)
    /\ \A i, j \in DOMAIN plan : plan[i] \in Producers(plan[j]) => i < j

(* A set of edges each of which waits for another one of the set.          *)
Knot(S) == S # {} /\ \A e \in S : Producers(e) \cap S # {}

(* The internal error of the planner ("invalid build planner indegree      *)
(* state") does not happen, not even on a cyclic graph, where an edge may  *)
(* depend on itself.                                                       *)
NoInternalError == stage # "invalid"

(* A cycle is reported exactly when there is one among the dirty edges,    *)
(* and nothing but that ever keeps the planner from a plan.                *)
CyclesAreFound ==
  /\ stage = "cycle" => \E S \in SUBSET Range(dirty) : Knot(S)
  /\ stage = "planned" => ~\E S \in SUBSET Range(dirty) : Knot(S)
  /\ NoInternalError

(* Every call ends.                                                        *)
CallEnds == stage \in {"close", "scan", "spread", "sort"} ~> stage \in Ended

=============================================================================
