----------------------------- MODULE BuildGraph -----------------------------
(***************************************************************************)
(* The bipartite graph of ForgeBuild: an Edge (one "build" statement of    *)
(* the manifest) reads the Nodes of Edge::inputs_ and writes the Nodes of  *)
(* Edge::outputs_.  Node::in_edge_ and Node::out_edges_ are the two        *)
(* directions of the same relation, so they are derived here.              *)
(***************************************************************************)
EXTENDS Naturals, FiniteSets

CONSTANTS
  Edge,     (* the build statements of the manifest                        *)
  Node,     (* the paths they name                                         *)
  Inputs,   (* Edge::inputs_  : the paths an edge reads                    *)
  Outputs   (* Edge::outputs_ : the paths an edge writes                   *)

(* BuildGraph::add_output refuses a second producer for a node, so two     *)
(* edges never share an output.                                            *)
ASSUME GraphAssumption ==
  /\ IsFiniteSet(Edge) /\ IsFiniteSet(Node)
  /\ Inputs \in [Edge -> SUBSET Node]
  /\ Outputs \in [Edge -> SUBSET Node]
  /\ \A d, e \in Edge : d # e => Outputs[d] \cap Outputs[e] = {}

-----------------------------------------------------------------------------
(* The edges whose output e reads: input->in_edge() over e->inputs().      *)
Producers(e) == {p \in Edge : Outputs[p] \cap Inputs[e] # {}}

(* The edges that read an output of e: output->out_edges().                *)
Dependents(e) == {d \in Edge : Inputs[d] \cap Outputs[e] # {}}

(* How many distinct edges of the plan p the edge e waits for.  A producer *)
(* of several inputs counts once; a producer outside the plan is not       *)
(* waited for.  Mutant: all producers count as one.                        *)
AnyProducer(e, p) == IF Producers(e) \cap p = {} THEN 0 ELSE 1
Indegree(e, p) == Cardinality(Producers(e) \cap p)

(* No chain of producers returns to its start: some ranking of the edges   *)
(* decreases along every producer.                                         *)
Acyclic ==
  \E rank \in [Edge -> 1..Cardinality(Edge)] :
    \A e \in Edge : \A p \in Producers(e) : rank[p] < rank[e]

=============================================================================
