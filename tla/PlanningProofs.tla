--------------------------- MODULE PlanningProofs ---------------------------
(***************************************************************************)
(* Theorems about Planning, for every build graph, cyclic or not, every    *)
(* set of targets and every set of stale edges.                            *)
(***************************************************************************)
EXTENDS Planning, SequenceLemmas

-----------------------------------------------------------------------------
(* Facts about the graph.                                                  *)

LEMMA EdgesFinite ==
  ASSUME NEW S \in SUBSET Edge
  PROVE  IsFiniteSet(S) /\ Cardinality(S) \in Nat
BY GraphAssumption, FS_Subset, FS_CardinalityType

(* d depends on e exactly when e produces an input of d.                   *)
LEMMA Converse ==
  ASSUME NEW d \in Edge, NEW e \in Edge
  PROVE  d \in Dependents(e) <=> e \in Producers(d)
BY DEF Dependents, Producers

(* Node::in_edge(): a produced node has exactly one producer.              *)
LEMMA OneProducer ==
  ASSUME NEW n \in Node, NEW e \in Edge, n \in Outputs[e]
  PROVE  Producer(n) = e
<1>1. Producer(n) \in Edge /\ n \in Outputs[Producer(n)]
  BY DEF Producer
<1>. QED BY <1>1, GraphAssumption

(* The work lists of collect_target_closure name the producers of the      *)
(* nodes they are made from, and nothing else.                             *)
LEMMA ListsProducers ==
  ASSUME NEW N \in SUBSET Node, NEW l \in ProducerLists(N)
  PROVE  l \in Seq(Edge) /\ Range(l) = ProducersOf(N)
<1>1. PICK s \in SetToSeqs(Produced(N)) : l = [i \in DOMAIN s |-> Producer(s[i])]
  BY DEF ProducerLists
<1>2. IsFiniteSet(Produced(N))
  BY GraphAssumption, FS_Subset DEF Produced
<1>3. s \in Seq(Produced(N)) /\ Range(s) = Produced(N)
  BY <1>1, <1>2, Enumeration
<1>4. /\ DOMAIN s = 1..Len(s) /\ Len(s) \in Nat
      /\ \A i \in DOMAIN s : s[i] \in Produced(N)
  BY <1>3, LenProperties, ElementOfSeq
<1>5. ASSUME NEW n \in Produced(N)
      PROVE  Producer(n) \in ProducersOf(N)
  <2>1. PICK e \in Edge : n \in Outputs[e]
    BY DEF Produced, ProducersOf
  <2>2. n \in N /\ n \in Node
    BY DEF Produced
  <2>. QED BY <2>1, <2>2, OneProducer DEF ProducersOf
<1>6. l \in Seq(Edge)
  <2>1. \A i \in 1..Len(s) : l[i] \in Edge
    BY <1>1, <1>4, <1>5 DEF ProducersOf
  <2>2. l \in [1..Len(s) -> Edge]
    BY <1>1, <1>4, <2>1
  <2>. QED BY <1>4, <2>2, IsASeq
<1>7. Range(l) = {Producer(s[i]) : i \in DOMAIN s}
  BY <1>1 DEF Range
<1>8. Range(l) \subseteq ProducersOf(N)
  BY <1>4, <1>5, <1>7
<1>9. ASSUME NEW e \in ProducersOf(N)
      PROVE  e \in Range(l)
  <2>1. PICK n \in N : n \in Outputs[e]
    BY DEF ProducersOf
  <2>2. e \in Edge /\ n \in Node
    BY DEF ProducersOf
  <2>3. n \in Produced(N)
    BY <2>1, <2>2 DEF Produced, ProducersOf
  <2>4. PICK i \in DOMAIN s : s[i] = n
    BY <1>3, <2>3 DEF Range
  <2>. QED BY <1>7, <2>1, <2>2, <2>4, OneProducer
<1>. QED BY <1>6, <1>8, <1>9

LEMMA ProducersOfInputs ==
  ASSUME NEW e \in Edge
  PROVE  Producers(e) = ProducersOf(Inputs[e]) /\ Inputs[e] \in SUBSET Node
BY GraphAssumption DEF Producers, ProducersOf

-----------------------------------------------------------------------------
(* The inductive invariant, one part per loop.                             *)

ClosureInv ==
  /\ stage = "close" =>
       /\ ProducersOf(targets) \subseteq closure \cup Range(pending_edges)
       /\ \A e \in closure :
            Producers(e) \subseteq closure \cup Range(pending_edges)
       /\ \A S \in SUBSET Edge :
            Needs(S) => closure \cup Range(pending_edges) \subseteq S
  /\ ClosureIsLeast

SpreadInv ==
  /\ stage = "spread" =>
       /\ stale \subseteq queued_edges
       /\ IsInjective(dirty) /\ IsInjective(pending_edges)
       /\ Range(dirty) \cap Range(pending_edges) = {}
       /\ queued_edges = Range(dirty) \cup Range(pending_edges)
       /\ \A e \in Range(dirty) : Dependents(e) \cap closure \subseteq queued_edges
       /\ \A S \in SUBSET Edge : Infected(S) => queued_edges \subseteq S
  /\ DirtIsLeast

Sorting == stage \in {"sort", "planned", "cycle"}

SortInv ==
  /\ ~Sorting => plan = <<>>
  /\ Sorting =>
       /\ DOMAIN indegree = Range(dirty)
       /\ \A e \in Range(dirty) :
            indegree[e] =
              Cardinality((Producers(e) \cap Range(dirty)) \ Range(plan))
       /\ IsInjective(plan) /\ IsInjective(ready_queue)
       /\ Range(plan) \cap Range(ready_queue) = {}
       /\ Range(plan) \cup Range(ready_queue) =
            {e \in Range(dirty) : indegree[e] = 0}

(* What is planned comes after its producers and is part of no knot.       *)
OrderInv ==
  Sorting =>
    /\ \A j \in DOMAIN plan :
         Producers(plan[j]) \cap Range(dirty) \subseteq {plan[i] : i \in 1..(j - 1)}
    /\ \A S \in SUBSET Range(dirty) : Knot(S) => S \cap Range(plan) = {}

EndInv ==
  /\ stage = "planned" => Range(plan) = Range(dirty)
  /\ stage = "cycle" => Range(plan) # Range(dirty) /\ ready_queue = <<>>
  /\ NoInternalError

IInv == TypeOK /\ ClosureInv /\ SpreadInv /\ SortInv /\ OrderInv /\ EndInv


LEMMA InitEstablishes == Init => IInv
<1>. SUFFICES ASSUME Init PROVE IInv
  OBVIOUS
<1>1. TypeOK
  BY EmptySeq DEF Init, TypeOK, Ended
<1>. QED
  BY <1>1 DEF Init, IInv, ClosureInv, ClosureIsLeast, SpreadInv, DirtIsLeast,
     SortInv, Sorting, OrderInv, EndInv, NoInternalError

(* No list is ever shorter than none.                                      *)
LEMMA EmptyIsShortest ==
  ASSUME NEW q \in Seq(Edge)
  PROVE  /\ <<>> \in Seq(Edge) /\ Len(<<>>) <= Len(q)
         /\ Range(<<>>) = {} /\ IsInjective(<<>>)
<1>1. <<>> \in Seq(Edge) /\ Len(<<>>) = 0 /\ Len(q) \in Nat
  BY EmptySeq, LenProperties
<1>2. DOMAIN <<>> = {}
  OBVIOUS
<1>. QED BY <1>1, <1>2 DEF Range, IsInjective

-----------------------------------------------------------------------------
(* The targets and the closure.                                            *)

LEMMA RejectTargetsKeeps ==
  ASSUME IInv, RejectTargets
  PROVE  IInv'
<1>1. TypeOK'
  BY DEF IInv, TypeOK, RejectTargets, Ended, collected
<1>. QED
  BY <1>1 DEF IInv, RejectTargets, ClosureInv, ClosureIsLeast, SpreadInv,
     DirtIsLeast, SortInv, Sorting, OrderInv, EndInv, NoInternalError

LEMMA BuildAllKeeps ==
  ASSUME IInv, BuildAll
  PROVE  IInv'
<1>1. TypeOK'
  BY DEF IInv, TypeOK, BuildAll, Ended, collected
<1>. QED
  BY <1>1 DEF IInv, BuildAll, ClosureInv, ClosureIsLeast, SpreadInv,
     DirtIsLeast, SortInv, Sorting, OrderInv, EndInv, NoInternalError

LEMMA BuildTargetsKeeps ==
  ASSUME IInv, BuildTargets
  PROVE  IInv'
<1>1. targets' \in SUBSET Node /\ pending_edges' \in ProducerLists(targets')
  BY DEF BuildTargets
<1>2. pending_edges' \in Seq(Edge) /\ Range(pending_edges') = ProducersOf(targets')
  BY <1>1, ListsProducers
<1>3. TypeOK'
  BY <1>1, <1>2 DEF IInv, TypeOK, BuildTargets, Ended, collected
<1>4. ClosureInv'
  BY <1>2 DEF BuildTargets, ClosureInv, ClosureIsLeast, Needs
<1>. QED
  BY <1>3, <1>4 DEF IInv, BuildTargets, SpreadInv, DirtIsLeast, SortInv,
     Sorting, OrderInv, EndInv, NoInternalError

LEMMA CollectClosureKeeps ==
  ASSUME IInv, CollectClosure
  PROVE  IInv'
<1> DEFINE e == Last(pending_edges)
           rest == Front(pending_edges)
<1>1. /\ TypeOK /\ stage = "close" /\ stage' = stage
      /\ pending_edges \in Seq(Edge) /\ pending_edges # <<>>
      /\ closure \in SUBSET Edge /\ closure' = closure \cup {e}
      /\ targets' = targets
  BY DEF IInv, TypeOK, CollectClosure
<1>2. /\ e \in Edge /\ rest \in Seq(Edge)
      /\ Range(pending_edges) = {e} \cup Range(rest)
  BY <1>1, SplitLast
<1>3. /\ pending_edges' \in Seq(Edge)
      /\ Range(rest) \subseteq Range(pending_edges')
      /\ Range(pending_edges') \subseteq Range(rest) \cup Producers(e)
      /\ e \notin closure => Producers(e) \subseteq Range(pending_edges')
  <2>1. CASE e \in closure
    BY <1>2, <2>1 DEF CollectClosure, Popped
  <2>2. CASE e \notin closure
    <3>1. PICK more \in ProducerLists(Inputs[e]) : pending_edges' = rest \o more
      BY <2>2 DEF CollectClosure, Popped, Upstream
    <3>2. more \in Seq(Edge) /\ Range(more) = Producers(e)
      BY <1>2, <3>1, ListsProducers, ProducersOfInputs
    <3>3. pending_edges' \in Seq(Edge)
      BY <1>2, <3>1, <3>2, ConcatProperties
    <3>4. Range(pending_edges') = Range(rest) \cup Range(more)
      BY <1>2, <3>1, <3>2, RangeConcatenation
    <3>. QED BY <3>2, <3>3, <3>4
  <2>. QED BY <2>1, <2>2
<1>4. /\ ProducersOf(targets) \subseteq closure \cup Range(pending_edges)
      /\ \A d \in closure :
           Producers(d) \subseteq closure \cup Range(pending_edges)
      /\ \A S \in SUBSET Edge :
           Needs(S) => closure \cup Range(pending_edges) \subseteq S
  BY <1>1 DEF IInv, ClosureInv
<1>5. closure \cup Range(pending_edges) \subseteq closure' \cup Range(pending_edges')
  BY <1>1, <1>2, <1>3
<1>6. \A d \in closure' :
        Producers(d) \subseteq closure' \cup Range(pending_edges')
  <2>. TAKE d \in closure'
  <2>1. CASE d \in closure
    BY <1>4, <1>5, <2>1
  <2>2. CASE d = e /\ e \notin closure
    BY <1>3, <2>2
  <2>. QED BY <1>1, <2>1, <2>2
<1>7. \A S \in SUBSET Edge :
        Needs(S)' => closure' \cup Range(pending_edges') \subseteq S
  <2>. SUFFICES ASSUME NEW S \in SUBSET Edge, Needs(S)'
                PROVE  closure' \cup Range(pending_edges') \subseteq S
    OBVIOUS
  <2>1. Needs(S)
    BY <1>1 DEF Needs
  <2>2. closure \cup Range(pending_edges) \subseteq S
    BY <1>4, <2>1
  <2>3. e \in S
    BY <1>2, <2>2
  <2>4. Producers(e) \subseteq S
    BY <2>1, <2>3 DEF Needs
  <2>. QED BY <1>1, <1>2, <1>3, <2>2, <2>3, <2>4
<1>8. ClosureInv'
  BY <1>1, <1>4, <1>5, <1>6, <1>7 DEF ClosureInv, ClosureIsLeast
<1>9. TypeOK'
  BY <1>1, <1>2, <1>3 DEF TypeOK, CollectClosure, collected
<1>. QED
  BY <1>1, <1>8, <1>9 DEF IInv, CollectClosure, SpreadInv, DirtIsLeast,
     SortInv, Sorting, OrderInv, EndInv, NoInternalError

LEMMA ClosureDoneKeeps ==
  ASSUME IInv, ClosureDone
  PROVE  IInv'
<1>1. /\ stage = "close" /\ stage' = "scan" /\ pending_edges = <<>>
      /\ UNCHANGED <<targets, closure>>
  BY DEF ClosureDone, request
<1>2. TypeOK'
  BY DEF IInv, TypeOK, ClosureDone, Ended, request, collected
<1>3. Range(pending_edges) = {}
  BY <1>1, EmptyIsShortest DEF IInv, TypeOK
<1>4. ClosureInv'
  BY <1>1, <1>3 DEF IInv, ClosureInv, ClosureIsLeast, Needs
<1>. QED
  BY <1>2, <1>4 DEF IInv, ClosureDone, request, SpreadInv, DirtIsLeast,
     SortInv, Sorting, OrderInv, EndInv, NoInternalError

-----------------------------------------------------------------------------
(* The dirty edges.                                                        *)

LEMMA ScanKeeps ==
  ASSUME IInv, Scan
  PROVE  IInv'
<1>1. /\ stage = "scan" /\ stage' = "spread"
      /\ stale' \in SUBSET closure /\ closure \in SUBSET Edge
      /\ pending_edges' \in SetToSeqs(stale') /\ queued_edges' = stale'
      /\ dirty' = <<>> /\ UNCHANGED <<targets, closure, plan>>
  BY DEF IInv, TypeOK, Scan
<1>2. IsFiniteSet(stale')
  BY <1>1, EdgesFinite
<1>3. /\ pending_edges' \in Seq(stale') /\ IsInjective(pending_edges')
      /\ Range(pending_edges') = stale'
  BY <1>1, <1>2, Enumeration
<1>4. pending_edges' \in Seq(Edge)
  BY <1>1, <1>3, SeqDef
<1>5. plan = <<>>
  BY <1>1 DEF IInv, SortInv, Sorting
<1>6. /\ dirty' \in Seq(Edge) /\ Len(plan') <= Len(dirty')
      /\ Range(dirty') = {} /\ IsInjective(dirty')
  BY <1>1, <1>5, EmptyIsShortest, EmptySeq
<1>7. TypeOK'
  BY <1>1, <1>4, <1>6 DEF IInv, TypeOK, Scan, Ended
<1>8. ClosureInv'
  BY <1>1 DEF IInv, ClosureInv, ClosureIsLeast, Needs
<1>9. SpreadInv'
  BY <1>1, <1>3, <1>6 DEF SpreadInv, DirtIsLeast, Infected
<1>. QED
  BY <1>1, <1>5, <1>7, <1>8, <1>9 DEF IInv, SortInv, Sorting, OrderInv,
     EndInv, NoInternalError

LEMMA SpreadKeeps ==
  ASSUME IInv, Spread
  PROVE  IInv'
<1> DEFINE e == Head(pending_edges)
           rest == Tail(pending_edges)
           new == NewlyDirty(e)
<1>1. /\ stage = "spread" /\ stage' = stage /\ pending_edges # <<>>
      /\ pending_edges \in Seq(Edge) /\ dirty \in Seq(Edge)
      /\ queued_edges \in SUBSET Edge /\ closure \in SUBSET Edge
      /\ dirty' = Append(dirty, e) /\ queued_edges' = queued_edges \cup new
      /\ UNCHANGED <<targets, closure, stale, plan, indegree, ready_queue>>
  BY DEF IInv, TypeOK, Spread, request
<1>2. /\ stale \subseteq queued_edges
      /\ IsInjective(dirty) /\ IsInjective(pending_edges)
      /\ Range(dirty) \cap Range(pending_edges) = {}
      /\ queued_edges = Range(dirty) \cup Range(pending_edges)
      /\ \A d \in Range(dirty) : Dependents(d) \cap closure \subseteq queued_edges
      /\ \A S \in SUBSET Edge : Infected(S) => queued_edges \subseteq S
  BY <1>1 DEF IInv, SpreadInv
<1>3. /\ e \in Range(pending_edges) /\ rest \in Seq(Edge) /\ IsInjective(rest)
      /\ Range(rest) = Range(pending_edges) \ {e}
  BY <1>1, <1>2, TakeHead
<1>4. e \in Edge
  BY <1>1, SplitHead
<1>5. new \in SUBSET Edge /\ new = (Dependents(e) \cap closure) \ queued_edges
  BY <1>1 DEF NewlyDirty
<1>6. PICK more \in SetToSeqs(new) : pending_edges' = rest \o more
  BY DEF Spread
<1>7. more \in Seq(Edge) /\ IsInjective(more) /\ Range(more) = new
  <2>1. IsFiniteSet(new)
    BY <1>5, EdgesFinite
  <2>2. more \in Seq(new) /\ IsInjective(more) /\ Range(more) = new
    BY <1>6, <2>1, Enumeration
  <2>. QED BY <1>5, <2>2, SeqDef
<1>8. Range(rest) \cap Range(more) = {}
  BY <1>2, <1>3, <1>5, <1>7
<1>9. /\ pending_edges' \in Seq(Edge) /\ IsInjective(pending_edges')
      /\ Range(pending_edges') = Range(rest) \cup new
  <2>. HIDE DEF e, rest, new
  <2>1. /\ rest \o more \in Seq(Edge) /\ IsInjective(rest \o more)
        /\ Range(rest \o more) = Range(rest) \cup Range(more)
    BY <1>3, <1>7, <1>8, PushAll
  <2>. QED BY <1>6, <1>7, <2>1
<1>10. /\ dirty' \in Seq(Edge) /\ Range(dirty') = Range(dirty) \cup {e}
       /\ IsInjective(dirty')
  BY <1>1, <1>2, <1>3, <1>4, AppendOne
<1>11. plan = <<>>
  BY <1>1 DEF IInv, SortInv, Sorting
<1>12. TypeOK'
  <2>1. Len(plan') <= Len(dirty')
    BY <1>1, <1>10, <1>11, EmptyIsShortest
  <2>. QED BY <1>1, <1>5, <1>9, <1>10, <2>1 DEF IInv, TypeOK
<1>13. ClosureInv'
  BY <1>1 DEF IInv, ClosureInv, ClosureIsLeast, Needs
<1>14. queued_edges' = Range(dirty') \cup Range(pending_edges')
  BY <1>1, <1>2, <1>3, <1>9, <1>10
<1>15. Range(dirty') \cap Range(pending_edges') = {}
  BY <1>2, <1>3, <1>5, <1>9, <1>10
<1>16. \A d \in Range(dirty') :
         Dependents(d) \cap closure' \subseteq queued_edges'
  <2>. TAKE d \in Range(dirty')
  <2>1. CASE d \in Range(dirty)
    BY <1>1, <1>2, <2>1
  <2>2. CASE d = e
    BY <1>1, <1>5, <2>2
  <2>. QED BY <1>10, <2>1, <2>2
<1>17. \A S \in SUBSET Edge : Infected(S)' => queued_edges' \subseteq S
  <2>. SUFFICES ASSUME NEW S \in SUBSET Edge, Infected(S)'
                PROVE  queued_edges' \subseteq S
    OBVIOUS
  <2>1. Infected(S)
    BY <1>1 DEF Infected
  <2>2. queued_edges \subseteq S /\ e \in S
    BY <1>2, <1>3, <2>1
  <2>3. Dependents(e) \cap closure \subseteq S
    BY <2>1, <2>2 DEF Infected
  <2>. QED BY <1>1, <1>5, <2>2, <2>3
<1>18. SpreadInv'
  BY <1>1, <1>2, <1>9, <1>10, <1>14, <1>15, <1>16, <1>17
     DEF SpreadInv, DirtIsLeast
<1>. QED
  BY <1>1, <1>11, <1>12, <1>13, <1>18 DEF IInv, SortInv, Sorting, OrderInv,
     EndInv, NoInternalError

-----------------------------------------------------------------------------
(* The sort.                                                               *)

LEMMA StartSortEstablishes ==
  ASSUME NEW edges \in Seq(Edge), IsInjective(edges), StartSort(edges)
  PROVE  /\ dirty' = edges /\ plan' \in Seq(Edge) /\ Len(plan') <= Len(dirty')
         /\ ready_queue' \in Seq(Edge)
         /\ (indegree \in [DOMAIN indegree -> Nat] /\ DOMAIN indegree \subseteq Edge)'
         /\ stage' = "sort" /\ SortInv' /\ OrderInv' /\ EndInv'
<1> DEFINE all == Range(edges)
           free == {e \in all : Indegree(e, all) = 0}
<1>1. all \in SUBSET Edge
  BY RangeOfSeq DEF Range
<1>2. /\ dirty' = edges /\ plan' = <<>> /\ stage' = "sort"
      /\ indegree' = [e \in all |-> Indegree(e, all)]
      /\ ready_queue' \in SetToSeqs(free)
  BY DEF StartSort
<1>3. /\ plan' \in Seq(Edge) /\ Len(plan') <= Len(dirty')
      /\ Range(plan') = {} /\ IsInjective(plan')
  BY <1>2, EmptyIsShortest
<1>4. DOMAIN plan' = {}
  BY <1>2
<1>5. \A e \in all : Indegree(e, all) \in Nat
  BY <1>1, EdgesFinite DEF Indegree
<1>6. /\ ready_queue' \in Seq(free) /\ IsInjective(ready_queue')
      /\ Range(ready_queue') = free
  <2>1. IsFiniteSet(free)
    BY <1>1, EdgesFinite
  <2>. QED BY <1>2, <2>1, Enumeration
<1>7. ready_queue' \in Seq(Edge)
  BY <1>1, <1>6, SeqDef
<1>8. SortInv'
  <2>1. \A e \in all : indegree'[e] = Cardinality((Producers(e) \cap all) \ {})
    <3>. TAKE e \in all
    <3>1. Producers(e) \cap all = (Producers(e) \cap all) \ {}
      OBVIOUS
    <3>. QED BY <1>2, <3>1 DEF Indegree
  <2>2. DOMAIN indegree' = all
    BY <1>2
  <2>3. free = {e \in all : indegree'[e] = 0}
    BY <1>2
  <2>. QED BY <1>2, <1>3, <1>6, <2>1, <2>2, <2>3 DEF SortInv, Sorting
<1>9. OrderInv'
  BY <1>3, <1>4 DEF OrderInv
<1>10. EndInv'
  BY <1>2 DEF EndInv, NoInternalError
<1>. QED BY <1>1, <1>2, <1>3, <1>5, <1>7, <1>8, <1>9, <1>10

LEMMA SpreadDoneKeeps ==
  ASSUME IInv, SpreadDone
  PROVE  IInv'
<1>1. /\ stage = "spread" /\ pending_edges = <<>> /\ StartSort(dirty)
      /\ dirty \in Seq(Edge) /\ closure \in SUBSET Edge
      /\ UNCHANGED <<targets, closure, stale, pending_edges, queued_edges>>
  BY DEF IInv, TypeOK, SpreadDone, request
<1>2. /\ stale \subseteq queued_edges /\ IsInjective(dirty)
      /\ queued_edges = Range(dirty)
      /\ \A e \in Range(dirty) : Dependents(e) \cap closure \subseteq queued_edges
      /\ \A S \in SUBSET Edge : Infected(S) => queued_edges \subseteq S
  BY <1>1, EmptyIsShortest DEF IInv, SpreadInv
<1>3. /\ dirty' = dirty /\ stage' = "sort"
      /\ plan' \in Seq(Edge) /\ Len(plan') <= Len(dirty')
      /\ ready_queue' \in Seq(Edge)
      /\ (indegree \in [DOMAIN indegree -> Nat] /\ DOMAIN indegree \subseteq Edge)'
      /\ SortInv' /\ OrderInv' /\ EndInv'
  BY <1>1, <1>2, StartSortEstablishes
<1>4. TypeOK'
  BY <1>1, <1>3 DEF IInv, TypeOK
<1>5. ClosureInv'
  BY <1>1, <1>3 DEF IInv, ClosureInv, ClosureIsLeast, Needs
<1>6. SpreadInv'
  BY <1>1, <1>2, <1>3 DEF SpreadInv, DirtIsLeast, Infected
<1>. QED BY <1>3, <1>4, <1>5, <1>6 DEF IInv

LEMMA ValidateKeeps ==
  ASSUME IInv, Validate
  PROVE  IInv'
<1>1. /\ targets' = {} /\ closure' = Edge /\ stale' = Edge
      /\ queued_edges' = Edge /\ pending_edges' = pending_edges
  BY DEF Validate
<1>2. PICK edges \in SetToSeqs(Edge) : StartSort(edges)
  BY DEF Validate
<1>3. edges \in Seq(Edge) /\ IsInjective(edges) /\ Range(edges) = Edge
  BY GraphAssumption, Enumeration
<1>4. /\ dirty' = edges /\ stage' = "sort"
      /\ plan' \in Seq(Edge) /\ Len(plan') <= Len(dirty')
      /\ ready_queue' \in Seq(Edge)
      /\ (indegree \in [DOMAIN indegree -> Nat] /\ DOMAIN indegree \subseteq Edge)'
      /\ SortInv' /\ OrderInv' /\ EndInv'
  BY <1>2, <1>3, StartSortEstablishes
<1>5. TypeOK'
  BY <1>1, <1>3, <1>4 DEF IInv, TypeOK
<1>6. ClosureInv'
  BY <1>1, <1>4 DEF ClosureInv, ClosureIsLeast
<1>7. SpreadInv'
  BY <1>1, <1>3, <1>4 DEF SpreadInv, DirtIsLeast, Infected, Dependents
<1>. QED BY <1>4, <1>5, <1>6, <1>7 DEF IInv

LEMMA SortKeeps ==
  ASSUME IInv, Sort
  PROVE  IInv'
<1> DEFINE e == Head(ready_queue)
           D == Range(dirty)
           P == Range(plan)
           rest == Tail(ready_queue)
           waiting == Dependents(e) \cap D
           left(d) == (Producers(d) \cap D) \ P
<1>1. /\ stage = "sort" /\ ready_queue # <<>>
      /\ dirty \in Seq(Edge) /\ plan \in Seq(Edge) /\ ready_queue \in Seq(Edge)
      /\ plan' = Append(plan, e)
      /\ UNCHANGED <<targets, closure, stale, pending_edges, queued_edges, dirty>>
  BY DEF IInv, TypeOK, Sort, request, collected
<1>2. /\ DOMAIN indegree = D
      /\ \A d \in D : indegree[d] = Cardinality(left(d))
      /\ IsInjective(plan) /\ IsInjective(ready_queue)
      /\ P \cap Range(ready_queue) = {}
      /\ P \cup Range(ready_queue) = {d \in D : indegree[d] = 0}
      /\ IsInjective(dirty)
  BY <1>1 DEF IInv, SortInv, Sorting, SpreadInv, DirtIsLeast
<1>3. D \in SUBSET Edge
  BY <1>1, RangeOfSeq DEF Range
<1>4. /\ e \in Range(ready_queue) /\ rest \in Seq(Edge)
      /\ IsInjective(rest)
      /\ Range(rest) = Range(ready_queue) \ {e}
  BY <1>1, <1>2, TakeHead
<1>5. e \in D /\ e \in Edge /\ indegree[e] = 0 /\ e \notin P
  BY <1>2, <1>3, <1>4
<1>6. \A d \in D : IsFiniteSet(left(d)) /\ Cardinality(left(d)) \in Nat
  BY <1>3, EdgesFinite
<1>7. \A d \in D : d \in waiting <=> e \in left(d)
  BY <1>3, <1>5, Converse
<1>8. \A d \in waiting : indegree[d] # 0
  <2>. TAKE d \in waiting
  <2>1. left(d) # {}
    BY <1>7
  <2>. QED BY <1>2, <1>6, <2>1, FS_EmptySet
<1>9. /\ stage' = stage
      /\ indegree' = [d \in D |-> IF d \in waiting THEN indegree[d] - 1
                                                   ELSE indegree[d]]
  BY <1>2, <1>8 DEF Sort
<1>10. PICK more \in SetToSeqs(Released(e)) : ready_queue' = rest \o more
  BY <1>8 DEF Sort
<1>11. Released(e) = {d \in waiting : indegree[d] = 1}
  BY DEF Released
<1>12. more \in Seq(Edge) /\ IsInjective(more) /\ Range(more) = Released(e)
  <2>1. Released(e) \in SUBSET Edge
    BY <1>3, <1>11
  <2>2. IsFiniteSet(Released(e))
    BY <2>1, EdgesFinite
  <2>3. more \in Seq(Released(e)) /\ IsInjective(more) /\ Range(more) = Released(e)
    BY <2>2, Enumeration
  <2>. QED BY <2>1, <2>3, SeqDef
<1>13. /\ ready_queue' \in Seq(Edge) /\ IsInjective(ready_queue')
       /\ Range(ready_queue') = (Range(ready_queue) \ {e}) \cup Released(e)
  <2>1. Range(rest) \cap Range(more) = {}
    BY <1>2, <1>4, <1>11, <1>12
  <2>. HIDE DEF rest
  <2>2. /\ rest \o more \in Seq(Edge)
        /\ IsInjective(rest \o more)
        /\ Range(rest \o more) = Range(rest) \cup Range(more)
    BY <1>4, <1>12, <2>1, PushAll
  <2>. QED BY <1>4, <1>10, <1>12, <2>2
<1>14. /\ plan' \in Seq(Edge) /\ IsInjective(plan')
       /\ Range(plan') = P \cup {e}
  BY <1>1, <1>2, <1>5, AppendOne
<1>15. \A d \in D : indegree'[d] =
         Cardinality((Producers(d) \cap D) \ Range(plan'))
  <2>. TAKE d \in D
  <2>1. (Producers(d) \cap D) \ Range(plan') = left(d) \ {e}
    BY <1>14
  <2>2. CASE d \in waiting
    <3>1. Cardinality(left(d) \ {e}) = Cardinality(left(d)) - 1
      BY <1>6, <1>7, <2>2, FS_RemoveElement
    <3>. QED BY <1>2, <1>9, <2>1, <2>2, <3>1
  <2>3. CASE d \notin waiting
    <3>1. left(d) \ {e} = left(d)
      BY <1>7, <2>3
    <3>. QED BY <1>2, <1>9, <2>1, <2>3, <3>1
  <2>. QED BY <2>2, <2>3
<1>16. \A d \in D : indegree[d] \in Nat
  BY <1>2, <1>6
<1>17. /\ DOMAIN indegree' = D
       /\ \A d \in D : indegree'[d] \in Nat
       /\ \A d \in D : indegree'[d] = 0 <=> indegree[d] = 0 \/ d \in Released(e)
  BY <1>8, <1>9, <1>11, <1>16
<1>18. SortInv'
  <2>1. Range(plan') \cap Range(ready_queue') = {}
    BY <1>2, <1>5, <1>11, <1>13, <1>14
  <2>2. Range(plan') \cup Range(ready_queue')
          = P \cup Range(ready_queue) \cup Released(e)
    BY <1>4, <1>13, <1>14
  <2>3. Range(plan') \cup Range(ready_queue') = {d \in D : indegree'[d] = 0}
    BY <1>2, <1>11, <1>17, <2>2
  <2>. QED BY <1>1, <1>9, <1>13, <1>14, <1>15, <1>17, <2>1, <2>3
           DEF SortInv, Sorting
<1>19. Producers(e) \cap D \subseteq P
  <2>1. left(e) = {}
    BY <1>2, <1>5, <1>6, FS_EmptySet
  <2>. QED BY <2>1
<1>20. OrderInv'
  <2>1. /\ Len(plan) \in Nat /\ DOMAIN plan = 1..Len(plan)
        /\ DOMAIN plan' = 1..(Len(plan) + 1)
        /\ \A i \in 1..Len(plan) : plan'[i] = plan[i]
        /\ plan'[Len(plan) + 1] = e
    BY <1>1, <1>5, LenProperties, AppendProperties
  <2>2. ASSUME NEW j \in DOMAIN plan'
        PROVE  Producers(plan'[j]) \cap D \subseteq {plan'[i] : i \in 1..(j - 1)}
    <3>1. CASE j \in 1..Len(plan)
      <4>1. Producers(plan[j]) \cap D \subseteq {plan[i] : i \in 1..(j - 1)}
        BY <1>1, <2>1, <3>1 DEF IInv, OrderInv, Sorting
      <4>2. \A i \in 1..(j - 1) : plan'[i] = plan[i]
        BY <2>1, <3>1
      <4>. QED BY <2>1, <3>1, <4>1, <4>2
    <3>2. CASE j = Len(plan) + 1
      <4>1. P = {plan[i] : i \in 1..Len(plan)}
        BY <2>1 DEF Range
      <4>2. P \subseteq {plan'[i] : i \in 1..(j - 1)}
        BY <2>1, <3>2, <4>1
      <4>. QED BY <1>19, <2>1, <3>2, <4>2
    <3>. QED BY <2>1, <3>1, <3>2
  <2>3. ASSUME NEW S \in SUBSET D, Knot(S)
        PROVE  S \cap Range(plan') = {}
    <3>1. S \cap P = {}
      BY <1>1, <2>3 DEF IInv, OrderInv, Sorting
    <3>2. e \notin S
      BY <1>19, <2>3, <3>1 DEF Knot
    <3>. QED BY <1>14, <3>1, <3>2
  <2>. QED BY <1>1, <2>2, <2>3 DEF OrderInv
<1>21. Len(plan') <= Len(dirty')
  <2>1. IsFiniteSet(D) /\ Cardinality(D) = Len(dirty)
    BY <1>1, <1>2, InjectiveLength
  <2>2. Cardinality(Range(plan')) = Len(plan')
    BY <1>14, InjectiveLength
  <2>3. Range(plan') \in SUBSET D
    BY <1>2, <1>5, <1>14
  <2>. QED BY <1>1, <2>1, <2>2, <2>3, FS_Subset
<1>22. TypeOK'
  BY <1>1, <1>3, <1>9, <1>13, <1>14, <1>17, <1>21 DEF IInv, TypeOK
<1>23. ClosureInv'
  BY <1>1, <1>9 DEF IInv, ClosureInv, ClosureIsLeast, Needs
<1>24. SpreadInv'
  BY <1>1, <1>9 DEF IInv, SpreadInv, DirtIsLeast, Infected
<1>25. EndInv'
  BY <1>1, <1>9 DEF EndInv, NoInternalError
<1>. QED BY <1>18, <1>20, <1>22, <1>23, <1>24, <1>25 DEF IInv

(* A plan that is as long as the list of the dirty edges has them all.     *)
LEMMA CompleteMeansAll ==
  ASSUME IInv, stage = "sort"
  PROVE  Complete <=> Range(plan) = Range(dirty)
<1>1. /\ dirty \in Seq(Edge) /\ plan \in Seq(Edge)
      /\ IsInjective(dirty) /\ IsInjective(plan)
      /\ Range(plan) \in SUBSET Range(dirty)
  BY DEF IInv, TypeOK, SpreadInv, DirtIsLeast, SortInv, Sorting
<1>2. /\ IsFiniteSet(Range(dirty)) /\ Cardinality(Range(dirty)) = Len(dirty)
      /\ Cardinality(Range(plan)) = Len(plan)
  BY <1>1, InjectiveLength
<1>3. Cardinality(Range(plan)) = Cardinality(Range(dirty))
        <=> Range(plan) = Range(dirty)
  BY <1>1, <1>2, FS_Subset
<1>. QED BY <1>2, <1>3 DEF Complete

LEMMA SortDoneKeeps ==
  ASSUME IInv, SortDone
  PROVE  IInv'
<1>1. /\ stage = "sort" /\ ready_queue = <<>>
      /\ stage' = IF Complete THEN "planned" ELSE "cycle"
      /\ UNCHANGED <<targets, closure, stale, pending_edges, queued_edges,
                     dirty, indegree, ready_queue, plan>>
  BY DEF SortDone, request, collected
<1>2. TypeOK'
  BY <1>1 DEF IInv, TypeOK, Ended
<1>3. ClosureInv'
  BY <1>1 DEF IInv, ClosureInv, ClosureIsLeast, Needs
<1>4. SpreadInv'
  BY <1>1 DEF IInv, SpreadInv, DirtIsLeast, Infected
<1>5. SortInv'
  BY <1>1 DEF IInv, SortInv, Sorting
<1>6. OrderInv'
  BY <1>1 DEF IInv, OrderInv, Sorting, Knot
<1>7. EndInv'
  BY <1>1, CompleteMeansAll DEF EndInv, NoInternalError
<1>. QED BY <1>2, <1>3, <1>4, <1>5, <1>6, <1>7 DEF IInv

-----------------------------------------------------------------------------
(* The theorems.                                                           *)

LEMMA StepKeeps == IInv /\ [Next]_vars => IInv'
<1>. SUFFICES ASSUME IInv, [Next]_vars
              PROVE  IInv'
  OBVIOUS
<1>1. CASE UNCHANGED vars
  <2>1. UNCHANGED <<stage, targets, closure, stale, pending_edges, queued_edges,
                    dirty, indegree, ready_queue, plan>>
    BY <1>1 DEF vars, request, collected
  <2>2. TypeOK'
    BY <2>1 DEF IInv, TypeOK
  <2>3. ClosureInv'
    BY <2>1 DEF IInv, ClosureInv, ClosureIsLeast, Needs
  <2>4. SpreadInv'
    BY <2>1 DEF IInv, SpreadInv, DirtIsLeast, Infected
  <2>5. SortInv'
    BY <2>1 DEF IInv, SortInv, Sorting
  <2>6. OrderInv' /\ EndInv'
    BY <2>1 DEF IInv, OrderInv, Sorting, Knot, EndInv, NoInternalError
  <2>. QED BY <2>2, <2>3, <2>4, <2>5, <2>6 DEF IInv
<1>. QED
  BY <1>1, RejectTargetsKeeps, BuildAllKeeps, BuildTargetsKeeps, ValidateKeeps,
     CollectClosureKeeps, ClosureDoneKeeps, ScanKeeps, SpreadKeeps,
     SpreadDoneKeeps, SortKeeps, SortDoneKeeps DEF Next, Round

THEOREM Inductive == Spec => []IInv
BY InitEstablishes, StepKeeps, PTL DEF Spec

(* Every variable keeps its type, and no plan is longer than the list of   *)
(* the edges to plan.                                                      *)
THEOREM TypeCorrect == Spec => []TypeOK
<1>1. IInv => TypeOK
  BY DEF IInv
<1>. QED BY <1>1, Inductive, PTL

(* Builder::collect_target_closure returns what the targets need, all of   *)
(* it and nothing else.                                                    *)
THEOREM ClosureCorrect == Spec => []ClosureIsLeast
<1>1. IInv => ClosureIsLeast
  BY DEF IInv, ClosureInv
<1>. QED BY <1>1, Inductive, PTL

(* Builder::collect_edges_to_build spreads dirt as far as it must and no   *)
(* further.                                                                *)
THEOREM DirtCorrect == Spec => []DirtIsLeast
<1>1. IInv => DirtIsLeast
  BY DEF IInv, SpreadInv
<1>. QED BY <1>1, Inductive, PTL

(* What BuildPlanner::plan returns is a topological order of the dirty     *)
(* edges.                                                                  *)
THEOREM PlanCorrect == Spec => []PlanIsTopological
<1>1. IInv => PlanIsTopological
  <2>. SUFFICES ASSUME IInv, stage = "planned"
                PROVE  /\ IsInjective(plan) /\ Range(plan) = Range(dirty)
                       /\ \A i, j \in DOMAIN plan :
                            plan[i] \in Producers(plan[j]) => i < j
    BY DEF PlanIsTopological
  <2>1. /\ IsInjective(plan) /\ Range(plan) = Range(dirty)
        /\ plan \in Seq(Edge)
        /\ \A j \in DOMAIN plan :
             Producers(plan[j]) \cap Range(dirty)
               \subseteq {plan[i] : i \in 1..(j - 1)}
    BY DEF IInv, TypeOK, SortInv, Sorting, OrderInv, EndInv
  <2>2. Len(plan) \in Nat /\ DOMAIN plan = 1..Len(plan)
    BY <2>1, LenProperties
  <2>3. ASSUME NEW i \in DOMAIN plan, NEW j \in DOMAIN plan,
               plan[i] \in Producers(plan[j])
        PROVE  i < j
    <3>1. plan[i] \in Range(dirty)
      BY <2>1 DEF Range
    <3>2. PICK k \in 1..(j - 1) : plan[i] = plan[k]
      BY <2>1, <2>3, <3>1
    <3>3. i = k
      BY <2>1, <2>2, <3>2 DEF IsInjective
    <3>. QED BY <2>2, <3>2, <3>3
  <2>. QED BY <2>1, <2>3
<1>. QED BY <1>1, Inductive, PTL

(* BuildPlanner::plan and BuildGraphValidator::validate report a cycle     *)
(* exactly when there is one, and never an internal error.                 *)
THEOREM CyclesCorrect == Spec => []CyclesAreFound
<1>1. IInv => CyclesAreFound
  <2>. SUFFICES ASSUME IInv
                PROVE  CyclesAreFound
    OBVIOUS
  <2> DEFINE D == Range(dirty)
             K == D \ Range(plan)
  <2>1. ASSUME stage = "cycle"
        PROVE  \E S \in SUBSET D : Knot(S)
    <3>1. /\ dirty \in Seq(Edge) /\ ready_queue = <<>>
          /\ Range(plan) # D /\ Range(plan) \subseteq D
          /\ \A e \in D :
               indegree[e] = Cardinality((Producers(e) \cap D) \ Range(plan))
          /\ Range(plan) \cup Range(ready_queue) = {e \in D : indegree[e] = 0}
      BY <2>1 DEF IInv, TypeOK, SortInv, Sorting, EndInv
    <3>2. Range(ready_queue) = {}
      BY <3>1, EmptyIsShortest
    <3>3. K # {}
      BY <3>1
    <3>4. ASSUME NEW e \in K
          PROVE  Producers(e) \cap K # {}
      <4>1. indegree[e] # 0
        BY <3>1, <3>2
      <4>2. (Producers(e) \cap D) \ Range(plan) # {}
        BY <3>1, <4>1, FS_EmptySet
      <4>. QED BY <4>2
    <3>5. Knot(K) /\ K \in SUBSET D
      BY <3>3, <3>4 DEF Knot
    <3>. QED BY <3>5
  <2>2. ASSUME stage = "planned"
        PROVE  ~\E S \in SUBSET D : Knot(S)
    <3>1. Range(plan) = D /\ \A S \in SUBSET D : Knot(S) => S \cap Range(plan) = {}
      BY <2>2 DEF IInv, EndInv, OrderInv, Sorting
    <3>. QED BY <3>1 DEF Knot
  <2>3. NoInternalError
    BY DEF IInv, EndInv
  <2>. QED BY <2>1, <2>2, <2>3 DEF CyclesAreFound
<1>. QED BY <1>1, Inductive, PTL

-----------------------------------------------------------------------------
(* The loops end.                                                          *)

(* The loops a call has yet to enter, and what is left to the one it is in.*)
LoopsAhead ==
  CASE stage = "idle" -> 5
    [] stage = "close" -> 4
    [] stage = "scan" -> 3
    [] stage = "spread" -> 2
    [] stage = "sort" -> 1
    [] stage \in Ended -> 0
Left ==
  CASE stage = "close" -> Cardinality(Edge \ closure)
    [] stage = "spread" -> Cardinality(Edge) - Len(dirty)
    [] stage = "sort" -> Len(dirty) - Len(plan)
    [] OTHER -> 0

(* No loop goes round in circles, on a cyclic graph either: every round    *)
(* enters a later loop, or takes from what is left to this one, or pops an *)
(* edge met before and pushes none.                                        *)
EveryRoundCounts ==
  [][/\ Left \in Nat
     /\ \/ LoopsAhead' < LoopsAhead
        \/ /\ stage' = stage
           /\ \/ Left' < Left
              \/ /\ Left' = Left
                 /\ Len(pending_edges)' < Len(pending_edges)]_vars

(* A list without duplicates is no longer than the graph is large.         *)
LEMMA ListFits ==
  ASSUME NEW q \in Seq(Edge), IsInjective(q)
  PROVE  /\ Len(q) \in Nat /\ Cardinality(Edge) \in Nat
         /\ Len(q) <= Cardinality(Edge)
<1>1. Range(q) \in SUBSET Edge
  BY RangeOfSeq
<1>2. Cardinality(Range(q)) = Len(q) /\ Len(q) \in Nat
  BY InjectiveLength, LenProperties
<1>3. Cardinality(Edge) \in Nat
  BY EdgesFinite
<1>. QED BY <1>1, <1>2, <1>3, FS_Subset, GraphAssumption

LEMMA LeftIsNumber ==
  ASSUME IInv
  PROVE  Left \in Nat
<1>1. Cardinality(Edge \ closure) \in Nat
  BY EdgesFinite
<1>2. ASSUME stage = "spread"
      PROVE  Cardinality(Edge) - Len(dirty) \in Nat
  <2>1. dirty \in Seq(Edge) /\ IsInjective(dirty)
    BY <1>2 DEF IInv, TypeOK, SpreadInv
  <2>. QED BY <2>1, ListFits
<1>3. Len(dirty) - Len(plan) \in Nat
  <2>1. dirty \in Seq(Edge) /\ plan \in Seq(Edge) /\ Len(plan) <= Len(dirty)
    BY DEF IInv, TypeOK
  <2>2. Len(dirty) \in Nat /\ Len(plan) \in Nat
    BY <2>1, LenProperties
  <2>. QED BY <2>1, <2>2
<1>. QED BY <1>1, <1>2, <1>3 DEF Left

LEMMA ClosureRound ==
  ASSUME IInv, CollectClosure
  PROVE  /\ stage' = stage
         /\ \/ Left' < Left
            \/ Left' = Left /\ Len(pending_edges)' < Len(pending_edges)
<1> DEFINE e == Last(pending_edges)
<1>1. /\ stage = "close" /\ stage' = "close" /\ closure' = closure \cup {e}
      /\ pending_edges \in Seq(Edge) /\ pending_edges # <<>>
      /\ closure \in SUBSET Edge
  BY DEF IInv, TypeOK, CollectClosure
<1>2. /\ Left = Cardinality(Edge \ closure)
      /\ Left' = Cardinality(Edge \ closure')
  BY <1>1 DEF Left
<1>3. CASE e \in closure
  <2>1. closure' = closure /\ pending_edges' = Front(pending_edges)
    BY <1>1, <1>3 DEF CollectClosure, Popped
  <2>2. /\ Len(pending_edges) \in Nat
        /\ Len(Front(pending_edges)) = Len(pending_edges) - 1
    BY <1>1, FrontIsShorter
  <2>3. Left' = Left
    BY <1>2, <2>1
  <2>4. Len(pending_edges)' < Len(pending_edges)
    BY <2>1, <2>2
  <2>. QED BY <1>1, <2>3, <2>4
<1>4. CASE e \notin closure
  <2>1. e \in Edge
    BY <1>1, SplitLast
  <2>2. Edge \ closure' = (Edge \ closure) \ {e}
    BY <1>1
  <2>3. IsFiniteSet(Edge \ closure) /\ Cardinality(Edge \ closure) \in Nat
    BY EdgesFinite
  <2>4. Cardinality(Edge \ closure') = Cardinality(Edge \ closure) - 1
    BY <1>4, <2>1, <2>2, <2>3, FS_RemoveElement
  <2>. QED BY <1>1, <1>2, <2>3, <2>4
<1>. QED BY <1>3, <1>4

LEMMA SpreadRound ==
  ASSUME IInv, Spread
  PROVE  stage' = stage /\ Left' < Left
<1>1. /\ stage = "spread" /\ stage' = "spread" /\ dirty \in Seq(Edge)
      /\ pending_edges \in Seq(Edge) /\ pending_edges # <<>>
      /\ dirty' = Append(dirty, Head(pending_edges))
  BY DEF IInv, TypeOK, Spread
<1>2. Head(pending_edges) \in Edge
  BY <1>1, SplitHead
<1>3. Len(dirty') = Len(dirty) + 1
  BY <1>1, <1>2, AppendProperties
<1>4. Cardinality(Edge) \in Nat /\ Len(dirty) \in Nat
  BY <1>1, EdgesFinite, LenProperties
<1>. QED BY <1>1, <1>3, <1>4 DEF Left

LEMMA SortRound ==
  ASSUME IInv, Sort
  PROVE  \/ LoopsAhead' < LoopsAhead
         \/ stage' = stage /\ Left' < Left
<1>1. /\ stage = "sort" /\ stage' \in {"sort", "invalid"}
      /\ dirty \in Seq(Edge) /\ plan \in Seq(Edge) /\ dirty' = dirty
      /\ ready_queue \in Seq(Edge) /\ ready_queue # <<>>
      /\ plan' = Append(plan, Head(ready_queue))
  BY DEF IInv, TypeOK, Sort, collected
<1>2. CASE stage' = "invalid"
  BY <1>1, <1>2 DEF LoopsAhead, Ended
<1>3. CASE stage' = "sort"
  <2>1. Head(ready_queue) \in Edge
    BY <1>1, SplitHead
  <2>2. Len(plan') = Len(plan) + 1
    BY <1>1, <2>1, AppendProperties
  <2>3. Len(dirty) \in Nat /\ Len(plan) \in Nat
    BY <1>1, LenProperties
  <2>. QED BY <1>1, <1>3, <2>2, <2>3 DEF Left
<1>. QED BY <1>1, <1>2, <1>3

(* Every round of the three loops comes nearer to the end of the call,     *)
(* whatever the graph, the targets and the stale edges are.                *)
THEOREM RoundsCount == Spec => EveryRoundCounts
<1>1. IInv /\ [Next]_vars =>
        [/\ Left \in Nat
         /\ \/ LoopsAhead' < LoopsAhead
            \/ /\ stage' = stage
               /\ \/ Left' < Left
                  \/ /\ Left' = Left
                     /\ Len(pending_edges)' < Len(pending_edges)]_vars
  <2>. SUFFICES ASSUME IInv, Next
                PROVE  \/ LoopsAhead' < LoopsAhead
                       \/ /\ stage' = stage
                          /\ \/ Left' < Left
                             \/ /\ Left' = Left
                                /\ Len(pending_edges)' < Len(pending_edges)
    BY LeftIsNumber
  <2>1. CASE RejectTargets \/ BuildAll \/ BuildTargets \/ Validate
    <3>1. stage = "idle" /\ stage' \in {"rejected", "scan", "close", "sort"}
      BY <2>1 DEF RejectTargets, BuildAll, BuildTargets, Validate, StartSort
    <3>. QED BY <3>1 DEF LoopsAhead, Ended
  <2>2. CASE ClosureDone \/ Scan \/ SpreadDone \/ SortDone
    <3>1. \/ stage = "close" /\ stage' = "scan"
          \/ stage = "scan" /\ stage' = "spread"
          \/ stage = "spread" /\ stage' = "sort"
          \/ stage = "sort" /\ stage' \in {"planned", "cycle"}
      BY <2>2 DEF ClosureDone, Scan, SpreadDone, StartSort, SortDone
    <3>. QED BY <3>1 DEF LoopsAhead, Ended
  <2>3. CASE CollectClosure
    BY <2>3, ClosureRound
  <2>4. CASE Spread
    BY <2>4, SpreadRound
  <2>5. CASE Sort
    BY <2>5, SortRound
  <2>. QED BY <2>1, <2>2, <2>3, <2>4, <2>5 DEF Next, Round
<1>. QED BY <1>1, Inductive, PTL DEF Spec, EveryRoundCounts

-----------------------------------------------------------------------------
(* The validator against the order that the scheduler relies on.           *)

(* A graph that can be ranked has no knot: the edge of least rank in it    *)
(* would wait for one of a lesser rank.                                    *)
LEMMA RankedMeansUntied ==
  ASSUME Acyclic, NEW S \in SUBSET Edge, Knot(S)
  PROVE  FALSE
<1>1. PICK rank \in [Edge -> 1..Cardinality(Edge)] :
        \A e \in Edge : \A p \in Producers(e) : rank[p] < rank[e]
  BY DEF Acyclic
<1>2. Cardinality(Edge) \in Nat
  BY EdgesFinite
<1>3. \A e \in Edge : rank[e] \in Nat
  BY <1>1, <1>2
<1> DEFINE ranks == {rank[e] : e \in S}
<1>4. ranks \in SUBSET Nat /\ ranks # {}
  BY <1>3 DEF Knot
<1>5. PICK n \in ranks : \A m \in ranks : n <= m
  BY <1>4, LeastNumber
<1>6. PICK e \in S : rank[e] = n
  BY <1>5
<1>7. PICK p \in Producers(e) : p \in S
  BY <1>6 DEF Knot
<1>8. rank[p] < rank[e] /\ rank[e] <= rank[p]
  BY <1>1, <1>5, <1>6, <1>7
<1>. QED BY <1>3, <1>6, <1>7, <1>8

(* The place of an edge in a topological order of all edges is its rank.   *)
LEMMA SortedMeansRanked ==
  ASSUME PlanIsTopological, stage = "planned", Range(dirty) = Edge,
         plan \in Seq(Edge)
  PROVE  Acyclic
<1>1. /\ IsInjective(plan) /\ Range(plan) = Edge
      /\ \A i, j \in DOMAIN plan : plan[i] \in Producers(plan[j]) => i < j
  BY DEF PlanIsTopological
<1>2. Len(plan) = Cardinality(Edge)
  BY <1>1, InjectiveLength
<1>3. DOMAIN plan = 1..Cardinality(Edge)
  BY <1>2, LenProperties
<1> DEFINE rank == [e \in Edge |-> CHOOSE i \in DOMAIN plan : plan[i] = e]
<1>4. \A e \in Edge : rank[e] \in DOMAIN plan /\ plan[rank[e]] = e
  BY <1>1 DEF Range
<1>5. rank \in [Edge -> 1..Cardinality(Edge)]
  BY <1>3, <1>4
<1>6. ASSUME NEW e \in Edge, NEW p \in Producers(e)
      PROVE  rank[p] < rank[e]
  <2>1. p \in Edge
    BY DEF Producers
  <2>2. plan[rank[p]] \in Producers(plan[rank[e]])
    BY <1>4, <2>1
  <2>. HIDE DEF rank
  <2>. QED BY <1>1, <1>4, <2>1, <2>2
<1>. HIDE DEF rank
<1>. QED BY <1>5, <1>6 DEF Acyclic

(* BuildGraphValidator::validate, which sorts all edges of the graph,      *)
(* accepts exactly the graphs whose producers can be put in an order: the  *)
(* order on which a run of the Scheduler relies.  And whatever is sorted,  *)
(* only a graph without such an order is refused.                          *)
THEOREM AcceptsWhatCanBeOrdered ==
  Spec => [](/\ stage = "planned" /\ Range(dirty) = Edge => Acyclic
             /\ stage = "cycle" => ~Acyclic)
<1>1. ASSUME IInv, PlanIsTopological, CyclesAreFound
      PROVE  /\ stage = "planned" /\ Range(dirty) = Edge => Acyclic
             /\ stage = "cycle" => ~Acyclic
  <2>1. plan \in Seq(Edge) /\ dirty \in Seq(Edge)
    BY <1>1 DEF IInv, TypeOK
  <2>2. ASSUME stage = "planned", Range(dirty) = Edge
        PROVE  Acyclic
    BY <1>1, <2>1, <2>2, SortedMeansRanked
  <2>3. ASSUME stage = "cycle", Acyclic
        PROVE  FALSE
    <3>1. PICK S \in SUBSET Range(dirty) : Knot(S)
      BY <1>1, <2>3 DEF CyclesAreFound
    <3>2. S \in SUBSET Edge
      BY <2>1, <3>1, RangeOfSeq
    <3>. QED BY <2>3, <3>1, <3>2, RankedMeansUntied
  <2>. QED BY <2>2, <2>3
<1>. QED BY <1>1, Inductive, PlanCorrect, CyclesCorrect, PTL

=============================================================================
