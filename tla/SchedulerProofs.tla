--------------------------- MODULE SchedulerProofs ---------------------------
(***************************************************************************)
(* Theorems about Scheduler, for every build graph, every number of        *)
(* workers and every sequence of plans.                                    *)
(***************************************************************************)
EXTENDS Scheduler, SequenceLemmas

-----------------------------------------------------------------------------
(* Lemmas about the operators the model is built from.                     *)

(* The two directions of the graph agree: d depends on e exactly when e    *)
(* produces an input of d (Node::in_edge against Node::out_edges).         *)
LEMMA Converse ==
  ASSUME NEW d \in Edge, NEW e \in Edge
  PROVE  d \in Dependents(e) <=> e \in Producers(d)
BY DEF Dependents, Producers

(* The set an indegree counts is finite.                                   *)
LEMMA ProducersFinite ==
  ASSUME NEW e \in Edge, NEW p \in SUBSET Edge, NEW f
  PROVE  /\ IsFiniteSet((Producers(e) \cap p) \ f)
         /\ Cardinality((Producers(e) \cap p) \ f) \in Nat
<1>1. (Producers(e) \cap p) \ f \in SUBSET Edge
  BY DEF Producers
<1>2. IsFiniteSet((Producers(e) \cap p) \ f)
  BY <1>1, FS_Subset, GraphAssumption
<1>. QED BY <1>2, FS_CardinalityType

-----------------------------------------------------------------------------
(* The inductive invariant: each property needs the others.                *)
IInv == TypeOK /\ CountsExact /\ NoDoubleExecution /\ ThreadsInStep
          /\ NoLostWakeup

(* An edge whose indegree_ is zero has nothing left to wait for.           *)
LEMMA ReadyEdge ==
  ASSUME IInv, NEW e \in plan, indegree[e] = 0
  PROVE  Producers(e) \cap plan \subseteq done
<1>1. e \in Edge /\ plan \in SUBSET Edge
  BY DEF IInv, TypeOK
<1>2. IsFiniteSet((Producers(e) \cap plan) \ done)
  BY <1>1, ProducersFinite
<1>3. Cardinality((Producers(e) \cap plan) \ done) = 0
  BY DEF IInv, CountsExact
<1>. QED BY <1>2, <1>3, FS_EmptySet

(* What the invariant says of an edge that is being executed.              *)
LEMMA TakenEdge ==
  ASSUME IInv, NEW w \in Worker, edge[w] # nullptr
  PROVE  /\ edge[w] \in plan /\ edge[w] \notin done
         /\ indegree[edge[w]] = 0
         /\ Producers(edge[w]) \cap plan \subseteq done
<1>1. edge[w] \in Claimed
  BY DEF Claimed
<1>2. edge[w] \in plan /\ indegree[edge[w]] = 0 /\ edge[w] \notin done
  BY <1>1 DEF IInv, CountsExact, NoDoubleExecution
<1>. QED BY <1>2, ReadyEdge

(* When the counters say that the run is complete, it is.                  *)
LEMMA CompleteRun ==
  ASSUME IInv, Finished, ~failed
  PROVE  done = plan
<1>1. plan \in SUBSET Edge /\ done \in SUBSET plan
  BY DEF IInv, TypeOK
<1>2. IsFiniteSet(plan)
  BY <1>1, FS_Subset, GraphAssumption
<1>3. Cardinality(done) = Cardinality(plan)
  BY DEF Finished, total_edges, IInv, CountsExact
<1>. QED BY <1>1, <1>2, <1>3, FS_Subset

-----------------------------------------------------------------------------
(* Steps that move threads and leave the bookkeeping alone.                *)

LEMMA DataStays ==
  ASSUME CountsExact, NoDoubleExecution,
         UNCHANGED <<plan, indegree, ready_queue, completed_edges,
                     running_edges, done, edge>>
  PROVE  CountsExact' /\ NoDoubleExecution'
<1>1. Claimed' = Claimed
  BY DEF Claimed
<1>. QED BY <1>1 DEF CountsExact, NoDoubleExecution

LEMMA SetExecutorKeeps ==
  ASSUME IInv, SetExecutor
  PROVE  IInv'
<1>1. TypeOK'
  BY DEF IInv, TypeOK, SetExecutor, shared
<1>2. CountsExact' /\ NoDoubleExecution'
  BY DataStays DEF IInv, SetExecutor, shared
<1>3. ThreadsInStep'
  BY DEF IInv, TypeOK, ThreadsInStep, SetExecutor, shared, InFlight, Finished,
         total_edges
<1>4. NoLostWakeup'
  BY DEF IInv, TypeOK, NoLostWakeup, SetExecutor, shared,
         Finished, total_edges
<1>. QED BY <1>1, <1>2, <1>3, <1>4 DEF IInv

LEMMA RejectRunKeeps ==
  ASSUME IInv, RejectRun
  PROVE  IInv'
<1>1. TypeOK'
  BY SchedulerAssumption DEF IInv, TypeOK, RejectRun, shared
<1>2. CountsExact' /\ NoDoubleExecution'
  BY DataStays DEF IInv, RejectRun, shared
<1>3. ThreadsInStep'
  BY DEF IInv, TypeOK, ThreadsInStep, RejectRun, shared, InFlight, Finished,
         total_edges
<1>4. NoLostWakeup'
  BY DEF IInv, TypeOK, NoLostWakeup, RejectRun, shared,
         Finished, total_edges
<1>. QED BY <1>1, <1>2, <1>3, <1>4 DEF IInv

LEMMA SpawnWorkerKeeps ==
  ASSUME IInv, NEW w \in Worker, SpawnWorker(w)
  PROVE  IInv'
<1>1. TypeOK'
  BY DEF IInv, TypeOK, SpawnWorker, shared, outside
<1>2. CountsExact' /\ NoDoubleExecution'
  BY DataStays DEF IInv, SpawnWorker, shared
<1>3. ThreadsInStep'
  BY DEF IInv, TypeOK, ThreadsInStep, SpawnWorker, shared, outside, InFlight,
         Finished, total_edges
<1>4. NoLostWakeup'
  BY DEF IInv, TypeOK, NoLostWakeup, SpawnWorker, shared,
         outside, Finished, total_edges
<1>. QED BY <1>1, <1>2, <1>3, <1>4 DEF IInv

LEMMA NotifyStartedKeeps ==
  ASSUME IInv, NotifyStarted
  PROVE  IInv'
<1>1. TypeOK'
  BY DEF IInv, TypeOK, NotifyStarted, shared, outside,
         Woken
<1>2. CountsExact' /\ NoDoubleExecution'
  BY DataStays DEF IInv, NotifyStarted, shared
<1>3. ThreadsInStep'
  BY DEF IInv, TypeOK, ThreadsInStep, NotifyStarted, shared, outside, Woken,
         InFlight, Finished, total_edges
<1>4. NoLostWakeup'
  BY DEF IInv, TypeOK, NoLostWakeup, NotifyStarted, shared,
         outside, Woken, Finished, total_edges
<1>. QED BY <1>1, <1>2, <1>3, <1>4 DEF IInv

LEMMA AwaitFinishedKeeps ==
  ASSUME IInv, AwaitFinished
  PROVE  IInv'
<1>1. TypeOK'
  BY DEF IInv, TypeOK, AwaitFinished, shared, outside
<1>2. CountsExact' /\ NoDoubleExecution'
  BY DataStays DEF IInv, AwaitFinished, shared
<1>3. ThreadsInStep'
  BY DEF IInv, TypeOK, ThreadsInStep, AwaitFinished, shared, outside, InFlight,
         Finished, total_edges
<1>4. NoLostWakeup'
  BY DEF IInv, TypeOK, NoLostWakeup, AwaitFinished, shared,
         outside, Finished, total_edges
<1>. QED BY <1>1, <1>2, <1>3, <1>4 DEF IInv

LEMMA SetStoppingKeeps ==
  ASSUME IInv, SetStopping
  PROVE  IInv'
<1>1. TypeOK'
  BY DEF IInv, TypeOK, SetStopping, outside
<1>2. CountsExact' /\ NoDoubleExecution'
  BY DataStays DEF IInv, SetStopping
<1>3. ThreadsInStep'
  BY DEF IInv, TypeOK, ThreadsInStep, SetStopping, outside, InFlight, Finished,
         total_edges
<1>4. NoLostWakeup'
  BY DEF IInv, TypeOK, NoLostWakeup, SetStopping, outside,
         Finished, total_edges
<1>. QED BY <1>1, <1>2, <1>3, <1>4 DEF IInv

LEMMA NotifyStoppingKeeps ==
  ASSUME IInv, NotifyStopping
  PROVE  IInv'
<1>1. TypeOK'
  BY DEF IInv, TypeOK, NotifyStopping, shared, outside,
         Woken
<1>2. CountsExact' /\ NoDoubleExecution'
  BY DataStays DEF IInv, NotifyStopping, shared
<1>3. ThreadsInStep'
  BY DEF IInv, TypeOK, ThreadsInStep, NotifyStopping, shared, outside, Woken,
         InFlight, Finished, total_edges
<1>4. NoLostWakeup'
  BY DEF IInv, TypeOK, NoLostWakeup, NotifyStopping, shared,
         outside, Woken, Finished, total_edges
<1>. QED BY <1>1, <1>2, <1>3, <1>4 DEF IInv

LEMMA JoinWorkersKeeps ==
  ASSUME IInv, JoinWorkers
  PROVE  IInv'
<1>1. TypeOK'
  BY DEF IInv, TypeOK, JoinWorkers, shared
<1>2. CountsExact' /\ NoDoubleExecution'
  BY DataStays DEF IInv, JoinWorkers, shared
<1>3. Finished
  BY DEF IInv, ThreadsInStep, JoinWorkers
<1>4. ~failed => done = plan
  BY <1>3, CompleteRun
<1>5. ThreadsInStep'
  BY <1>4 DEF IInv, TypeOK, ThreadsInStep, JoinWorkers, shared, outside,
              InFlight, Finished, total_edges
<1>6. NoLostWakeup'
  BY DEF IInv, TypeOK, NoLostWakeup, JoinWorkers, shared
<1>. QED BY <1>1, <1>2, <1>5, <1>6 DEF IInv

LEMMA WaitForWorkKeeps ==
  ASSUME IInv, NEW w \in Worker, WaitForWork(w)
  PROVE  IInv'
<1>1. TypeOK'
  BY DEF IInv, TypeOK, WaitForWork, shared, outside
<1>2. CountsExact' /\ NoDoubleExecution'
  BY DataStays DEF IInv, WaitForWork, shared
<1>3. ThreadsInStep'
  BY DEF IInv, TypeOK, ThreadsInStep, WaitForWork, shared, outside, InFlight,
         Finished, StopRequested, total_edges
<1>4. NoLostWakeup'
  BY DEF IInv, TypeOK, NoLostWakeup, WaitForWork, shared,
         outside, Finished, StopRequested, total_edges
<1>. QED BY <1>1, <1>2, <1>3, <1>4 DEF IInv

LEMMA LeaveLoopKeeps ==
  ASSUME IInv, NEW w \in Worker, LeaveLoop(w)
  PROVE  IInv'
<1>1. TypeOK'
  BY DEF IInv, TypeOK, LeaveLoop, shared, outside
<1>2. CountsExact' /\ NoDoubleExecution'
  BY DataStays DEF IInv, LeaveLoop, shared
<1>3. ThreadsInStep'
  BY DEF IInv, TypeOK, ThreadsInStep, LeaveLoop, shared, outside, InFlight,
         Finished, StopRequested, total_edges
<1>4. NoLostWakeup'
  BY DEF IInv, TypeOK, NoLostWakeup, LeaveLoop, shared, outside,
         Finished, StopRequested, total_edges
<1>. QED BY <1>1, <1>2, <1>3, <1>4 DEF IInv

LEMMA ExecuteEdgeKeeps ==
  ASSUME IInv, NEW w \in Worker, ExecuteEdge(w)
  PROVE  IInv'
<1>1. TypeOK'
  BY DEF IInv, TypeOK, ExecuteEdge, shared, outside
<1>2. CountsExact' /\ NoDoubleExecution'
  BY DataStays DEF IInv, ExecuteEdge, shared
<1>3. ThreadsInStep'
  BY DEF IInv, TypeOK, ThreadsInStep, ExecuteEdge, shared, outside, InFlight,
         Finished, total_edges
<1>4. NoLostWakeup'
  BY DEF IInv, TypeOK, NoLostWakeup, ExecuteEdge, shared,
         outside, Finished, total_edges
<1>. QED BY <1>1, <1>2, <1>3, <1>4 DEF IInv

LEMMA NotifyWorkKeeps ==
  ASSUME IInv, NEW w \in Worker, NotifyWork(w)
  PROVE  IInv'
<1>1. TypeOK'
  BY DEF IInv, TypeOK, NotifyWork, shared, outside, Woken
<1>2. CountsExact' /\ NoDoubleExecution'
  BY DataStays DEF IInv, NotifyWork, shared
<1>3. ThreadsInStep'
  BY DEF IInv, TypeOK, ThreadsInStep, NotifyWork, shared, outside, Woken,
         InFlight, Finished, total_edges
<1>4. NoLostWakeup'
  BY DEF IInv, TypeOK, NoLostWakeup, NotifyWork, shared,
         outside, Woken, Finished, total_edges
<1>. QED BY <1>1, <1>2, <1>3, <1>4 DEF IInv

LEMMA FailEdgeKeeps ==
  ASSUME IInv, NEW w \in Worker, FailEdge(w)
  PROVE  IInv'
<1>1. TypeOK'
  BY DEF IInv, TypeOK, FailEdge, outside
<1>2. CountsExact' /\ NoDoubleExecution'
  BY DataStays DEF IInv, FailEdge
<1>3. ThreadsInStep'
  BY DEF IInv, TypeOK, ThreadsInStep, FailEdge, outside, InFlight, Finished,
         total_edges
<1>4. NoLostWakeup'
  BY DEF IInv, TypeOK, NoLostWakeup, FailEdge, outside,
         Finished, total_edges
<1>. QED BY <1>1, <1>2, <1>3, <1>4 DEF IInv

LEMMA NotifyFailedWorkersKeeps ==
  ASSUME IInv, NEW w \in Worker, NotifyFailedWorkers(w)
  PROVE  IInv'
<1>1. TypeOK'
  BY DEF IInv, TypeOK, NotifyFailedWorkers, shared,
         outside, Woken
<1>2. CountsExact' /\ NoDoubleExecution'
  BY DataStays DEF IInv, NotifyFailedWorkers, shared
<1>3. ThreadsInStep'
  BY DEF IInv, TypeOK, ThreadsInStep, NotifyFailedWorkers, shared, outside,
         Woken, InFlight, Finished, total_edges
<1>4. NoLostWakeup'
  BY DEF IInv, TypeOK, NoLostWakeup, NotifyFailedWorkers,
         shared, outside, Woken, Finished, total_edges
<1>. QED BY <1>1, <1>2, <1>3, <1>4 DEF IInv

LEMMA NotifyFailedMainKeeps ==
  ASSUME IInv, NEW w \in Worker, NotifyFailedMain(w)
  PROVE  IInv'
<1>1. TypeOK'
  BY DEF IInv, TypeOK, NotifyFailedMain, shared, outside,
         MainWoken
<1>2. CountsExact' /\ NoDoubleExecution'
  BY DataStays DEF IInv, NotifyFailedMain, shared
<1>3. ThreadsInStep'
  BY DEF IInv, TypeOK, ThreadsInStep, NotifyFailedMain, shared, outside,
         MainWoken, InFlight, Finished, total_edges
<1>4. NoLostWakeup'
  BY DEF IInv, TypeOK, NoLostWakeup, NotifyFailedMain, shared,
         outside, MainWoken, Finished, total_edges
<1>. QED BY <1>1, <1>2, <1>3, <1>4 DEF IInv

LEMMA SpuriousWakeupKeeps ==
  ASSUME IInv, SpuriousWakeup
  PROVE  IInv'
<1>1. TypeOK'
  BY DEF IInv, TypeOK, SpuriousWakeup, shared, outside
<1>2. CountsExact' /\ NoDoubleExecution'
  BY DataStays DEF IInv, SpuriousWakeup, shared
<1>3. ThreadsInStep'
  BY DEF IInv, TypeOK, ThreadsInStep, SpuriousWakeup, shared, outside,
         InFlight, Finished, total_edges
<1>4. NoLostWakeup'
  BY DEF IInv, TypeOK, NoLostWakeup, SpuriousWakeup, shared,
         outside, Finished, total_edges
<1>. QED BY <1>1, <1>2, <1>3, <1>4 DEF IInv

-----------------------------------------------------------------------------
(* Steps that change the bookkeeping.                                      *)

LEMMA StartRunKeeps ==
  ASSUME IInv, NEW p \in SUBSET Edge, StartRun(p)
  PROVE  IInv'
<1> DEFINE first == {e \in p : Indegree(e, p) = 0}
<1>1. /\ plan' = p /\ done' = {} /\ ready_queue' \in SetToSeqs(first)
      /\ completed_edges' = 0 /\ running_edges' = 0
      /\ indegree' = [e \in p |-> Indegree(e, p)]
      /\ edge' = [w \in Worker |-> nullptr]
      /\ pc' = [w \in Worker |-> "none"]
      /\ main' = "spawn" /\ stopping' = FALSE /\ failed' = FALSE
  BY DEF StartRun, InitialQueues
<1>2. IsFiniteSet(first)
  BY FS_Subset, GraphAssumption
<1>3. /\ ready_queue' \in Seq(first) /\ IsInjective(ready_queue')
      /\ Range(ready_queue') = first
  BY <1>1, <1>2, Enumeration
<1>4. \A e \in p : /\ Indegree(e, p) = Cardinality((Producers(e) \cap p) \ {})
                   /\ Indegree(e, p) \in Nat
  <2>1. TAKE e \in p
  <2>2. (Producers(e) \cap p) \ {} = Producers(e) \cap p
    OBVIOUS
  <2>. QED BY <2>2, ProducersFinite DEF Indegree
<1>5. TypeOK'
  <2>1. ready_queue' \in Seq(Edge)
    BY <1>3, SeqMonotonic
  <2>2. indegree' \in [plan' -> Nat]
    BY <1>1, <1>4
  <2>3. runs' \in 0..MaxRuns
    BY SchedulerAssumption DEF IInv, TypeOK, StartRun
  <2>4. /\ result' \in {"none", "success", "failure", "rejected"}
        /\ executor' \in BOOLEAN
    BY DEF IInv, TypeOK, StartRun
  <2>. QED BY <1>1, <2>1, <2>2, <2>3, <2>4 DEF TypeOK
<1>6. Claimed' = {}
  BY <1>1 DEF Claimed
<1>7. CountsExact'
  <2>1. \A e \in plan' :
          indegree'[e] = Cardinality((Producers(e) \cap plan') \ done')
    BY <1>1, <1>4
  <2>2. Range(ready_queue') \cup Claimed' \cup done'
          = {e \in plan' : indegree'[e] = 0}
    BY <1>1, <1>3, <1>6
  <2>3. {w \in Worker : edge'[w] # nullptr} = {}
    BY <1>1
  <2>. QED BY <1>1, <2>1, <2>2, <2>3, FS_EmptySet DEF CountsExact
<1>8. NoDoubleExecution'
  BY <1>1, <1>3, <1>6 DEF NoDoubleExecution
<1>9. ThreadsInStep' /\ NoLostWakeup'
  BY <1>1 DEF ThreadsInStep, NoLostWakeup, InFlight
<1>. QED BY <1>5, <1>7, <1>8, <1>9 DEF IInv

LEMMA TakeEdgeKeeps ==
  ASSUME IInv, NEW w \in Worker, TakeEdge(w)
  PROVE  IInv'
<1> DEFINE e == Head(ready_queue)
<1>1. /\ ready_queue \in Seq(Edge) /\ ready_queue # <<>>
      /\ IsInjective(ready_queue) /\ edge \in [Worker -> Edge \cup {nullptr}]
      /\ edge[w] = nullptr
  BY DEF IInv, TypeOK, NoDoubleExecution, ThreadsInStep, TakeEdge
<1>2. /\ e \in Range(ready_queue) /\ ready_queue' \in Seq(Edge)
      /\ IsInjective(ready_queue')
      /\ Range(ready_queue') = Range(ready_queue) \ {e}
  BY <1>1, TakeHead DEF TakeEdge
<1>3. e \in Edge /\ e # nullptr
  BY <1>1, <1>2, RangeOfSeq, SchedulerAssumption
<1>4. edge' = [edge EXCEPT ![w] = e]
  BY DEF TakeEdge
<1>5. Claimed' = Claimed \cup {e}
  BY <1>1, <1>3, <1>4 DEF Claimed
<1>6. e \notin Claimed \cup done
  BY <1>2 DEF IInv, NoDoubleExecution
<1>7. TypeOK'
  BY <1>2, <1>3 DEF IInv, TypeOK, TakeEdge, outside
<1>8. running_edges' = Cardinality({v \in Worker : edge'[v] # nullptr})
  <2> DEFINE busy == {v \in Worker : edge[v] # nullptr}
  <2>1. {v \in Worker : edge'[v] # nullptr} = busy \cup {w} /\ w \notin busy
    BY <1>1, <1>3, <1>4
  <2>2. IsFiniteSet(busy)
    BY FS_Subset, SchedulerAssumption
  <2>3. Cardinality(busy \cup {w}) = Cardinality(busy) + 1
    BY <2>1, <2>2, FS_AddElement
  <2>. QED BY <2>1, <2>3 DEF IInv, CountsExact, TakeEdge
<1>9. CountsExact'
  <2>1. Range(ready_queue') \cup Claimed' \cup done'
          = {d \in plan' : indegree'[d] = 0}
    BY <1>2, <1>5 DEF IInv, CountsExact, TakeEdge
  <2>. QED BY <1>8, <2>1 DEF IInv, CountsExact, TakeEdge
<1>10. NoDoubleExecution'
  <2>1. \A u, v \in Worker : edge'[u] = edge'[v] /\ edge'[u] # nullptr => u = v
    BY <1>1, <1>4, <1>6 DEF IInv, NoDoubleExecution, Claimed
  <2>2. /\ Range(ready_queue') \cap (Claimed' \cup done') = {}
        /\ Claimed' \cap done' = {}
    BY <1>2, <1>5, <1>6 DEF IInv, NoDoubleExecution, TakeEdge
  <2>. QED BY <1>2, <2>1, <2>2 DEF NoDoubleExecution
<1>11. ThreadsInStep'
  BY <1>1, <1>3 DEF IInv, TypeOK, ThreadsInStep, TakeEdge, outside, InFlight,
                    StopRequested, Finished, total_edges
<1>12. NoLostWakeup'
  BY <1>1 DEF IInv, TypeOK, NoLostWakeup, TakeEdge, StopRequested, Finished,
              total_edges
<1>. QED BY <1>7, <1>9, <1>10, <1>11, <1>12 DEF IInv

LEMMA FinishEdgeKeeps ==
  ASSUME IInv, NEW w \in Worker, FinishEdge(w)
  PROVE  IInv'
<1> DEFINE e == edge[w]
           waits(d, f) == (Producers(d) \cap plan) \ f
<1>1. /\ e # nullptr /\ edge \in [Worker -> Edge \cup {nullptr}] /\ e \in Edge
      /\ plan \in SUBSET Edge /\ done \in SUBSET plan
      /\ indegree \in [plan -> Nat] /\ ready_queue \in Seq(Edge)
  BY DEF IInv, TypeOK, ThreadsInStep, FinishEdge, InFlight
<1>2. e \in plan /\ e \notin done /\ indegree[e] = 0
  BY <1>1, TakenEdge
<1>3. PICK pushed \in SetToSeqs(Released(e)) :
        ready_queue' = ready_queue \o pushed
  BY DEF FinishEdge
<1>4. /\ plan' = plan /\ done' = done \cup {e}
      /\ edge' = [edge EXCEPT ![w] = nullptr]
      /\ indegree' = [d \in plan |-> IF d \in Dependents(e) \cap plan
                                      THEN indegree[d] - 1 ELSE indegree[d]]
      /\ completed_edges' = completed_edges + 1
      /\ running_edges' = running_edges - 1
  BY DEF FinishEdge, UniqueDependents
<1>5. \A d \in plan : d \in Dependents(e) <=> e \in waits(d, done)
  BY <1>1, <1>2, Converse
<1>6. \A d \in plan : /\ indegree'[d] = Cardinality(waits(d, done \cup {e}))
                      /\ indegree'[d] \in Nat
                      /\ d \in Dependents(e) => indegree[d] \in Nat \ {0}
  <2>1. TAKE d \in plan
  <2>2. /\ waits(d, done \cup {e}) = waits(d, done) \ {e}
        /\ IsFiniteSet(waits(d, done))
        /\ Cardinality(waits(d, done \cup {e})) \in Nat
    BY <1>1, ProducersFinite
  <2>3. Cardinality(waits(d, done) \ {e}) =
          IF e \in waits(d, done) THEN Cardinality(waits(d, done)) - 1
                                  ELSE Cardinality(waits(d, done))
    BY <2>2, FS_RemoveElement
  <2>4. indegree[d] = Cardinality(waits(d, done)) /\ indegree[d] \in Nat
    BY <1>1 DEF IInv, CountsExact
  <2>5. indegree'[d] = IF d \in Dependents(e)
                         THEN indegree[d] - 1 ELSE indegree[d]
    BY <1>4
  <2>6. CASE d \in Dependents(e)
    <3>1. indegree'[d] = indegree[d] - 1 /\ e \in waits(d, done)
      BY <1>5, <2>5, <2>6
    <3>2. Cardinality(waits(d, done \cup {e})) = indegree[d] - 1
      BY <2>2, <2>3, <2>4, <3>1
    <3>. QED BY <2>2, <2>4, <3>1, <3>2
  <2>7. CASE d \notin Dependents(e)
    <3>1. indegree'[d] = indegree[d] /\ e \notin waits(d, done)
      BY <1>5, <2>5, <2>7
    <3>2. Cardinality(waits(d, done \cup {e})) = indegree[d]
      BY <2>2, <2>3, <2>4, <3>1
    <3>. QED BY <2>2, <2>4, <2>7, <3>1, <3>2
  <2>. QED BY <2>6, <2>7
<1>7. Released(e) = {d \in plan : indegree[d] # 0 /\ indegree'[d] = 0}
  BY <1>1, <1>4, <1>6 DEF Released, UniqueDependents
<1>8. /\ ready_queue' \in Seq(Edge) /\ IsInjective(ready_queue')
      /\ Range(ready_queue') = Range(ready_queue) \cup Released(e)
  <2>1. IsFiniteSet(Released(e)) /\ Released(e) \subseteq Edge
    BY <1>1, <1>7, FS_Subset, GraphAssumption
  <2>2. /\ pushed \in Seq(Edge) /\ IsInjective(pushed)
        /\ Range(pushed) = Released(e)
    BY <2>1, Enumeration, SeqMonotonic
  <2>3. Range(ready_queue) \cap Released(e) = {} /\ IsInjective(ready_queue)
    BY <1>7 DEF IInv, CountsExact, NoDoubleExecution
  <2>. QED BY <1>1, <1>3, <2>2, <2>3, PushAll
<1>9. Claimed' = Claimed \ {e} /\ e \in Claimed
  <2>1. \A v \in Worker : edge[v] = e => v = w
    BY <1>1 DEF IInv, NoDoubleExecution
  <2>. QED BY <1>1, <1>4, <2>1 DEF Claimed
<1>10. running_edges' = Cardinality({v \in Worker : edge'[v] # nullptr})
       /\ running_edges' \in Nat
  <2> DEFINE busy == {v \in Worker : edge[v] # nullptr}
  <2>1. {v \in Worker : edge'[v] # nullptr} = busy \ {w} /\ w \in busy
    BY <1>1, <1>4
  <2>2. IsFiniteSet(busy)
    BY FS_Subset, SchedulerAssumption
  <2>3. /\ Cardinality(busy \ {w}) = Cardinality(busy) - 1
        /\ Cardinality(busy \ {w}) \in Nat
    BY <2>1, <2>2, FS_RemoveElement, FS_CardinalityType
  <2>. QED BY <1>4, <2>1, <2>3 DEF IInv, CountsExact
<1>11. TypeOK'
  <2>1. indegree' \in [plan' -> Nat] /\ done' \subseteq plan'
    BY <1>1, <1>2, <1>4, <1>6
  <2>2. edge' \in [Worker -> Edge \cup {nullptr}]
    BY <1>1, <1>4
  <2>3. completed_edges' \in Nat
    BY <1>4 DEF IInv, TypeOK
  <2>. QED BY <1>1, <1>4, <1>8, <1>10, <2>1, <2>2, <2>3
          DEF IInv, TypeOK, FinishEdge, MainWoken, outside
<1>12. CountsExact'
  <2>1. \A d \in plan' :
          indegree'[d] = Cardinality((Producers(d) \cap plan') \ done')
    BY <1>4, <1>6
  <2>2. {d \in plan' : indegree'[d] = 0}
          = {d \in plan : indegree[d] = 0} \cup Released(e)
    BY <1>1, <1>4, <1>6, <1>7
  <2>3. Range(ready_queue') \cup Claimed' \cup done'
          = {d \in plan' : indegree'[d] = 0}
    BY <1>4, <1>8, <1>9, <2>2 DEF IInv, CountsExact
  <2>4. IsFiniteSet(done)
    BY <1>1, FS_Subset, GraphAssumption
  <2>5. completed_edges' = Cardinality(done')
    BY <1>2, <1>4, <2>4, FS_AddElement DEF IInv, CountsExact
  <2>. QED BY <1>10, <2>1, <2>3, <2>5 DEF CountsExact
<1>13. NoDoubleExecution'
  <2>1. \A u, v \in Worker : edge'[u] = edge'[v] /\ edge'[u] # nullptr => u = v
    BY <1>1, <1>4 DEF IInv, NoDoubleExecution
  <2>2. Released(e) \cap (Claimed \cup done) = {} /\ e \notin Range(ready_queue)
    BY <1>7, <1>9 DEF IInv, CountsExact, NoDoubleExecution
  <2>3. Released(e) \cap {e} = {}
    BY <1>2, <1>7
  <2>4. /\ Range(ready_queue') \cap (Claimed' \cup done') = {}
        /\ Claimed' \cap done' = {}
    BY <1>4, <1>8, <1>9, <2>2, <2>3 DEF IInv, NoDoubleExecution
  <2>. QED BY <1>8, <2>1, <2>4 DEF NoDoubleExecution
<1>14. Finished => failed
  BY <1>2, CompleteRun
<1>15. ThreadsInStep'
  BY <1>1, <1>14 DEF IInv, TypeOK, ThreadsInStep, FinishEdge, MainWoken,
                     outside, InFlight, Finished, total_edges
<1>16. NoLostWakeup'
  BY <1>14 DEF IInv, TypeOK, NoLostWakeup, FinishEdge, MainWoken, Finished,
               total_edges
<1>. QED BY <1>11, <1>12, <1>13, <1>15, <1>16 DEF IInv

-----------------------------------------------------------------------------
LEMMA InitEstablishes ==
  ASSUME Init
  PROVE  IInv
<1>1. Claimed = {} /\ {w \in Worker : edge[w] # nullptr} = {}
  BY DEF Init, Claimed
<1>2. Range(ready_queue) = {} /\ IsInjective(ready_queue)
  BY DEF Init, Range, IsInjective
<1>3. TypeOK
  <2>1. indegree \in [plan -> Nat] /\ ready_queue \in Seq(Edge)
    BY EmptySeq DEF Init
  <2>2. runs \in 0..MaxRuns
    BY SchedulerAssumption DEF Init
  <2>. QED BY <2>1, <2>2 DEF Init, TypeOK
<1>4. CountsExact
  BY <1>1, <1>2, FS_EmptySet DEF Init, CountsExact
<1>5. NoDoubleExecution
  BY <1>1, <1>2 DEF Init, NoDoubleExecution
<1>6. ThreadsInStep /\ NoLostWakeup
  BY DEF Init, ThreadsInStep, NoLostWakeup, InFlight
<1>. QED BY <1>3, <1>4, <1>5, <1>6 DEF IInv

LEMMA StepKeeps ==
  ASSUME IInv, [Next]_vars
  PROVE  IInv'
<1>1. CASE UNCHANGED vars
  <2>1. CountsExact' /\ NoDoubleExecution'
    BY <1>1, DataStays DEF IInv, vars, shared
  <2>. QED BY <1>1, <2>1 DEF IInv, vars, shared, outside, TypeOK, ThreadsInStep,
                             NoLostWakeup, InFlight, Finished, total_edges
<1>2. CASE SetExecutor \/ RejectRun
  BY <1>2, SetExecutorKeeps, RejectRunKeeps
<1>3. CASE \E p \in SUBSET Edge : StartRun(p)
  BY <1>3, StartRunKeeps
<1>4. CASE MainStep
  BY <1>4, SpawnWorkerKeeps, NotifyStartedKeeps, AwaitFinishedKeeps,
     SetStoppingKeeps, NotifyStoppingKeeps, JoinWorkersKeeps DEF MainStep
<1>5. CASE \E w \in Worker : WorkerStep(w)
  BY <1>5, WaitForWorkKeeps, LeaveLoopKeeps, TakeEdgeKeeps, ExecuteEdgeKeeps,
     FinishEdgeKeeps, NotifyWorkKeeps, FailEdgeKeeps, NotifyFailedWorkersKeeps,
     NotifyFailedMainKeeps DEF WorkerStep
<1>6. CASE SpuriousWakeup
  BY <1>6, SpuriousWakeupKeeps
<1>. QED BY <1>1, <1>2, <1>3, <1>4, <1>5, <1>6 DEF Next

(* The inductive invariant holds in every reachable state.                 *)
THEOREM Inductive == Spec => []IInv
<1>1. Init => IInv
  BY InitEstablishes
<1>2. IInv /\ [Next]_vars => IInv'
  BY StepKeeps
<1>. QED BY <1>1, <1>2, PTL DEF Spec

(* Type correctness.  It needs the bookkeeping: that finish_edge() never   *)
(* decrements indegree_ or running_edges_ below zero is part of it.        *)
THEOREM TypeCorrect == Spec => []TypeOK
<1>1. IInv => TypeOK
  BY DEF IInv
<1>. QED BY <1>1, Inductive, PTL

(* What each thread has and may do follows from where it stands in worker()*)
(* and run().                                                              *)
THEOREM ThreadsKeepStep == Spec => []ThreadsInStep
<1>1. IInv => ThreadsInStep
  BY DEF IInv
<1>. QED BY <1>1, Inductive, PTL

(* indegree_, ready_queue_ and the two counters of the scheduler are the   *)
(* truth about the run, for every graph and every number of workers.       *)
THEOREM BookkeepingIsExact == Spec => []CountsExact
<1>1. IInv => CountsExact
  BY DEF IInv
<1>. QED BY <1>1, Inductive, PTL

(* An edge is executed only after all its producers in the plan.           *)
THEOREM RespectsDependencies == Spec => []DependencyOrder
<1>1. IInv => DependencyOrder
  BY TakenEdge DEF IInv, ThreadsInStep, DependencyOrder
<1>. QED BY <1>1, Inductive, PTL

(* No edge of a plan is executed twice.                                    *)
THEOREM ExecutesOnce == Spec => []NoDoubleExecution
<1>1. IInv => NoDoubleExecution
  BY DEF IInv
<1>. QED BY <1>1, Inductive, PTL

(* No wakeup is lost between the predicates of the two condition variables *)
(* and the notifications, which are made outside the critical sections.    *)
THEOREM WakesSleepers == Spec => []NoLostWakeup
<1>1. IInv => NoLostWakeup
  BY DEF IInv
<1>. QED BY <1>1, Inductive, PTL

(* run() answers true only for a finished plan and false only for a plan   *)
(* with a failed edge, and nobody executes anything afterwards.            *)
THEOREM ReturnsTheTruth == Spec => []ReturnedResult
<1>1. ASSUME IInv, main = "idle"
      PROVE  /\ \A w \in Worker : ~InFlight(w)
             /\ result = "success" => done = plan
             /\ result = "failure" => \E e \in plan \ done : e \in Claimed
  <2>1. \A w \in Worker : ~InFlight(w)
    BY <1>1 DEF IInv, ThreadsInStep, InFlight
  <2>2. result = "success" => done = plan
    BY <1>1 DEF IInv, ThreadsInStep
  <2>3. ASSUME result = "failure"
        PROVE  \E e \in plan \ done : e \in Claimed
    <3>1. PICK w \in Worker : edge[w] # nullptr
      BY <1>1, <2>3 DEF IInv, ThreadsInStep
    <3>. QED BY <1>1, <3>1, TakenEdge DEF Claimed
  <2>. QED BY <2>1, <2>2, <2>3
<1>2. IInv => ReturnedResult
  BY <1>1 DEF ReturnedResult
<1>. QED BY <1>2, Inductive, PTL

(* After a failure no worker starts another edge of the run.               *)
THEOREM StopsAfterFailure == Spec => NothingStartsAfterFailure
<1>1. IInv /\ [Next]_vars =>
        [failed /\ failed' =>
           \A w \in Worker : InFlight(w)' => InFlight(w)]_vars
  <2>1. SUFFICES ASSUME IInv, Next, failed, failed', NEW w \in Worker, InFlight(w)'
                 PROVE  InFlight(w)
    OBVIOUS
  <2>2. CASE SetExecutor \/ RejectRun \/ MainStep \/ SpuriousWakeup
    BY <2>1, <2>2 DEF SetExecutor, RejectRun, MainStep, SpawnWorker, NotifyStarted,
       AwaitFinished, SetStopping, NotifyStopping, JoinWorkers, SpuriousWakeup,
       InFlight, Woken, IInv, TypeOK
  <2>3. CASE \E p \in SUBSET Edge : StartRun(p)
    BY <2>1, <2>3 DEF StartRun
  <2>4. CASE \E v \in Worker : WorkerStep(v)
    BY <2>1, <2>4 DEF WorkerStep, WaitForWork, LeaveLoop, TakeEdge, ExecuteEdge,
       FinishEdge, NotifyWork, FailEdge, NotifyFailedWorkers, NotifyFailedMain,
       InFlight, Woken, StopRequested, IInv, TypeOK
  <2>. QED BY <2>1, <2>2, <2>3, <2>4 DEF Next
<1>. QED BY <1>1, Inductive, PTL DEF Spec, NothingStartsAfterFailure

-----------------------------------------------------------------------------
(* The refinement of DagExecution: what each kind of step does to the      *)
(* mapped state.                                                           *)

(* Steps of the threads that neither take nor lay down an edge.            *)
LEMMA Stutters ==
  ASSUME UNCHANGED <<plan, done, edge>>,
         \A w \in Worker : InFlight(w)' <=> InFlight(w),
         Outcome' = Outcome
  PROVE  UNCHANGED Execution!vars
<1>1. Active' = Active /\ Broken' = Broken
  BY DEF Active, Broken
<1>. QED BY <1>1 DEF Execution!vars

LEMMA RejectIsReject ==
  ASSUME IInv, RejectRun
  PROVE  Execution!Reject
<1>1. Active' = Active /\ Broken' = Broken
  BY DEF RejectRun, Active, Broken, InFlight
<1>. QED BY <1>1 DEF Execution!Reject, RejectRun, Outcome, IInv, TypeOK, shared

LEMMA StartRunIsBegin ==
  ASSUME IInv, NEW p \in SUBSET Edge, StartRun(p)
  PROVE  Execution!Begin(p)
<1>1. Active' = {} /\ Broken' = {}
  BY DEF StartRun, Active, Broken, InFlight
<1>. QED BY <1>1 DEF Execution!Begin, StartRun, Outcome, IInv, TypeOK

LEMMA TakeIsStart ==
  ASSUME IInv, NEW w \in Worker, TakeEdge(w)
  PROVE  Execution!Start(Head(ready_queue)) /\ Head(ready_queue) \in Edge
<1> DEFINE e == Head(ready_queue)
<1>1. e \in Range(ready_queue)
  BY TakeHead DEF IInv, TypeOK, NoDoubleExecution, TakeEdge
<1>2. e \in plan /\ indegree[e] = 0 /\ e \notin Claimed \cup done /\ e \in Edge
  BY <1>1 DEF IInv, TypeOK, CountsExact, NoDoubleExecution
<1>3. Producers(e) \cap plan \subseteq done
  BY <1>2, ReadyEdge
<1>4. /\ edge' = [edge EXCEPT ![w] = e] /\ pc' = [pc EXCEPT ![w] = "execute"]
      /\ edge \in [Worker -> Edge \cup {nullptr}] /\ edge[w] = nullptr
      /\ DOMAIN pc = Worker /\ ~InFlight(w) /\ ~failed
      /\ UNCHANGED <<plan, done, main, result>>
  BY DEF IInv, TypeOK, ThreadsInStep, TakeEdge, InFlight, StopRequested, outside
<1>5. \A v \in Worker : /\ edge'[v] = IF v = w THEN e ELSE edge[v]
                        /\ InFlight(v)' <=> (v = w \/ InFlight(v))
  BY <1>4 DEF InFlight
<1>6. Active' = Active \cup {e}
  BY <1>4, <1>5 DEF Active
<1>7. Broken = {} /\ Broken' = {}
  BY <1>4, <1>5 DEF Broken, IInv, ThreadsInStep
<1>8. e \notin Active
  BY <1>2, SchedulerAssumption DEF Active, Claimed
<1>9. Outcome = "running" /\ Outcome' = "running"
  BY <1>4 DEF Outcome, IInv, ThreadsInStep, TakeEdge
<1>10. Execution!Producers(e) = Producers(e)
  BY DEF Execution!Producers, Producers
<1>. QED BY <1>2, <1>3, <1>4, <1>6, <1>7, <1>8, <1>9, <1>10
        DEF Execution!Start

(* A worker lays its edge down, finished or failed.                        *)
LEMMA FinishIsSucceed ==
  ASSUME IInv, NEW w \in Worker, FinishEdge(w)
  PROVE  Execution!Succeed(edge[w]) /\ edge[w] \in Edge
<1>1. /\ edge' = [edge EXCEPT ![w] = nullptr]
      /\ pc' = [pc EXCEPT ![w] = "notify"]
      /\ edge \in [Worker -> Edge \cup {nullptr}] /\ DOMAIN pc = Worker
      /\ InFlight(w) /\ edge[w] # nullptr
      /\ plan' = plan /\ done' = done \cup {edge[w]}
      /\ \A v \in Worker : edge[v] = edge[w] => v = w
  BY DEF IInv, TypeOK, ThreadsInStep, NoDoubleExecution, FinishEdge, InFlight
<1>2. \A v \in Worker : /\ edge'[v] = IF v = w THEN nullptr ELSE edge[v]
                        /\ InFlight(v)' <=> (v # w /\ InFlight(v))
  BY <1>1 DEF InFlight
<1>3. Active' = Active \ {edge[w]} /\ edge[w] \in Active
  BY <1>1, <1>2 DEF Active
<1>4. Broken' = Broken
  BY <1>1, <1>2 DEF Broken
<1>5. Outcome' = Outcome
  BY DEF Outcome, FinishEdge, MainWoken, outside
<1>. QED BY <1>1, <1>3, <1>4, <1>5 DEF Execution!Succeed

LEMMA FailIsFail ==
  ASSUME IInv, NEW w \in Worker, FailEdge(w)
  PROVE  Execution!Fail(edge[w]) /\ edge[w] \in Edge
<1>1. /\ edge' = edge /\ pc' = [pc EXCEPT ![w] = "fail_notify"]
      /\ edge \in [Worker -> Edge \cup {nullptr}] /\ DOMAIN pc = Worker
      /\ InFlight(w) /\ edge[w] # nullptr
      /\ UNCHANGED <<plan, done, main, result>>
      /\ \A v \in Worker : edge[v] = edge[w] => v = w
  BY DEF IInv, TypeOK, ThreadsInStep, NoDoubleExecution, FailEdge, InFlight,
         outside
<1>2. \A v \in Worker : InFlight(v)' <=> (v # w /\ InFlight(v))
  BY <1>1 DEF InFlight
<1>3. Active' = Active \ {edge[w]} /\ edge[w] \in Active
  BY <1>1, <1>2 DEF Active
<1>4. Broken' = Broken \cup {edge[w]}
  BY <1>1, <1>2 DEF Broken
<1>. QED BY <1>1, <1>3, <1>4 DEF Execution!Fail, Outcome

LEMMA JoinIsAnswer ==
  ASSUME IInv, JoinWorkers
  PROVE  Execution!Answer
<1>1. \A w \in Worker : ~InFlight(w) /\ ~InFlight(w)'
  BY DEF JoinWorkers, InFlight
<1>2. Active = {} /\ Active' = {}
  BY <1>1 DEF Active
<1>3. Broken' = Broken
  BY <1>1 DEF JoinWorkers, Broken
<1>4. failed <=> Broken # {}
  BY <1>1 DEF Broken, IInv, ThreadsInStep
<1>5. ~failed => done = plan
  BY CompleteRun DEF IInv, ThreadsInStep, JoinWorkers
<1>. QED BY <1>2, <1>3, <1>4, <1>5
        DEF Execution!Answer, JoinWorkers, Outcome, shared

LEMMA MappedStep ==
  ASSUME IInv, [Next]_vars
  PROVE  [Execution!Next]_(Execution!vars)
<1>1. CASE \/ UNCHANGED vars \/ SetExecutor \/ NotifyStarted \/ AwaitFinished
           \/ SetStopping \/ NotifyStopping \/ SpuriousWakeup
  <2>1. /\ UNCHANGED <<plan, done, edge>> /\ Outcome' = Outcome
        /\ \A w \in Worker : InFlight(w)' <=> InFlight(w)
    BY <1>1 DEF vars, shared, outside, SetExecutor, NotifyStarted, AwaitFinished,
       SetStopping, NotifyStopping, SpuriousWakeup, Outcome, InFlight, Woken,
       IInv, TypeOK
  <2>. QED BY <2>1, Stutters
<1>2. CASE \E w \in Worker :
             \/ SpawnWorker(w) \/ WaitForWork(w) \/ LeaveLoop(w)
             \/ ExecuteEdge(w) \/ NotifyWork(w) \/ NotifyFailedWorkers(w)
             \/ NotifyFailedMain(w)
  <2>1. /\ UNCHANGED <<plan, done, edge>> /\ Outcome' = Outcome
        /\ \A w \in Worker : InFlight(w)' <=> InFlight(w)
    BY <1>2 DEF shared, outside, SpawnWorker, WaitForWork, LeaveLoop,
       ExecuteEdge, NotifyWork, NotifyFailedWorkers, NotifyFailedMain, Outcome,
       InFlight, Woken, MainWoken, IInv, TypeOK
  <2>. QED BY <2>1, Stutters
<1>3. CASE RejectRun
  BY <1>3, RejectIsReject DEF Execution!Next
<1>4. CASE \E p \in SUBSET Edge : StartRun(p)
  BY <1>4, StartRunIsBegin DEF Execution!Next
<1>5. CASE JoinWorkers
  BY <1>5, JoinIsAnswer DEF Execution!Next
<1>6. CASE \E w \in Worker : TakeEdge(w) \/ FinishEdge(w) \/ FailEdge(w)
  BY <1>6, TakeIsStart, FinishIsSucceed, FailIsFail DEF Execution!Next
<1>. QED BY <1>1, <1>2, <1>3, <1>4, <1>5, <1>6 DEF Next, MainStep, WorkerStep

(* Scheduler::run() implements the abstract execution of a build graph.    *)
THEOREM RefinesExecution == Spec => ImplementsExecution
<1>1. Init => Execution!Init
  BY DEF Init, Execution!Init, Active, Broken, Outcome, InFlight
<1>2. IInv /\ [Next]_vars => [Execution!Next]_(Execution!vars)
  BY MappedStep
<1>. QED BY <1>1, <1>2, Inductive, PTL
        DEF Spec, ImplementsExecution, Execution!Spec

-----------------------------------------------------------------------------
(* No run comes to a standstill.                                           *)

(* A run has threads, and stopping_ is set before run() waits for them.    *)
RunInStep ==
  /\ main # "idle" => Worker # {}
  /\ main \in {"notify_stop", "join"} => stopping

LEMMA RunKeepsStep ==
  ASSUME IInv, RunInStep, [Next]_vars
  PROVE  RunInStep'
<1>1. CASE \/ SetExecutor \/ RejectRun \/ MainStep \/ SpuriousWakeup
           \/ UNCHANGED vars
  BY <1>1 DEF RunInStep, SetExecutor, RejectRun, MainStep, SpawnWorker,
     NotifyStarted, AwaitFinished, SetStopping, NotifyStopping, JoinWorkers,
     SpuriousWakeup, vars, shared
<1>2. CASE \E p \in SUBSET Edge : StartRun(p)
  BY <1>2 DEF RunInStep, StartRun
<1>3. CASE \E w \in Worker : WorkerStep(w)
  BY <1>3 DEF RunInStep, WorkerStep, WaitForWork, LeaveLoop, TakeEdge,
     ExecuteEdge, FinishEdge, NotifyWork, FailEdge, NotifyFailedWorkers,
     NotifyFailedMain, MainWoken, shared, outside
<1>. QED BY <1>1, <1>2, <1>3 DEF Next

(* An unfinished plan without a cycle has an edge that waits for nothing:  *)
(* the one of the least rank.                                              *)
LEMMA SomethingIsReady ==
  ASSUME Acyclic, NEW p \in SUBSET Edge, NEW f, ~(p \subseteq f)
  PROVE  \E e \in p \ f : (Producers(e) \cap p) \ f = {}
<1>1. PICK rank \in [Edge -> 1..Cardinality(Edge)] :
        \A e \in Edge : \A q \in Producers(e) : rank[q] < rank[e]
  BY DEF Acyclic
<1>2. Cardinality(Edge) \in Nat
  BY GraphAssumption, FS_CardinalityType
<1> DEFINE ranks == {rank[e] : e \in p \ f}
<1>3. \A e \in Edge : rank[e] \in Nat
  BY <1>1, <1>2
<1>4. ranks \in SUBSET Nat /\ ranks # {}
  BY <1>3
<1>5. PICK n \in ranks : \A m \in ranks : n <= m
  BY <1>4, LeastNumber
<1>6. PICK e \in p \ f : rank[e] = n
  BY <1>5
<1>7. ASSUME NEW q \in (Producers(e) \cap p) \ f
      PROVE  FALSE
  <2>1. rank[q] < rank[e]
    BY <1>1, <1>6, <1>7
  <2>2. rank[e] <= rank[q]
    BY <1>5, <1>6, <1>7
  <2>3. rank[q] \in Nat /\ rank[e] \in Nat
    BY <1>3, <1>6, <1>7
  <2>. QED BY <2>1, <2>2, <2>3
<1>. QED BY <1>6, <1>7

LEMMA RunIsAwake ==
  ASSUME Acyclic, IInv, RunInStep, main # "idle"
  PROVE  \/ main \notin {"waiting", "join"}
         \/ main = "join" /\ \A w \in Worker : pc[w] = "exited"
         \/ \E w \in Worker : pc[w] \notin {"none", "waiting", "exited"}
<1>1. SUFFICES ASSUME main \in {"waiting", "join"},
                      \A w \in Worker : pc[w] \in {"none", "waiting", "exited"}
               PROVE  main = "join" /\ \A w \in Worker : pc[w] = "exited"
  OBVIOUS
<1>2. \A w \in Worker : pc[w] \in {"waiting", "exited"}
  BY <1>1 DEF IInv, ThreadsInStep
<1>3. CASE main = "join"
  <2>1. stopping
    BY <1>3 DEF RunInStep
  <2>2. \A w \in Worker : pc[w] # "waiting"
    BY <1>2, <1>3, <2>1 DEF IInv, NoLostWakeup
  <2>. QED BY <1>2, <1>3, <2>2
<1>4. CASE main = "waiting"
  <2>1. ~Finished
    BY <1>2, <1>4 DEF IInv, NoLostWakeup
  <2>2. ~failed /\ ~stopping
    BY <2>1 DEF Finished, IInv, ThreadsInStep
  <2>3. \A w \in Worker : pc[w] = "waiting" /\ edge[w] = nullptr
    BY <1>2, <2>2 DEF IInv, ThreadsInStep
  <2>4. Worker # {}
    BY <1>4 DEF RunInStep
  <2>5. ready_queue = <<>>
    BY <2>3, <2>4 DEF IInv, NoLostWakeup
  <2>6. Range(ready_queue) = {}
    BY <2>5 DEF Range
  <2>7. Claimed = {}
    BY <2>3 DEF Claimed
  <2>8. done = {e \in plan : indegree[e] = 0}
    BY <2>6, <2>7 DEF IInv, CountsExact
  <2>9. plan \in SUBSET Edge /\ done \subseteq plan
    BY DEF IInv, TypeOK
  <2>10. ~(plan \subseteq done)
    <3>1. Cardinality(done) # Cardinality(plan)
      BY <2>1 DEF Finished, total_edges, IInv, CountsExact
    <3>. QED BY <2>9, <3>1
  <2>11. PICK e \in plan \ done : (Producers(e) \cap plan) \ done = {}
    BY <2>9, <2>10, SomethingIsReady
  <2>12. indegree[e] = 0
    BY <2>11, FS_EmptySet DEF IInv, CountsExact
  <2>. QED BY <2>8, <2>11, <2>12
<1>. QED BY <1>1, <1>3, <1>4

(* No run of an accepted graph comes to a standstill, however its threads  *)
(* interleave: the scheduler never waits for a wakeup nobody will give.    *)
THEOREM SomeoneIsAwake ==
  ASSUME Acyclic
  PROVE  Spec => []SomeoneAwake
<1>1. Init => RunInStep
  BY DEF Init, RunInStep
<1>2. IInv /\ RunInStep /\ [Next]_vars => RunInStep'
  BY RunKeepsStep
<1>3. IInv /\ RunInStep => SomeoneAwake
  BY RunIsAwake DEF SomeoneAwake
<1>. QED BY <1>1, <1>2, <1>3, Inductive, PTL DEF Spec

-----------------------------------------------------------------------------
(* The measure of a run.                                                   *)

(* What the place of a worker adds to what is ahead of its run.            *)
Onward(place) ==
  CASE place = "execute" -> 4
    [] place \in {"finish", "fail"} -> 3
    [] place \in {"notify", "fail_notify"} -> 2
    [] place \in {"none", "fail_notify_main"} -> 1
    [] place \in {"check", "waiting", "exited"} -> 0

LEMMA AtIsNumber ==
  ASSUME NEW places
  PROVE  At(places) \in Nat
<1>1. IsFiniteSet({w \in Worker : pc[w] \in places})
  BY FS_Subset, SchedulerAssumption
<1>. QED BY <1>1, FS_CardinalityType DEF At

LEMMA AtStays ==
  ASSUME NEW places, \A v \in Worker : pc'[v] \in places <=> pc[v] \in places
  PROVE  At(places)' = At(places)
<1>1. {v \in Worker : pc'[v] \in places} = {v \in Worker : pc[v] \in places}
  OBVIOUS
<1>. QED BY <1>1 DEF At

(* One worker moves.                                                       *)
LEMMA AtMoves ==
  ASSUME NEW places, NEW w \in Worker,
         \A v \in Worker \ {w} : pc'[v] \in places <=> pc[v] \in places
  PROVE  /\ At(places) \in Nat /\ At(places)' \in Nat
         /\ pc[w] \in places /\ pc'[w] \notin places
              => At(places)' = At(places) - 1
         /\ pc[w] \notin places /\ pc'[w] \in places
              => At(places)' = At(places) + 1
         /\ (pc[w] \in places <=> pc'[w] \in places)
              => At(places)' = At(places)
<1> DEFINE old == {v \in Worker : pc[v] \in places}
           new == {v \in Worker : pc'[v] \in places}
<1>1. IsFiniteSet(old) /\ IsFiniteSet(new)
  BY FS_Subset, SchedulerAssumption
<1>2. Cardinality(old) \in Nat /\ Cardinality(new) \in Nat
  BY <1>1, FS_CardinalityType
<1>3. At(places) = Cardinality(old) /\ At(places)' = Cardinality(new)
  BY DEF At
<1>4. ASSUME pc[w] \in places, pc'[w] \notin places
      PROVE  Cardinality(new) = Cardinality(old) - 1
  <2>1. new = old \ {w} /\ w \in old
    BY <1>4
  <2>. QED BY <1>1, <2>1, FS_RemoveElement
<1>5. ASSUME pc[w] \notin places, pc'[w] \in places
      PROVE  Cardinality(new) = Cardinality(old) + 1
  <2>1. new = old \cup {w} /\ w \notin old
    BY <1>5
  <2>. QED BY <1>1, <2>1, FS_AddElement
<1>6. ASSUME pc[w] \in places <=> pc'[w] \in places
      PROVE  new = old
  BY <1>6
<1>. QED BY <1>2, <1>3, <1>4, <1>5, <1>6

(* All the others stay where they are, or are woken.                       *)
OthersWake(w) ==
  \A v \in Worker \ {w} : \/ pc'[v] = pc[v]
                          \/ pc[v] = "waiting" /\ pc'[v] = "check"

LEMMA AheadMoves ==
  ASSUME TypeOK, TypeOK', NEW w \in Worker, OthersWake(w)
  PROVE  /\ WorkersAhead \in Nat
         /\ WorkersAhead' = WorkersAhead + Onward(pc'[w]) - Onward(pc[w])
<1>1. \A v \in Worker \ {w} :
        /\ pc'[v] \in {"none"} <=> pc[v] \in {"none"}
        /\ pc'[v] \in {"execute"} <=> pc[v] \in {"execute"}
        /\ pc'[v] \in {"execute", "finish", "fail"}
             <=> pc[v] \in {"execute", "finish", "fail"}
        /\ pc'[v] \in {"execute", "finish", "fail", "notify", "fail_notify"}
             <=> pc[v] \in {"execute", "finish", "fail", "notify",
                            "fail_notify"}
        /\ pc'[v] \in {"execute", "finish", "fail", "notify", "fail_notify",
                       "fail_notify_main"}
             <=> pc[v] \in {"execute", "finish", "fail", "notify",
                            "fail_notify", "fail_notify_main"}
  BY DEF OthersWake
<1>. DEFINE gain(places) == IF pc'[w] \in places THEN 1 ELSE 0
            loss(places) == IF pc[w] \in places THEN 1 ELSE 0
<1>2. ASSUME NEW places,
             \A v \in Worker \ {w} : pc'[v] \in places <=> pc[v] \in places
      PROVE  /\ At(places) \in Nat
             /\ At(places)' = At(places) + gain(places) - loss(places)
  BY <1>2, AtMoves
<1>3. /\ At({"none"}) \in Nat
      /\ At({"none"})' = At({"none"}) + gain({"none"}) - loss({"none"})
  BY <1>1, <1>2
<1>4. /\ At({"execute"}) \in Nat
      /\ At({"execute"})'
           = At({"execute"}) + gain({"execute"}) - loss({"execute"})
  BY <1>1, <1>2
<1>. DEFINE s3 == {"execute", "finish", "fail"}
            s4 == {"execute", "finish", "fail", "notify", "fail_notify"}
            s5 == {"execute", "finish", "fail", "notify", "fail_notify",
                   "fail_notify_main"}
<1>5. /\ At(s3) \in Nat
      /\ At(s3)' = At(s3) + gain(s3) - loss(s3)
  BY <1>1, <1>2
<1>6. /\ At(s4) \in Nat
      /\ At(s4)' = At(s4) + gain(s4) - loss(s4)
  BY <1>1, <1>2
<1>7. /\ At(s5) \in Nat
      /\ At(s5)' = At(s5) + gain(s5) - loss(s5)
  BY <1>1, <1>2
<1>8. /\ gain({"none"}) + gain({"execute"}) + gain(s3) + gain(s4) + gain(s5)
           = Onward(pc'[w])
      /\ loss({"none"}) + loss({"execute"}) + loss(s3) + loss(s4) + loss(s5)
           = Onward(pc[w])
  BY DEF Onward, TypeOK
<1>9. \A p : gain(p) \in Nat /\ loss(p) \in Nat
  OBVIOUS
<1>. HIDE DEF gain, loss
<1>. QED BY <1>3, <1>4, <1>5, <1>6, <1>7, <1>8, <1>9 DEF WorkersAhead

(* Every edge of the plan is finished, or taken by one worker, or is still *)
(* to be taken.                                                            *)
LEMMA EdgesAhead ==
  ASSUME IInv
  PROVE  /\ total_edges \in Nat /\ completed_edges \in Nat
         /\ running_edges \in Nat
         /\ total_edges >= completed_edges + running_edges
<1> DEFINE busy == {w \in Worker : edge[w] # nullptr}
           held == [w \in busy |-> edge[w]]
<1>1. plan \in SUBSET Edge /\ done \subseteq plan /\ Claimed \subseteq plan
  BY DEF IInv, TypeOK, CountsExact
<1>2. IsFiniteSet(plan) /\ IsFiniteSet(done) /\ IsFiniteSet(Claimed)
      /\ IsFiniteSet(busy)
  BY <1>1, FS_Subset, GraphAssumption, SchedulerAssumption
<1>3. held \in Injection(busy, Claimed)
  <2>1. held \in [busy -> Claimed]
    BY DEF Claimed
  <2>2. \A v, w \in busy : held[v] = held[w] => v = w
    BY DEF IInv, NoDoubleExecution
  <2>. QED BY <2>1, <2>2, Fun_IsInj
<1>4. Cardinality(busy) <= Cardinality(Claimed)
  BY <1>2, <1>3, FS_Injection
<1>5. done \cap Claimed = {}
  BY DEF IInv, NoDoubleExecution
<1>6. Cardinality(done \cup Claimed) = Cardinality(done) + Cardinality(Claimed)
  <2>1. Cardinality(done \cup Claimed)
          = Cardinality(done) + Cardinality(Claimed)
              - Cardinality(done \cap Claimed)
    BY <1>2, FS_Union
  <2>2. Cardinality(done \cap Claimed) = 0
    BY <1>5, FS_EmptySet
  <2>3. Cardinality(done) \in Nat /\ Cardinality(Claimed) \in Nat
    BY <1>2, FS_CardinalityType
  <2>. QED BY <2>1, <2>2, <2>3
<1>7. Cardinality(done \cup Claimed) <= Cardinality(plan)
  <2>1. done \cup Claimed \in SUBSET plan
    BY <1>1
  <2>. QED BY <1>2, <2>1, FS_Subset
<1>8. /\ Cardinality(done) \in Nat /\ Cardinality(Claimed) \in Nat
      /\ Cardinality(busy) \in Nat /\ Cardinality(plan) \in Nat
  BY <1>2, FS_CardinalityType
<1>9. completed_edges = Cardinality(done) /\ running_edges = Cardinality(busy)
  BY DEF IInv, CountsExact
<1>. QED BY <1>4, <1>6, <1>7, <1>8, <1>9 DEF total_edges

LEMMA AheadIsNumber ==
  ASSUME IInv
  PROVE  /\ MainAhead \in Nat /\ WorkersAhead \in Nat /\ Ahead \in Nat
         /\ Ahead = 5 * (total_edges - completed_edges - running_edges)
                      + MainAhead + WorkersAhead
<1>1. MainAhead \in Nat
  BY DEF IInv, TypeOK, MainAhead
<1>2. WorkersAhead \in Nat
  BY AtIsNumber DEF WorkersAhead
<1>3. total_edges - completed_edges - running_edges \in Nat
  BY EdgesAhead
<1>. QED BY <1>1, <1>2, <1>3 DEF Ahead

LEMMA WorkersStay ==
  ASSUME \A v \in Worker : \/ pc'[v] = pc[v]
                           \/ pc[v] = "waiting" /\ pc'[v] = "check"
  PROVE  WorkersAhead' = WorkersAhead
<1>1. /\ At({"none"})' = At({"none"}) /\ At({"execute"})' = At({"execute"})
      /\ At({"execute", "finish", "fail"})' = At({"execute", "finish", "fail"})
      /\ At({"execute", "finish", "fail", "notify", "fail_notify"})'
           = At({"execute", "finish", "fail", "notify", "fail_notify"})
      /\ At({"execute", "finish", "fail", "notify", "fail_notify",
             "fail_notify_main"})'
           = At({"execute", "finish", "fail", "notify", "fail_notify",
                 "fail_notify_main"})
  BY AtStays
<1>. QED BY <1>1 DEF WorkersAhead

(* A step of worker w that changes no counter: what is ahead changes by    *)
(* the worker's own move, and by the wakeup of run(), which is nothing.    *)
LEMMA MoveOfWorker ==
  ASSUME IInv, TypeOK', NEW w \in Worker, OthersWake(w),
         main' \in {main, MainWoken},
         plan' = plan,
         completed_edges' + running_edges' = completed_edges + running_edges
  PROVE  Ahead' = Ahead + Onward(pc'[w]) - Onward(pc[w])
<1>1. TypeOK
  BY DEF IInv
<1>2. /\ WorkersAhead' = WorkersAhead + Onward(pc'[w]) - Onward(pc[w])
      /\ WorkersAhead \in Nat
  BY <1>1, AheadMoves
<1>3. MainAhead' = MainAhead /\ MainAhead \in 0..5
  BY <1>1 DEF MainAhead, MainWoken, TypeOK
<1>4. total_edges' = total_edges /\ total_edges \in Nat
  BY EdgesAhead DEF total_edges
<1>5. Onward(pc[w]) \in 0..4 /\ Onward(pc'[w]) \in 0..4
  BY <1>1 DEF Onward, TypeOK
<1>6. /\ completed_edges \in Nat /\ completed_edges' \in Nat
      /\ running_edges \in Nat /\ running_edges' \in Nat
  BY <1>1 DEF TypeOK
<1>7. total_edges' - completed_edges' - running_edges'
        = total_edges - completed_edges - running_edges
  <2>1. total_edges' - completed_edges' - running_edges'
          = total_edges - completed_edges' - running_edges'
    BY <1>4
  <2>2. completed_edges' + running_edges' = completed_edges + running_edges
    OBVIOUS
  <2>3. total_edges - completed_edges' - running_edges'
          = total_edges - (completed_edges' + running_edges')
    BY <1>4, <1>6
  <2>4. total_edges - completed_edges - running_edges
          = total_edges - (completed_edges + running_edges)
    BY <1>4, <1>6
  <2>. QED BY <2>1, <2>2, <2>3, <2>4
<1>8. total_edges - completed_edges - running_edges \in Int
  BY <1>4, <1>6
<1>. QED BY <1>2, <1>3, <1>5, <1>7, <1>8 DEF Ahead

(* A worker that has something to do comes nearer to the end of the run.   *)
LEMMA WorkersAdvance ==
  ASSUME IInv, TypeOK', NEW w \in Worker,
         \/ ExecuteEdge(w) \/ FinishEdge(w) \/ NotifyWork(w) \/ FailEdge(w)
         \/ NotifyFailedWorkers(w) \/ NotifyFailedMain(w)
  PROVE  Ahead' \in Int /\ Ahead' < Ahead
<1>1. DOMAIN pc = Worker /\ completed_edges \in Nat /\ running_edges \in Nat
  BY DEF IInv, TypeOK
<1>2. OthersWake(w)
  BY <1>1 DEF OthersWake, ExecuteEdge, FinishEdge, NotifyWork, FailEdge,
     NotifyFailedWorkers, NotifyFailedMain, Woken
<1>3. /\ main' \in {main, MainWoken} /\ plan' = plan
      /\ completed_edges' + running_edges' = completed_edges + running_edges
  BY <1>1 DEF ExecuteEdge, FinishEdge, NotifyWork, FailEdge,
     NotifyFailedWorkers, NotifyFailedMain, shared
<1>4. \/ pc[w] = "execute" /\ pc'[w] \in {"finish", "fail"}
      \/ pc[w] = "finish" /\ pc'[w] = "notify"
      \/ pc[w] = "notify" /\ pc'[w] = "check"
      \/ pc[w] = "fail" /\ pc'[w] = "fail_notify"
      \/ pc[w] = "fail_notify" /\ pc'[w] = "fail_notify_main"
      \/ pc[w] = "fail_notify_main" /\ pc'[w] = "exited"
  BY <1>1 DEF ExecuteEdge, FinishEdge, NotifyWork, FailEdge,
     NotifyFailedWorkers, NotifyFailedMain
<1>5. Onward(pc'[w]) < Onward(pc[w])
      /\ Onward(pc'[w]) \in Nat /\ Onward(pc[w]) \in Nat
  BY <1>4 DEF Onward
<1>6. Ahead' = Ahead + Onward(pc'[w]) - Onward(pc[w])
  BY <1>2, <1>3, MoveOfWorker
<1>7. Ahead \in Nat
  BY AheadIsNumber
<1>. QED BY <1>5, <1>6, <1>7

LEMMA TakingAdvances ==
  ASSUME IInv, TypeOK', NEW w \in Worker, TakeEdge(w)
  PROVE  Ahead' \in Int /\ Ahead' < Ahead
<1>1. TypeOK
  BY DEF IInv
<1>2. /\ pc[w] = "check" /\ pc' = [pc EXCEPT ![w] = "execute"]
      /\ DOMAIN pc = Worker /\ main' = main /\ plan' = plan
      /\ completed_edges' = completed_edges
      /\ running_edges' = running_edges + 1
  BY <1>1 DEF TypeOK, TakeEdge
<1>3. OthersWake(w)
  BY <1>2 DEF OthersWake
<1>4. WorkersAhead \in Nat /\ WorkersAhead' = WorkersAhead + 4
  <2>1. Onward(pc[w]) = 0 /\ Onward(pc'[w]) = 4
    BY <1>2 DEF Onward
  <2>2. /\ WorkersAhead' = WorkersAhead + Onward(pc'[w]) - Onward(pc[w])
        /\ WorkersAhead \in Nat
    BY <1>1, <1>3, AheadMoves
  <2>. QED BY <2>1, <2>2
<1>5. MainAhead' = MainAhead /\ MainAhead \in Nat
  BY <1>2, AheadIsNumber DEF MainAhead
<1>6. total_edges' = total_edges
  BY <1>2 DEF total_edges
<1>7. total_edges \in Nat /\ completed_edges \in Nat /\ running_edges \in Nat
  BY EdgesAhead
<1>8. total_edges' - completed_edges' - running_edges'
        = (total_edges - completed_edges - running_edges) - 1
  BY <1>2, <1>6, <1>7
<1>9. total_edges - completed_edges - running_edges \in Int
  BY <1>7
<1>. QED BY <1>4, <1>5, <1>8, <1>9 DEF Ahead

(* A worker without work comes to rest.                                    *)
LEMMA WorkersRest ==
  ASSUME IInv, TypeOK', NEW w \in Worker, WaitForWork(w) \/ LeaveLoop(w)
  PROVE  Ahead' = Ahead /\ Awake' < Awake
<1>1. /\ DOMAIN pc = Worker /\ pc[w] = "check"
      /\ \/ pc' = [pc EXCEPT ![w] = "waiting"]
         \/ pc' = [pc EXCEPT ![w] = "exited"]
      /\ UNCHANGED <<main, plan, completed_edges, running_edges>>
  BY DEF IInv, TypeOK, WaitForWork, LeaveLoop, shared
<1>2. OthersWake(w)
  BY <1>1 DEF OthersWake
<1>3. Ahead' = Ahead
  <2>1. Onward(pc'[w]) = 0 /\ Onward(pc[w]) = 0
    BY <1>1 DEF Onward
  <2>2. Ahead' = Ahead + Onward(pc'[w]) - Onward(pc[w])
    BY <1>1, <1>2, MoveOfWorker
  <2>. QED BY <2>1, <2>2, AheadIsNumber
<1>4. At({"check"}) \in Nat /\ At({"check"})' = At({"check"}) - 1
  <2>1. \A v \in Worker \ {w} : pc'[v] \in {"check"} <=> pc[v] \in {"check"}
    BY <1>1
  <2>2. pc[w] \in {"check"} /\ pc'[w] \notin {"check"}
    BY <1>1
  <2>. QED BY <2>1, <2>2, AtMoves
<1>. QED BY <1>1, <1>3, <1>4 DEF Awake

(* The thread in run() comes nearer to its end, or to rest.                *)
LEMMA MainAdvances ==
  ASSUME IInv, MainStep
  PROVE  /\ Ahead' <= Ahead
         /\ Ahead' = Ahead => Awake' < Awake
<1>1. /\ Ahead \in Nat /\ MainAhead \in Nat /\ WorkersAhead \in Nat
      /\ Ahead = 5 * (total_edges - completed_edges - running_edges)
                   + MainAhead + WorkersAhead
  BY AheadIsNumber
<1>2. /\ total_edges \in Nat /\ completed_edges \in Nat
      /\ running_edges \in Nat
  BY EdgesAhead
<1>3. UNCHANGED <<plan, completed_edges, running_edges>>
  BY DEF MainStep, SpawnWorker, NotifyStarted, AwaitFinished, SetStopping,
     NotifyStopping, JoinWorkers, shared
<1>4. UNCHANGED <<total_edges, completed_edges, running_edges>>
  BY <1>3 DEF total_edges
<1>5. Ahead' = 5 * (total_edges - completed_edges - running_edges)
                 + MainAhead' + WorkersAhead'
  BY <1>4 DEF Ahead
<1>. DEFINE rest == 5 * (total_edges - completed_edges - running_edges)
<1>6. rest \in Int
  BY <1>2
<1>7. Ahead = rest + MainAhead + WorkersAhead
      /\ Ahead' = rest + MainAhead' + WorkersAhead'
  BY <1>1, <1>5
<1>. HIDE DEF rest
<1>8. CASE \E w \in Worker : SpawnWorker(w)
  <2>1. PICK w \in Worker : SpawnWorker(w)
    BY <1>8
  <2>2. /\ DOMAIN pc = Worker /\ pc[w] = "none" /\ main' = main
        /\ pc' = [pc EXCEPT ![w] = "check"] /\ TypeOK /\ TypeOK'
    BY <2>1, SpawnWorkerKeeps DEF SpawnWorker, IInv, TypeOK
  <2>3. OthersWake(w)
    BY <2>2 DEF OthersWake
  <2>4. WorkersAhead' = WorkersAhead + Onward(pc'[w]) - Onward(pc[w])
    BY <2>2, <2>3, AheadMoves
  <2>5. Onward(pc'[w]) = 0 /\ Onward(pc[w]) = 1
    BY <2>2 DEF Onward
  <2>6. MainAhead' = MainAhead
    BY <2>2 DEF MainAhead
  <2>. QED BY <1>1, <1>6, <1>7, <2>4, <2>5, <2>6
<1>9. CASE NotifyStarted \/ SetStopping \/ NotifyStopping \/ JoinWorkers
  <2>1. WorkersAhead' = WorkersAhead
    BY <1>9, WorkersStay DEF NotifyStarted, SetStopping, NotifyStopping,
       JoinWorkers, Woken
  <2>2. MainAhead' < MainAhead /\ MainAhead' \in Nat
    BY <1>9 DEF MainAhead, NotifyStarted, SetStopping, NotifyStopping,
       JoinWorkers
  <2>. QED BY <1>1, <1>6, <1>7, <2>1, <2>2
<1>10. CASE AwaitFinished
  <2>1. pc' = pc
    BY <1>10 DEF AwaitFinished
  <2>2. WorkersAhead' = WorkersAhead
    BY <2>1, WorkersStay
  <2>3. main = "check" /\ main' \in {"stop", "waiting"}
    BY <1>10 DEF AwaitFinished
  <2>4. CASE main' = "stop"
    <3>1. MainAhead = 4 /\ MainAhead' = 3
      BY <2>3, <2>4 DEF MainAhead
    <3>. QED BY <1>1, <1>6, <1>7, <2>2, <3>1
  <2>5. CASE main' = "waiting"
    <3>1. MainAhead = 4 /\ MainAhead' = 4
      BY <2>3, <2>5 DEF MainAhead
    <3>2. Ahead' = Ahead
      BY <1>1, <1>6, <1>7, <2>2, <3>1
    <3>3. At({"check"})' = At({"check"}) /\ At({"check"}) \in Nat
      BY <2>1, AtStays, AtIsNumber
    <3>4. Awake' < Awake
      BY <2>3, <2>5, <3>3 DEF Awake
    <3>. QED BY <1>1, <3>2, <3>4
  <2>. QED BY <2>3, <2>4, <2>5
<1>. QED BY <1>8, <1>9, <1>10 DEF MainStep

(* A spurious wakeup gives nothing back.                                   *)
LEMMA WakeupsAreFree ==
  ASSUME IInv, SpuriousWakeup
  PROVE  Ahead' = Ahead
<1>1. \A v \in Worker : \/ pc'[v] = pc[v]
                        \/ pc[v] = "waiting" /\ pc'[v] = "check"
  BY DEF SpuriousWakeup, IInv, TypeOK
<1>2. WorkersAhead' = WorkersAhead
  BY <1>1, WorkersStay
<1>3. MainAhead' = MainAhead
  BY DEF SpuriousWakeup, MainAhead
<1>4. UNCHANGED <<total_edges, completed_edges, running_edges>>
  BY DEF SpuriousWakeup, shared, total_edges
<1>. QED BY <1>2, <1>3, <1>4 DEF Ahead

(* Every step of a run but a spurious wakeup brings the run nearer to its  *)
(* end or one more thread to rest, for every graph and every number of     *)
(* workers: notifications never keep the threads busy with one another.    *)
THEOREM StepsCount == Spec => EveryStepCounts
<1>1. IInv /\ [Next]_vars =>
        [main # "idle" =>
           /\ Ahead \in Nat /\ Ahead' <= Ahead
           /\ Ahead' = Ahead /\ ~SpuriousWakeup => Awake' < Awake]_vars
  <2>1. SUFFICES ASSUME IInv, Next, main # "idle"
                 PROVE  /\ Ahead \in Nat /\ Ahead' <= Ahead
                        /\ Ahead' = Ahead /\ ~SpuriousWakeup => Awake' < Awake
    OBVIOUS
  <2>2. Ahead \in Nat
    BY <2>1, AheadIsNumber
  <2>3. TypeOK'
    BY <2>1, StepKeeps DEF IInv
  <2>4. CASE MainStep
    BY <2>1, <2>2, <2>4, MainAdvances
  <2>5. CASE \E w \in Worker : WorkerStep(w)
    <3>1. PICK w \in Worker : WorkerStep(w)
      BY <2>5
    <3>2. CASE WaitForWork(w) \/ LeaveLoop(w)
      BY <2>1, <2>2, <2>3, <3>2, WorkersRest
    <3>3. CASE TakeEdge(w)
      <4>1. Ahead' \in Int /\ Ahead' < Ahead
        BY <2>1, <2>3, <3>3, TakingAdvances
      <4>. QED BY <2>2, <4>1
    <3>4. CASE \/ ExecuteEdge(w) \/ FinishEdge(w) \/ NotifyWork(w)
               \/ FailEdge(w) \/ NotifyFailedWorkers(w) \/ NotifyFailedMain(w)
      <4>1. Ahead' \in Int /\ Ahead' < Ahead
        BY <2>1, <2>3, <3>4, WorkersAdvance
      <4>. QED BY <2>2, <4>1
    <3>. QED BY <3>1, <3>2, <3>3, <3>4 DEF WorkerStep
  <2>6. CASE SpuriousWakeup
    BY <2>1, <2>2, <2>6, WakeupsAreFree
  <2>7. ~SetExecutor /\ ~RejectRun /\ ~(\E p \in SUBSET Edge : StartRun(p))
    BY <2>1 DEF SetExecutor, RejectRun, StartRun
  <2>. QED BY <2>1, <2>4, <2>5, <2>6, <2>7 DEF Next
<1>. QED BY <1>1, Inductive, PTL DEF Spec, EveryStepCounts

=============================================================================
