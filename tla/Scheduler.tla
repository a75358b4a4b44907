------------------------------ MODULE Scheduler ------------------------------
(***************************************************************************)
(* forge::Scheduler (src/src/scheduler.cpp): run() hands the edges of a    *)
(* plan to jobs_ worker threads, which share indegree_, ready_queue_, two  *)
(* counters and two flags under mutex_ and sleep on two condition          *)
(* variables.  A critical section is one step; everything a thread does    *)
(* outside the mutex (running a command, notifying) is a step of its own,  *)
(* so that the threads interleave wherever the code lets them.             *)
(*                                                                         *)
(* The plan is a set: BuildPlanner::plan, its only source in the program,  *)
(* never lists an edge twice.                                              *)
(***************************************************************************)
EXTENDS BuildGraph, Integers, SequencesExt

CONSTANTS
  Worker,    (* the jobs_ threads of a run; empty when jobs_ <= 0          *)
  nullptr,   (* the value of a worker's local "edge" before it has one     *)
  MaxRuns    (* bound: calls of run() on one Scheduler                     *)

ASSUME SchedulerAssumption ==
  /\ IsFiniteSet(Worker)
  /\ nullptr \notin Edge
  /\ MaxRuns \in Nat

VARIABLES
  plan,             (* the edges given to the current run                  *)
  indegree,         (* indegree_: unfinished producers, for plan's edges   *)
  ready_queue,      (* ready_queue_                                        *)
  completed_edges,  (* completed_edges_                                    *)
  running_edges,    (* running_edges_                                      *)
  stopping,         (* stopping_                                           *)
  failed,           (* failed_                                             *)
  executor,         (* executor_ # nullptr                                 *)
  main,             (* where the thread in run() is                        *)
  pc,               (* where each worker is; "waiting": asleep on          *)
                    (* condition_                                          *)
  edge,             (* each worker's local "edge"                          *)
  result,           (* what the last run() returned; both "failure" and    *)
                    (* "rejected" are false to the caller                  *)
  runs,             (* calls of run() so far                               *)
  done              (* history: the edges this run has finished            *)

shared == <<plan, indegree, ready_queue, completed_edges, running_edges,
            stopping, failed, done>>
outside == <<executor, result, runs>>
vars == <<shared, outside, main, pc, edge>>

-----------------------------------------------------------------------------
total_edges == Cardinality(plan)

(* Mutant: the queue of the last run is not cleared.                       *)
KeptQueues(p) ==
  {ready_queue \o s : s \in SetToSeqs({e \in p : Indegree(e, p) = 0})}

(* The order of an unordered_map is not fixed, so the first edges enter    *)
(* the queue in any order.                                                 *)
InitialQueues(p) == SetToSeqs({e \in p : Indegree(e, p) = 0})

(* The predicate on which a worker leaves its loop.  Mutant: as long as    *)
(* there is work in the queue, it goes on.                                 *)
DrainFirst == (stopping \/ failed) /\ ready_queue = <<>>
StopRequested == stopping \/ failed

(* condition_.notify_all(), as it changes the workers.  Mutant:            *)
(* notify_one().                                                           *)
WokenOne(w) ==
  IF pc[w] = "waiting" /\ w = CHOOSE v \in Worker : pc[v] = "waiting"
    THEN "check" ELSE pc[w]
Woken(w) == IF pc[w] = "waiting" THEN "check" ELSE pc[w]

(* finished_condition_.notify_all(), as it changes the thread in run().    *)
(* Mutant: it is forgotten.                                                *)
MainNotWoken == main
MainWoken == IF main = "waiting" THEN "check" ELSE main

(* The predicate of finished_condition_.wait.  Mutant: an empty queue is   *)
(* taken for the end of the work.                                          *)
QueueDrained == failed \/ ready_queue = <<>>
Finished == failed \/ completed_edges = total_edges

Init ==
  /\ plan = {} /\ indegree = [e \in {} |-> 0] /\ ready_queue = <<>>
  /\ completed_edges = 0 /\ running_edges = 0
  /\ stopping = FALSE /\ failed = FALSE /\ done = {}
  /\ executor = FALSE /\ result = "none" /\ runs = 0
  /\ main = "idle"
  /\ pc = [w \in Worker |-> "none"]
  /\ edge = [w \in Worker |-> nullptr]

-----------------------------------------------------------------------------
(* The thread that calls run().                                            *)

SetExecutor ==
  /\ main = "idle" /\ ~executor
  /\ executor' = TRUE
  /\ UNCHANGED <<shared, result, runs, main, pc, edge>>

(* jobs_ <= 0 or no executor: run() returns false before it touches any    *)
(* state of an earlier run.                                                *)
RejectRun ==
  /\ main = "idle" /\ runs < MaxRuns
  /\ Worker = {} \/ ~executor
  /\ result' = "rejected"
  /\ runs' = runs + 1
  /\ UNCHANGED <<shared, executor, main, pc, edge>>

(* run(p) up to the creation of the threads: nothing of the last run is    *)
(* kept, the indegrees are counted and the first ready edges queued.       *)
StartRun(p) ==
  /\ main = "idle" /\ runs < MaxRuns
  /\ Worker # {} /\ executor
  /\ plan' = p
  /\ completed_edges' = 0 /\ running_edges' = 0
  /\ stopping' = FALSE /\ failed' = FALSE
  /\ indegree' = [e \in p |-> Indegree(e, p)]
  /\ ready_queue' \in InitialQueues(p)
  /\ done' = {}
  /\ pc' = [w \in Worker |-> "none"]
  /\ edge' = [w \in Worker |-> nullptr]
  /\ main' = "spawn"
  /\ result' = "none"
  /\ runs' = runs + 1
  /\ UNCHANGED executor

(* workers.emplace_back(...): earlier workers already run meanwhile.       *)
SpawnWorker(w) ==
  /\ main = "spawn" /\ pc[w] = "none"
  /\ pc' = [pc EXCEPT ![w] = "check"]
  /\ UNCHANGED <<shared, outside, main, edge>>

(* All threads exist: condition_.notify_all().                             *)
NotifyStarted ==
  /\ main = "spawn" /\ \A w \in Worker : pc[w] # "none"
  /\ pc' = [w \in Worker |-> Woken(w)]
  /\ main' = "check"
  /\ UNCHANGED <<shared, outside, edge>>

(* finished_condition_.wait evaluates its predicate under the mutex.       *)
AwaitFinished ==
  /\ main = "check"
  /\ main' = IF Finished THEN "stop" ELSE "waiting"
  /\ UNCHANGED <<shared, outside, pc, edge>>

SetStopping ==
  /\ main = "stop"
  /\ stopping' = TRUE
  /\ main' = "notify_stop"
  /\ UNCHANGED <<plan, indegree, ready_queue, completed_edges, running_edges,
                 failed, done, outside, pc, edge>>

NotifyStopping ==
  /\ main = "notify_stop"
  /\ pc' = [w \in Worker |-> Woken(w)]
  /\ main' = "join"
  /\ UNCHANGED <<shared, outside, edge>>

(* thread.join() for every worker, then return !failed_.                   *)
JoinWorkers ==
  /\ main = "join" /\ \A w \in Worker : pc[w] = "exited"
  /\ result' = IF failed THEN "failure" ELSE "success"
  /\ main' = "idle"
  /\ UNCHANGED <<shared, executor, runs, pc, edge>>

-----------------------------------------------------------------------------
(* A worker: the loop of worker().                                         *)

(* Mutant: a worker with nothing to do passes the notification on.         *)
PassItOn(w) ==
  /\ pc[w] = "check"
  /\ ~StopRequested /\ ready_queue = <<>>
  /\ pc' = [v \in Worker |-> IF v = w THEN "waiting" ELSE Woken(v)]
  /\ UNCHANGED <<shared, outside, main, edge>>

(* The predicate of condition_.wait is false: release the mutex and sleep. *)
WaitForWork(w) ==
  /\ pc[w] = "check"
  /\ ~StopRequested /\ ready_queue = <<>>
  /\ pc' = [pc EXCEPT ![w] = "waiting"]
  /\ UNCHANGED <<shared, outside, main, edge>>

LeaveLoop(w) ==
  /\ pc[w] = "check" /\ StopRequested
  /\ pc' = [pc EXCEPT ![w] = "exited"]
  /\ UNCHANGED <<shared, outside, main, edge>>

TakeEdge(w) ==
  /\ pc[w] = "check"
  /\ ~StopRequested /\ ready_queue # <<>>
  /\ edge' = [edge EXCEPT ![w] = Head(ready_queue)]
  /\ ready_queue' = Tail(ready_queue)
  /\ running_edges' = running_edges + 1
  /\ pc' = [pc EXCEPT ![w] = "execute"]
  /\ UNCHANGED <<plan, indegree, completed_edges, stopping, failed, done,
                 outside, main>>

(* executor_->execute_edge(edge): no lock is held, either answer may come. *)
ExecuteEdge(w) ==
  /\ pc[w] = "execute"
  /\ \E success \in BOOLEAN :
       pc' = [pc EXCEPT ![w] = IF success THEN "finish" ELSE "fail"]
  /\ UNCHANGED <<shared, outside, main, edge>>

(* The edges of the plan that read any output of e, each once.             *)
UniqueDependents(e) == Dependents(e) \cap plan

(* Those of them that waited for e alone.  Mutant: the zero test is lost.  *)
ReleasedEarly(e) == UniqueDependents(e)
Released(e) == {d \in UniqueDependents(e) : indegree[d] - 1 = 0}

(* finish_edge(edge): count, release the dependents, and notify run() with *)
(* the mutex still held.  The local "edge" is dead from here on.           *)
FinishEdge(w) ==
  LET e == edge[w] IN
  /\ pc[w] = "finish"
  /\ completed_edges' = completed_edges + 1
  /\ running_edges' = running_edges - 1
  /\ done' = done \cup {e}
  /\ indegree' = [d \in plan |-> IF d \in UniqueDependents(e)
                                   THEN indegree[d] - 1 ELSE indegree[d]]
  /\ \E pushed \in SetToSeqs(Released(e)) :
       ready_queue' = ready_queue \o pushed
  /\ main' = MainWoken
  /\ pc' = [pc EXCEPT ![w] = "notify"]
  /\ edge' = [edge EXCEPT ![w] = nullptr]
  /\ UNCHANGED <<plan, stopping, failed, outside>>

(* condition_.notify_all() after finish_edge, without the mutex.           *)
NotifyWork(w) ==
  /\ pc[w] = "notify"
  /\ pc' = [v \in Worker |-> IF v = w THEN "check" ELSE Woken(v)]
  /\ UNCHANGED <<shared, outside, main, edge>>

(* execute_edge returned false.                                            *)
FailEdge(w) ==
  /\ pc[w] = "fail"
  /\ failed' = TRUE
  /\ stopping' = TRUE
  /\ pc' = [pc EXCEPT ![w] = "fail_notify"]
  /\ UNCHANGED <<plan, indegree, ready_queue, completed_edges, running_edges,
                 done, outside, main, edge>>

NotifyFailedWorkers(w) ==
  /\ pc[w] = "fail_notify"
  /\ pc' = [v \in Worker |-> IF v = w THEN "fail_notify_main" ELSE Woken(v)]
  /\ UNCHANGED <<shared, outside, main, edge>>

NotifyFailedMain(w) ==
  /\ pc[w] = "fail_notify_main"
  /\ main' = MainWoken
  /\ pc' = [pc EXCEPT ![w] = "exited"]
  /\ UNCHANGED <<shared, outside, edge>>

(* A condition variable may wake a waiter that nobody notified.            *)
SpuriousWakeup ==
  /\ \/ \E w \in Worker : /\ pc[w] = "waiting"
                          /\ pc' = [pc EXCEPT ![w] = "check"]
                          /\ UNCHANGED main
     \/ /\ main = "waiting"
        /\ main' = "check"
        /\ UNCHANGED pc
  /\ UNCHANGED <<shared, outside, edge>>

-----------------------------------------------------------------------------
MainStep ==
  \/ \E w \in Worker : SpawnWorker(w)
  \/ NotifyStarted \/ AwaitFinished \/ SetStopping \/ NotifyStopping
  \/ JoinWorkers

WorkerStep(w) ==
  \/ WaitForWork(w) \/ LeaveLoop(w) \/ TakeEdge(w) \/ ExecuteEdge(w)
  \/ FinishEdge(w) \/ NotifyWork(w)
  \/ FailEdge(w) \/ NotifyFailedWorkers(w) \/ NotifyFailedMain(w)

Next ==
  \/ SetExecutor \/ RejectRun
  \/ \E p \in SUBSET Edge : StartRun(p)
  \/ MainStep
  \/ \E w \in Worker : WorkerStep(w)
  \/ SpuriousWakeup

(* Every thread keeps being scheduled and every command ends (waitpid has  *)
(* no timeout).  Nothing is assumed of spurious wakeups, nor of the caller *)
(* of run().                                                               *)
Fairness == WF_vars(MainStep) /\ \A w \in Worker : WF_vars(WorkerStep(w))

Spec == Init /\ [][Next]_vars
FairSpec == Spec /\ Fairness

-----------------------------------------------------------------------------
InFlight(w) == pc[w] \in {"execute", "finish", "fail"}

(* The edges some worker has taken from the queue and not finished: being  *)
(* executed, or failed.                                                    *)
Claimed == {edge[w] : w \in Worker} \ {nullptr}

TypeOK ==
  /\ plan \subseteq Edge
  /\ indegree \in [plan -> Nat]
  /\ ready_queue \in Seq(Edge)
  /\ completed_edges \in Nat /\ running_edges \in Nat
  /\ stopping \in BOOLEAN /\ failed \in BOOLEAN /\ executor \in BOOLEAN
  /\ main \in {"idle", "spawn", "check", "waiting", "stop", "notify_stop",
               "join"}
  /\ pc \in [Worker -> {"none", "check", "waiting", "execute", "finish",
                        "notify", "fail", "fail_notify", "fail_notify_main",
                        "exited"}]
  /\ edge \in [Worker -> Edge \cup {nullptr}]
  /\ result \in {"none", "success", "failure", "rejected"}
  /\ runs \in 0..MaxRuns
  /\ done \subseteq plan

-----------------------------------------------------------------------------
(* The properties of a run.                                                *)

(* The bookkeeping of the run is the truth about it: an indegree counts    *)
(* the producers that have not finished; the edges that wait for nothing   *)
(* are those in the ready queue, in a worker's hands or finished; the two  *)
(* counters count the finished and the taken edges.                        *)
CountsExact ==
  /\ \A e \in plan :
       indegree[e] = Cardinality((Producers(e) \cap plan) \ done)
  /\ Range(ready_queue) \cup Claimed \cup done = {e \in plan : indegree[e] = 0}
  /\ completed_edges = Cardinality(done)
  /\ running_edges = Cardinality({w \in Worker : edge[w] # nullptr})

(* What the position of each thread says about the shared state: a worker  *)
(* has an edge exactly while it executes or has failed one; workers fail   *)
(* before they leave with one; run() stops the workers only when the run   *)
(* is over, and returns only after all of them.                            *)
ThreadsInStep ==
  /\ \A w \in Worker :
       /\ pc[w] \in {"none", "check", "waiting", "notify"} => edge[w] = nullptr
       /\ InFlight(w) => edge[w] # nullptr
       /\ pc[w] \in {"fail_notify", "fail_notify_main"} =>
            edge[w] # nullptr /\ failed
       /\ pc[w] = "exited" => stopping \/ failed
       /\ ~InFlight(w) /\ edge[w] # nullptr => failed
       /\ pc[w] = "none" => main \in {"idle", "spawn"}
  /\ failed => \E w \in Worker : ~InFlight(w) /\ edge[w] # nullptr
  /\ main \in {"stop", "notify_stop", "join"} => Finished
  /\ stopping => Finished
  /\ main = "idle" => /\ \A w \in Worker : pc[w] \in {"none", "exited"}
                      /\ result = "success" => done = plan
                      /\ result = "failure" => failed

(* An edge is handed to the executor only after every producer of its      *)
(* inputs that is in the plan has finished, whatever the order in which    *)
(* workers take, finish and release edges.                                 *)
DependencyOrder ==
  \A w \in Worker : InFlight(w) => Producers(edge[w]) \cap plan \subseteq done

(* No edge is executed twice in a run: it is in at most one of the ready   *)
(* queue, one worker's hands and the finished edges, and at most once in   *)
(* the queue, although several finishing producers decrement its indegree. *)
NoDoubleExecution ==
  /\ IsInjective(ready_queue)
  /\ Range(ready_queue) \cap (Claimed \cup done) = {}
  /\ Claimed \cap done = {}
  /\ \A v, w \in Worker : edge[v] = edge[w] /\ edge[v] # nullptr => v = w

(* No notification is lost: whenever a thread sleeps although the          *)
(* predicate it sleeps on holds, some thread is on its way to a            *)
(* notify_all of that condition variable.                                  *)
NoLostWakeup ==
  /\ \A w \in Worker : pc[w] = "waiting" =>
       /\ ready_queue # <<>> => \E v \in Worker : pc[v] = "notify"
       /\ stopping \/ failed => \/ \E v \in Worker : pc[v] = "fail_notify"
                               \/ main = "notify_stop"
  /\ main = "waiting" /\ Finished =>
       \E v \in Worker : pc[v] \in {"fail_notify", "fail_notify_main"}

(* What run() returns is what happened: true only when every edge of the   *)
(* plan finished, false only when some edge of it failed and is not among  *)
(* the finished ones; and no worker still executes a command by then.      *)
ReturnedResult ==
  main = "idle" =>
    /\ \A w \in Worker : ~InFlight(w)
    /\ result = "success" => done = plan
    /\ result = "failure" => \E e \in plan \ done : e \in Claimed

(* Once an edge has failed, no worker starts another one in this run.      *)
NothingStartsAfterFailure ==
  [][failed /\ failed' => \A w \in Worker : InFlight(w)' => InFlight(w)]_vars

(* A run is never stuck: while it lasts, the thread in run() has something *)
(* to do, or all it waits for has happened, or some worker is awake.       *)
(* Nobody needs a spurious wakeup.                                         *)
SomeoneAwake ==
  main # "idle" =>
    \/ main \notin {"waiting", "join"}
    \/ main = "join" /\ \A w \in Worker : pc[w] = "exited"
    \/ \E w \in Worker : pc[w] \notin {"none", "waiting", "exited"}

(* What a run still has before it: edges to take, workers on the way from  *)
(* one of them to the next, and the way of run() itself.                   *)
At(places) == Cardinality({w \in Worker : pc[w] \in places})
MainAhead ==
  CASE main = "idle" -> 0
    [] main = "join" -> 1
    [] main = "notify_stop" -> 2
    [] main = "stop" -> 3
    [] main \in {"check", "waiting"} -> 4
    [] main = "spawn" -> 5
WorkersAhead ==
  At({"none"}) + At({"execute"}) + At({"execute", "finish", "fail"})
    + At({"execute", "finish", "fail", "notify", "fail_notify"})
    + At({"execute", "finish", "fail", "notify", "fail_notify",
          "fail_notify_main"})
Ahead ==
  5 * (total_edges - completed_edges - running_edges)
    + MainAhead + WorkersAhead
Awake == At({"check"}) + IF main = "check" THEN 1 ELSE 0

(* No two threads wake each other in turns for ever: every step of a run   *)
(* takes away from what is ahead of it, or else puts one more thread to    *)
(* rest; a spurious wakeup takes nothing back.                             *)
EveryStepCounts ==
  [][main # "idle" =>
       /\ Ahead \in Nat /\ Ahead' <= Ahead
       /\ Ahead' = Ahead /\ ~SpuriousWakeup => Awake' < Awake]_vars

(* Every run returns: no thread sleeps for ever and no edge is forgotten.  *)
RunReturns == main # "idle" ~> main = "idle"

(* The scheduler implements the abstract execution of a graph of edges,    *)
(* where the edges in flight are active, those a worker has left with are  *)
(* broken, and the answer is what run() returns.                           *)
Active == {edge[w] : w \in {v \in Worker : InFlight(v)}}
Broken == {edge[w] : w \in {v \in Worker : ~InFlight(v)}} \ {nullptr}
Outcome == IF main = "idle" THEN result ELSE "running"

Execution ==
  INSTANCE DagExecution
    WITH active <- Active, broken <- Broken, outcome <- Outcome

ImplementsExecution == Execution!Spec

=============================================================================
