----------------------------- MODULE ThreadPool -----------------------------
(***************************************************************************)
(* The thread pool of ggml's CPU backend, built without OpenMP             *)
(* (cpp/llama.cpp/ggml/src/ggml-cpu/ggml-cpu.c): how the workers poll,     *)
(* sleep, pause and stop, how a graph is handed to them, the barrier, and  *)
(* how the threads share the chunks of a matrix product.  A pool that is   *)
(* made for one graph, as llama_decode does when none is attached, is the  *)
(* case of one graph before FreePool.                                      *)
(*                                                                         *)
(* Each access to an atomic that another thread may race with is a step of *)
(* its own; stop and pause do not change while a graph is computed, and a  *)
(* polling thread reads them together with n_graph. What a thread does     *)
(* under the mutex is one step, for all it reads there is only changed     *)
(* under the mutex, except that polling threads see the two stores of      *)
(* ggml_graph_compute_kickoff one by one. Every node of a graph is a       *)
(* matrix product; the other kinds use the barrier the same way. Memory is *)
(* sequentially consistent.                                                *)
(***************************************************************************)
EXTENDS Integers, FiniteSets

CONSTANTS N,            \* n_threads_max
          Counts,       \* the numbers of threads graphs are computed with
          Grow,         \* whether a graph may ask for more threads than the last
          MaxGraphs,    \* bound: graphs computed
          NNodes,       \* n_nodes of every graph
          ChunkCounts,  \* the numbers of chunks products are cut into
          Factor        \* chunks a thread should get at least, 4 in the code

ASSUME PoolAssumption ==
  /\ N \in Nat \ {0}
  /\ Counts \subseteq Nat \ {0}
  /\ Grow \in BOOLEAN
  /\ MaxGraphs \in Nat
  /\ NNodes \in Nat \ {0}
  /\ ChunkCounts \subseteq Nat
  /\ Factor \in Nat

Thread == 0..(N - 1)
Worker == Thread \ {0}

VARIABLES
  nGraph,       \* n_graph
  nBarrier,     \* n_barrier
  nPassed,      \* n_barrier_passed
  currentChunk, \* current_chunk
  stop,
  pause,
  abort,
  nThreads,     \* n_threads_cur
  graph,        \* cgraph: the number of the graph, 0 for none
  nChunks,      \* into how many chunks the products of the graph are cut
  pc,           \* where each thread is
  lastGraph,    \* last_graph of each worker
  seen,         \* the n_graph a polling worker has read
  node,         \* node_n of each thread
  nth,          \* params.nth of each thread
  chunk,        \* current_chunk of each thread
  passed,       \* n_passed of each thread
  after,        \* what each thread does after the barrier it is in
  converted,    \* history: <<k, t>> if thread t has converted its share for node k
  computed,     \* history: <<k, c>> if chunk c of node k was computed
  doubled       \* history: <<k, c>> if it was computed more than once

atomics == <<nGraph, nBarrier, nPassed, currentChunk, stop, pause, abort, nThreads>>
work == <<graph, nChunks>>
locals == <<lastGraph, seen, node, nth, chunk, passed, after>>
history == <<converted, computed, doubled>>
vars == <<atomics, work, pc, locals, history>>

Node == 0..(NNodes - 1)

\* ggml_compute_forward_mul_mat cuts by thread if the chunks are too few.
ChunksFor(c, n) == IF c < n * Factor THEN n ELSE c

\* What a broadcast does: each waiting thread goes back to its check.
Woken ==
  [t \in Thread |-> CASE pc[t] = "asleep" -> "lock"
                      [] pc[t] = "resting" -> "top"
                      [] OTHER -> pc[t]]

\* The mutex is free.  Only the kickoff holds it for longer than a step.
Unlocked == pc[0] # "publish"

\* Where a thread goes when the graph is computed.
Home(t) == IF t = 0 THEN "user" ELSE "top"

Init ==
  /\ nGraph = 0
  /\ nBarrier = 0
  /\ nPassed = 0
  /\ currentChunk = 0
  /\ stop = FALSE
  /\ pause \in BOOLEAN
  /\ abort = -1
  /\ nThreads = N
  /\ graph = 0
  /\ nChunks = 0
  /\ pc = [t \in Thread |-> IF t = 0 THEN "user" ELSE "top"]
  /\ lastGraph = [t \in Thread |-> 0]
  /\ seen = [t \in Thread |-> 0]
  /\ node = [t \in Thread |-> 0]
  /\ nth = [t \in Thread |-> 0]
  /\ chunk = [t \in Thread |-> 0]
  /\ passed = [t \in Thread |-> 0]
  /\ after = [t \in Thread |-> Home(t)]
  /\ converted = {}
  /\ computed = {}
  /\ doubled = {}

-----------------------------------------------------------------------------
\* The main thread.

\* ggml_graph_compute: a new graph is set up ...
BeginGraph(c) ==
  /\ pc[0] = "user"
  /\ graph < MaxGraphs
  /\ graph' = graph + 1
  /\ nChunks' = c
  /\ currentChunk' = 0
  /\ abort' = -1
  /\ pc' = [pc EXCEPT ![0] = "kickoff"]
  /\ converted' = {}
  /\ computed' = {}
  /\ doubled' = {}
  /\ UNCHANGED <<nGraph, nBarrier, nPassed, stop, pause, nThreads, locals>>

\* ... and kicked off, on n threads or as many as there are: under the mutex
\* the number of threads is stored first ...
Kickoff(n) ==
  /\ pc[0] = "kickoff"
  /\ nThreads' = IF n > N THEN N ELSE n
  /\ Grow \/ graph = 1 \/ nThreads' <= nThreads
  /\ pc' = [pc EXCEPT ![0] = "publish"]
  /\ UNCHANGED <<nGraph, nBarrier, nPassed, currentChunk, stop, pause, abort, work,
                 locals, history>>

\* Mutant: sleeping workers are not woken.
PublishSilently ==
  /\ pc[0] = "publish"
  /\ nGraph' = nGraph + 1
  /\ pause' = FALSE
  /\ pc' = [pc EXCEPT ![0] = "enter"]
  /\ UNCHANGED <<nBarrier, nPassed, currentChunk, stop, abort, nThreads, work,
                 locals, history>>

\* ... then the graph is counted, and everyone is woken, paused or not.
Publish ==
  /\ pc[0] = "publish"
  /\ nGraph' = nGraph + 1
  /\ pause' = FALSE
  /\ pc' = [Woken EXCEPT ![0] = "enter"]
  /\ UNCHANGED <<nBarrier, nPassed, currentChunk, stop, abort, nThreads, work,
                 locals, history>>

\* ggml_threadpool_pause, ggml_threadpool_resume
SetPause(on) ==
  /\ pc[0] = "user"
  /\ pause # on
  /\ pause' = on
  /\ pc' = Woken
  /\ UNCHANGED <<nGraph, nBarrier, nPassed, currentChunk, stop, abort, nThreads, work,
                 locals, history>>

\* ggml_threadpool_free: the workers are stopped ...
FreePool ==
  /\ pc[0] = "user"
  /\ stop' = TRUE
  /\ pause' = FALSE
  /\ pc' = [Woken EXCEPT ![0] = "joining"]
  /\ UNCHANGED <<nGraph, nBarrier, nPassed, currentChunk, abort, nThreads, work,
                 locals, history>>

\* ... and joined.
Joined ==
  /\ pc[0] = "joining"
  /\ \A t \in Worker : pc[t] = "exited"
  /\ pc' = [pc EXCEPT ![0] = "freed"]
  /\ UNCHANGED <<atomics, work, locals, history>>

-----------------------------------------------------------------------------
\* The workers, between graphs.

\* Thread t goes to step s, and only that.
Goto(t, s) ==
  /\ pc' = [pc EXCEPT ![t] = s]
  /\ UNCHANGED <<atomics, work, history>>

Jump(t, s) == Goto(t, s) /\ UNCHANGED locals

\* ggml_graph_compute_secondary_thread, head of its loop and of the pause loop
Top(t) ==
  /\ pc[t] = "top"
  /\ Jump(t, IF pause THEN "pausing" ELSE "stopping")

\* The pause is looked at again under the mutex.
Rest(t) ==
  /\ pc[t] = "pausing"
  /\ Unlocked
  /\ Jump(t, IF pause THEN "resting" ELSE "top")

Stopping(t) ==
  /\ pc[t] = "stopping"
  /\ Jump(t, IF stop THEN "exited" ELSE "active")

\* ggml_graph_compute_poll_for_work: threads that are not in use do not poll.
Active(t) ==
  /\ pc[t] = "active"
  /\ Jump(t, IF t < nThreads THEN "poll" ELSE "lock")

\* ggml_graph_compute_thread_ready while polling: a graph it has not seen.  The
\* main thread stores stop and pause under the mutex and between graphs only, so
\* that they are loaded together with n_graph hides no order of the stores ...
PollFinds(t) ==
  /\ pc[t] = "poll"
  /\ ~stop /\ ~pause
  /\ nGraph # lastGraph[t]
  /\ Goto(t, "judge")
  /\ seen' = [seen EXCEPT ![t] = nGraph]
  /\ UNCHANGED <<lastGraph, node, nth, chunk, passed, after>>

\* Mutant: any thread takes up the graph, in use or not.
JudgeAll(t) ==
  /\ pc[t] = "judge"
  /\ Goto(t, "enter")
  /\ lastGraph' = [lastGraph EXCEPT ![t] = seen[t]]
  /\ UNCHANGED <<seen, node, nth, chunk, passed, after>>

\* ... is work if the thread is in use by now.
Judge(t) ==
  /\ pc[t] = "judge"
  /\ Goto(t, IF t < nThreads THEN "enter" ELSE "poll")
  /\ lastGraph' = [lastGraph EXCEPT ![t] = seen[t]]
  /\ UNCHANGED <<seen, node, nth, chunk, passed, after>>

\* The rounds of polling are over, or the pool is stopped or paused.
PollEnds(t) == pc[t] = "poll" /\ Jump(t, "lock")

\* Mutant: a worker goes to sleep without looking for work again.
LockAndSleep(t) ==
  /\ pc[t] = "lock"
  /\ Unlocked
  /\ Jump(t, "asleep")

\* ggml_graph_compute_check_for_work, under the mutex: back to the top, to work,
\* or to sleep.
Lock(t) ==
  LET work_ == nGraph # lastGraph[t] /\ ~stop /\ ~pause
  IN /\ pc[t] = "lock"
     /\ Unlocked
     /\ Goto(t, IF stop \/ pause THEN "top"
                ELSE IF work_ /\ t < nThreads THEN "enter" ELSE "asleep")
     /\ lastGraph' = [lastGraph EXCEPT ![t] = IF work_ THEN nGraph ELSE @]
     /\ UNCHANGED <<seen, node, nth, chunk, passed, after>>

\* Condition variables wake threads for no reason, too.
Spurious(t) ==
  /\ pc[t] \in {"asleep", "resting"}
  /\ Jump(t, Woken[t])

-----------------------------------------------------------------------------
\* All threads, in a graph.

\* ggml_graph_compute_thread
Enter(t) ==
  /\ pc[t] = "enter"
  /\ Goto(t, "head")
  /\ node' = [node EXCEPT ![t] = 0]
  /\ nth' = [nth EXCEPT ![t] = nThreads]
  /\ UNCHANGED <<lastGraph, seen, chunk, passed, after>>

\* Thread t goes through the barrier to s; alone, it does not stop there.
Barrier(t, s) ==
  /\ pc' = [pc EXCEPT ![t] = IF nThreads = 1 THEN s ELSE "arrive"]
  /\ after' = [after EXCEPT ![t] = s]

\* Mutant: the abort is only seen by the thread that asked for it.
HeadAlone(t) ==
  /\ pc[t] = "head"
  /\ IF node[t] < NNodes /\ (t = 0 => abort # node[t])
     THEN Jump(t, "convert")
     ELSE Barrier(t, Home(t)) /\ UNCHANGED <<atomics, work, history, lastGraph, seen,
                                            node, nth, chunk, passed>>

\* The head of the loop over the nodes; a barrier ends the graph.
Head(t) ==
  /\ pc[t] = "head"
  /\ IF node[t] < NNodes /\ abort # node[t]
     THEN Jump(t, "convert")
     ELSE Barrier(t, Home(t)) /\ UNCHANGED <<atomics, work, history, lastGraph, seen,
                                            node, nth, chunk, passed>>

\* Mutant: no barrier between the conversion of src1 and its use.
ConvertAndGo(t) ==
  /\ pc[t] = "convert"
  /\ converted' = converted \union {<<node[t], t>>}
  /\ currentChunk' = IF t = 0 THEN nth[t] ELSE currentChunk
  /\ chunk' = [chunk EXCEPT ![t] = t]
  /\ pc' = [pc EXCEPT ![t] = "chunk"]
  /\ UNCHANGED <<nGraph, nBarrier, nPassed, stop, pause, abort, nThreads, work, lastGraph,
                 seen, node, nth, passed, after, computed, doubled>>

\* Mutant: every thread sets the counter of chunks.
ConvertAndReset(t) ==
  /\ pc[t] = "convert"
  /\ converted' = converted \union {<<node[t], t>>}
  /\ currentChunk' = t
  /\ chunk' = [chunk EXCEPT ![t] = t]
  /\ Barrier(t, "chunk")
  /\ UNCHANGED <<nGraph, nBarrier, nPassed, stop, pause, abort, nThreads, work, lastGraph,
                 seen, node, nth, passed, computed, doubled>>

\* ggml_compute_forward_mul_mat: the thread's share of src1 is converted, and
\* thread 0 sets the counter of chunks.
Convert(t) ==
  /\ pc[t] = "convert"
  /\ converted' = converted \union {<<node[t], t>>}
  /\ currentChunk' = IF t = 0 THEN nth[t] ELSE currentChunk
  /\ chunk' = [chunk EXCEPT ![t] = t]
  /\ Barrier(t, "chunk")
  /\ UNCHANGED <<nGraph, nBarrier, nPassed, stop, pause, abort, nThreads, work, lastGraph,
                 seen, node, nth, passed, computed, doubled>>

\* The thread computes its chunk, if there is such a chunk.
ComputeChunk(t) ==
  LET done == <<node[t], chunk[t]>>
      all == ChunksFor(nChunks, nth[t])
  IN /\ pc[t] = "chunk"
     /\ IF chunk[t] < all
        THEN /\ pc' = [pc EXCEPT ![t] = IF nth[t] >= all THEN "tail" ELSE "next"]
             /\ computed' = computed \union {done}
             /\ doubled' = IF done \in computed THEN doubled \union {done} ELSE doubled
        ELSE /\ pc' = [pc EXCEPT ![t] = "tail"]
             /\ UNCHANGED <<computed, doubled>>
     /\ UNCHANGED <<atomics, work, locals, converted>>

\* The next chunk nobody has taken.
NextChunk(t) ==
  /\ pc[t] = "next"
  /\ chunk' = [chunk EXCEPT ![t] = currentChunk]
  /\ currentChunk' = currentChunk + 1
  /\ pc' = [pc EXCEPT ![t] = "chunk"]
  /\ UNCHANGED <<nGraph, nBarrier, nPassed, stop, pause, abort, nThreads, work, lastGraph,
                 seen, node, nth, passed, after, history>>

\* The node is computed.  Thread 0 may be told to abort; another barrier, unless
\* this was the last node.
Tail(t) ==
  /\ pc[t] = "tail"
  /\ \/ UNCHANGED abort
     \/ t = 0 /\ abort' = node[t] + 1
  /\ node' = [node EXCEPT ![t] = @ + 1]
  /\ IF node[t] + 1 < NNodes
     THEN Barrier(t, "head")
     ELSE pc' = [pc EXCEPT ![t] = "head"] /\ UNCHANGED after
  /\ UNCHANGED <<nGraph, nBarrier, nPassed, currentChunk, stop, pause, nThreads, work,
                 lastGraph, seen, nth, chunk, passed, history>>

\* ggml_barrier: n_barrier_passed is read ...
Arrive(t) ==
  /\ pc[t] = "arrive"
  /\ Goto(t, "add")
  /\ passed' = [passed EXCEPT ![t] = nPassed]
  /\ UNCHANGED <<lastGraph, seen, node, nth, chunk, after>>

\* ... and the thread is counted.  n_threads_cur, which the code read before,
\* is constant while a graph is computed.
Add(t) ==
  /\ pc[t] = "add"
  /\ nBarrier' = nBarrier + 1
  /\ pc' = [pc EXCEPT ![t] = IF nBarrier = nThreads - 1 THEN "reset" ELSE "spin"]
  /\ UNCHANGED <<nGraph, nPassed, currentChunk, stop, pause, abort, nThreads, work,
                 locals, history>>

\* Mutant: the count is not set back.
KeepCount(t) ==
  /\ pc[t] = "reset"
  /\ Jump(t, "release")

\* The last one sets the count back ...
Reset(t) ==
  /\ pc[t] = "reset"
  /\ nBarrier' = 0
  /\ pc' = [pc EXCEPT ![t] = "release"]
  /\ UNCHANGED <<nGraph, nPassed, currentChunk, stop, pause, abort, nThreads, work,
                 locals, history>>

\* ... and lets the others go,
Release(t) ==
  /\ pc[t] = "release"
  /\ nPassed' = nPassed + 1
  /\ pc' = [pc EXCEPT ![t] = after[t]]
  /\ UNCHANGED <<nGraph, nBarrier, currentChunk, stop, pause, abort, nThreads, work,
                 locals, history>>

\* who wait for it.
Spin(t) ==
  /\ pc[t] = "spin"
  /\ nPassed # passed[t]
  /\ Jump(t, after[t])

MainStep ==
  \/ \E n \in Counts : Kickoff(n)
  \/ Publish
  \/ Joined

WorkerStep(t) ==
  \/ Top(t)
  \/ Rest(t)
  \/ Stopping(t)
  \/ Active(t)
  \/ PollFinds(t)
  \/ Judge(t)
  \/ PollEnds(t)
  \/ Lock(t)

GraphStep(t) ==
  \/ Enter(t)
  \/ Head(t)
  \/ Convert(t)
  \/ ComputeChunk(t)
  \/ NextChunk(t)
  \/ Tail(t)
  \/ Arrive(t)
  \/ Add(t)
  \/ Reset(t)
  \/ Release(t)
  \/ Spin(t)

Freed == pc[0] = "freed" /\ UNCHANGED vars

Next ==
  \/ \E c \in ChunkCounts : BeginGraph(c)
  \/ \E on \in BOOLEAN : SetPause(on)
  \/ FreePool
  \/ MainStep
  \/ \E t \in Worker : WorkerStep(t) \/ Spurious(t)
  \/ \E t \in Thread : GraphStep(t)
  \/ Freed

\* The system runs every thread that can run.
Fairness ==
  /\ WF_vars(MainStep)
  /\ \A t \in Worker : WF_vars(WorkerStep(t))
  /\ \A t \in Thread : WF_vars(GraphStep(t))

Spec == Init /\ [][Next]_vars

FairSpec == Spec /\ Fairness

-----------------------------------------------------------------------------
(***************************************************************************)
(* Correctness.                                                            *)
(***************************************************************************)

Between == {"top", "pausing", "resting", "stopping", "active", "poll", "judge",
            "lock", "asleep", "exited"}
InBarrier == {"arrive", "add", "reset", "release", "spin"}
Computing == {"enter", "head", "convert", "chunk", "next", "tail"}
OfMain == {"user", "kickoff", "publish", "joining", "freed"}

TypeOK ==
  /\ nGraph \in 0..MaxGraphs
  /\ nBarrier \in 0..N
  /\ nPassed \in Nat
  /\ currentChunk \in Nat
  /\ stop \in BOOLEAN /\ pause \in BOOLEAN
  /\ abort \in -1..NNodes
  /\ nThreads \in 1..N
  /\ graph \in 0..MaxGraphs
  /\ nChunks \in ChunkCounts \union {0}
  /\ pc \in [Thread -> Between \union InBarrier \union Computing \union OfMain]
  /\ \A t \in Thread : pc[t] \in OfMain => t = 0
  /\ \A t \in Thread : pc[t] \in Between => t # 0
  /\ lastGraph \in [Thread -> 0..MaxGraphs]
  /\ seen \in [Thread -> 0..MaxGraphs]
  /\ node \in [Thread -> 0..NNodes]
  /\ nth \in [Thread -> 0..N]
  /\ chunk \in [Thread -> Nat]
  /\ passed \in [Thread -> Nat]
  /\ after \in [Thread -> {"user", "top", "head", "chunk"}]
  /\ converted \subseteq Node \X Thread
  /\ computed \subseteq Node \X Nat
  /\ doubled \subseteq computed

\* Thread t may read cgraph, cplan, or what the last barrier does not protect.
InGraph(t) ==
  \/ pc[t] \in Computing
  \/ pc[t] \in InBarrier /\ after[t] # Home(t)

\* ggml_graph_compute, on the fields it resets: "No worker threads should be
\* accessing the parameters below at this stage".
PoolQuiet ==
  pc[0] \in {"user", "kickoff", "joining"} => \A t \in Worker : ~InGraph(t)

\* src1 is converted, by everyone, before anyone multiplies with it, and nobody
\* converts the next one into the same buffer while it is in use.
SharesReady ==
  \A t \in Thread : pc[t] = "chunk" =>
    \A u \in 0..(nThreads - 1) : <<node[t], u>> \in converted /\ pc[u] # "convert"

\* No two threads write the same chunk of a result.
ChunksOnce == doubled = {}

\* When ggml_graph_compute returns, every chunk of every node was computed, up
\* to the node after which the graph was aborted, and nothing beyond it.
GraphComplete ==
  (pc[0] = "user" /\ graph > 0) =>
    LET nodes == IF abort = -1 THEN NNodes ELSE abort
    IN computed = (0..(nodes - 1)) \X (0..(ChunksFor(nChunks, nth[0]) - 1))

\* A graph is computed: no wakeup is lost, nobody is left behind in a barrier.
GraphReturns == (pc[0] = "kickoff") ~> (pc[0] = "user")

\* A pool that is freed ends, paused or not.
PoolEnds == (pc[0] = "joining") ~> (pc[0] = "freed")
=============================================================================
