------------------------- MODULE ThreadPool_proofs -------------------------
(***************************************************************************)
(* Proofs about the thread pool, for any number of threads, graphs, nodes  *)
(* and chunks: the threads pass every barrier together, so that a graph is *)
(* computed completely and once, and nobody is in it when the main thread  *)
(* is not.  Assumed is that graphs do not ask for more threads than those  *)
(* before them, or that the pool is made for one graph.                    *)
(***************************************************************************)
EXTENDS ThreadPool, FiniteSetTheorems, TLAPS

\* No thread that was left out of a graph takes part in a later one.
Steady == Grow => MaxGraphs <= 1

\* The threads in use.
Used == 0..(nThreads - 1)

\* The barrier t waits in is open, and t has not noticed.
Released(t) == pc[t] = "spin" /\ passed[t] # nPassed

\* t is in a barrier that is not open.
Held(t) == pc[t] \in InBarrier /\ ~Released(t)

\* t is in no graph, or leaves its last barrier.
Away(t) == pc[t] \in Between \/ (Released(t) /\ after[t] = "top")

\* Those who were counted in the barrier.
Waiting == {t \in Used : pc[t] = "spin" /\ passed[t] = nPassed}

\* The count of the barrier is the number of those who wait in it; the last one
\* to come finds all others waiting, sets it back and lets them go.
Counted ==
  /\ \A t \in Used : pc[t] = "add" => passed[t] = nPassed
  /\ \A t \in Used : pc[t] = "reset" => Waiting = Used \ {t}
  /\ \A t \in Used : pc[t] = "release" => Waiting = Used \ {t} /\ nBarrier = 0
  /\ (\A t \in Used : pc[t] \notin {"reset", "release"}) => nBarrier = Cardinality(Waiting)

\* Nobody has passed a barrier that is still to be opened.
Past == \A t \in Thread : pc[t] = "spin" => passed[t] <= nPassed

AllChunks == ChunksFor(nChunks, nThreads)

\* The chunks of the first k nodes.
Done(k) == (0..(k - 1)) \X (0..(AllChunks - 1))

\* t has taken up the graph.
Took(t) == t = 0 \/ lastGraph[t] = nGraph

\* t is on its way to the barrier before the product of node k, or in it.
Preparing(t, k) ==
  \/ k = 0 /\ t # 0 /\ Away(t) /\ lastGraph[t] # nGraph /\ (pc[t] = "judge" => seen[t] = nGraph)
  \/ k = 0 /\ Took(t) /\ pc[t] = "enter"
  \/ /\ node[t] = k /\ nth[t] = nThreads /\ Took(t)
     /\ \/ Released(t) /\ after[t] = "head"
        \/ pc[t] = "head"
        \/ pc[t] = "convert" /\ abort # k
        \/ Held(t) /\ abort = k /\ after[t] = Home(t)
        \/ /\ Held(t) /\ abort # k /\ after[t] = "chunk"
           /\ <<k, t>> \in converted /\ chunk[t] = t
           /\ t = 0 => currentChunk = nThreads

\* t is on its way to the barrier after the product of node k, or in it.
Multiplying(t, k) ==
  /\ nth[t] = nThreads /\ Took(t)
  /\ \/ node[t] = k /\ Released(t) /\ after[t] = "chunk"
     \/ node[t] = k /\ pc[t] \in {"chunk", "next", "tail"}
     \/ node[t] = k + 1 /\ k + 1 = NNodes /\ pc[t] = "head"
     \/ node[t] = k + 1 /\ Held(t) /\ after[t] = IF k + 1 = NNodes THEN Home(t) ELSE "head"

\* t has a chunk it has not computed.
Holds(t) == pc[t] = "chunk" \/ (Released(t) /\ after[t] = "chunk")

\* Every chunk of node k below current_chunk was computed or is held by one
\* thread; whoever holds none and looks for none has seen that none is left.
Chunks(k) ==
  /\ nThreads <= currentChunk
  /\ \A t \in Used : Holds(t) => chunk[t] < currentChunk /\ <<k, chunk[t]>> \notin computed
  /\ \A t, u \in Used : Holds(t) /\ Holds(u) /\ chunk[t] = chunk[u] => t = u
  /\ \A t \in Used : ~Holds(t) /\ pc[t] # "next" => AllChunks <= currentChunk
  /\ Done(k) \subseteq computed /\ computed \subseteq Done(k + 1)
  /\ \A c \in 0..(AllChunks - 1) :
       /\ <<k, c>> \in computed => c < currentChunk
       /\ c < currentChunk => <<k, c>> \in computed \/ \E t \in Used : Holds(t) /\ chunk[t] = c

\* The main thread is in no graph, and no worker that is in use has one to take up.
Idle ==
  /\ pc[0] \in OfMain \/ (Released(0) /\ after[0] = "user")
  /\ \A t \in Used \ {0} : Away(t) /\ lastGraph[t] = nGraph /\ pc[t] # "judge"
  /\ pc[0] \in {"kickoff", "publish"} => abort = -1 /\ computed = {}
  /\ (pc[0] \notin {"kickoff", "publish"} /\ graph > 0) =>
       nth[0] = nThreads /\ computed = Done(IF abort = -1 THEN NNodes ELSE abort)

\* All threads in use are between the same two barriers.
Prepare(k) ==
  /\ abort \in {-1, k}
  /\ \A t \in Used : Preparing(t, k)
  /\ computed = Done(k)

Multiply(k) ==
  /\ abort \in {-1, k + 1}
  /\ \A t \in Used : Multiplying(t, k) /\ <<k, t>> \in converted
  /\ Chunks(k)

Phase == Idle \/ \E k \in Node : Prepare(k) \/ Multiply(k)

\* Threads not in use are in no graph.
Outside == \A t \in Thread \ Used : Away(t)

\* The graphs are counted as they are published.
Numbers ==
  /\ graph = nGraph + (IF pc[0] \in {"kickoff", "publish"} THEN 1 ELSE 0)
  /\ nGraph = 0 /\ pc[0] # "publish" => nThreads = N

\* The inductive invariant.
PoolInv ==
  /\ TypeOK
  /\ Numbers
  /\ doubled = {}
  /\ Outside
  /\ Past
  /\ Counted
  /\ Phase

-----------------------------------------------------------------------------
\* Numbers of threads and where they are.

LEMMA ThreadFacts ==
  /\ N \in Nat /\ N >= 1 /\ NNodes \in Nat /\ NNodes >= 1 /\ MaxGraphs \in Nat
  /\ 0 \in Thread /\ Thread \subseteq Nat /\ Worker = Thread \ {0}
  /\ Node \subseteq Nat /\ 0 \in Node
BY PoolAssumption DEF Thread, Worker, Node

LEMMA UsedFacts ==
  ASSUME TypeOK
  PROVE  /\ Used \subseteq Thread /\ 0 \in Used
         /\ \A t \in Thread : t \in Used <=> t < nThreads
         /\ nThreads \in Nat /\ nThreads >= 1
         /\ nThreads = 1 => Used = {0}
         /\ IsFiniteSet(Used) /\ Cardinality(Used) = nThreads
<1>1. nThreads \in 1..N
  BY DEF TypeOK
<1>2. IsFiniteSet(Used) /\ Cardinality(Used) = nThreads
  BY <1>1, ThreadFacts, FS_Interval DEF Used
<1> QED
  BY <1>1, <1>2, ThreadFacts DEF Used, Thread

LEMMA ChunksNat ==
  ASSUME TypeOK
  PROVE  AllChunks \in Nat
<1>1. nChunks \in Nat /\ nThreads \in Nat /\ Factor \in Nat
  BY PoolAssumption, UsedFacts DEF TypeOK
<1> QED
  BY <1>1 DEF AllChunks, ChunksFor

-----------------------------------------------------------------------------
\* Initially.

LEMMA PoolInit == Init => PoolInv
<1> SUFFICES ASSUME Init PROVE PoolInv
  OBVIOUS
<1> USE ThreadFacts
<1>1. pc[0] = "user" /\ \A t \in Thread \ {0} : pc[t] = "top"
  BY DEF Init
<1>2. TypeOK
  <2>1. stop \in BOOLEAN /\ pause \in BOOLEAN
    BY DEF Init
  <2>2. /\ nGraph \in 0..MaxGraphs /\ nBarrier \in 0..N /\ nPassed \in Nat /\ currentChunk \in Nat
        /\ abort \in -1..NNodes /\ nThreads \in 1..N /\ graph \in 0..MaxGraphs
        /\ nChunks \in ChunkCounts \union {0}
    BY DEF Init
  <2>3. pc \in [Thread -> Between \union InBarrier \union Computing \union OfMain]
    BY DEF Init, Between, OfMain
  <2>4. /\ \A t \in Thread : pc[t] \in OfMain => t = 0
        /\ \A t \in Thread : pc[t] \in Between => t # 0
    BY <1>1 DEF Between, OfMain
  <2>5. /\ lastGraph \in [Thread -> 0..MaxGraphs] /\ seen \in [Thread -> 0..MaxGraphs]
        /\ node \in [Thread -> 0..NNodes] /\ nth \in [Thread -> 0..N]
        /\ chunk \in [Thread -> Nat] /\ passed \in [Thread -> Nat]
        /\ after \in [Thread -> {"user", "top", "head", "chunk"}]
    BY DEF Init, Home
  <2>6. converted \subseteq Node \X Thread /\ computed \subseteq Node \X Nat
        /\ doubled \subseteq computed
    BY DEF Init
  <2> QED
    BY <2>1, <2>2, <2>3, <2>4, <2>5, <2>6 DEF TypeOK
<1>3. Outside /\ Past /\ Numbers /\ doubled = {}
  BY <1>1, <1>2, UsedFacts DEF Init, Outside, Away, Between, Past, Numbers
<1>4. Waiting = {}
  BY <1>1, <1>2, UsedFacts DEF Waiting
<1>5. Counted
  BY <1>1, <1>2, <1>4, UsedFacts, FS_EmptySet DEF Init, Counted
<1>6. Idle
  BY <1>1, <1>2, UsedFacts DEF Init, Idle, Away, Between, OfMain
<1> QED
  BY <1>2, <1>3, <1>5, <1>6 DEF PoolInv, Phase

-----------------------------------------------------------------------------
\* What a step of one thread leaves alone.

\* Nothing of u changes.
Same(u) ==
  /\ pc'[u] = pc[u] /\ lastGraph'[u] = lastGraph[u] /\ seen'[u] = seen[u]
  /\ node'[u] = node[u] /\ nth'[u] = nth[u] /\ chunk'[u] = chunk[u]
  /\ passed'[u] = passed[u] /\ after'[u] = after[u]

\* Neither does the pool for as long as a graph is computed.
Settled == UNCHANGED <<nGraph, stop, pause, nThreads, graph, nChunks>>

LEMMA OthersStay ==
  ASSUME TypeOK, NEW t \in Thread, WorkerStep(t) \/ Spurious(t) \/ GraphStep(t)
  PROVE  Settled /\ \A u \in Thread \ {t} : Same(u)
<1> USE DEF TypeOK, Same, Settled, atomics, work, locals, history, Goto, Jump
<1>1. CASE WorkerStep(t) \/ Spurious(t)
  BY <1>1 DEF WorkerStep, Spurious, Top, Rest, Stopping, Active, PollFinds, Judge, PollEnds, Lock
<1>2. CASE GraphStep(t)
  <2>1. CASE Enter(t) \/ Head(t) \/ Convert(t)
    BY <2>1 DEF Enter, Head, Convert, Barrier
  <2>2. CASE ComputeChunk(t) \/ NextChunk(t) \/ Tail(t)
    BY <2>2 DEF ComputeChunk, NextChunk, Tail, Barrier
  <2>3. CASE Arrive(t) \/ Add(t) \/ Reset(t) \/ Release(t) \/ Spin(t)
    BY <2>3 DEF Arrive, Add, Reset, Release, Spin
  <2> QED
    BY <1>2, <2>1, <2>2, <2>3 DEF GraphStep
<1> QED
  BY <1>1, <1>2

-----------------------------------------------------------------------------
\* The barrier's count.

\* t is neither counted in the barrier nor about to do something to its count.
Calm(t) == pc[t] \notin {"add", "reset", "release"} /\ ~(pc[t] = "spin" /\ passed[t] = nPassed)

\* Threads that go where they are not counted do not disturb the barrier.
LEMMA CountedKept ==
  ASSUME TypeOK, Counted, Past, UNCHANGED <<nBarrier, nPassed>>, Used' = Used,
         \A t \in Thread :
           \/ pc'[t] = pc[t] /\ passed'[t] = passed[t]
           \/ /\ Calm(t)
              /\ pc'[t] \notin {"spin", "reset", "release"}
              /\ pc'[t] = "add" => passed'[t] = nPassed
  PROVE  Counted' /\ Past'
<1>1. Past'
  BY DEF Past
<1>2. Used \subseteq Thread
  BY UsedFacts
<1>3. Waiting' = Waiting
  BY <1>2 DEF Waiting, Calm
<1>4. \A t \in Used : pc'[t] = "add" => passed'[t] = nPassed'
  BY <1>2 DEF Counted
<1>5. \A t \in Used : pc'[t] \in {"reset", "release"} <=> pc[t] \in {"reset", "release"}
  BY <1>2 DEF Calm
<1>6. \A t \in Used : pc'[t] \in {"reset", "release"} => pc'[t] = pc[t]
  BY <1>2
<1> QED
  BY <1>1, <1>3, <1>4, <1>5, <1>6 DEF Counted

\* A thread is counted; the last one to come is not waiting itself.
LEMMA CountedAdd ==
  ASSUME TypeOK, Counted, Past, NEW t \in Used, Add(t)
  PROVE  /\ Counted' /\ Past'
         /\ nBarrier + 1 <= nThreads
         /\ pc'[t] \in {"reset", "spin"} /\ passed[t] = nPassed
<1>1. /\ UNCHANGED <<nPassed, nThreads, passed>> /\ nBarrier' = nBarrier + 1
      /\ pc[t] = "add" /\ passed[t] = nPassed
      /\ pc'[t] = IF nBarrier = nThreads - 1 THEN "reset" ELSE "spin"
      /\ \A u \in Thread \ {t} : pc'[u] = pc[u]
  BY UsedFacts DEF Add, TypeOK, Counted, locals
<1>2. Used \subseteq Thread /\ Used' = Used /\ IsFiniteSet(Used) /\ Cardinality(Used) = nThreads
      /\ nThreads \in Nat /\ nPassed \in Nat
  BY <1>1, UsedFacts DEF Used, TypeOK
<1>3. \A u \in Used : pc[u] \notin {"reset", "release"}
  BY <1>1 DEF Counted, Waiting
<1>4. Waiting \subseteq Used \ {t}
  BY <1>1 DEF Waiting
<1>5. IsFiniteSet(Used \ {t}) /\ Cardinality(Used \ {t}) = nThreads - 1
  BY <1>2, FS_RemoveElement
<1>6. /\ IsFiniteSet(Waiting) /\ Cardinality(Waiting) <= nThreads - 1
      /\ Cardinality(Waiting) = nThreads - 1 => Waiting = Used \ {t}
  BY <1>4, <1>5, FS_Subset
<1>7. nBarrier = Cardinality(Waiting) /\ Cardinality(Waiting) \in Nat
  BY <1>3, <1>6, FS_CardinalityType DEF Counted
<1>8. Past'
  BY <1>1, <1>2 DEF Past
<1>9. CASE nBarrier = nThreads - 1
  <2>1. pc'[t] = "reset" /\ Waiting' = Waiting
    BY <1>1, <1>2, <1>9 DEF Waiting
  <2> QED
    BY <1>1, <1>2, <1>3, <1>6, <1>7, <1>8, <1>9, <2>1 DEF Counted
<1>10. CASE nBarrier # nThreads - 1
  <2>1. pc'[t] = "spin" /\ Waiting' = Waiting \union {t}
    BY <1>1, <1>2, <1>10 DEF Waiting
  <2>2. Cardinality(Waiting') = nBarrier'
    BY <1>1, <1>4, <1>6, <1>7, <2>1, FS_AddElement
  <2> QED
    BY <1>1, <1>2, <1>3, <1>6, <1>7, <1>8, <2>1, <2>2 DEF Counted
<1> QED
  BY <1>9, <1>10

LEMMA CountedReset ==
  ASSUME TypeOK, Counted, Past, NEW t \in Used, Reset(t)
  PROVE  Counted' /\ Past'
<1>1. /\ UNCHANGED <<nPassed, nThreads, passed>> /\ nBarrier' = 0
      /\ pc[t] = "reset" /\ pc'[t] = "release"
      /\ \A u \in Thread \ {t} : pc'[u] = pc[u]
  BY UsedFacts DEF Reset, TypeOK, locals
<1>2. Used \subseteq Thread /\ Used' = Used
  BY <1>1, UsedFacts DEF Used
<1>3. Waiting = Used \ {t} /\ Waiting' = Waiting
  BY <1>1, <1>2 DEF Counted, Waiting
<1>4. \A u \in Used \ {t} : pc'[u] = "spin"
  BY <1>1, <1>2, <1>3 DEF Waiting
<1> QED
  BY <1>1, <1>2, <1>3, <1>4 DEF Counted, Past

\* When the barrier opens, all others in use have waited in it and are let go.
LEMMA CountedRelease ==
  ASSUME TypeOK, Counted, Past, NEW t \in Used, Release(t)
  PROVE  /\ Counted' /\ Past'
         /\ pc'[t] = after[t] /\ Held(t)
         /\ \A u \in Used \ {t} : pc[u] = "spin" /\ Held(u) /\ Released(u)'
<1>1. /\ UNCHANGED <<nBarrier, nThreads, passed, after>> /\ nPassed' = nPassed + 1
      /\ pc[t] = "release" /\ pc'[t] = after[t]
      /\ \A u \in Thread \ {t} : pc'[u] = pc[u]
  BY UsedFacts DEF Release, TypeOK, locals
<1>2. Used \subseteq Thread /\ Used' = Used /\ nPassed \in Nat
      /\ after[t] \in {"user", "top", "head", "chunk"}
  BY <1>1, UsedFacts DEF Used, TypeOK
<1>3. Waiting = Used \ {t} /\ nBarrier = 0
  BY <1>1 DEF Counted
<1>4. \A u \in Used \ {t} : pc[u] = "spin" /\ passed[u] = nPassed
  BY <1>3 DEF Waiting
<1>5. \A u \in Thread : pc'[u] = "spin" => pc[u] = "spin" /\ passed[u] <= nPassed
  BY <1>1, <1>2 DEF Past
<1>6. Past' /\ Waiting' = {}
  <2>1. \A u \in Thread : passed[u] \in Nat
    BY DEF TypeOK
  <2> QED
    BY <1>1, <1>2, <1>5, <2>1 DEF Past, Waiting
<1>7. \A u \in Used : pc'[u] \notin {"add", "reset", "release"}
  BY <1>1, <1>2, <1>4
<1>8. Counted'
  BY <1>1, <1>2, <1>3, <1>6, <1>7, FS_EmptySet DEF Counted
<1>9. \A u \in Used \ {t} : Held(u) /\ Released(u)'
  BY <1>1, <1>2, <1>4 DEF Held, Released, InBarrier
<1> QED
  BY <1>1, <1>4, <1>6, <1>8, <1>9 DEF Held, Released, InBarrier

-----------------------------------------------------------------------------
\* The main thread between graphs.

LEMMA MainIdle ==
  ASSUME TypeOK, Phase, pc[0] \in OfMain
  PROVE  Idle
BY UsedFacts DEF Phase, Prepare, Multiply, Preparing, Multiplying, Took, Released, Held,
   OfMain, InBarrier

\* While the main thread is in no graph nobody is in the barrier.
LEMMA IdleCalm ==
  ASSUME TypeOK, Outside, Idle, pc[0] \in OfMain
  PROVE  \A t \in Thread : Calm(t) /\ (t # 0 => Away(t))
<1>1. \A t \in Thread \ {0} : Away(t)
  BY DEF Outside, Idle
<1> QED
  BY <1>1 DEF Calm, Away, Released, Between, OfMain

\* Workers that are woken, at most, stay away from the graphs.
LEMMA WokenAway ==
  ASSUME TypeOK, NEW t \in Thread \ {0}, Away(t),
         pc'[t] = pc[t] \/ pc'[t] = Woken[t],
         UNCHANGED <<nPassed, passed, after>>
  PROVE  /\ Away(t)'
         /\ pc'[t] \in Between \union {"spin"}
         /\ pc'[t] = "judge" => pc[t] = "judge"
         /\ pc'[t] = "spin" <=> pc[t] = "spin"
BY DEF Away, Woken, Released, Between

\* What the steps of the main thread between graphs have in common.
MainMoves ==
  /\ pc'[0] \in OfMain \union {"enter"}
  /\ \A t \in Thread \ {0} : pc'[t] = pc[t] \/ pc'[t] = Woken[t]
  /\ pc' \in [Thread -> Between \union InBarrier \union Computing \union OfMain]
  /\ UNCHANGED <<nBarrier, nPassed, locals>>

LEMMA MainKeeps ==
  ASSUME TypeOK, Outside, Past, Counted, Idle, pc[0] \in OfMain, MainMoves,
         UNCHANGED nThreads
  PROVE  /\ \A t \in Thread \ {0} : Away(t)' /\ (pc'[t] = "judge" => pc[t] = "judge")
         /\ \A t \in Thread : pc'[t] \in OfMain => t = 0
         /\ \A t \in Thread : pc'[t] \in Between => t # 0
         /\ Outside' /\ Past' /\ Counted'
<1>1. \A t \in Thread : Calm(t) /\ (t # 0 => Away(t))
  BY IdleCalm
<1>2. \A t \in Thread \ {0} : /\ Away(t)' /\ pc'[t] \in Between \union {"spin"}
                              /\ pc'[t] = "judge" => pc[t] = "judge"
                              /\ pc'[t] = "spin" <=> pc[t] = "spin"
  BY <1>1, WokenAway DEF MainMoves, locals
<1>3. Used' = Used
  BY DEF Used
<1>4. \A t \in Thread : pc'[t] = pc[t] \/ pc'[t] \notin {"spin", "reset", "release", "add"}
  BY <1>2 DEF MainMoves, Between, OfMain
<1>5. Counted' /\ Past'
  BY <1>1, <1>3, <1>4, CountedKept DEF MainMoves, locals
<1>6. Outside'
  BY <1>2, <1>3, UsedFacts DEF Outside
<1>7. /\ \A t \in Thread : pc'[t] \in OfMain => t = 0
      /\ \A t \in Thread : pc'[t] \in Between => t # 0
  BY <1>2 DEF MainMoves, Between, OfMain
<1> QED
  BY <1>2, <1>5, <1>6, <1>7

LEMMA BeginKeeps ==
  ASSUME PoolInv, NEW c \in ChunkCounts, BeginGraph(c)
  PROVE  PoolInv'
<1> USE ThreadFacts
<1>1. TypeOK /\ Numbers /\ doubled = {} /\ Outside /\ Past /\ Counted /\ pc[0] = "user"
  BY DEF PoolInv, BeginGraph
<1>2. Idle
  BY <1>1, MainIdle DEF PoolInv, OfMain
<1>3. /\ UNCHANGED <<nGraph, nBarrier, nPassed, stop, pause, nThreads, locals>>
      /\ graph < MaxGraphs /\ graph' = graph + 1 /\ nChunks' = c /\ currentChunk' = 0
      /\ abort' = -1 /\ converted' = {} /\ computed' = {} /\ doubled' = {}
      /\ pc'[0] = "kickoff" /\ \A t \in Thread \ {0} : pc'[t] = pc[t]
      /\ pc' \in [Thread -> Between \union InBarrier \union Computing \union OfMain]
  BY <1>1 DEF BeginGraph, TypeOK, OfMain
<1>4. MainMoves
  BY <1>3 DEF MainMoves, OfMain
<1>5. /\ \A t \in Thread \ {0} : Away(t)' /\ (pc'[t] = "judge" => pc[t] = "judge")
      /\ \A t \in Thread : pc'[t] \in OfMain => t = 0
      /\ \A t \in Thread : pc'[t] \in Between => t # 0
      /\ Outside' /\ Past' /\ Counted'
  BY <1>1, <1>2, <1>3, <1>4, MainKeeps DEF OfMain
<1>6. TypeOK'
  <2>1. /\ nGraph' \in 0..MaxGraphs /\ nBarrier' \in 0..N /\ nPassed' \in Nat
        /\ currentChunk' \in Nat /\ abort' \in -1..NNodes /\ nThreads' \in 1..N
        /\ graph' \in 0..MaxGraphs /\ nChunks' \in ChunkCounts \union {0}
    BY <1>1, <1>3 DEF TypeOK
  <2> QED
    BY <1>1, <1>3, <1>5, <2>1 DEF TypeOK, locals
<1>7. Numbers' /\ doubled' = {}
  <2>1. nGraph \in Nat
    BY <1>1 DEF TypeOK
  <2> QED
    BY <1>1, <1>3, <2>1 DEF Numbers
<1>8. Idle'
  BY <1>1, <1>2, <1>3, <1>5, UsedFacts DEF Idle, OfMain, locals, Used
<1> QED
  BY <1>5, <1>6, <1>7, <1>8 DEF PoolInv, Phase

LEMMA FewerUsed ==
  ASSUME TypeOK, nThreads' \in 1..N, nThreads' <= nThreads
  PROVE  Used' \subseteq Used /\ Used \subseteq Thread /\ 0 \in Used /\ 0 \in Used'
<1>1. N \in Nat /\ nThreads \in 1..N
  BY PoolAssumption DEF TypeOK
<1>2. \A m, n \in Int : m <= n => 0..(m - 1) \subseteq 0..(n - 1)
  OBVIOUS
<1>3. \A n \in 1..N : 0 \in 0..(n - 1) /\ n \in Int /\ n <= N
  BY <1>1
<1>4. Used' = 0..(nThreads' - 1) /\ Used = 0..(nThreads - 1) /\ Thread = 0..(N - 1)
  BY DEF Used, Thread
<1>5. nThreads' \in Int /\ nThreads \in Int /\ N \in Int /\ nThreads <= N
  BY <1>1, <1>3
<1>6. Used' \subseteq Used
  BY <1>2, <1>4, <1>5
<1>7. Used \subseteq Thread
  BY <1>2, <1>4, <1>5
<1> QED
  BY <1>1, <1>3, <1>4, <1>6, <1>7

\* The number of threads never grows from graph to graph, so the workers it counts
\* have taken part in every graph before.
LEMMA KickoffKeeps ==
  ASSUME Steady, PoolInv, NEW n \in Counts, Kickoff(n)
  PROVE  PoolInv'
<1> USE ThreadFacts
<1>1. TypeOK /\ Numbers /\ doubled = {} /\ Outside /\ Past /\ Counted /\ pc[0] = "kickoff"
  BY DEF PoolInv, Kickoff
<1>2. Idle /\ n \in Nat /\ n >= 1
  BY <1>1, MainIdle, PoolAssumption DEF PoolInv, OfMain
<1>3. /\ UNCHANGED <<nGraph, nBarrier, nPassed, currentChunk, stop, pause, abort>>
      /\ UNCHANGED <<work, locals, history>>
      /\ pc'[0] = "publish" /\ \A t \in Thread \ {0} : pc'[t] = pc[t]
      /\ pc' \in [Thread -> Between \union InBarrier \union Computing \union OfMain]
  BY <1>1 DEF Kickoff, TypeOK, OfMain
<1>4. nThreads' \in 1..N /\ nThreads' <= nThreads
  <2>1. nThreads' \in 1..N /\ nThreads \in 1..N
    BY <1>1, <1>2 DEF Kickoff, TypeOK
  <2>2. nThreads' <= nThreads \/ graph = 1
    BY <1>1, <2>1 DEF Kickoff, Steady, TypeOK, Numbers
  <2>3. graph = 1 => nThreads = N
    BY <1>1 DEF Numbers, TypeOK
  <2> QED
    BY <2>1, <2>2, <2>3
<1>5. Used' \subseteq Used /\ Used \subseteq Thread /\ 0 \in Used /\ 0 \in Used'
  BY <1>1, <1>4, FewerUsed
<1>6. \A t \in Thread : Calm(t) /\ (t # 0 => Away(t))
  BY <1>1, <1>2, IdleCalm DEF OfMain
<1>7. \A t \in Thread \ {0} : Away(t)' = Away(t)
  BY <1>3 DEF Away, Released, locals
<1>8. Outside'
  BY <1>3, <1>5, <1>6, <1>7 DEF Outside
<1>9. Past'
  BY <1>1, <1>3 DEF Past, locals
<1>10. Counted'
  <2>1. Waiting = {}
    BY <1>5, <1>6 DEF Waiting, Calm
  <2>2. \A t \in Used : pc[t] \notin {"add", "reset", "release"}
    BY <1>5, <1>6 DEF Calm
  <2>3. nBarrier = 0
    BY <1>1, <2>1, <2>2, FS_EmptySet DEF Counted
  <2>4. Waiting' = {}
    BY <1>3, <1>5, <1>6 DEF Waiting, Calm, locals
  <2>5. \A t \in Used' : pc'[t] \notin {"add", "reset", "release"}
    BY <1>3, <1>5, <2>2
  <2> QED
    BY <1>3, <2>3, <2>4, <2>5, FS_EmptySet DEF Counted
<1>11. TypeOK'
  <2>1. /\ \A t \in Thread : pc'[t] \in OfMain => t = 0
        /\ \A t \in Thread : pc'[t] \in Between => t # 0
    BY <1>1, <1>3 DEF TypeOK, Between, OfMain
  <2> QED
    BY <1>1, <1>3, <1>4, <2>1 DEF TypeOK, work, locals, history
<1>12. Numbers' /\ doubled' = {}
  BY <1>1, <1>3, <1>4 DEF Numbers, work, history
<1>13. Idle'
  BY <1>1, <1>2, <1>3, <1>5, <1>7 DEF Idle, OfMain, locals, work, history
<1> QED
  BY <1>8, <1>9, <1>10, <1>11, <1>12, <1>13 DEF PoolInv, Phase

LEMMA PublishKeeps ==
  ASSUME PoolInv, Publish
  PROVE  PoolInv'
<1> USE ThreadFacts
<1>1. TypeOK /\ Numbers /\ doubled = {} /\ Outside /\ Past /\ Counted /\ pc[0] = "publish"
  BY DEF PoolInv, Publish
<1>2. Idle
  BY <1>1, MainIdle DEF PoolInv, OfMain
<1>3. /\ UNCHANGED <<nBarrier, nPassed, currentChunk, stop, abort, nThreads>>
      /\ UNCHANGED <<work, locals, history>>
      /\ nGraph' = nGraph + 1 /\ pause' = FALSE
      /\ pc'[0] = "enter" /\ \A t \in Thread \ {0} : pc'[t] = Woken[t]
  BY <1>1 DEF Publish, TypeOK, Woken
<1>4. pc' \in [Thread -> Between \union InBarrier \union Computing \union OfMain]
  BY <1>1 DEF Publish, TypeOK, Woken, Between, Computing
<1>5. MainMoves
  BY <1>3, <1>4 DEF MainMoves
<1>6. /\ \A t \in Thread \ {0} : Away(t)' /\ (pc'[t] = "judge" => pc[t] = "judge")
      /\ \A t \in Thread : pc'[t] \in OfMain => t = 0
      /\ \A t \in Thread : pc'[t] \in Between => t # 0
      /\ Outside' /\ Past' /\ Counted'
  BY <1>1, <1>2, <1>3, <1>5, MainKeeps DEF OfMain
<1>7. graph = nGraph + 1 /\ nGraph \in Nat
  BY <1>1 DEF Numbers, TypeOK
<1>8. TypeOK'
  <2>1. nGraph' \in 0..MaxGraphs
    BY <1>1, <1>3, <1>7 DEF TypeOK
  <2> QED
    BY <1>1, <1>3, <1>4, <1>6, <2>1 DEF TypeOK, work, locals, history
<1>9. Numbers' /\ doubled' = {}
  BY <1>1, <1>3, <1>7 DEF Numbers, work, history
<1>10. Prepare(0)'
  <2>1. abort' = -1 /\ computed' = {}
    BY <1>1, <1>2, <1>3 DEF Idle, history
  <2>2. Done(0)' = {}
    BY DEF Done
  <2>3. Used' = Used /\ Used \subseteq Thread
    BY <1>1, <1>3, UsedFacts DEF Used
  <2>4. \A t \in Used \ {0} : lastGraph'[t] # nGraph' /\ pc'[t] # "judge"
    BY <1>2, <1>3, <1>6, <1>7, <2>3 DEF Idle, locals
  <2>5. \A t \in Used : Preparing(t, 0)'
    BY <1>3, <1>6, <2>3, <2>4 DEF Preparing, Took
  <2> QED
    BY <2>1, <2>2, <2>3, <2>5 DEF Prepare
<1> QED
  BY <1>6, <1>8, <1>9, <1>10 DEF PoolInv, Phase

\* Pausing, resuming and freeing the pool, and its end.
LEMMA ControlKeeps ==
  ASSUME PoolInv, (\E on \in BOOLEAN : SetPause(on)) \/ FreePool \/ Joined
  PROVE  PoolInv'
<1> USE ThreadFacts
<1>1. /\ TypeOK /\ Numbers /\ doubled = {} /\ Outside /\ Past /\ Counted
      /\ pc[0] \in {"user", "joining"}
  BY DEF PoolInv, SetPause, FreePool, Joined
<1>2. Idle
  BY <1>1, MainIdle DEF PoolInv, OfMain
<1>3. /\ UNCHANGED <<nGraph, nBarrier, nPassed, currentChunk, abort, nThreads>>
      /\ UNCHANGED <<work, locals, history>>
      /\ stop' \in BOOLEAN /\ pause' \in BOOLEAN
      /\ pc'[0] \in {"user", "joining", "freed"}
      /\ \A t \in Thread \ {0} : pc'[t] = pc[t] \/ pc'[t] = Woken[t]
  BY <1>1 DEF SetPause, FreePool, Joined, TypeOK, Woken, atomics
<1>4. pc' \in [Thread -> Between \union InBarrier \union Computing \union OfMain]
  BY <1>1 DEF SetPause, FreePool, Joined, TypeOK, Woken, Between, OfMain
<1>5. MainMoves
  BY <1>3, <1>4 DEF MainMoves, OfMain
<1>6. /\ \A t \in Thread \ {0} : Away(t)' /\ (pc'[t] = "judge" => pc[t] = "judge")
      /\ \A t \in Thread : pc'[t] \in OfMain => t = 0
      /\ \A t \in Thread : pc'[t] \in Between => t # 0
      /\ Outside' /\ Past' /\ Counted'
  BY <1>1, <1>2, <1>3, <1>5, MainKeeps DEF OfMain
<1>7. TypeOK'
  BY <1>1, <1>3, <1>4, <1>6 DEF TypeOK, work, locals, history
<1>8. Numbers' /\ doubled' = {}
  BY <1>1, <1>3 DEF Numbers, work, history
<1>9. Idle'
  <2>1. Used' = Used /\ Used \subseteq Thread /\ AllChunks' = AllChunks
    BY <1>1, <1>3, UsedFacts DEF Used, AllChunks, work
  <2>2. \A k : Done(k)' = Done(k)
    BY <2>1 DEF Done
  <2>3. pc'[0] \in OfMain
    BY <1>3 DEF OfMain
  <2>4. \A t \in Used' \ {0} : (Away(t) /\ lastGraph[t] = nGraph /\ pc[t] # "judge")'
    BY <1>2, <1>3, <1>6, <2>1 DEF Idle, locals
  <2>5. (pc'[0] \notin {"kickoff", "publish"} /\ graph' > 0) =>
          (nth[0] = nThreads /\ computed = Done(IF abort = -1 THEN NNodes ELSE abort))'
    BY <1>1, <1>2, <1>3, <2>2 DEF Idle, work, locals, history
  <2> QED
    BY <1>3, <2>3, <2>4, <2>5 DEF Idle
<1> QED
  BY <1>6, <1>7, <1>8, <1>9 DEF PoolInv, Phase

-----------------------------------------------------------------------------
\* The workers between graphs.

\* A thread that does nothing keeps its part in a graph.
LEMMA PreparingSame ==
  ASSUME NEW u, NEW k, Preparing(u, k), Same(u), UNCHANGED <<nPassed, nGraph, nThreads, abort>>,
         converted \subseteq converted', u = 0 => currentChunk' = currentChunk
  PROVE  Preparing(u, k)'
<1>1. /\ Away(u)' = Away(u) /\ Released(u)' = Released(u) /\ Held(u)' = Held(u)
      /\ Took(u)' = Took(u)
  BY DEF Away, Released, Held, Took, Same
<1> QED
  BY <1>1 DEF Preparing, Same

LEMMA MultiplyingSame ==
  ASSUME NEW u, NEW k, Multiplying(u, k), Same(u), UNCHANGED <<nPassed, nGraph, nThreads>>
  PROVE  Multiplying(u, k)'
<1>1. Released(u)' = Released(u) /\ Held(u)' = Held(u) /\ Took(u)' = Took(u)
  BY DEF Released, Held, Took, Same
<1> QED
  BY <1>1 DEF Multiplying, Same

\* What a worker may do between graphs: look around, find a graph it has not seen
\* while polling, judge whether it is in use, or find and judge under the mutex.
LEMMA WorkerMoves ==
  ASSUME TypeOK, NEW t \in Worker, WorkerStep(t) \/ Spurious(t)
  PROVE  /\ pc[t] \in Between
         /\ UNCHANGED <<nGraph, nBarrier, nPassed, currentChunk, abort, nThreads, work, history>>
         /\ UNCHANGED <<stop, pause, node, nth, chunk, passed, after>>
         /\ pc' \in [Thread -> Between \union InBarrier \union Computing \union OfMain]
         /\ lastGraph' \in [Thread -> 0..MaxGraphs] /\ seen' \in [Thread -> 0..MaxGraphs]
         /\ \A u \in Thread \ {t} : Same(u)
         /\ \/ pc'[t] \in Between \ {"judge"} /\ lastGraph'[t] = lastGraph[t]
            \/ pc'[t] = "judge" /\ lastGraph'[t] = lastGraph[t] /\ lastGraph[t] # nGraph
               /\ seen'[t] = nGraph
            \/ pc[t] = "judge" /\ lastGraph'[t] = seen[t]
               /\ pc'[t] = IF t < nThreads THEN "enter" ELSE "poll"
            \/ lastGraph[t] # nGraph /\ lastGraph'[t] = nGraph
               /\ pc'[t] = IF t < nThreads THEN "enter" ELSE "asleep"
<1> USE ThreadFacts DEF TypeOK, Same, Goto, Jump, atomics, work, locals, history, Between, Computing
<1>1. CASE Spurious(t) \/ Top(t) \/ Rest(t) \/ Stopping(t) \/ Active(t) \/ PollEnds(t)
  <2>1. PICK s \in Between \ {"judge"} : Jump(t, s)
    BY <1>1 DEF Spurious, Top, Rest, Stopping, Active, PollEnds, Woken
  <2>2. pc[t] \in Between
    BY <1>1 DEF Spurious, Top, Rest, Stopping, Active, PollEnds
  <2> QED
    BY <2>1, <2>2
<1>2. CASE PollFinds(t)
  BY <1>2 DEF PollFinds
<1>3. CASE Judge(t)
  BY <1>3 DEF Judge
<1>4. CASE Lock(t)
  <2>1. CASE nGraph # lastGraph[t] /\ ~stop /\ ~pause
    BY <1>4, <2>1 DEF Lock
  <2>2. CASE ~(nGraph # lastGraph[t] /\ ~stop /\ ~pause)
    <3>1. /\ pc' = [pc EXCEPT ![t] = IF stop \/ pause THEN "top" ELSE "asleep"]
          /\ lastGraph' = lastGraph
      BY <1>4, <2>2 DEF Lock
    <3> QED
      BY <1>4, <3>1 DEF Lock
  <2> QED
    BY <2>1, <2>2
<1> QED
  BY <1>1, <1>2, <1>3, <1>4 DEF WorkerStep

\* Only a worker in use takes up a graph, once, and while all are before its first node.
LEMMA WorkerKeeps ==
  ASSUME PoolInv, NEW t \in Worker, WorkerStep(t) \/ Spurious(t)
  PROVE  PoolInv'
<1>1. TypeOK /\ Numbers /\ doubled = {} /\ Outside /\ Past /\ Counted /\ Phase
  BY DEF PoolInv
<1>2. t \in Thread /\ t # 0 /\ 0 \in Thread
  BY ThreadFacts
<1>3. /\ pc[t] \in Between
      /\ UNCHANGED <<nGraph, nBarrier, nPassed, currentChunk, abort, nThreads, work, history>>
      /\ UNCHANGED <<stop, pause, node, nth, chunk, passed, after>>
      /\ pc' \in [Thread -> Between \union InBarrier \union Computing \union OfMain]
      /\ lastGraph' \in [Thread -> 0..MaxGraphs] /\ seen' \in [Thread -> 0..MaxGraphs]
      /\ \A u \in Thread \ {t} : Same(u)
  BY <1>1, WorkerMoves
<1>4. \/ pc'[t] \in Between \ {"judge"} /\ lastGraph'[t] = lastGraph[t]
      \/ pc'[t] = "judge" /\ lastGraph'[t] = lastGraph[t] /\ lastGraph[t] # nGraph
         /\ seen'[t] = nGraph
      \/ pc[t] = "judge" /\ lastGraph'[t] = seen[t]
         /\ pc'[t] = IF t < nThreads THEN "enter" ELSE "poll"
      \/ lastGraph[t] # nGraph /\ lastGraph'[t] = nGraph
         /\ pc'[t] = IF t < nThreads THEN "enter" ELSE "asleep"
  BY <1>1, WorkerMoves
<1>5. /\ Used' = Used /\ Used \subseteq Thread /\ AllChunks' = AllChunks
      /\ (t \in Used <=> t < nThreads)
  BY <1>1, <1>2, <1>3, UsedFacts DEF Used, AllChunks, work
<1>6. pc'[t] \in Between \union {"enter"} /\ (t \notin Used => pc'[t] \in Between)
  BY <1>3, <1>4, <1>5 DEF Between
<1>7. TypeOK'
  <2>1. /\ \A u \in Thread : pc'[u] \in OfMain => u = 0
        /\ \A u \in Thread : pc'[u] \in Between => u # 0
    BY <1>1, <1>2, <1>3, <1>6 DEF TypeOK, Same, Between, OfMain
  <2> QED
    BY <1>1, <1>3, <2>1 DEF TypeOK, work, history
<1>8. Numbers' /\ doubled' = {}
  BY <1>1, <1>2, <1>3 DEF Numbers, Same, work, history
<1>9. Outside'
  <2>1. \A u \in Thread \ {t} : Away(u)' = Away(u)
    BY <1>3 DEF Away, Released, Same
  <2> QED
    BY <1>1, <1>5, <1>6, <2>1 DEF Outside, Away
<1>10. Counted' /\ Past'
  <2>1. Calm(t) /\ pc'[t] \notin {"spin", "reset", "release", "add"}
    BY <1>3, <1>6 DEF Calm, Between
  <2>2. \A u \in Thread \ {t} : pc'[u] = pc[u] /\ passed'[u] = passed[u]
    BY <1>3 DEF Same
  <2> QED
    BY <1>1, <1>3, <1>5, <2>1, <2>2, CountedKept
<1>11. CASE Idle
  <2>1. t \in Used => lastGraph[t] = nGraph /\ pc[t] # "judge"
    BY <1>2, <1>11 DEF Idle
  <2>2. t \in Used => Away(t)' /\ lastGraph'[t] = nGraph /\ pc'[t] # "judge"
    BY <1>4, <1>6, <2>1 DEF Away, Between
  <2>3. \A u \in Used \ {0, t} : (Away(u) /\ lastGraph[u] = nGraph /\ pc[u] # "judge")'
    BY <1>3, <1>5, <1>11 DEF Idle, Away, Released, Same
  <2>4. pc'[0] = pc[0] /\ Released(0)' = Released(0) /\ nth'[0] = nth[0] /\ after'[0] = after[0]
    BY <1>2, <1>3 DEF Released, Same
  <2>5. \A k : Done(k)' = Done(k)
    BY <1>5 DEF Done
  <2>6. Idle'
    BY <1>3, <1>5, <1>11, <2>2, <2>3, <2>4, <2>5 DEF Idle, work, history
  <2> QED
    BY <1>7, <1>8, <1>9, <1>10, <2>6 DEF PoolInv, Phase
<1>12. CASE \E k \in Node : Prepare(k)
  <2>1. PICK k \in Node : Prepare(k)
    BY <1>12
  <2>2. t \in Used => /\ k = 0 /\ Away(t) /\ lastGraph[t] # nGraph
                      /\ pc[t] = "judge" => seen[t] = nGraph
    <3>1. pc[t] \notin {"enter", "head", "convert", "spin"} \union InBarrier
      BY <1>3 DEF Between, InBarrier
    <3> QED
      BY <2>1, <3>1 DEF Prepare, Preparing, Released, Held
  <2>3. t \in Used => Preparing(t, k)'
    BY <1>2, <1>3, <1>4, <1>5, <2>2 DEF Preparing, Away, Took, Between
  <2>4. \A u \in Used \ {t} : Preparing(u, k)'
    BY <1>3, <1>5, <2>1, PreparingSame DEF Prepare, history
  <2>5. Done(k)' = Done(k)
    BY <1>5 DEF Done
  <2>6. Prepare(k)'
    BY <1>3, <1>5, <2>1, <2>3, <2>4, <2>5 DEF Prepare, history
  <2> QED
    BY <1>7, <1>8, <1>9, <1>10, <2>1, <2>6 DEF PoolInv, Phase
<1>13. CASE \E k \in Node : Multiply(k)
  <2>1. PICK k \in Node : Multiply(k)
    BY <1>13
  <2>2. t \notin Used
    BY <1>3, <2>1 DEF Multiply, Multiplying, Released, Held, Between, InBarrier
  <2>3. \A u \in Used : Same(u)
    BY <1>3, <1>5, <2>2
  <2>4. \A u \in Used : Multiplying(u, k)'
    BY <1>3, <2>1, <2>3, MultiplyingSame DEF Multiply
  <2>5. Chunks(k)'
    <3>1. \A u \in Used : Holds(u)' = Holds(u) /\ chunk'[u] = chunk[u] /\ pc'[u] = pc[u]
      BY <1>3, <2>3 DEF Holds, Released, Same
    <3>2. \A j : Done(j)' = Done(j)
      BY <1>5 DEF Done
    <3> QED
      BY <1>3, <1>5, <2>1, <3>1, <3>2 DEF Multiply, Chunks, history
  <2>6. Multiply(k)'
    BY <1>3, <1>5, <2>1, <2>4, <2>5 DEF Multiply, history
  <2> QED
    BY <1>7, <1>8, <1>9, <1>10, <2>1, <2>6 DEF PoolInv, Phase
<1> QED
  BY <1>1, <1>11, <1>12, <1>13 DEF Phase

-----------------------------------------------------------------------------
\* From barrier to barrier.

LEMMA DoneNext ==
  ASSUME TypeOK, NEW k \in Nat
  PROVE  /\ Done(k) \subseteq Done(k + 1)
         /\ \A c \in 0..(AllChunks - 1) : <<k, c>> \in Done(k + 1) /\ <<k, c>> \notin Done(k)
         /\ \A c : <<k, c>> \notin Done(k)
         /\ \A p \in Done(k + 1) : p \in Done(k) \/ \E c \in 0..(AllChunks - 1) : p = <<k, c>>
<1>1. 0..(k - 1) \subseteq 0..(k + 1 - 1) /\ k \in 0..(k + 1 - 1) /\ k \notin 0..(k - 1)
  OBVIOUS
<1>2. \A j \in 0..(k + 1 - 1) : j \in 0..(k - 1) \/ j = k
  OBVIOUS
<1> QED
  BY <1>1, <1>2 DEF Done

\* One thread goes on before the product, the others stay.
LEMMA PrepareStays ==
  ASSUME TypeOK, NEW k \in Node, Prepare(k), NEW t \in Used, Settled,
         \A u \in Thread \ {t} : Same(u),
         UNCHANGED <<nPassed, abort, computed>>, converted \subseteq converted',
         t # 0 => currentChunk' = currentChunk,
         Preparing(t, k)'
  PROVE  Phase'
<1>1. Used' = Used /\ Used \subseteq Thread /\ AllChunks' = AllChunks
  BY UsedFacts DEF Settled, Used, AllChunks
<1>2. \A u \in Used \ {t} : Preparing(u, k)'
  BY <1>1, PreparingSame DEF Prepare, Settled
<1>3. Done(k)' = Done(k)
  BY <1>1 DEF Done
<1>4. Prepare(k)'
  BY <1>1, <1>2, <1>3 DEF Prepare
<1> QED
  BY <1>4 DEF Phase

\* One thread goes on with the product, the others stay.
LEMMA MultiplyStays ==
  ASSUME TypeOK, NEW k \in Node, Multiply(k), NEW t \in Used, Settled,
         \A u \in Thread \ {t} : Same(u),
         UNCHANGED <<nPassed, converted>>, abort' \in {-1, k + 1},
         Multiplying(t, k)', Chunks(k)'
  PROVE  Phase'
<1>1. Used' = Used /\ Used \subseteq Thread
  BY UsedFacts DEF Settled, Used
<1>2. \A u \in Used \ {t} : Multiplying(u, k)'
  BY <1>1, MultiplyingSame DEF Multiply, Settled
<1>3. Multiply(k)'
  BY <1>1, <1>2 DEF Multiply
<1> QED
  BY <1>3 DEF Phase

\* A thread that holds no chunk and has seen that none is left may move on.
LEMMA ChunksSame ==
  ASSUME TypeOK, NEW k \in Node, Multiply(k), NEW t \in Used, Settled,
         \A u \in Thread \ {t} : Same(u),
         UNCHANGED <<nPassed, currentChunk, computed>>,
         Holds(t)' <=> Holds(t), Holds(t) => chunk'[t] = chunk[t],
         ~Holds(t) /\ pc'[t] # "next" => pc[t] # "next"
  PROVE  Chunks(k)'
<1>1. Used' = Used /\ Used \subseteq Thread /\ AllChunks' = AllChunks
  BY UsedFacts DEF Settled, Used, AllChunks
<1>2. \A j : Done(j)' = Done(j)
  BY <1>1 DEF Done
<1>3. \A u \in Used : /\ Holds(u)' <=> Holds(u)
                      /\ Holds(u) => chunk'[u] = chunk[u]
                      /\ ~Holds(u) /\ pc'[u] # "next" => pc[u] # "next"
  BY <1>1 DEF Holds, Released, Same
<1> QED
  BY <1>1, <1>2, <1>3 DEF Multiply, Chunks, Settled

\* The barrier before the product opens: the product begins, each thread with the
\* chunk of its own number; or the graph was aborted, and ends.
LEMMA PrepareEnds ==
  ASSUME TypeOK, NEW k \in Node, Prepare(k), NEW t \in Used, Settled,
         UNCHANGED <<abort, computed>>, converted \subseteq converted',
         \A u \in Used \ {t} : Same(u) /\ pc[u] = "spin" /\ Held(u) /\ Released(u)',
         node'[t] = k, nth'[t] = nThreads, Took(t)',
         pc'[t] = IF abort = k THEN Home(t) ELSE "chunk",
         abort # k => <<k, t>> \in converted' /\ chunk'[t] = t
                      /\ currentChunk' = IF t = 0 THEN nThreads ELSE currentChunk
  PROVE  Phase'
<1>1. /\ Used' = Used /\ Used \subseteq Thread /\ 0 \in Used /\ AllChunks' = AllChunks
      /\ nThreads \in Nat /\ nThreads' = nThreads /\ k \in Nat /\ Thread \subseteq Nat
  BY UsedFacts, ThreadFacts DEF Settled, Used, AllChunks
<1>2. \A j : Done(j)' = Done(j)
  BY <1>1 DEF Done
<1>3. \A u \in Used \ {t} :
        /\ node[u] = k /\ nth[u] = nThreads /\ Took(u)
        /\ \/ abort = k /\ after[u] = Home(u)
           \/ /\ abort # k /\ after[u] = "chunk" /\ <<k, u>> \in converted /\ chunk[u] = u
              /\ u = 0 => currentChunk = nThreads
  BY DEF Prepare, Preparing, Held, Away, Between
<1>4. \A u \in Used \ {t} : Took(u)'
  BY <1>3 DEF Took, Settled, Same
<1>5. CASE abort = k
  <2>1. /\ t # 0 => pc'[t] = "top" /\ lastGraph'[t] = nGraph'
        /\ t = 0 => pc'[t] = "user"
    BY <1>5 DEF Home, Took
  <2>2. \A u \in Used \ {0, t} : Away(u)' /\ lastGraph'[u] = nGraph' /\ pc'[u] = "spin"
    BY <1>3, <1>4, <1>5 DEF Home, Took, Away, Same
  <2>3. t # 0 => Released(0)' /\ after'[0] = "user" /\ pc'[0] = "spin"
    BY <1>1, <1>3, <1>5 DEF Home, Same
  <2>4. nth'[0] = nThreads'
    BY <1>1, <1>3 DEF Same
  <2>5. computed' = (Done(IF abort = -1 THEN NNodes ELSE abort))'
    <3>1. abort' = k /\ k # -1 /\ computed' = (0..(k - 1)) \X (0..(AllChunks' - 1))
      BY <1>1, <1>5 DEF Prepare, Done
    <3> QED
      BY <3>1 DEF Done
  <2>6. Idle'
    BY <1>1, <1>5, <2>1, <2>2, <2>3, <2>4, <2>5 DEF Idle, OfMain, Away, Between
  <2> QED
    BY <2>6 DEF Phase
<1>6. CASE abort # k
  <2>1. \A u \in Used : /\ Holds(u)' /\ chunk'[u] = u /\ <<k, u>> \in converted'
                        /\ Multiplying(u, k)'
    <3>1. Holds(t)' /\ Multiplying(t, k)'
      BY <1>1, <1>6 DEF Holds, Multiplying
    <3>2. \A u \in Used \ {t} : Holds(u)' /\ chunk'[u] = u /\ <<k, u>> \in converted'
                                /\ Multiplying(u, k)'
      BY <1>1, <1>3, <1>4, <1>6 DEF Holds, Multiplying, Same
    <3> QED
      BY <1>6, <3>1, <3>2
  <2>2. currentChunk' = nThreads
    BY <1>1, <1>3, <1>6
  <2>3. /\ computed' = Done(k) /\ \A c : <<k, c>> \notin computed'
        /\ Done(k) \subseteq Done(k + 1)
    BY <1>1, DoneNext DEF Prepare
  <2>4. \A u \in Used : u \in Nat /\ u < nThreads
    BY <1>1 DEF Used
  <2>5. \A c \in 0..(AllChunks - 1) : c < nThreads => c \in Used
    BY <1>1 DEF Used
  <2>6. Chunks(k)'
    <3>1. nThreads' <= currentChunk'
      BY <1>1, <2>2
    <3>2. \A u \in Used' :
            Holds(u)' => chunk'[u] < currentChunk' /\ <<k, chunk'[u]>> \notin computed'
      <4>1. \A u \in Used' : chunk'[u] = u /\ u < currentChunk'
        BY <1>1, <2>1, <2>2, <2>4
      <4>2. \A u \in Used' : <<k, chunk'[u]>> \notin computed'
        BY <2>3
      <4> QED
        BY <4>1, <4>2
    <3>3. \A u, v \in Used' : Holds(u)' /\ Holds(v)' /\ chunk'[u] = chunk'[v] => u = v
      <4>1. \A u \in Used' : chunk'[u] = u
        BY <1>1, <2>1
      <4> QED
        BY <4>1
    <3>4. \A u \in Used' : ~(Holds(u)') /\ pc'[u] # "next" => AllChunks' <= currentChunk'
      BY <1>1, <2>1
    <3>5. Done(k)' \subseteq computed' /\ computed' \subseteq Done(k + 1)'
      BY <1>2, <2>3
    <3>6. \A c \in 0..(AllChunks' - 1) :
            /\ <<k, c>> \in computed' => c < currentChunk'
            /\ c < currentChunk' =>
                 <<k, c>> \in computed' \/ \E u \in Used' : Holds(u)' /\ chunk'[u] = c
      BY <1>1, <2>1, <2>2, <2>3, <2>5
    <3> QED
      BY <3>1, <3>2, <3>3, <3>4, <3>5, <3>6 DEF Chunks
  <2>7. Multiply(k)'
    BY <1>1, <1>6, <2>1, <2>6 DEF Prepare, Multiply
  <2> QED
    BY <2>7 DEF Phase
<1> QED
  BY <1>5, <1>6

\* When nobody holds a chunk and somebody has seen that none is left, the product
\* is complete.
LEMMA AllComputed ==
  ASSUME TypeOK, NEW k \in Node, Chunks(k),
         \A u \in Used : ~Holds(u), NEW t \in Used, pc[t] # "next"
  PROVE  computed = Done(k + 1)
<1>1. k \in Nat
  BY ThreadFacts
<1>2. \A c \in 0..(AllChunks - 1) : <<k, c>> \in computed
  <2>1. AllChunks <= currentChunk /\ AllChunks \in Nat /\ currentChunk \in Nat
    BY ChunksNat DEF Chunks, TypeOK
  <2>2. \A c \in 0..(AllChunks - 1) : c < currentChunk
    BY <2>1
  <2> QED
    BY <2>2 DEF Chunks
<1>3. \A p \in Done(k + 1) : p \in computed
  BY <1>1, <1>2, DoneNext DEF Chunks
<1> QED
  BY <1>3 DEF Chunks

\* The barrier after the product opens: the next node is prepared, or the graph
\* ends.
LEMMA MultiplyEnds ==
  ASSUME TypeOK, NEW k \in Node, NEW t \in Used, Settled,
         UNCHANGED computed, abort' \in {-1, k + 1}, computed = Done(k + 1),
         \A u \in Used \ {t} : /\ Multiplying(u, k) /\ Same(u)
                               /\ pc[u] = "spin" /\ Held(u) /\ Released(u)',
         node'[t] = k + 1, nth'[t] = nThreads, Took(t)',
         pc'[t] = IF k + 1 = NNodes THEN Home(t) ELSE "head"
  PROVE  Phase'
<1>1. /\ Used' = Used /\ Used \subseteq Thread /\ 0 \in Used /\ AllChunks' = AllChunks
      /\ nThreads \in Nat /\ nThreads' = nThreads /\ k \in Nat /\ Thread \subseteq Nat
      /\ NNodes \in Nat
  BY UsedFacts, ThreadFacts DEF Settled, Used, AllChunks
<1>2. \A j : Done(j)' = Done(j)
  BY <1>1 DEF Done
<1>3. \A u \in Used \ {t} :
        /\ node[u] = k + 1 /\ nth[u] = nThreads /\ Took(u)
        /\ after[u] = IF k + 1 = NNodes THEN Home(u) ELSE "head"
  BY DEF Multiplying, Held
<1>4. \A u \in Used \ {t} : Took(u)'
  BY <1>3 DEF Took, Settled, Same
<1>5. CASE k + 1 = NNodes
  <2>1. /\ t # 0 => pc'[t] = "top" /\ lastGraph'[t] = nGraph'
        /\ t = 0 => pc'[t] = "user"
    BY <1>5 DEF Home, Took
  <2>2. \A u \in Used \ {0, t} : Away(u)' /\ lastGraph'[u] = nGraph' /\ pc'[u] = "spin"
    BY <1>3, <1>4, <1>5 DEF Home, Took, Away, Same
  <2>3. t # 0 => Released(0)' /\ after'[0] = "user" /\ pc'[0] = "spin"
    BY <1>1, <1>3, <1>5 DEF Home, Same
  <2>4. nth'[0] = nThreads'
    BY <1>1, <1>3 DEF Same
  <2>5. computed' = (Done(IF abort = -1 THEN NNodes ELSE abort))'
    <3>1. abort' \in {-1, NNodes} /\ computed' = (0..(NNodes - 1)) \X (0..(AllChunks' - 1))
      BY <1>1, <1>5 DEF Done
    <3> QED
      BY <3>1 DEF Done
  <2>6. Idle'
    BY <1>1, <2>1, <2>2, <2>3, <2>4, <2>5 DEF Idle, OfMain, Away, Between
  <2> QED
    BY <2>6 DEF Phase
<1>6. CASE k + 1 # NNodes
  <2>1. k + 1 \in Node
    BY <1>1, <1>6 DEF Node
  <2>2. \A u \in Used : Preparing(u, k + 1)'
    <3>1. Preparing(t, k + 1)'
      BY <1>1, <1>6 DEF Preparing
    <3>2. \A u \in Used \ {t} : Preparing(u, k + 1)'
      BY <1>1, <1>3, <1>4, <1>6 DEF Preparing, Same
    <3> QED
      BY <3>1, <3>2
  <2>3. Prepare(k + 1)'
    BY <1>1, <1>2, <2>2 DEF Prepare
  <2> QED
    BY <2>1, <2>3 DEF Phase
<1> QED
  BY <1>5, <1>6

-----------------------------------------------------------------------------
\* The steps of a graph, phase by phase.

\* Threads that are not in use do not matter to the phase.
LEMMA UsedSame ==
  ASSUME TypeOK, Phase, Settled, UNCHANGED <<nPassed, currentChunk, abort, history>>,
         \A u \in Used : Same(u)
  PROVE  Phase'
<1>1. Used' = Used /\ 0 \in Used /\ AllChunks' = AllChunks
  BY UsedFacts DEF Settled, Used, AllChunks
<1>2. \A j : Done(j)' = Done(j)
  BY <1>1 DEF Done
<1>3. \A u \in Used : Away(u)' = Away(u) /\ Released(u)' = Released(u) /\ Holds(u)' = Holds(u)
  BY DEF Away, Released, Holds, Same
<1>4. CASE Idle
  <2>1. Idle'
    BY <1>1, <1>2, <1>3, <1>4 DEF Idle, Settled, Same, history
  <2> QED
    BY <2>1 DEF Phase
<1>5. ASSUME NEW k \in Node, Prepare(k) PROVE Phase'
  <2>1. \A u \in Used : Preparing(u, k)'
    BY <1>5, PreparingSame DEF Prepare, Settled, history
  <2>2. Prepare(k)'
    BY <1>1, <1>2, <1>5, <2>1 DEF Prepare, history
  <2> QED
    BY <2>2 DEF Phase
<1>6. ASSUME NEW k \in Node, Multiply(k) PROVE Phase'
  <2>1. \A u \in Used : Multiplying(u, k)'
    BY <1>6, MultiplyingSame DEF Multiply, Settled
  <2>2. Chunks(k)'
    BY <1>1, <1>2, <1>3, <1>6 DEF Multiply, Chunks, Settled, Same, history
  <2>3. Multiply(k)'
    BY <1>1, <1>6, <2>1, <2>2 DEF Multiply, history
  <2> QED
    BY <2>3 DEF Phase
<1> QED
  BY <1>4, <1>5, <1>6 DEF Phase

\* Where a thread in a graph can be.
LEMMA GraphWhere ==
  ASSUME NEW t, GraphStep(t)
  PROVE  pc[t] \in Computing \union InBarrier
BY DEF GraphStep, Enter, Head, Convert, ComputeChunk, NextChunk, Tail, Arrive, Add, Reset,
   Release, Spin, Computing, InBarrier

\* Who is away from the graphs at most notices that it was let go.
LEMMA AwaySpins ==
  ASSUME NEW t, Away(t), GraphStep(t)
  PROVE  Spin(t) /\ pc[t] = "spin" /\ after[t] = "top"
<1>1. pc[t] = "spin" /\ after[t] = "top"
  BY GraphWhere DEF Away, Released, Between, Computing, InBarrier
<1> QED
  BY <1>1 DEF GraphStep, Enter, Head, Convert, ComputeChunk, NextChunk, Tail, Arrive, Add,
     Reset, Release

LEMMA SpinMoves ==
  ASSUME TypeOK, NEW t \in Thread, Spin(t)
  PROVE  /\ Released(t) /\ pc'[t] = after[t]
         /\ UNCHANGED <<atomics, work, history, locals>>
BY DEF Spin, Jump, Goto, Released, TypeOK

LEMMA IdleStep ==
  ASSUME TypeOK, Idle, NEW t \in Used, GraphStep(t)
  PROVE  Phase'
<1>1. t \in Thread /\ 0 \in Used /\ Used' = Used /\ AllChunks' = AllChunks
      /\ Settled /\ \A u \in Thread \ {t} : Same(u)
  <2>1. t \in Thread /\ 0 \in Used
    BY UsedFacts
  <2> QED
    BY <2>1, OthersStay DEF Settled, Used, AllChunks
<1>2. Spin(t) /\ after[t] = Home(t)
  <2>1. CASE t = 0
    <3>1. pc[0] = "spin" /\ after[0] = "user"
      BY <2>1, GraphWhere DEF Idle, Computing, InBarrier, OfMain, Released
    <3> QED
      BY <2>1, <3>1 DEF GraphStep, Enter, Head, Convert, ComputeChunk, NextChunk, Tail,
         Arrive, Add, Reset, Release, Home
  <2>2. CASE t # 0
    BY <2>2, AwaySpins DEF Idle, Home
  <2> QED
    BY <2>1, <2>2
<1>3. Released(t) /\ pc'[t] = Home(t) /\ UNCHANGED <<atomics, work, history, locals>>
  BY <1>1, <1>2, SpinMoves
<1>4. \A j : Done(j)' = Done(j)
  BY <1>1 DEF Done
<1>5. \A u \in Used \ {0} : (Away(u) /\ lastGraph[u] = nGraph /\ pc[u] # "judge")'
  <2>1. \A u \in Used \ {0, t} : (Away(u) /\ lastGraph[u] = nGraph /\ pc[u] # "judge")'
    BY <1>1, <1>3, UsedFacts DEF Idle, Away, Released, Same, atomics
  <2>2. t # 0 => (Away(t) /\ lastGraph[t] = nGraph /\ pc[t] # "judge")'
    BY <1>3 DEF Idle, Away, Between, Home, atomics, locals
  <2> QED
    BY <2>1, <2>2
<1>6. /\ pc'[0] \in OfMain \/ (Released(0)' /\ after'[0] = "user")
      /\ pc'[0] = pc[0] \/ (pc[0] = "spin" /\ pc'[0] = "user")
  <2>1. CASE t = 0
    BY <1>3, <2>1 DEF Home, OfMain, Released
  <2>2. CASE t # 0
    BY <1>1, <1>3, <2>2, UsedFacts DEF Idle, Released, Same, atomics
  <2> QED
    BY <2>1, <2>2
<1>7. Idle'
  BY <1>1, <1>3, <1>4, <1>5, <1>6 DEF Idle, atomics, work, history, locals
<1> QED
  BY <1>7 DEF Phase

\* Inside the barrier nothing changes for the graph.
LEMMA BarrierMoves ==
  ASSUME TypeOK, Counted, Past, NEW t \in Used, Arrive(t) \/ Add(t) \/ Reset(t)
  PROVE  /\ Held(t) /\ Held(t)'
         /\ UNCHANGED <<nPassed, currentChunk, abort, history, lastGraph, node, nth, chunk, after>>
         /\ pc[t] \notin {"chunk", "next"} /\ pc'[t] \notin {"chunk", "next"}
<1>1. t \in Thread
  BY UsedFacts
<1>2. CASE Arrive(t)
  BY <1>1, <1>2 DEF Arrive, Goto, TypeOK, Held, Released, InBarrier, atomics, history
<1>3. CASE Add(t)
  <2>1. pc'[t] \in {"reset", "spin"} /\ passed[t] = nPassed
    BY <1>3, CountedAdd
  <2> QED
    BY <1>1, <1>3, <2>1 DEF Add, Held, Released, InBarrier, history, locals
<1>4. CASE Reset(t)
  BY <1>1, <1>4 DEF Reset, TypeOK, Held, Released, InBarrier, history, locals
<1> QED
  BY <1>2, <1>3, <1>4

\* The barrier opens.
LEMMA ReleaseMoves ==
  ASSUME TypeOK, Counted, Past, NEW t \in Used, Release(t)
  PROVE  /\ UNCHANGED <<currentChunk, abort, history, lastGraph, node, nth, chunk, after>>
         /\ Held(t) /\ pc[t] = "release" /\ pc'[t] = after[t]
         /\ \A u \in Used \ {t} : Same(u) /\ pc[u] = "spin" /\ Held(u) /\ Released(u)'
<1>1. t \in Thread /\ Used \subseteq Thread
  BY UsedFacts
<1>2. GraphStep(t)
  BY DEF GraphStep
<1>3. \A u \in Used \ {t} : Same(u)
  BY <1>1, <1>2, OthersStay
<1> QED
  BY <1>1, <1>3, CountedRelease DEF Release, history, locals

LEMMA PrepareStep ==
  ASSUME TypeOK, Counted, Past, NEW k \in Node, Prepare(k), NEW t \in Used, GraphStep(t)
  PROVE  Phase'
<1>1. t \in Thread /\ Used \subseteq Thread /\ k \in Nat /\ k < NNodes /\ NNodes \in Nat
      /\ nThreads \in Nat /\ (nThreads = 1 => Used = {0}) /\ (t = 0 \/ t # 0)
  BY UsedFacts, ThreadFacts DEF Node
<1>2. Settled /\ \A u \in Thread \ {t} : Same(u)
  BY <1>1, OthersStay
<1>3. Preparing(t, k)
  BY DEF Prepare
<1>4. CASE Enter(t)
  <2>1. /\ pc'[t] = "head" /\ node'[t] = 0 /\ nth'[t] = nThreads
        /\ UNCHANGED <<atomics, work, history, lastGraph>>
    BY <1>1, <1>4 DEF Enter, Goto, TypeOK
  <2>2. k = 0 /\ Took(t)
    BY <1>3, <1>4 DEF Enter, Preparing, Away, Between, Released, Held, InBarrier
  <2>3. Preparing(t, k)'
    BY <2>1, <2>2 DEF Preparing, Took, atomics
  <2> QED
    BY <1>2, <2>1, <2>3, PrepareStays DEF atomics, history
<1>5. CASE Head(t)
  <2>1. node[t] = k /\ nth[t] = nThreads /\ Took(t)
    BY <1>3, <1>5 DEF Head, Preparing, Away, Between, Released, Held, InBarrier
  <2>2. /\ UNCHANGED <<atomics, work, history, lastGraph, node, nth, chunk>>
        /\ abort # k => pc'[t] = "convert"
        /\ abort = k => /\ pc'[t] = IF nThreads = 1 THEN Home(t) ELSE "arrive"
                        /\ after'[t] = Home(t)
    BY <1>1, <1>5, <2>1 DEF Head, Jump, Goto, Barrier, TypeOK, locals
  <2>3. Took(t)'
    BY <2>1, <2>2 DEF Took, atomics
  <2>4. CASE abort = k /\ nThreads = 1
    <3>1. Used \ {t} = {}
      BY <1>1, <2>4
    <3> QED
      BY <1>2, <2>1, <2>2, <2>3, <2>4, <3>1, PrepareEnds DEF atomics, history
  <2>5. CASE abort # k \/ nThreads # 1
    <3>1. Preparing(t, k)'
      BY <2>1, <2>2, <2>3, <2>5 DEF Preparing, Held, Released, InBarrier, atomics
    <3> QED
      BY <1>2, <2>2, <3>1, PrepareStays DEF atomics, history
  <2> QED
    BY <2>4, <2>5
<1>6. CASE Convert(t)
  <2>1. node[t] = k /\ nth[t] = nThreads /\ Took(t) /\ abort # k
    BY <1>3, <1>6 DEF Convert, Preparing, Away, Between, Released, Held, InBarrier
  <2>2. /\ converted' = converted \union {<<k, t>>}
        /\ currentChunk' = IF t = 0 THEN nThreads ELSE currentChunk
        /\ chunk'[t] = t /\ after'[t] = "chunk"
        /\ pc'[t] = IF nThreads = 1 THEN "chunk" ELSE "arrive"
        /\ UNCHANGED <<nGraph, nPassed, abort, nThreads, lastGraph, node, nth, computed>>
    BY <1>1, <1>6, <2>1 DEF Convert, Barrier, TypeOK
  <2>3. Took(t)'
    BY <2>1, <2>2 DEF Took
  <2>4. CASE nThreads = 1
    <3>1. Used \ {t} = {}
      BY <1>1, <2>4
    <3> QED
      BY <1>2, <2>1, <2>2, <2>3, <2>4, <3>1, PrepareEnds
  <2>5. CASE nThreads # 1
    <3>1. Preparing(t, k)'
      BY <2>1, <2>2, <2>3, <2>5 DEF Preparing, Held, Released, InBarrier
    <3> QED
      BY <1>2, <2>2, <3>1, PrepareStays
  <2> QED
    BY <2>4, <2>5
<1>7. CASE Arrive(t) \/ Add(t) \/ Reset(t)
  <2>1. /\ Held(t) /\ Held(t)'
        /\ UNCHANGED <<nPassed, currentChunk, abort, history, lastGraph, node, nth, chunk, after>>
    BY <1>7, BarrierMoves
  <2>2. Preparing(t, k)'
    BY <1>2, <1>3, <2>1 DEF Preparing, Held, Away, Between, InBarrier, Took, Settled, history
  <2> QED
    BY <1>2, <2>1, <2>2, PrepareStays DEF history
<1>8. CASE Release(t)
  <2>1. /\ UNCHANGED <<currentChunk, abort, history, lastGraph, node, nth, chunk, after>>
        /\ Held(t) /\ pc[t] = "release" /\ pc'[t] = after[t]
        /\ \A u \in Used \ {t} : Same(u) /\ pc[u] = "spin" /\ Held(u) /\ Released(u)'
    BY <1>8, ReleaseMoves
  <2>2. /\ node[t] = k /\ nth[t] = nThreads /\ Took(t)
        /\ \/ abort = k /\ after[t] = Home(t)
           \/ /\ abort # k /\ after[t] = "chunk" /\ <<k, t>> \in converted /\ chunk[t] = t
              /\ t = 0 => currentChunk = nThreads
    BY <1>3, <2>1 DEF Preparing, Held, Away, Between, Released
  <2>3. Took(t)'
    BY <1>2, <2>1, <2>2 DEF Took, Settled
  <2> QED
    BY <1>2, <2>1, <2>2, <2>3, PrepareEnds DEF history
<1>9. CASE Spin(t)
  <2>1. Released(t) /\ pc'[t] = after[t] /\ UNCHANGED <<atomics, work, history, locals>>
    BY <1>1, <1>9, SpinMoves
  <2>2. Preparing(t, k)'
    <3>1. \/ k = 0 /\ t # 0 /\ after[t] = "top" /\ lastGraph[t] # nGraph
          \/ node[t] = k /\ nth[t] = nThreads /\ Took(t) /\ after[t] = "head"
      BY <1>3, <2>1 DEF Preparing, Released, Held, Away, Between
    <3> QED
      BY <2>1, <3>1 DEF Preparing, Away, Between, Took, atomics, locals
  <2> QED
    BY <1>2, <2>1, <2>2, PrepareStays DEF atomics, history
<1>10. ~(ComputeChunk(t) \/ NextChunk(t) \/ Tail(t))
  BY <1>3 DEF Preparing, Away, Between, Released, Held, InBarrier, ComputeChunk, NextChunk, Tail
<1> QED
  BY <1>4, <1>5, <1>6, <1>7, <1>8, <1>9, <1>10 DEF GraphStep

\* A thread that computes its chunk holds it no longer; nobody else has computed it.
LEMMA ComputeChunks ==
  ASSUME TypeOK, NEW k \in Node, Multiply(k), NEW t \in Used, ComputeChunk(t)
  PROVE  /\ Chunks(k)' /\ doubled' = doubled
         /\ pc'[t] \in {"next", "tail"} /\ node[t] = k
<1> DEFINE done == <<k, chunk[t]>>
<1>1. t \in Thread /\ Used \subseteq Thread /\ k \in Nat /\ nThreads \in Nat /\ AllChunks \in Nat
      /\ currentChunk \in Nat /\ chunk[t] \in Nat
  BY UsedFacts, ThreadFacts, ChunksNat DEF TypeOK
<1>2. GraphStep(t)
  BY DEF GraphStep
<1>3. Settled /\ \A u \in Thread \ {t} : Same(u)
  BY <1>1, <1>2, OthersStay
<1>4. UNCHANGED <<nPassed, currentChunk, chunk, after, passed>>
  BY DEF ComputeChunk, atomics, locals
<1>5. node[t] = k /\ nth[t] = nThreads /\ pc[t] = "chunk"
  BY DEF Multiply, Multiplying, ComputeChunk, Released, Held, InBarrier
<1>6. ChunksFor(nChunks, nth[t]) = AllChunks
  BY <1>5 DEF AllChunks
<1>7. Chunks(k) /\ Holds(t) /\ chunk[t] < currentChunk /\ done \notin computed
  BY <1>5 DEF Multiply, Chunks, Holds
<1>8. /\ Used' = Used /\ AllChunks' = AllChunks /\ nThreads' = nThreads
      /\ \A j : Done(j)' = Done(j)
  BY <1>3 DEF Settled, Used, AllChunks, Done
<1>9. \/ /\ chunk[t] < AllChunks /\ computed' = computed \union {done} /\ doubled' = doubled
         /\ pc'[t] = IF nThreads >= AllChunks THEN "tail" ELSE "next"
      \/ /\ ~(chunk[t] < AllChunks) /\ computed' = computed /\ doubled' = doubled
         /\ pc'[t] = "tail"
  BY <1>1, <1>5, <1>6, <1>7 DEF ComputeChunk, TypeOK
<1> HIDE DEF done
<1>10. ~(Holds(t)') /\ \A u \in Used \ {t} : Holds(u)' = Holds(u)
  BY <1>1, <1>3, <1>4, <1>9 DEF Holds, Released, Same
<1>11. pc'[t] # "next" => AllChunks <= currentChunk
  BY <1>1, <1>7, <1>9 DEF Chunks
<1>12. \A c : <<k, c>> \in computed' => <<k, c>> \in computed \/ (c = chunk[t] /\ c < AllChunks)
  BY <1>9 DEF done
<1>13. computed \subseteq computed' /\ (chunk[t] < AllChunks => done \in computed')
  BY <1>9
<1>14. Chunks(k)'
  <2>1. nThreads' <= currentChunk'
    BY <1>4, <1>7, <1>8 DEF Chunks
  <2>2. \A u \in Used \ {t} :
          Holds(u)' => chunk[u] < currentChunk /\ <<k, chunk[u]>> \notin computed'
    BY <1>7, <1>10, <1>12 DEF Chunks
  <2>3. \A u, v \in Used \ {t} : Holds(u)' /\ Holds(v)' /\ chunk[u] = chunk[v] => u = v
    BY <1>7, <1>10 DEF Chunks
  <2>4. \A u \in Used : ~(Holds(u)') /\ pc'[u] # "next" => AllChunks <= currentChunk
    BY <1>1, <1>3, <1>7, <1>10, <1>11 DEF Chunks, Same
  <2>5. Done(k) \subseteq computed' /\ computed' \subseteq Done(k + 1)
    <3>1. chunk[t] < AllChunks => done \in Done(k + 1)
      BY <1>1 DEF Done, done
    <3> QED
      BY <1>7, <1>9, <3>1 DEF Chunks
  <2>6. \A c \in 0..(AllChunks - 1) : <<k, c>> \in computed' => c < currentChunk
    BY <1>7, <1>12 DEF Chunks
  <2>7. \A c \in 0..(AllChunks - 1) : c < currentChunk =>
          <<k, c>> \in computed' \/ \E u \in Used : Holds(u)' /\ chunk[u] = c
    <3> SUFFICES ASSUME NEW c \in 0..(AllChunks - 1), c < currentChunk
                 PROVE  <<k, c>> \in computed' \/ \E u \in Used : Holds(u)' /\ chunk[u] = c
      OBVIOUS
    <3>1. CASE c = chunk[t]
      BY <1>1, <1>13, <3>1 DEF done
    <3>2. CASE c # chunk[t]
      BY <1>7, <1>10, <1>13, <3>2 DEF Chunks
    <3> QED
      BY <3>1, <3>2
  <2> QED
    BY <1>4, <1>8, <1>10, <2>1, <2>2, <2>3, <2>4, <2>5, <2>6, <2>7 DEF Chunks
<1> QED
  BY <1>5, <1>9, <1>14

\* A thread takes the next chunk: all below it were taken, it was not.
LEMMA NextChunks ==
  ASSUME TypeOK, NEW k \in Node, Multiply(k), NEW t \in Used, NextChunk(t)
  PROVE  Chunks(k)' /\ node[t] = k
<1>1. t \in Thread /\ Used \subseteq Thread /\ k \in Nat /\ nThreads \in Nat /\ AllChunks \in Nat
      /\ currentChunk \in Nat
  BY UsedFacts, ThreadFacts, ChunksNat DEF TypeOK
<1>2. GraphStep(t)
  BY DEF GraphStep
<1>3. Settled /\ \A u \in Thread \ {t} : Same(u)
  BY <1>1, <1>2, OthersStay
<1>4. /\ UNCHANGED <<nPassed, after, passed, computed>>
      /\ chunk'[t] = currentChunk /\ currentChunk' = currentChunk + 1
      /\ pc[t] = "next" /\ pc'[t] = "chunk"
  BY <1>1 DEF NextChunk, TypeOK, history
<1>5. node[t] = k
  BY <1>4 DEF Multiply, Multiplying, Released, Held, InBarrier
<1>6. /\ Used' = Used /\ AllChunks' = AllChunks /\ nThreads' = nThreads
      /\ \A j : Done(j)' = Done(j)
  BY <1>3 DEF Settled, Used, AllChunks, Done
<1>7. Chunks(k)
  BY DEF Multiply
<1>8. Holds(t)' /\ ~Holds(t)
      /\ \A u \in Used \ {t} : Holds(u)' = Holds(u) /\ chunk'[u] = chunk[u] /\ pc'[u] = pc[u]
  BY <1>1, <1>3, <1>4 DEF Holds, Released, Same
<1>9. <<k, currentChunk>> \notin computed
  <2>1. <<k, currentChunk>> \in Done(k + 1) => currentChunk \in 0..(AllChunks - 1)
    BY DEF Done
  <2> QED
    BY <1>1, <1>7, <2>1 DEF Chunks
<1>10. \A u \in Used : Holds(u) => chunk[u] \in Nat /\ chunk[u] < currentChunk
  BY <1>1, <1>7 DEF Chunks, TypeOK
<1>11. Chunks(k)'
  <2>1. nThreads' <= currentChunk'
    BY <1>1, <1>4, <1>6, <1>7 DEF Chunks
  <2>2. \A u \in Used : Holds(u)' => chunk'[u] < currentChunk' /\ <<k, chunk'[u]>> \notin computed'
    <3>1. chunk'[t] < currentChunk' /\ <<k, chunk'[t]>> \notin computed'
      BY <1>1, <1>4, <1>9
    <3>2. \A u \in Used \ {t} :
            Holds(u)' => chunk'[u] < currentChunk' /\ <<k, chunk'[u]>> \notin computed'
      BY <1>1, <1>4, <1>7, <1>8, <1>10 DEF Chunks
    <3> QED
      BY <3>1, <3>2
  <2>3. \A u, v \in Used : Holds(u)' /\ Holds(v)' /\ chunk'[u] = chunk'[v] => u = v
    <3>1. \A u \in Used \ {t} : Holds(u)' => chunk'[u] # chunk'[t]
      BY <1>1, <1>4, <1>8, <1>10
    <3>2. \A u, v \in Used \ {t} : Holds(u)' /\ Holds(v)' /\ chunk'[u] = chunk'[v] => u = v
      BY <1>7, <1>8 DEF Chunks
    <3> QED
      BY <3>1, <3>2
  <2>4. \A u \in Used : ~(Holds(u)') /\ pc'[u] # "next" => AllChunks <= currentChunk'
    BY <1>1, <1>4, <1>7, <1>8 DEF Chunks
  <2>5. \A c \in 0..(AllChunks - 1) : <<k, c>> \in computed' => c < currentChunk'
    BY <1>1, <1>4, <1>7 DEF Chunks
  <2>6. \A c \in 0..(AllChunks - 1) : c < currentChunk' =>
          <<k, c>> \in computed' \/ \E u \in Used : Holds(u)' /\ chunk'[u] = c
    <3> SUFFICES ASSUME NEW c \in 0..(AllChunks - 1), c < currentChunk'
                 PROVE  <<k, c>> \in computed' \/ \E u \in Used : Holds(u)' /\ chunk'[u] = c
      OBVIOUS
    <3>1. CASE c = currentChunk
      BY <1>4, <1>8, <3>1
    <3>2. CASE c # currentChunk
      <4>1. c < currentChunk
        BY <1>1, <1>4, <3>2
      <4>2. <<k, c>> \in computed \/ \E u \in Used : Holds(u) /\ chunk[u] = c
        BY <1>7, <4>1 DEF Chunks
      <4> QED
        BY <1>4, <1>8, <4>2
    <3> QED
      BY <3>1, <3>2
  <2> QED
    BY <1>4, <1>6, <1>7, <2>1, <2>2, <2>3, <2>4, <2>5, <2>6 DEF Chunks
<1> QED
  BY <1>5, <1>11

LEMMA MultiplyStep ==
  ASSUME TypeOK, Counted, Past, NEW k \in Node, Multiply(k), NEW t \in Used, GraphStep(t)
  PROVE  Phase'
<1>1. t \in Thread /\ Used \subseteq Thread /\ k \in Nat /\ k < NNodes /\ NNodes \in Nat
      /\ nThreads \in Nat /\ (nThreads = 1 => Used = {0} /\ t = 0)
  BY UsedFacts, ThreadFacts DEF Node
<1>2. Settled /\ \A u \in Thread \ {t} : Same(u)
  BY <1>1, OthersStay
<1>3. Multiplying(t, k) /\ nth[t] = nThreads /\ Took(t) /\ Chunks(k) /\ abort \in {-1, k + 1}
  BY DEF Multiply, Multiplying
<1>4. ~(Enter(t) \/ Convert(t))
  BY <1>3 DEF Multiplying, Released, Held, InBarrier, Enter, Convert
<1>5. ASSUME UNCHANGED <<nPassed, converted>>, abort' \in {-1, k + 1},
             Multiplying(t, k)', Chunks(k)'
      PROVE  Phase'
  BY <1>2, <1>5, MultiplyStays
<1>6. CASE Head(t)
  <2>1. node[t] = k + 1 /\ k + 1 = NNodes /\ pc[t] = "head"
    BY <1>1, <1>3, <1>6 DEF Head, Multiplying, Released, Held, InBarrier
  <2>2. /\ UNCHANGED <<atomics, work, history, lastGraph, node, nth, chunk, passed>>
        /\ pc'[t] = IF nThreads = 1 THEN Home(t) ELSE "arrive"
        /\ after'[t] = Home(t)
    BY <1>1, <1>6, <2>1 DEF Head, Barrier, TypeOK
  <2>3. Took(t)' /\ nth'[t] = nThreads /\ node'[t] = k + 1
    BY <1>3, <2>1, <2>2 DEF Took, atomics
  <2>4. ~Holds(t)
    BY <2>1 DEF Holds, Released
  <2>5. CASE nThreads = 1
    <3>1. Used \ {t} = {} /\ \A u \in Used : ~Holds(u)
      BY <1>1, <2>4, <2>5
    <3>2. computed = Done(k + 1)
      BY <1>3, <2>1, <3>1, AllComputed
    <3> QED
      BY <1>2, <1>3, <2>1, <2>2, <2>3, <2>5, <3>1, <3>2, MultiplyEnds DEF atomics, history
  <2>6. CASE nThreads # 1
    <3>1. pc'[t] = "arrive" /\ ~(Holds(t)') /\ Held(t)'
      BY <2>2, <2>6 DEF Holds, Held, Released, InBarrier
    <3>2. Multiplying(t, k)'
      BY <1>2, <2>1, <2>2, <2>3, <3>1 DEF Multiplying, Settled
    <3>3. Chunks(k)'
      BY <1>2, <2>1, <2>2, <2>4, <3>1, ChunksSame DEF atomics, history
    <3> QED
      BY <1>3, <1>5, <2>2, <3>2, <3>3 DEF atomics, history
  <2> QED
    BY <2>5, <2>6
<1>7. CASE ComputeChunk(t)
  <2>1. Chunks(k)' /\ pc'[t] \in {"next", "tail"} /\ node[t] = k
    BY <1>7, ComputeChunks
  <2>2. UNCHANGED <<atomics, locals, converted>>
    BY <1>7 DEF ComputeChunk
  <2>3. Multiplying(t, k)'
    BY <1>3, <2>1, <2>2 DEF Multiplying, Took, atomics, locals
  <2> QED
    BY <1>3, <1>5, <2>1, <2>2, <2>3 DEF atomics
<1>8. CASE NextChunk(t)
  <2>1. Chunks(k)' /\ node[t] = k
    BY <1>8, NextChunks
  <2>2. /\ UNCHANGED <<nPassed, converted, abort, nGraph, nThreads, lastGraph, node, nth>>
        /\ pc'[t] = "chunk"
    BY <1>1, <1>8 DEF NextChunk, TypeOK, history
  <2>3. Multiplying(t, k)'
    BY <1>3, <2>1, <2>2 DEF Multiplying, Took
  <2> QED
    BY <1>3, <1>5, <2>1, <2>2, <2>3
<1>9. CASE Tail(t)
  <2>1. node[t] = k /\ pc[t] = "tail" /\ ~Holds(t)
    BY <1>3, <1>9 DEF Tail, Multiplying, Released, Held, InBarrier, Holds
  <2>2. /\ UNCHANGED <<nGraph, nPassed, currentChunk, nThreads, lastGraph, nth, chunk, history>>
        /\ node'[t] = k + 1 /\ abort' \in {abort, k + 1}
        /\ IF k + 1 < NNodes
           THEN /\ pc'[t] = IF nThreads = 1 THEN "head" ELSE "arrive"
                /\ after'[t] = "head"
           ELSE pc'[t] = "head"
    BY <1>1, <1>9, <2>1 DEF Tail, Barrier, TypeOK
  <2>3. Took(t)' /\ nth'[t] = nThreads /\ abort' \in {-1, k + 1}
    BY <1>3, <2>2 DEF Took
  <2>4. ~(Holds(t)') /\ pc'[t] # "next"
    BY <2>2 DEF Holds, Released
  <2>5. Chunks(k)'
    BY <1>2, <2>1, <2>2, <2>4, ChunksSame DEF history
  <2>6. CASE k + 1 < NNodes /\ nThreads = 1
    <3>1. Used \ {t} = {} /\ \A u \in Used : ~Holds(u)
      BY <1>1, <2>1, <2>6
    <3>2. computed = Done(k + 1)
      BY <1>3, <2>1, <3>1, AllComputed
    <3> QED
      BY <1>1, <1>2, <2>2, <2>3, <2>6, <3>1, <3>2, MultiplyEnds DEF history
  <2>7. CASE k + 1 < NNodes /\ nThreads # 1
    <3>1. pc'[t] = "arrive" /\ after'[t] = "head" /\ k + 1 # NNodes
      BY <1>1, <2>2, <2>7
    <3>2. Multiplying(t, k)'
      BY <2>2, <2>3, <3>1 DEF Multiplying, Held, Released, InBarrier
    <3> QED
      BY <1>5, <2>2, <2>3, <2>5, <3>2 DEF history
  <2>8. CASE ~(k + 1 < NNodes)
    <3>1. Multiplying(t, k)'
      BY <1>1, <2>2, <2>3, <2>8 DEF Multiplying
    <3> QED
      BY <1>5, <2>2, <2>3, <2>5, <3>1 DEF history
  <2> QED
    BY <2>6, <2>7, <2>8
<1>10. CASE Arrive(t) \/ Add(t) \/ Reset(t)
  <2>1. /\ Held(t) /\ Held(t)'
        /\ UNCHANGED <<nPassed, currentChunk, abort, history, lastGraph, node, nth, chunk, after>>
        /\ pc[t] \notin {"chunk", "next"} /\ pc'[t] \notin {"chunk", "next"}
    BY <1>10, BarrierMoves
  <2>2. Multiplying(t, k)'
    BY <1>2, <1>3, <2>1 DEF Multiplying, Held, InBarrier, Took, Settled
  <2>3. Chunks(k)'
    <3>1. ~Holds(t) /\ ~(Holds(t)')
      BY <2>1 DEF Holds, Held
    <3> QED
      BY <1>2, <2>1, <3>1, ChunksSame DEF history
  <2> QED
    BY <1>3, <1>5, <2>1, <2>2, <2>3 DEF history
<1>11. CASE Release(t)
  <2>1. /\ UNCHANGED <<currentChunk, abort, history, lastGraph, node, nth, chunk, after>>
        /\ Held(t) /\ pc[t] = "release" /\ pc'[t] = after[t]
        /\ \A u \in Used \ {t} : Same(u) /\ pc[u] = "spin" /\ Held(u) /\ Released(u)'
    BY <1>11, ReleaseMoves
  <2>2. node[t] = k + 1 /\ after[t] = IF k + 1 = NNodes THEN Home(t) ELSE "head"
    BY <1>3, <2>1 DEF Multiplying, Held
  <2>3. \A u \in Used : ~Holds(u) /\ Multiplying(u, k)
    BY <2>1 DEF Holds, Held, Multiply
  <2>4. computed = Done(k + 1)
    BY <1>3, <2>1, <2>3, AllComputed
  <2>5. Took(t)' /\ nth'[t] = nThreads
    BY <1>2, <1>3, <2>1 DEF Took, Settled
  <2> QED
    BY <1>2, <1>3, <2>1, <2>2, <2>3, <2>4, <2>5, MultiplyEnds DEF history
<1>12. CASE Spin(t)
  <2>1. Released(t) /\ pc'[t] = after[t] /\ UNCHANGED <<atomics, work, history, locals>>
    BY <1>1, <1>12, SpinMoves
  <2>2. node[t] = k /\ after[t] = "chunk" /\ pc[t] = "spin"
    BY <1>3, <2>1 DEF Multiplying, Released, Held
  <2>3. Multiplying(t, k)'
    BY <1>3, <2>1, <2>2 DEF Multiplying, Took, atomics, locals
  <2>4. Holds(t) /\ Holds(t)'
    BY <2>1, <2>2 DEF Holds
  <2>5. Chunks(k)'
    BY <1>2, <2>1, <2>2, <2>4, ChunksSame DEF atomics, locals, history
  <2> QED
    BY <1>3, <1>5, <2>1, <2>3, <2>5 DEF atomics, history
<1> QED
  BY <1>4, <1>6, <1>7, <1>8, <1>9, <1>10, <1>11, <1>12 DEF GraphStep

-----------------------------------------------------------------------------
\* The invariant.

\* Where the node of a thread and the end of its barrier lie.
LEMMA InGraphFacts ==
  ASSUME PoolInv, NEW t \in Used
  PROVE  /\ pc[t] \in {"convert", "chunk", "next", "tail"} => node[t] \in Node
         /\ pc[t] \in InBarrier => after[t] \in {Home(t), "head", "chunk"}
         /\ pc[t] = "chunk" => \E k \in Node : Multiply(k)
<1>1. TypeOK /\ Phase /\ t \in Thread
  BY UsedFacts DEF PoolInv
<1>2. CASE Idle
  BY <1>2, UsedFacts DEF Idle, Away, Between, OfMain, InBarrier, Released, Home
<1>3. ASSUME NEW k \in Node, Prepare(k)
      PROVE  /\ pc[t] \in {"convert", "chunk", "next", "tail"} => node[t] \in Node
             /\ pc[t] \in InBarrier => after[t] \in {Home(t), "head", "chunk"}
             /\ pc[t] # "chunk"
  <2>1. Preparing(t, k)
    BY <1>3 DEF Prepare
  <2> QED
    BY <2>1 DEF Preparing, Away, Between, InBarrier, Released, Held, Home
<1>4. ASSUME NEW k \in Node, Multiply(k)
      PROVE  /\ pc[t] \in {"convert", "chunk", "next", "tail"} => node[t] \in Node
             /\ pc[t] \in InBarrier => after[t] \in {Home(t), "head", "chunk"}
  <2>1. Multiplying(t, k)
    BY <1>4 DEF Multiply
  <2> QED
    BY <2>1 DEF Multiplying, InBarrier, Released, Held, Home
<1> QED
  BY <1>1, <1>2, <1>3, <1>4 DEF Phase

\* Types, for a thread in use.
LEMMA GraphTypes ==
  ASSUME PoolInv, NEW t \in Used, GraphStep(t)
  PROVE  TypeOK' /\ doubled' = {}
<1> USE ThreadFacts
<1>1. TypeOK /\ Counted /\ Past /\ doubled = {}
  BY DEF PoolInv
<1>2. t \in Thread /\ nThreads \in 1..N /\ pc[t] \in Computing \union InBarrier
  BY <1>1, UsedFacts, GraphWhere DEF TypeOK
<1>3. /\ pc[t] \in {"convert", "chunk", "next", "tail"} => node[t] \in Node
      /\ pc[t] \in InBarrier => after[t] \in {Home(t), "head", "chunk"}
  BY InGraphFacts
<1>4. /\ nBarrier' \in 0..N /\ nPassed' \in Nat /\ currentChunk' \in Nat /\ abort' \in -1..NNodes
  <2>1. CASE Add(t)
    <3>1. nBarrier' = nBarrier + 1 /\ nBarrier + 1 <= nThreads
      BY <1>1, <2>1, CountedAdd DEF Add
    <3> QED
      BY <1>1, <1>2, <2>1, <3>1 DEF Add, TypeOK
  <2>2. CASE Tail(t)
    <3>1. node[t] + 1 \in -1..NNodes
      BY <1>3, <2>2 DEF Tail, Node
    <3> QED
      BY <1>1, <2>2, <3>1 DEF Tail, TypeOK
  <2>3. CASE Reset(t) \/ Release(t) \/ Arrive(t) \/ Spin(t)
    BY <1>1, <2>3 DEF Reset, Release, Arrive, Spin, Goto, Jump, TypeOK, atomics
  <2>4. CASE Enter(t) \/ Head(t) \/ Convert(t)
    BY <1>1, <1>2, <2>4 DEF Enter, Head, Convert, Goto, Jump, TypeOK, atomics
  <2>5. CASE ComputeChunk(t) \/ NextChunk(t)
    BY <1>1, <2>5 DEF ComputeChunk, NextChunk, TypeOK, atomics
  <2> QED
    BY <2>1, <2>2, <2>3, <2>4, <2>5 DEF GraphStep
<1>5. /\ converted' \subseteq Node \X Thread /\ computed' \subseteq Node \X Nat
      /\ doubled' = {}
  <2>1. CASE ComputeChunk(t)
    <3>1. doubled' = doubled
      BY <1>1, <2>1, InGraphFacts, ComputeChunks DEF ComputeChunk
    <3>2. <<node[t], chunk[t]>> \in Node \X Nat
      BY <1>1, <1>2, <1>3, <2>1 DEF ComputeChunk, TypeOK
    <3>3. converted' = converted /\ computed' \subseteq computed \union {<<node[t], chunk[t]>>}
      BY <2>1 DEF ComputeChunk
    <3> QED
      BY <1>1, <3>1, <3>2, <3>3 DEF TypeOK
  <2>2. CASE Convert(t)
    <3>1. <<node[t], t>> \in Node \X Thread
      BY <1>2, <1>3, <2>2 DEF Convert
    <3> QED
      BY <1>1, <2>2, <3>1 DEF Convert, TypeOK
  <2>3. CASE ~(ComputeChunk(t) \/ Convert(t))
    <3>1. UNCHANGED history
      BY <2>3 DEF GraphStep, Enter, Head, NextChunk, Tail, Arrive, Add, Reset, Release, Spin,
         Goto, Jump
    <3> QED
      BY <1>1, <3>1 DEF TypeOK, history
  <2> QED
    BY <2>1, <2>2, <2>3
<1>6. /\ pc' \in [Thread -> Between \union InBarrier \union Computing \union OfMain]
      /\ pc'[t] \in Computing \union InBarrier \union {Home(t)}
  <2>1. CASE Enter(t) \/ Head(t) \/ Convert(t)
    BY <1>1, <1>2, <2>1 DEF Enter, Head, Convert, Barrier, Goto, Jump, TypeOK, Computing,
       InBarrier, Home, Between, OfMain
  <2>2. CASE ComputeChunk(t) \/ NextChunk(t) \/ Tail(t)
    BY <1>1, <1>2, <2>2 DEF ComputeChunk, NextChunk, Tail, Barrier, TypeOK, Computing, InBarrier
  <2>3. CASE Arrive(t) \/ Add(t) \/ Reset(t)
    BY <1>1, <1>2, <2>3 DEF Arrive, Add, Reset, Goto, TypeOK, InBarrier
  <2>4. CASE Release(t) \/ Spin(t)
    <3>1. after[t] \in {Home(t), "head", "chunk"}
      BY <1>3, <2>4 DEF Release, Spin, InBarrier
    <3> QED
      BY <1>1, <1>2, <2>4, <3>1 DEF Release, Spin, Goto, Jump, TypeOK, Computing, InBarrier,
         Home, Between, OfMain
  <2> QED
    BY <2>1, <2>2, <2>3, <2>4 DEF GraphStep
<1>7. Settled /\ \A u \in Thread \ {t} : Same(u)
  BY <1>1, <1>2, OthersStay
<1>8. /\ \A u \in Thread : pc'[u] \in OfMain => u = 0
      /\ \A u \in Thread : pc'[u] \in Between => u # 0
  <2>1. /\ pc'[t] \in OfMain => t = 0
        /\ pc'[t] \in Between => t # 0
    BY <1>6 DEF Computing, InBarrier, Home, OfMain, Between
  <2> QED
    BY <1>1, <1>7, <2>1 DEF TypeOK, Same
<1>9. /\ lastGraph' = lastGraph /\ seen' = seen
      /\ node' \in [Thread -> 0..NNodes] /\ nth' \in [Thread -> 0..N]
      /\ chunk' \in [Thread -> Nat] /\ passed' \in [Thread -> Nat]
      /\ after' \in [Thread -> {"user", "top", "head", "chunk"}]
  <2>1. CASE Tail(t)
    <3>1. node[t] + 1 \in 0..NNodes
      BY <1>3, <2>1 DEF Tail, Node
    <3> QED
      BY <1>1, <1>2, <2>1, <3>1 DEF Tail, Barrier, TypeOK
  <2>2. CASE Enter(t) \/ Head(t) \/ Convert(t)
    BY <1>1, <1>2, <2>2 DEF Enter, Head, Convert, Barrier, Goto, Jump, TypeOK, locals, Home
  <2>3. CASE ComputeChunk(t) \/ NextChunk(t) \/ Arrive(t)
    BY <1>1, <1>2, <2>3 DEF ComputeChunk, NextChunk, Arrive, Goto, TypeOK, locals
  <2>4. CASE Add(t) \/ Reset(t) \/ Release(t) \/ Spin(t)
    BY <1>1, <2>4 DEF Add, Reset, Release, Spin, Goto, Jump, TypeOK, locals
  <2> QED
    BY <2>1, <2>2, <2>3, <2>4 DEF GraphStep
<1> QED
  BY <1>1, <1>4, <1>5, <1>6, <1>7, <1>8, <1>9 DEF TypeOK, Settled

\* Only the last three steps of the barrier change its count.
LEMMA GraphCounted ==
  ASSUME TypeOK, Counted, Past, NEW t \in Used, GraphStep(t)
  PROVE  Counted' /\ Past'
<1>1. t \in Thread
  BY UsedFacts
<1>2. CASE Add(t)
  BY <1>2, CountedAdd
<1>3. CASE Reset(t)
  BY <1>3, CountedReset
<1>4. CASE Release(t)
  BY <1>4, CountedRelease
<1>5. CASE ~(Add(t) \/ Reset(t) \/ Release(t))
  <2>1. /\ Calm(t) /\ UNCHANGED <<nBarrier, nPassed, nThreads>>
        /\ pc'[t] \notin {"spin", "reset", "release"}
        /\ pc'[t] = "add" => passed'[t] = nPassed
    <3>1. CASE Enter(t) \/ Head(t) \/ Convert(t)
      BY <1>1, <3>1 DEF Enter, Head, Convert, Barrier, Goto, Jump, TypeOK, atomics, Calm, Home
    <3>2. CASE ComputeChunk(t) \/ NextChunk(t) \/ Tail(t)
      BY <1>1, <3>2 DEF ComputeChunk, NextChunk, Tail, Barrier, TypeOK, atomics, Calm
    <3>3. CASE Arrive(t)
      BY <1>1, <3>3 DEF Arrive, Goto, TypeOK, atomics, Calm
    <3>4. CASE Spin(t)
      <4>1. after[t] \in {"user", "top", "head", "chunk"}
        BY <1>1 DEF TypeOK
      <4> QED
        BY <1>1, <3>4, <4>1 DEF Spin, Goto, Jump, TypeOK, atomics, Calm
    <3> QED
      BY <1>5, <3>1, <3>2, <3>3, <3>4 DEF GraphStep
  <2>2. \A u \in Thread \ {t} : pc'[u] = pc[u] /\ passed'[u] = passed[u]
    BY <1>1, OthersStay DEF Same
  <2>3. Used' = Used
    BY <2>1 DEF Used
  <2> QED
    BY <2>1, <2>2, <2>3, CountedKept
<1> QED
  BY <1>2, <1>3, <1>4, <1>5

LEMMA GraphKeeps ==
  ASSUME PoolInv, NEW t \in Thread, GraphStep(t)
  PROVE  PoolInv'
<1>1. TypeOK /\ Numbers /\ doubled = {} /\ Outside /\ Past /\ Counted /\ Phase
  BY DEF PoolInv
<1>2. Settled /\ \A u \in Thread \ {t} : Same(u)
  BY <1>1, OthersStay
<1>3. Used' = Used /\ Used \subseteq Thread /\ 0 \in Used
  BY <1>1, <1>2, UsedFacts DEF Settled, Used
<1>4. CASE t \in Used
  <2>1. TypeOK' /\ doubled' = {}
    BY <1>4, GraphTypes
  <2>2. Counted' /\ Past'
    BY <1>1, <1>4, GraphCounted
  <2>3. Outside'
    <3>1. \A u \in Thread \ Used : Same(u)
      BY <1>2, <1>4
    <3>2. \A u \in Thread \ Used : Away(u)'
      <4>1. nPassed' = nPassed \/ (nPassed' = nPassed + 1)
        BY DEF GraphStep, Enter, Head, Convert, ComputeChunk, NextChunk, Tail, Arrive, Add,
           Reset, Release, Spin, Goto, Jump, atomics
      <4>2. \A u \in Thread : pc[u] = "spin" => passed[u] <= nPassed /\ passed[u] \in Nat
        BY <1>1 DEF Past, TypeOK
      <4>3. nPassed \in Nat
        BY <1>1 DEF TypeOK
      <4>4. \A u \in Thread \ Used : Released(u) => Released(u)'
        BY <3>1, <4>1, <4>2, <4>3 DEF Released, Same
      <4> QED
        BY <1>1, <3>1, <4>4 DEF Outside, Away, Same
    <3> QED
      BY <1>3, <3>2 DEF Outside
  <2>4. Phase'
    BY <1>1, <1>4, IdleStep, PrepareStep, MultiplyStep DEF Phase
  <2>5. Numbers'
    <3>1. \/ pc'[0] \notin {"kickoff", "publish"} /\ pc[0] \notin {"kickoff", "publish"}
          \/ pc'[0] = pc[0]
      <4>1. CASE t = 0
        <5>1. pc[0] \in Computing \union InBarrier
          BY <4>1, GraphWhere
        <5>2. pc'[0] \notin {"kickoff", "publish"}
          <6>1. pc[0] \in InBarrier => after[0] \in {"user", "head", "chunk"}
            BY <1>4, <4>1, InGraphFacts DEF Home
          <6>2. CASE Release(0) \/ Spin(0)
            BY <1>1, <4>1, <6>1, <6>2 DEF Release, Spin, Goto, Jump, TypeOK, InBarrier
          <6>3. CASE ~(Release(0) \/ Spin(0))
            BY <1>1, <4>1, <6>3 DEF GraphStep, Enter, Head, Convert, ComputeChunk, NextChunk,
               Tail, Arrive, Add, Reset, Barrier, Goto, Jump, TypeOK, Home
          <6> QED
            BY <6>2, <6>3
        <5> QED
          BY <5>1, <5>2 DEF Computing, InBarrier
      <4>2. CASE t # 0
        BY <1>2, <1>3, <4>2 DEF Same
      <4> QED
        BY <4>1, <4>2
    <3> QED
      BY <1>1, <1>2, <3>1 DEF Numbers, Settled
  <2> QED
    BY <2>1, <2>2, <2>3, <2>4, <2>5 DEF PoolInv
<1>5. CASE t \notin Used
  <2>1. Away(t) /\ Spin(t) /\ pc[t] = "spin" /\ after[t] = "top"
    BY <1>1, <1>5, AwaySpins DEF Outside
  <2>2. Released(t) /\ pc'[t] = "top" /\ UNCHANGED <<atomics, work, history, locals>>
    BY <1>1, <2>1, SpinMoves
  <2>3. t # 0 /\ \A u \in Used : Same(u)
    BY <1>2, <1>3, <1>5
  <2>4. Phase'
    BY <1>1, <1>2, <2>2, <2>3, UsedSame DEF atomics
  <2>5. Outside'
    <3>1. \A u \in Thread \ {t} : Away(u)' = Away(u)
      BY <1>2, <2>2 DEF Away, Released, Same, atomics
    <3> QED
      BY <1>1, <1>3, <2>2, <3>1 DEF Outside, Away, Between
  <2>6. Counted' /\ Past'
    <3>1. Calm(t)
      BY <2>1, <2>2 DEF Calm, Released
    <3>2. \A u \in Thread \ {t} : pc'[u] = pc[u] /\ passed'[u] = passed[u]
      BY <1>2 DEF Same
    <3> QED
      BY <1>1, <1>3, <2>2, <3>1, <3>2, CountedKept DEF atomics
  <2>7. TypeOK'
    <3>1. pc' \in [Thread -> Between \union InBarrier \union Computing \union OfMain]
      BY <1>1, <2>1 DEF Spin, Goto, Jump, TypeOK, Between
    <3>2. /\ \A u \in Thread : pc'[u] \in OfMain => u = 0
          /\ \A u \in Thread : pc'[u] \in Between => u # 0
      BY <1>1, <1>2, <2>2, <2>3 DEF TypeOK, Same, Between, OfMain
    <3> QED
      BY <1>1, <2>2, <3>1, <3>2 DEF TypeOK, atomics, work, history, locals
  <2>8. Numbers' /\ doubled' = {}
    BY <1>1, <1>3, <2>2, <2>3 DEF Numbers, Same, atomics, work, history
  <2> QED
    BY <2>4, <2>5, <2>6, <2>7, <2>8 DEF PoolInv
<1> QED
  BY <1>4, <1>5

LEMMA PoolStutter == PoolInv /\ UNCHANGED vars => PoolInv'
<1> SUFFICES ASSUME PoolInv, UNCHANGED vars PROVE PoolInv'
  OBVIOUS
<1>1. /\ UNCHANGED <<nGraph, nBarrier, nPassed, currentChunk, stop, pause, abort, nThreads>>
      /\ UNCHANGED <<graph, nChunks, pc, lastGraph, seen, node, nth, chunk, passed, after>>
      /\ UNCHANGED <<converted, computed, doubled>>
  BY DEF vars, atomics, work, locals, history
<1>2. TypeOK' /\ Numbers' /\ doubled' = {}
  BY <1>1 DEF PoolInv, TypeOK, Numbers
<1>3. Settled /\ \A u : Same(u)
  BY <1>1 DEF Settled, Same
<1>4. Phase'
  BY <1>1, <1>3, UsedSame DEF PoolInv, history
<1>5. Used' = Used
  BY <1>1 DEF Used
<1>6. Outside' /\ Past'
  BY <1>1, <1>5 DEF PoolInv, Outside, Past, Away, Released
<1>7. Counted'
  BY <1>1, <1>5 DEF PoolInv, Counted, Waiting
<1> QED
  BY <1>2, <1>4, <1>6, <1>7 DEF PoolInv

LEMMA PoolStep ==
  ASSUME Steady
  PROVE  PoolInv /\ [Next]_vars => PoolInv'
<1> SUFFICES ASSUME PoolInv, [Next]_vars PROVE PoolInv'
  OBVIOUS
<1>1. CASE \E c \in ChunkCounts : BeginGraph(c)
  BY <1>1, BeginKeeps
<1>2. CASE \E n \in Counts : Kickoff(n)
  BY <1>2, KickoffKeeps
<1>3. CASE Publish
  BY <1>3, PublishKeeps
<1>4. CASE (\E on \in BOOLEAN : SetPause(on)) \/ FreePool \/ Joined
  BY <1>4, ControlKeeps
<1>5. CASE \E t \in Worker : WorkerStep(t) \/ Spurious(t)
  BY <1>5, WorkerKeeps
<1>6. CASE \E t \in Thread : GraphStep(t)
  BY <1>6, GraphKeeps
<1>7. CASE Freed \/ UNCHANGED vars
  BY <1>7, PoolStutter DEF Freed
<1> QED
  BY <1>1, <1>2, <1>3, <1>4, <1>5, <1>6, <1>7 DEF Next, MainStep

LEMMA PoolAlways ==
  ASSUME Steady
  PROVE  Spec => []PoolInv
<1> QED
  BY PoolInit, PoolStep, PTL DEF Spec

-----------------------------------------------------------------------------

\* The variables keep their types; in particular no more threads are counted in
\* the barrier than are in use.
THEOREM TypeOKAlways ==
  ASSUME Steady
  PROVE  Spec => []TypeOK
<1>1. PoolInv => TypeOK
  BY DEF PoolInv
<1> QED
  BY <1>1, PoolAlways, PTL

\* While the main thread sets up the next graph, or frees the pool, no worker is in
\* a graph, though some may still be leaving its last barrier.
THEOREM PoolQuietAlways ==
  ASSUME Steady
  PROVE  Spec => []PoolQuiet
<1>1. PoolInv => PoolQuiet
  <2> SUFFICES ASSUME PoolInv, pc[0] \in OfMain, NEW t \in Worker
               PROVE  ~InGraph(t)
    BY DEF PoolQuiet, OfMain
  <2>1. t \in Thread /\ t # 0 /\ Away(t)
    BY MainIdle, IdleCalm, ThreadFacts DEF PoolInv
  <2> QED
    BY <2>1 DEF Away, InGraph, Between, Computing, InBarrier, Released, Home
<1> QED
  BY <1>1, PoolAlways, PTL

\* Nobody multiplies before all threads in use have converted their share of src1,
\* and nobody converts the next one before all have multiplied.
THEOREM SharesReadyAlways ==
  ASSUME Steady
  PROVE  Spec => []SharesReady
<1>1. PoolInv => SharesReady
  <2> SUFFICES ASSUME PoolInv, NEW t \in Thread, pc[t] = "chunk", NEW u \in Used
               PROVE  <<node[t], u>> \in converted /\ pc[u] # "convert"
    BY DEF SharesReady, Used
  <2>1. t \in Used
    BY DEF PoolInv, Outside, Away, Between, Released
  <2>2. PICK k \in Node : Multiply(k)
    BY <2>1, InGraphFacts
  <2>3. node[t] = k /\ <<k, u>> \in converted /\ Multiplying(u, k)
    BY <2>1, <2>2 DEF Multiply, Multiplying, Released, Held, InBarrier
  <2> QED
    BY <2>3 DEF Multiplying, Released, Held, InBarrier
<1> QED
  BY <1>1, PoolAlways, PTL

\* No chunk of a product is computed by two threads.
THEOREM ChunksOnceAlways ==
  ASSUME Steady
  PROVE  Spec => []ChunksOnce
<1>1. PoolInv => ChunksOnce
  BY DEF PoolInv, ChunksOnce
<1> QED
  BY <1>1, PoolAlways, PTL

\* A graph that returns is computed: every chunk of every node, up to the node it
\* was aborted at, whichever threads took which chunks.
THEOREM GraphCompleteAlways ==
  ASSUME Steady
  PROVE  Spec => []GraphComplete
<1>1. PoolInv => GraphComplete
  <2> SUFFICES ASSUME PoolInv, pc[0] = "user", graph > 0
               PROVE  computed = (0..((IF abort = -1 THEN NNodes ELSE abort) - 1))
                                   \X (0..(ChunksFor(nChunks, nth[0]) - 1))
    BY DEF GraphComplete
  <2>1. Idle
    BY MainIdle DEF PoolInv, OfMain
  <2>2. nth[0] = nThreads /\ computed = Done(IF abort = -1 THEN NNodes ELSE abort)
    BY <2>1 DEF Idle
  <2> QED
    BY <2>2 DEF Done, AllChunks
<1> QED
  BY <1>1, PoolAlways, PTL

=============================================================================
