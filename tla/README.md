# A verification of MineGPT

MineGPT is a chat application (Kotlin Multiplatform, Android and desktop) over a
vendored copy of llama.cpp.  Nearly all of the tree is llama.cpp; the program's
own logic is a native chat session of some 200 lines, a JNI layer, two Kotlin
wrappers, and a view model with the screen that drives it.  It has no tests.  Of
llama.cpp, two parts are modelled because they carry state and control the
session relies on at every token: the KV cache, and the pool of threads that
computes a graph.

## Inventory

`K/` stands for `src/composeApp/src/`.

| Component | State | Operations | Properties that make it correct |
|---|---|---|---|
| Native chat session, `src/cpp/gguf.cpp/LLMInference.cpp`, `smollm.cpp` | `_messages`, `_prevLen`, `_promptTokens`, `_batch`, `_currToken`, `_response`, `_cacheResponseTokens`, the KV cache in `_ctx` | `loadModel`, `addChatMessage`, `startCompletion`, `completionLoop`, `stopCompletion` | every message reaches the model, a bounded number of times; no sampled text is lost, doubled or put in another order; the context is not overrun |
| `LLMTalker` (`K/desktopMain`, `K/androidMain`) | `nativePtr` | `create`, `addSystemPrompt`, `getResponse` (a cold flow), `close` (no caller) | used only after `create` succeeded |
| Sending and stopping, `K/commonMain/.../ChatViewModel.kt` 70-132 | `_currentChatMessages`, `isGenerating`, `responseGenerationJob` | `sendMessage`, `stopGeneration`, `getTalkerResponse`, `generateResponseIncrementally` | the Stop button stands for a reply in progress; a stopped job stops; text goes under its question |
| Loading, `ChatViewModel.kt` 22-68, the dialog in `HomeScreen.kt` | `loadingLLMState`, `modelPath`, `initLLM`, `showFileDialog` | a click, `selectLLMModelFile`, `initLLM`, the loader coroutine, the collector | one load at a time; metadata and weights of one file; the chat opens only on a loaded model; a cancelled picker can be repeated |
| `LLMReader` and `GGUFReader.cpp` | `nativeHandle` | `getLLMFilePath`, `loadModel`, `getContextSize`, `getChatTemplate` | metadata comes from the file last loaded |
| `NativeLibraryLoader` (desktop) | `loadedLibraries`, a file in the working directory | `loadFromResources` | what is loaded is what was extracted |
| KV cache, `src/cpp/llama.cpp/src/llama-kv-cache.cpp`, `llama-context.cpp` | `cells`, `head`, `used`, `has_shift`, `do_defrag`, the K and V rows, `pending` | `llama_decode`, the `seq_*` operations, `clear`, `defrag`, `kv_self_update` | the cache is a set of tokens with positions and sequences; shifts reach each row once; a failed batch leaves no trace |
| CPU thread pool, `src/cpp/llama.cpp/ggml/src/ggml-cpu/ggml-cpu.c` | `n_graph`, `n_threads_cur`, `n_barrier`, `n_barrier_passed`, `current_chunk`, `stop`, `pause`, `abort`, each worker's `last_graph` and `pending` | `ggml_graph_compute`, `ggml_threadpool_pause`, `_resume`, `_free`, the workers | every chunk computed once, by threads that agree on the graph; no wakeup lost |
| Application shell, theme, drawing, iOS and wasmJs entry points | navigation stack | | none modelled |

How they interact.  A click on the main thread calls the view model; that
launches coroutines on `Dispatchers.Default`, which run in parallel on threads
of their own, call `LLMTalker`, and through JNI the one `LLMInference` object,
which has no lock.  The session evaluates its batches with `llama_decode`, which takes cells
of the KV cache, builds a graph for every ubatch and has the thread pool compute
it; a context without a pool of its own makes one for each graph.  Results come back as the elements of a flow and are painted
from the job's thread into snapshot state the main thread also changes.
Cancelling a job has an effect only where the job looks.

What is hard.  A turn that is cancelled or throws never reaches
`stopCompletion`, and the session goes on with what it left behind.  Stop and
Send in quick succession give two live jobs.  The selection coroutines test and
set shared flags in separate steps.  Failures leave flags up.  The KV cache keeps
counters by hand, owes shifts to rows that are moved and reused meanwhile, and
gives up cells when a batch fails half-way.  The workers of a pool poll atomics
that the main thread stores one after the other, and sleep on a condition.  PROJECT.json
lists these hazards at their lines.

## Modules

| Module | Models |
|---|---|
| `PromptFeed` | abstract: what a session promises about its messages (at least once each, nothing skipped unread) |
| `LLMInference` | the native session under one caller; implements `PromptFeed` |
| `LLMInference_proofs` | theorems about it |
| `ChatViewModel` | the send and stop buttons, the jobs, the bubbles |
| `ChatViewModel_proofs` | theorems about it |
| `ModelLoading` | the file dialog, selections, loaders, reader and talker |
| `ModelLoading_proofs` | theorems about it |
| `KvStore` | abstract: the KV cache as llama.h describes it, a set of tokens with positions and sequences |
| `KvCache` | the ring of cells, the operations on sequences, `llama_decode` and `kv_self_update`; implements `KvStore` |
| `KvCache_proofs` | theorems about its counters, shifts and holes |
| `KvSearch_proofs` | theorems about the search for a slot, and that calls end |
| `KvStore_proofs` | theorems about the refinement, failed batches and defragmentation |
| `ThreadPool` | the main thread and the workers of a pool, from the kickoff of a graph to its last barrier |
| `ThreadPool_proofs` | theorems about it |

A definition whose comment begins with "Mutant" is a broken variant of the
definition that follows.  It is used by no specification; replacing the original
by it must make a named property fail (PROJECT.json lists the pairs), which
shows that the property depends on that piece of code.

### LLMInference

The state is that of the C++ object, under its names; `kv` is the KV cache of
`_ctx`.  `phase` is where the caller's `getResponse` stands, since the session's
protocol is that of its only caller.  One action is one native call with all it
does (`StartCompletion`, the branches of `completionLoop`, `StopCompletion`), or
the caller's step between two of them (`EmitPiece`, `Cancelled`).  The four ways
out of `completionLoop` that are no piece are `LoopThrows` (context full),
`LoopAborts` (a `GGML_ASSERT` in `llama_decode` on a batch above `n_batch`),
`LoopDecodeFails` and `LoopEndsTurn`.

Data: sampled tokens are numbered in the order of sampling, a text is the set of
its tokens, a formatted message is one block of one token, and the generation
prompt the template appends is one more.  So the length of a formatted chat is
its number of messages, which is what `_prevLen` counts in the model.  Of the
bytes of a piece only what `_isValidUtf8` tells apart is kept: complete
characters, the first bytes of one, bytes that leave an open one open, the bytes
that complete one; and the text `[EOG]`, which the caller compares with.  That a template formats a longer chat
as an extension of a shorter one is assumed of llama.cpp.  The two places where
a template is taken from (the metadata key read by `LLMReader` and
`llama_model_chat_template`) name the same key and are one template here, which
llama.cpp either knows or does not (`template`).

`sampledIn` and `ending` are history variables: which turn sampled a token, and
how each turn ended.

### ChatViewModel

`ui` is where the main thread is inside a click handler; `pc[j]` is where job
`j` is.  Each access to `isGenerating`, to the list of bubbles, and each
observation of a cancellation is an action of its own, so every interleaving of
the threads over them is explored.  So the dispatcher's look at the cancellation
(`Dispatch`) comes before the job enters `startCompletion` (`Begin`), and the
painting loop looks at the flag (`Check`), then at `lastIndex` (`ReadIndex`), and
then paints: a Stop, or a Stop and a Send, fit in between.  A native call is entered in one step and
returns in another, with any of its outcomes; what it does inside is the subject
of `LLMInference`.  A job's position in its text is `replyLen - left`, exactly
the prefix `take` leaves, without the character at which the loop stands.
`latePaints` and `lateCalls` count what a job does after it was cancelled.

`sendMessage` runs in place, since `viewModelScope` uses
`Dispatchers.Main.immediate` and the click comes from the main thread; its own
test of `isGenerating` follows the click handler's on the same thread, which is
the only one to raise the flag, so its `stopGeneration` branch cannot be taken.
Likewise its test for a blank message only keeps a click without effect.

### ModelLoading

Every click is a selection `c` with its program counter `pc[c]`, and the loader
it may start is `loader[c]`.  Every access to `loadingLLMState`, `modelPath`,
`initLLM`, and the handles of reader and talker is one action.  The conflation of
the `StateFlow` is in `CollectLoaded`, which sees the present value only.  A
null reader handle is undefined behaviour once assertions are off; the model
lets the process die or the coroutine fail.  `raced` records that one of the two
windows in the code was hit: two selections between the test and the set of
`loadingLLMState`, or a click after the 2 and before the dialog is gone.

### KvCache

`cells`, `head`, `used`, `hasShift`, `doDefrag` are the members of
`llama_kv_cache_unified`, `pending` the boundaries of the slots that are not
committed, `data` the K and V rows.  A row is the token it was computed from and
the position its K part is rotated for, which is what K-shifts and moves change.
The operations on sequences are one action each.  `llama_decode` is several:
`BeginDecode`, the steps of `kv_self_update` (`ShiftOver`, `ApplyShift`,
`ShiftFails` or `CannotShift`, the abort of a process whose cache cannot shift;
one `FillHole` per hole, `DefragDone`), and for each ubatch
`FindSlot` and `Compute`, or `NoSlot` and `ComputeFails`, which give up what is
pending.  `phase` says which step is next; nobody else runs in between, but the
invariants are about those states too.  `Scan` is the search loop of `find_slot`
as a recursive function over its counters, the cell it has come to and `n_tested`; `Home` says which cell of a fragment
goes where, which the code finds with two nested scans.

A batch without positions goes on after the highest position of any cell,
whatever its sequences (`NextPos`), and `KvStore!Submit` promises no more.

`KvStore` has the entries, and in `asked` those a `llama_decode` under way is to
add: `Decode` adds all of them and `Fail` none.  The cache shows the entries that
are not pending, so the slots of the first graphs of a batch do not show until
the last one is computed, and showing a part of a batch is no step of `KvStore`.

Ranges with negative bounds are enumerated as the ends they stand for.  The
padding of `n` and the reservation of worst-case graphs change no decision here.

### ThreadPool

`pc[t]` is where thread `t` is, with 0 for the thread that calls
`ggml_graph_compute`.  Every load and store of an atomic that another thread may
race with is a step, as the threads interleave over them.  The one merger is in
polling: `stop` and `pause` are loaded in one step with `n_graph`, since the main
thread stores them when no graph is computed.  A section under the mutex is one step, except the
kickoff, whose two stores polling workers may see apart (`Kickoff`, `Publish`,
between which `Unlocked` keeps the others out of the mutex).  The threads asleep
in `ggml_cond_wait` are those at `asleep` (waiting for work) and `resting`
(paused); a broadcast sends them back to their checks, and so may `Spurious`.
Every node is a matrix product, the one operator with a state of its own: the
conversion of `src1` by all threads, a barrier, and chunks taken from one
counter.  `converted`, `computed`, `doubled` are history variables.

Memory is sequentially consistent in the model.  The code's relaxed accesses are
ordered by the seq-cst operations in the barrier and in the kickoff, by the
fence after polling, and by the mutex; the model does not check those orders.

## Runs

| Run | Asks | Bounds |
|---|---|---|
| `session` | all properties of `LLMInference` | 4 turns, 12 cells, batches of 5, every kind of piece |
| `session_response` | the comment on `_response` in `LLMInference.h`; violated | 2 turns |
| `chat` | all properties of `ChatViewModel` | 2 messages, up to two pieces each, of no or two characters |
| `chat_failed`, `chat_stale` | the comment on `isGenerating`, in both directions; violated | 2 messages |
| `loading` | all properties of `ModelLoading` | 3 clicks, two good files, one without metadata, one unreadable |
| `loading_state` | the comment on `loadingLLMState`; violated | 1 click |
| `kv_sequences` | types, `used`, shifts owed, and the refinement of `KvStore` | 3 cells, 2 sequences, 4 tokens at positions 0 and 1, every operation, batches of 2 in ubatches of 1, no failing graph |
| `kv_defrag` | fragmentation, the search for slots, failing batches | 5 cells, 1 sequence, 5 tokens, batches of 3 in ubatches of 2, removals, divisions and defragmentation, failing decode and shift graphs, a cache that cannot shift |
| `kv_restore` | llama.h on a failing `llama_decode`; violated | 4 cells, 1 sequence |
| `pool` | all properties of `ThreadPool` | 3 threads, 2 graphs of 2 nodes, 2 or 4 chunks, on 1 or 3 threads |
| `pool_stale` | a comment in `ggml_graph_compute`; violated | 3 threads, 2 graphs, on 2 and then 3 threads |

Why the bounds are enough.  Two broken turns in a row followed by a good one is
the longest history that behaves in a new way in the session (leftovers of
leftovers); four turns leave room for one more.  Twelve cells are filled within
two or three turns, and a prompt above the batch limit of 5 appears after three
broken turns, so both limits are met early and late.  Two messages of the chat
are a stale job and the one it disturbs; the safety
properties are proved for any number of messages and pieces.  Two characters make a piece
with a first, a following and a last character, and a piece of none is what an
incomplete character yields.  Three selections are the least that allow a race
between two and a late third.

Three cells for two sequences let a cell be shared, freed by one of them and
refilled while another is shifted.  There a batch of two graphs begins with an
empty cache, since positions end at 1, so one that is refused for want of a slot
has taken none; batches that fail after a graph are in `kv_defrag` and
`kv_restore`, where two ubatches per batch let the second fail.
Five cells are the fewest with two holes of different lengths and a fragment
that is split between them, and with a search that must wrap around.  What is
proved of the cache holds without these bounds.  Three threads are the fewest
with a last thread in the barrier, one that has left it and one that is still
waiting; two nodes give two barriers in a row of each kind; four chunks for
three threads leave one to be fetched from the counter; two graphs let a worker
be late for one and find the other.  A product of two chunks is cut into one for
each of three threads, which then fetch none, or left as it is for one.

What the passing runs show, in the words of the properties:

* `FeedsPrompts`, `RefeedBounded`: a broken turn costs repetition, never loss.
  Each message is evaluated at least once, and at most once more per broken
  turn.
* `TokensConserved`, `RepliesFaithful`: text sampled is text stored, in order;
  replies are exact until the first turn that does not end on an
  end-of-generation token.
* `QuestionBeforeAnswer`, `ForgottenBounded`: the model reads a question before
  it answers, and forgets at most the last piece of each turn cut short.
* `TurnEnds`: the context limit ends a reply that does not end itself.  The end of
  the process counts as an end, here as in `FeedsPrompts`: neither is about the
  aborts of the process (a prompt above `n_batch`, a throwing `startCompletion`),
  which the model contains.
* `FlagHasJob`: the Stop button never stands for a stopped or finished reply.
  The converse fails (`chat_stale`), and a failed reply keeps the button
  (`chat_failed`).
* `StopsPainting`, `StopsCalling`, `StoppedJobEnds`: a stopped job paints at most
  once more, enters native code at most three times more (all three if it was
  stopped on its way into `startCompletion`), and ends.
* `OneBubbleAstray`: a job can paint over the next question or into the reply to
  it, having read the flag before and the index after they came, but never into
  older turns; and until a stopped job takes the flag down, only a stopped job
  does, in a single bubble.
* `TextGrows`: the text of a bubble grows by one character at a time as long as the
  same job paints it.  When another job takes it over it may be replaced.
* `TurnTaking`: without a stop the chat takes turns, and a finished reply lacks its
  last character and nothing else.
* `QuestionsAsked`: a question on the screen reaches the model or was stopped.
* `ModelBehindScreen`: a message can only be sent once a model is loaded,
  whatever is clicked.
* `OneAtATime`, `OneModel`: until one of the two windows `raced` records is hit,
  one load at a time, from one file.  The windows are real and in the model;
  these properties say that there are no others, and nothing of what happens
  past them.  `ModelBehindScreen` and `SelectableAgain` hold past them too.
* `SelectableAgain`, `LoadOpensChat`: a cancelled picker can be repeated; a load
  that does not fail opens the chat, unless a window was hit (a second picker
  left without a file can then overwrite the 2 the screen waits for).
* `ImplementsStore`: ring, slots, graphs, shifts and defragmentation do not show;
  each step of the cache is an operation of `KvStore` or no step.  Batches that
  fail half-way are not in this run.
* `UsedExact`, `HoleCanBeFilled`, `DefragCompacts`, `ScanFindsSlot`: the counter
  is exact, the assertion of `defrag_prepare` holds, a complete defragmentation
  leaves no hole and loses nothing, and the search finds a slot if there is one.
* `RotationOwed`, `NothingOwed`: rotation and owed shift add up to the position
  of every row if no shift fails, and nothing is owed when slots are taken even
  if one does.
* `ImplementsStoreInPlace`: whatever graphs fail, a `llama_decode` adds its whole
  batch or nothing and takes no other token along, as long as cells are
  positions, as in this application.  In general it does not (`kv_restore`).
* `PoolQuiet`, `SharesReady`, `ChunksOnce`, `GraphComplete`: when a graph returns
  everything in it was computed once, up to the node it was aborted after, by
  threads that waited for each other's data, and no worker is still at it.  If
  graphs may ask for more threads than the one before, one can be (`pool_stale`).
* `GraphReturns`, `PoolEnds`: no wakeup is lost, neither of work nor of the end.

The violated runs are disagreements with what the code says of itself; each is a
finding in PROJECT.json.  Others were met without a run of their own:

* `LLMInference.h` 19-20 calls `_promptTokens` the tokens of the last query;
  after a broken turn they are those of the earlier one too (`RefeedBounded`
  bounds how often).  Line 28 calls `_storeChats` "whether to cache previous
  messages"; they are added whatever it says.
* `LLMReader.loadModel` reports nothing when the file does not parse; the
  assertions of its getters then meet a handle of 0.
* `llama_decode` returns -3 where llama.h documents 1 for a batch that finds no
  slot (`llama-context.cpp:1304`).
* `kv_self_update` ignores what computing a shift returns
  (`llama-context.cpp:743`) and resets the deltas all the same; `ShiftFails` is
  that step, and `RotationOwed` holds only without it.
* `llama_kv_cache_unified::clear` leaves deltas behind; the next update resets
  them before a slot is taken, which is part of `NothingOwed`.

## Fairness

`LLMInference` and `ChatViewModel`: native calls return and a running coroutine
goes on, since `Dispatchers.Default` has a thread for each core and a job only
blocks in native calls.  The choice of the sampled piece is never fair, so
`TurnEnds` does not rely on the model ending its reply.  Clicks are never fair:
the user need not send, stop or close the picker.  `ThreadPool`: the system runs
every thread that can run, and a polling worker ends its rounds of polling or
finds work; when graphs are computed, the pool paused or freed is up to the
caller, and nothing relies on spurious wakeups.  `ModelLoading`: selections,
loaders and the collector go on; each of `CreateReturns` and `CreateThrows` may
be the one that happens.

## Proofs

`LLMInference_proofs` proves, for every context size, batch size, number of turns
and set of piece kinds (`SessionAssumption` is all that is assumed of them):

* `TypeCorrect`: `TypeOK` is invariant.  It is inductive as it stands.
* `FeedsPromptsCorrect` (given `StoreChats`, as the application creates its
  session): `LLMInference` implements `PromptFeed`.  The refinement maps the
  number of messages, the set of evaluated ones, and `_prevLen`.  It rests on
  `FeedInv`: the messages up to `_prevLen` are evaluated; while a prompt waits to
  be evaluated it is exactly what the chat holds past `_prevLen`; from the first
  token sampled until `stopCompletion` every message is evaluated; and the cache
  holds no message that does not exist, without which a new query could count as
  evaluated.  `DecodeFeeds` is the heart: evaluating whatever batch is current
  leaves every message evaluated.
* `SkippedIsRead`: the invariant of `PromptFeed` that matters, in the session's
  own terms.
* `TokensConservedCorrect` (given `StoreChats`): `TokensConserved` is invariant.
  It is inductive with `TypeOK`; the step rests on `OrderAppend`, that a message
  which takes over the whole response keeps the order.

* `QuestionBeforeAnswerCorrect`, from `AnswerInv`: the prompt of a turn ends with
  its own query, and nothing is sampled before the prompt is evaluated.
* `ForgottenBoundedCorrect`, from `ForgetInv`: a turn leaves out at most the last
  piece it sampled, the one that still waits in the batch.
* `RefeedBoundedCorrect`, from `FeedInv`, `ForgetInv` and `RefeedInv`: only
  messages past `_prevLen` can be evaluated once more, and each broken turn adds
  one copy at most.
* `RepliesFaithfulCorrect`, from `FaithInv`: as long as all earlier turns ended
  well, `_response` and `_cacheResponseTokens` hold exactly what the turn sampled.

* `TurnsAdvanceCorrect`, from `BatchWaits`, that no empty batch is evaluated: each
  round of `completionLoop` takes a cell of the context, so a turn ends after as many
  rounds as the context has cells, whatever the model samples.

`StoreChats` is necessary for `FeedsPromptsCorrect`, `SkippedIsRead` and
`TokensConservedCorrect`: without it `_prevLen` goes back to 0 with each query and
`stopCompletion` drops what is left in `_response`.  The others hold with it and
without it.

`KvCache_proofs` proves, for every number of cells, set of sequences, batch size,
bound on moves and choice of operations (`CacheAssumption`):

* `NothingOwedAlways`, whatever graphs fail, and `RotationOwedAlways` if none
  does.  The inductive invariant is `CellsInv` (cells have a position exactly if
  they have sequences, deltas come with `has_shift`, the slot of the ubatch in
  the graph is a run of pending cells that holds its positions) with
  `OwedExactly`, which extends `RotationOwed` to the slots of the batch that are
  written already: without it nothing would be known when they are committed.
* `UsedExactAlways`: `CountInv` is `CellsInv` with `UsedExact`.  Operations free
  or take cells by set, so each step is a fact about cardinalities; that the
  cells a hole is filled from and the homes they get are equally many rests on
  `HomeInjective`.
* `HoleCanBeFilledAlways`: the assertion of `defrag_prepare` follows from
  `UsedExact` alone, since the cells below `used` and above are counted twice.
* `TypeOKAlways`: with `CountInv`, `Bounded` is inductive.  That `used` fits the
  cache follows from its being exact; that `moves` never passes `MaxMoves` needs
  `MovesBounded`: the fillers that are moved are the first ones, so each block of
  them was counted when it was allowed.

`KvSearch_proofs` proves, under the same assumption, `ScanFindsSlotAlways`.  `Scan`
is the loop written as a function that is its own round (`Round`), and a function
defined so says nothing unless there is one: that the rounds end is part of the
theorem.  `Left` counts the rounds left: each tests a cell more, but for starting
over, which no two rounds in a row do.  By `SettledMore` the answers of states
with fewer than m rounds left are settled after m rounds, so a function exists
(`ScanExists`).  The invariant of the loop is `Searching`: no slot begins at a cell
it has passed (`NoneBehind`), and `n_tested` says how many these are; or it has
come to the end twice and there is no slot at all.  The
library's induction theorems take an operator, which these provers cannot
instantiate, so both inductions go by the least counterexample (`LeastNatural`).
Two theorems follow up:

* `SlotIsScannedAlways`: the one step `FindSlot` takes exactly the slot the loop
  ends at; there is one such slot only (`OneSlot`).
* `CallEndsAlways`: `StepsLeft` goes down with every step of a call that does not
  abort the process.  A hole that is
  filled is behind the search for the next (`HoleAdvances`), and each graph takes a
  token of the batch at least.

`KvStore_proofs` goes on from there, under the same assumption:

* `ImplementsStoreIfRestored`: `KvCache` implements `KvStore` if every
  `llama_decode` that fails restores the cache, which llama.h says of it.  The
  assumption `FailureRestores` is necessary: the code does not keep it for every
  caller (`kv_restore`).  The inductive invariant is `StoreInv`: `CellsInv` with
  `Paused`, that nothing is pending between two batches and while holes are
  filled, so that an operation or a move meets whole entries; with `Younger`,
  that the tokens of the batch under way are none the cache shows, without which
  the end of a batch might not be an addition; and with `Carried`, that the cells
  taken carry the sequences of their tokens, so that what the graphs have written
  and what the batch still holds is together what was asked for.  One lemma per operation takes its
  cells to its entries; `ChangeByChange` is what they share.
* `OneSequenceImplementsStore`: for this application (one sequence, no token
  removed or moved on its own) the assumption is a theorem.  By `Straight` the
  tokens lie in the first cells at their positions and the batch follows them.
* `ImplementsStoreInPlaceAlways`: for every caller, the steps of a `llama_decode`
  or an update implement `KvStore` as long as cells are positions when a batch
  fails.  `FailureInPlace` is the reason, here and in the theorem before: the slot
  that is given up is the run of positions the batch was given.
* `DefragCompactsAlways`, from `FilledSoFar`: there is no hole before the cell the
  search has come to while moves are left.  It rests on `AllMoved`, that a hole
  gets all its fillers unless the moves run out, and `HoleFilled`, that they
  cover it.

`ChatViewModel_proofs` proves, for every number of messages and of pieces and
every length of a piece (`ChatAssumption`):

* `TypeOKAlways`, `FlagHasJobAlways`, `StopsPaintingAlways`,
  `StopsCallingAlways`, `OneBubbleAstrayAlways`, `TextGrowsAlways`.  Their
  inductive invariant is `ChatInv`.  `Turns` ties the jobs launched to the number
  of bubbles, so that the last bubble is at or below a job's own; `Late` says
  where a cancelled job can be after each thing it did late; `Placed` and
  `Shown` bound what any bubble shows by what its job has come to, without which
  a paint could take text back.
* `TurnTakingAlways`, from `TurnInv`, which adds to `ChatInv` what holds until
  the first stop: only the current job lives, the flag is up meanwhile, the bubble
  being painted is the job's own, and it shows exactly what the loop has passed.
* `StoppedJobAdvancesAlways`: a stopped job has five steps of its own left at most,
  by where it is (`StepsToEnd`).

`ModelLoading_proofs` proves, for every number of clicks and every set of files
(`FilesAssumption`), `TypeOKAlways`, `ModelBehindScreenAlways`,
`SelectableAgainAlways`, `OneAtATimeAlways` and `OneModelAlways` from `LoadInv`.
Its parts: the screen is past the dialog, or a loader past `create`, only if a
session exists (`Behind`); a loader that comes to `create` has its metadata, and
its selection has ended (`Ready`); before the first loader, a state of 1 stands
for a selection that will take it back or launch a loader (`TakenBack`); and,
until one of the two windows is hit, at most one selection or loader is at work,
behind a state of 1, and what its loader gathered is of the file in `modelPath`
(`Alone`, `OwnFile`).

`ThreadPool_proofs` proves, for every number of threads, nodes, chunks and graphs
(`PoolAssumption`), `TypeOKAlways`, `PoolQuietAlways`, `SharesReadyAlways`,
`ChunksOnceAlways` and `GraphCompleteAlways` of every pool that is `Steady`: no
graph asks for more threads than those before it, or the pool is made for one
graph, as `llama_decode` without a pool of its own has it.  Without that the
properties are false (`pool_stale`).  Their inductive invariant is `PoolInv`.
`Phase` says that all threads in use are between the same two barriers, and which
shares of the node are done there; `Counted` that `n_barrier` is the number of
threads that wait, so that the last one to arrive finds all the others; `Chunks`
that every chunk below `current_chunk` is computed or held by exactly one thread.

Every safety property of the passing runs is stated by a theorem, but for the
pool of several graphs that grows, which `ThreadPool_proofs` leaves out since the
properties are false of it.  Liveness is only model-checked: the prover handles
neither fairness nor ENABLED.  What it can prove of it are the measures above
(`TurnsAdvance`, `StoppedJobAdvances`, `CallEnds`): that a turn, a stopped job and
a call cannot go on for ever.  That they never get stuck on the way, TLC checks on
the small instances (deadlock, `TurnEnds`, `StoppedJobEnds`).

## Not modelled

The theme, drawing, navigation and dependency injection (no state that matters),
the iOS and wasmJs targets (no talker or reader), generation metrics and
`isInferenceOn` (nobody reads them), the scrolling of the message list, `close`
and the destructor (no caller), the copy Android makes of a picked file, and the
end of the Android process that follows an uncaught exception: the models show
the desktop, where the program goes on with what the failed coroutine left
behind.

What two jobs do to the members of one native session is undefined: the models
show when two are inside (`TurnTaking`, `chat_stale`), not what comes of it.
Which bytes `_isValidUtf8` accepts is a table; the session keeps its verdicts.
`NativeLibraryLoader` depends on the file system and on another process.

Of the KV cache: state files (never saved by the application), the failure of a
defragmentation graph, the cache of recurrent models, the parts of a batch that
concern outputs and embeddings.  Of ggml: the build with OpenMP, affinity and
priorities, NUMA, the other operators and backends.  The rest of llama.cpp,
which is most of the tree (model loading, tokenizers, samplers, grammars,
templates, kernels, the server and the examples), computes values, or is not
part of the application; the models take what it returns as any value it may
return.

## What is left

Models: the recurrent cache, `_isValidUtf8` over bytes against a reference
decoder, and `NativeLibraryLoader` with two processes over one file.
