---------------------------- MODULE ChatViewModel ----------------------------
(***************************************************************************)
(* Sending and stopping in the chat screen: the click handler of           *)
(* HomeScreen, and ChatViewModel's sendMessage, stopGeneration,            *)
(* getTalkerResponse and generateResponseIncrementally.                    *)
(*                                                                         *)
(* The clicks run on the main thread.  Each query is answered by a job on  *)
(* Dispatchers.Default, a thread of its own, which pulls pieces out of the *)
(* native session and paints them, character by character, into the last   *)
(* bubble of the chat.  Cancelling a job only takes effect where the job   *)
(* looks: before it starts, at an emit, and in delay.  A native call cannot*)
(* be interrupted.                                                         *)
(*                                                                         *)
(* Each access of a job to what the threads share (isGenerating, the size  *)
(* and the items of the list of bubbles, its own cancellation) is a step   *)
(* of its own, and so is each write of the main thread.  The native calls  *)
(* are begun in one step and return in another with any outcome.  A text   *)
(* is its owner job and how many characters of that job's reply it shows.  *)
(***************************************************************************)
EXTENDS Integers, Sequences, FiniteSets

CONSTANTS MaxJobs,    \* bound: how many messages the user sends
          MaxPieces,  \* bound: how many pieces a reply has
          PieceLens   \* the lengths of a piece; 0 while a character is incomplete

ASSUME ChatAssumption ==
  /\ MaxJobs \in Nat \ {0}
  /\ MaxPieces \in Nat
  /\ PieceLens \subseteq Nat

Job == 1..MaxJobs

VARIABLES
  ui,            \* where the main thread is in its click handler
  bubbles,       \* _currentChatMessages
  isGenerating,  \* isGenerating.value
  current,       \* responseGenerationJob, 0 for null
  pc,            \* where each job is
  cancelled,     \* the jobs whose cancellation was requested
  pieces,        \* how many pieces each job has taken
  replyLen,      \* responseContent.length of each job
  left,          \* how many characters of its piece a job has yet to paint
  index,         \* the lastIndex a job has read
  latePaints,    \* history: paints of a job after its cancellation
  lateCalls      \* history: native calls begun after its cancellation

chat == <<bubbles, isGenerating>>
jobs == <<pc, pieces, replyLen, left, index>>
history == <<latePaints, lateCalls>>
vars == <<ui, chat, current, cancelled, jobs, history>>

InNative == {"start", "loop", "stop"}
Ended == {"done", "unwound", "failed"}
Steps == {"none", "scheduled", "begin", "emit", "check", "index", "paint", "delay",
          "finish"} \union InNative \union Ended

UserBubble(j) == [isUser |-> TRUE, job |-> j, len |-> 0]
ReplyBubble(j, n) == [isUser |-> FALSE, job |-> j, len |-> n]

\* The jobs sent so far.
Launched == {j \in Job : pc[j] # "none"}
Live == {j \in Launched : pc[j] \notin Ended}

\* The job the message being sent will get.
NextJob == Cardinality(Launched) + 1

-----------------------------------------------------------------------------

Init ==
  /\ ui = "idle"
  /\ bubbles = <<>>
  /\ isGenerating = FALSE
  /\ current = 0
  /\ pc = [j \in Job |-> "none"]
  /\ cancelled = {}
  /\ pieces = [j \in Job |-> 0]
  /\ replyLen = [j \in Job |-> 0]
  /\ left = [j \in Job |-> 0]
  /\ index = [j \in Job |-> 0]
  /\ latePaints = [j \in Job |-> 0]
  /\ lateCalls = [j \in Job |-> 0]

-----------------------------------------------------------------------------
\* The main thread.

\* Mutant: stopGeneration only cancels the job.
StopKeepsFlag ==
  /\ ui = "idle"
  /\ isGenerating
  /\ ui' = "cancel"
  /\ UNCHANGED <<chat, current, cancelled, jobs, history>>

\* onSendClick while generating: stopGeneration clears the flag ...
ClickStop ==
  /\ ui = "idle"
  /\ isGenerating
  /\ isGenerating' = FALSE
  /\ ui' = "cancel"
  /\ UNCHANGED <<bubbles, current, cancelled, jobs, history>>

\* Mutant: stopGeneration only lowers the flag.
CancelNobody ==
  /\ ui = "cancel"
  /\ ui' = "idle"
  /\ UNCHANGED <<chat, current, cancelled, jobs, history>>

\* ... and cancels the last job launched.
CancelCurrent ==
  /\ ui = "cancel"
  /\ cancelled' = cancelled \union ({current} \ {0})
  /\ ui' = "idle"
  /\ UNCHANGED <<chat, current, jobs, history>>

\* onSendClick while not generating: sendMessage runs in place, on the main
\* dispatcher.  Its own test of isGenerating cannot see TRUE here: only this
\* thread sets the flag.  It adds the query ...
ClickSend ==
  /\ ui = "idle"
  /\ ~isGenerating
  /\ NextJob \in Job
  /\ bubbles' = Append(bubbles, UserBubble(NextJob))
  /\ ui' = "addReply"
  /\ UNCHANGED <<isGenerating, current, cancelled, jobs, history>>

\* ... an empty bubble for the reply ...
AddReplyBubble ==
  /\ ui = "addReply"
  /\ bubbles' = Append(bubbles, ReplyBubble(0, 0))
  /\ ui' = "setFlag"
  /\ UNCHANGED <<isGenerating, current, cancelled, jobs, history>>

\* ... raises the flag ...
SetFlag ==
  /\ ui = "setFlag"
  /\ isGenerating' = TRUE
  /\ ui' = "launch"
  /\ UNCHANGED <<bubbles, current, cancelled, jobs, history>>

\* Mutant: the query is dropped if another job is at work.
LaunchIfIdle ==
  /\ ui = "launch"
  /\ pc' = IF Live = {} THEN [pc EXCEPT ![NextJob] = "scheduled"] ELSE pc
  /\ current' = IF Live = {} THEN NextJob ELSE current
  /\ ui' = "idle"
  /\ UNCHANGED <<chat, cancelled, pieces, replyLen, left, index, history>>

\* ... and getTalkerResponse launches the job.
Launch ==
  /\ ui = "launch"
  /\ pc' = [pc EXCEPT ![NextJob] = "scheduled"]
  /\ current' = NextJob
  /\ ui' = "idle"
  /\ UNCHANGED <<chat, cancelled, pieces, replyLen, left, index, history>>

-----------------------------------------------------------------------------
\* The jobs.

\* Job j goes to a step that needs no bookkeeping.
Goto(j, step) ==
  /\ pc' = [pc EXCEPT ![j] = step]
  /\ UNCHANGED <<ui, current, cancelled, latePaints>>

\* Job j enters a native call.
Call(j, step) ==
  /\ Goto(j, step)
  /\ lateCalls' = [lateCalls EXCEPT ![j] = IF j \in cancelled THEN @ + 1 ELSE @]

\* A thread of the dispatcher picks job j up: cancelled by then, it never runs.
Dispatch(j) ==
  /\ pc[j] = "scheduled"
  /\ Goto(j, IF j \in cancelled THEN "unwound" ELSE "begin")
  /\ UNCHANGED <<chat, pieces, replyLen, left, index, lateCalls>>

\* The job collects getResponse, which calls startCompletion: from its first
\* line to this call it does not look whether it was cancelled.
Begin(j) ==
  /\ pc[j] = "begin"
  /\ Call(j, "start")
  /\ UNCHANGED <<chat, pieces, replyLen, left, index>>

\* startCompletion returns and completionLoop is called, cancelled or not.
StartReturns(j) ==
  /\ pc[j] = "start"
  /\ Call(j, "loop")
  /\ UNCHANGED <<chat, pieces, replyLen, left, index>>

\* completionLoop returns a piece of n characters.
PieceReturns(j, n) ==
  /\ pc[j] = "loop"
  /\ pieces[j] < MaxPieces
  /\ Goto(j, "emit")
  /\ pieces' = [pieces EXCEPT ![j] = @ + 1]
  /\ left' = [left EXCEPT ![j] = n]
  /\ UNCHANGED <<chat, replyLen, index, lateCalls>>

\* completionLoop returns "[EOG]" and stopCompletion is called: between the two
\* the job does not look whether it was cancelled.
EogReturns(j) ==
  /\ pc[j] = "loop"
  /\ Call(j, "stop")
  /\ UNCHANGED <<chat, pieces, replyLen, left, index>>

\* completionLoop throws.  The exception leaves the coroutine: runCatching
\* surrounds only its launch.
LoopThrows(j) ==
  /\ pc[j] = "loop"
  /\ Goto(j, "failed")
  /\ UNCHANGED <<chat, pieces, replyLen, left, index, lateCalls>>

\* Mutant: emit does not look for cancellation.
EmitAnyway(j) ==
  /\ pc[j] = "emit"
  /\ Goto(j, "check")
  /\ replyLen' = [replyLen EXCEPT ![j] = @ + left[j]]
  /\ UNCHANGED <<chat, pieces, left, index, lateCalls>>

\* emit checks for cancellation, then the collector appends the piece.
Emit(j) ==
  /\ pc[j] = "emit"
  /\ IF j \in cancelled
     THEN Goto(j, "unwound") /\ UNCHANGED replyLen
     ELSE Goto(j, "check") /\ replyLen' = [replyLen EXCEPT ![j] = @ + left[j]]
  /\ UNCHANGED <<chat, pieces, left, index, lateCalls>>

\* The two outcomes of the test at the head of the painting loop.
NextCharacter(j) ==
  /\ Goto(j, "index")
  /\ UNCHANGED <<chat, pieces, replyLen, left, index, lateCalls>>

NextPiece(j) ==
  /\ Call(j, "loop")
  /\ UNCHANGED <<chat, pieces, replyLen, left, index>>

\* Mutant: the loop runs over 0..length instead of the indices.
CheckPastEnd(j) ==
  /\ pc[j] = "check"
  /\ IF left[j] < 0 \/ ~isGenerating THEN NextPiece(j) ELSE NextCharacter(j)

\* Mutant: a stopped reply spins until it is resumed.
CheckSpins(j) ==
  /\ pc[j] = "check"
  /\ IF left[j] = 0 THEN NextPiece(j)
     ELSE IF isGenerating THEN NextCharacter(j)
     ELSE UNCHANGED vars

\* Mutant: the function clears isGenerating, not isInferenceOn, at its end.
CheckClearsFlag(j) ==
  /\ pc[j] = "check"
  /\ IF left[j] = 0 \/ ~isGenerating
     THEN /\ Call(j, "loop")
          /\ isGenerating' = FALSE
          /\ UNCHANGED <<bubbles, pieces, replyLen, left, index>>
     ELSE NextCharacter(j)

\* generateResponseIncrementally, head of its loop: the next native call when
\* the piece is painted or nothing is being generated, else one more character.
Check(j) ==
  /\ pc[j] = "check"
  /\ IF left[j] = 0 \/ ~isGenerating THEN NextPiece(j) ELSE NextCharacter(j)

\* The flag is not looked at again: the list may have grown since.
ReadIndex(j) ==
  /\ pc[j] = "index"
  /\ Goto(j, "paint")
  /\ index' = [index EXCEPT ![j] = Len(bubbles)]
  /\ UNCHANGED <<chat, pieces, replyLen, left, lateCalls>>

\* The bubble at the index read becomes the first n characters of the reply.
PaintPrefix(j, n) ==
  /\ pc[j] = "paint"
  /\ bubbles' = [bubbles EXCEPT ![index[j]] = ReplyBubble(j, n)]
  /\ pc' = [pc EXCEPT ![j] = "delay"]
  /\ latePaints' = [latePaints EXCEPT ![j] = IF j \in cancelled THEN @ + 1 ELSE @]
  /\ UNCHANGED <<ui, current, cancelled, isGenerating, pieces, replyLen, left,
                 index, lateCalls>>

\* Mutant: take() is given what is left of the piece.
PaintRest(j) == PaintPrefix(j, left[j])

\* The reply is shown up to, and without, the character the loop stands at.
Paint(j) == PaintPrefix(j, replyLen[j] - left[j])

\* Mutant: the pause between two characters cannot be cancelled.
Sleep(j) ==
  /\ pc[j] = "delay"
  /\ Goto(j, "check")
  /\ left' = [left EXCEPT ![j] = @ - 1]
  /\ UNCHANGED <<chat, pieces, replyLen, index, lateCalls>>

\* delay throws in a cancelled job.
Delay(j) ==
  /\ pc[j] = "delay"
  /\ IF j \in cancelled
     THEN Goto(j, "unwound") /\ UNCHANGED left
     ELSE Goto(j, "check") /\ left' = [left EXCEPT ![j] = @ - 1]
  /\ UNCHANGED <<chat, pieces, replyLen, index, lateCalls>>

\* stopCompletion returns: the flow is complete.
StopReturns(j) ==
  /\ pc[j] = "stop"
  /\ Goto(j, "finish")
  /\ UNCHANGED <<chat, pieces, replyLen, left, index, lateCalls>>

\* Mutant: the job ends without clearing the flag.
FinishSilently(j) ==
  /\ pc[j] = "finish"
  /\ Goto(j, "done")
  /\ UNCHANGED <<chat, pieces, replyLen, left, index, lateCalls>>

\* The last statement of the job.
Finish(j) ==
  /\ pc[j] = "finish"
  /\ isGenerating' = FALSE
  /\ Goto(j, "done")
  /\ UNCHANGED <<bubbles, pieces, replyLen, left, index, lateCalls>>

\* What job j does next; only the answers of the model are left open.
JobStep(j) ==
  \/ Dispatch(j)
  \/ Begin(j)
  \/ StartReturns(j)
  \/ \E n \in PieceLens : PieceReturns(j, n)
  \/ EogReturns(j)
  \/ LoopThrows(j)
  \/ Emit(j)
  \/ Check(j)
  \/ ReadIndex(j)
  \/ Paint(j)
  \/ Delay(j)
  \/ StopReturns(j)
  \/ Finish(j)

MainStep == CancelCurrent \/ AddReplyBubble \/ SetFlag \/ Launch

\* Everything sent is answered and nobody clicks.
Rest ==
  /\ ui = "idle"
  /\ Live = {}
  /\ UNCHANGED vars

Next ==
  \/ ClickStop
  \/ ClickSend
  \/ MainStep
  \/ \E j \in Job : JobStep(j)
  \/ Rest

\* A handler runs to its end and every job keeps its thread: Dispatchers.Default
\* has one for each core and a job blocks only inside native calls, which
\* return.  Nobody has to click.
Fairness ==
  /\ WF_vars(MainStep)
  /\ \A j \in Job : WF_vars(JobStep(j))

Spec == Init /\ [][Next]_vars

FairSpec == Spec /\ Fairness

-----------------------------------------------------------------------------
(***************************************************************************)
(* Correctness.                                                            *)
(***************************************************************************)

BubbleType == [isUser : BOOLEAN, job : 0..MaxJobs, len : Nat]

TypeOK ==
  /\ ui \in {"idle", "cancel", "addReply", "setFlag", "launch"}
  /\ bubbles \in Seq(BubbleType)
  /\ isGenerating \in BOOLEAN
  /\ current \in 0..MaxJobs
  /\ pc \in [Job -> Steps]
  /\ cancelled \in SUBSET Job
  /\ pieces \in [Job -> 0..MaxPieces]
  /\ replyLen \in [Job -> Nat]
  /\ left \in [Job -> Nat]
  /\ index \in [Job -> Nat]
  /\ latePaints \in [Job -> Nat]
  /\ lateCalls \in [Job -> Nat]

\* The Stop button is never shown for a reply that has been stopped or has
\* come to its end, however late earlier jobs finish: the flag is up only for
\* the last job, running or failed.
FlagHasJob ==
  (isGenerating /\ ui = "idle") =>
    /\ current # 0
    /\ current \notin cancelled
    /\ pc[current] \notin {"done", "unwound"}

\* A stopped job paints at most once more.
StopsPainting == \A j \in Job : latePaints[j] <= 1

\* A stopped job enters the native session at most three times more: stopped on
\* its way to startCompletion, it makes that call, completionLoop and, if the
\* model has nothing to say, stopCompletion.
StopsCalling == \A j \in Job : lateCalls[j] <= 3

\* Bubbles that show text of job j though they are not the bubble of its reply.
Astray(j) == {i \in 1..Len(bubbles) : bubbles[i].job = j /\ ~bubbles[i].isUser /\ i # 2 * j}

\* A stopped job that still ran to its end takes down whatever flag it finds.
FlagTakenDown == \E j \in cancelled : pc[j] = "done"

\* Between its look at the flag and its look at the list the chat can move on: a
\* job then paints over the next question, or over the reply to it.  This never
\* strikes older turns.  And it is the price of a stop: while no stopped job has
\* taken the flag down, a job nobody stopped paints its own bubble only, and a
\* stopped one spoils a single bubble.
OneBubbleAstray ==
  /\ \A j \in Job : \A i \in Astray(j) : i > 2 * j
  /\ ~FlagTakenDown =>
       \A j \in Job : Cardinality(Astray(j)) <= IF j \in cancelled THEN 1 ELSE 0

\* As long as no running reply was stopped the chat takes turns: one job at a
\* time, queries and replies alternate, and a reply stands under its query.  A
\* finished reply shows all its characters but the last, where the loop stood.
TurnTaking ==
  cancelled = {} =>
    /\ Cardinality(Live) <= 1
    /\ \A i \in 1..Len(bubbles) :
         /\ bubbles[i].isUser <=> (i % 2 = 1)
         /\ bubbles[i].job \in {0, (i + 1) \div 2}
    /\ \A j \in Job : (pc[j] = "done" /\ ui # "cancel") =>
         bubbles[2 * j] = IF replyLen[j] = 0 THEN ReplyBubble(0, 0)
                          ELSE ReplyBubble(j, replyLen[j] - 1)

\* The text of a reply is never taken back: repainting a bubble for the same
\* job only adds characters.
TextGrows ==
  [][\A i \in 1..Len(bubbles) :
       (bubbles'[i].job = bubbles[i].job) => bubbles'[i].len >= bubbles[i].len]_vars

\* Every question on the screen is put to the model, unless its job was stopped
\* before a thread picked it up.
QuestionsAsked ==
  \A j \in Job :
    (\E i \in 1..Len(bubbles) : bubbles[i] = UserBubble(j))
      ~> \/ pc[j] \in Steps \ {"none", "scheduled", "begin", "unwound"}
         \/ j \in cancelled /\ pc[j] = "unwound"

\* A stopped job comes to an end.
StoppedJobEnds == \A j \in Job : (j \in cancelled) ~> (pc[j] \in Ended)

\* The Stop button does not stay up for ever, unless a reply has failed.
GenerationEnds ==
  isGenerating ~> (~isGenerating \/ \E j \in Job : pc[j] = "failed")

-----------------------------------------------------------------------------
(***************************************************************************)
(* ChatViewModel.kt documents isGenerating as the "Flag indicating if      *)
(* response generation is in progress".  Neither direction holds.          *)
(***************************************************************************)

\* The flag is up: the last job is still at work.
FlagMeansGenerating == (isGenerating /\ ui = "idle") => current \in Live

\* A job that nobody stopped is at work: the flag is up.
GeneratingMeansFlag ==
  (ui = "idle" /\ \E j \in Live \ cancelled : pc[j] \in {"start", "loop"})
    => isGenerating

==============================================================================
