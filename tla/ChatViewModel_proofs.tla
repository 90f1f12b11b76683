------------------------ MODULE ChatViewModel_proofs ------------------------
(***************************************************************************)
(* Proofs about sending and stopping, for every number of messages and     *)
(* pieces, and pieces of every length: what the Stop button stands for,    *)
(* what a stopped job still does, and where text lands.                    *)
(***************************************************************************)
EXTENDS ChatViewModel, FiniteSetTheorems, SequenceTheorems, TLAPS

Painting == {"check", "index", "paint", "delay"}

\* The bubbles that wait for the job of the message being sent.
Added == CASE ui = "addReply" -> 1
           [] ui \in {"setFlag", "launch"} -> 2
           [] OTHER -> 0

\* Jobs are launched in order, two bubbles each, and the last one is current.
Turns ==
  \E n \in 0..MaxJobs :
    /\ Launched = 1..n
    /\ current = n
    /\ Len(bubbles) = 2 * n + Added
    /\ Added > 0 => n < MaxJobs

\* Only jobs that were launched are cancelled or current.
Known ==
  /\ cancelled \subseteq Launched
  /\ current \in Launched \union {0}

\* The flag is down from the click to the moment it is raised.
Flag ==
  /\ FlagHasJob
  /\ ui \in {"cancel", "addReply", "setFlag"} => ~isGenerating

\* What job j may have done after its cancellation, by where it is.
Late(j) ==
  /\ latePaints[j] <= 1
  /\ latePaints[j] > 0 => j \in cancelled /\ pc[j] \in {"delay", "unwound"}
  /\ lateCalls[j] <= 3
  /\ lateCalls[j] > 0 => /\ j \in cancelled
                         /\ pc[j] \in {"emit", "finish"} \union InNative \union Ended
  /\ lateCalls[j] > 1 => pc[j] # "start"
  /\ lateCalls[j] > 2 => pc[j] \notin {"loop", "emit"}

\* The loop of job j stands inside its reply, and at a bubble below its question.
Placed(j) ==
  /\ pc[j] \in Painting => left[j] <= replyLen[j]
  /\ pc[j] \in {"index", "paint", "delay"} => left[j] > 0
  /\ pc[j] = "paint" => index[j] \in (2 * j)..Len(bubbles)

\* How much of the reply of job j can have been shown.
Progress(j) == IF pc[j] \in Painting THEN replyLen[j] - left[j] ELSE replyLen[j]

\* No bubble shows more than that, and none stands above its question.
Shown ==
  \A i \in 1..Len(bubbles), k \in Job :
    bubbles[i].job = k =>
      /\ bubbles[i].len <= Progress(k)
      /\ bubbles[i].isUser \/ 2 * k <= i

\* The inductive invariant.
ChatInv ==
  /\ TypeOK
  /\ Turns
  /\ Known
  /\ Flag
  /\ \A j \in Job : Late(j) /\ Placed(j)
  /\ Shown

\* How many characters of its reply job j has painted, or stands at.
Seen(j) == CASE pc[j] \in {"check", "index", "paint"} -> replyLen[j] - left[j]
             [] pc[j] = "delay" -> replyLen[j] - left[j] + 1
             [] OTHER -> replyLen[j]

\* What a bubble looks like then.
Text(j, n) == IF n = 0 THEN ReplyBubble(0, 0) ELSE ReplyBubble(j, n - 1)

\* Only the current job lives, and then the main thread is not sending.
Alone == \A j \in Live : j = current /\ (ui = "cancel" \/ (ui = "idle" /\ isGenerating))

\* Queries and replies alternate.
Alternate ==
  \A i \in 1..Len(bubbles) :
    /\ bubbles[i].isUser <=> (i % 2 = 1)
    /\ bubbles[i].job \in {0, (i + 1) \div 2}

\* Each job paints its own bubble, character by character.
Written ==
  ui # "cancel" =>
    \A j \in Launched :
      pc[j] \notin {"failed", "unwound"} => bubbles[2 * j] = Text(j, Seen(j))

\* The message being sent: what is stopped is a job, and what is launched has
\* its empty bubble and the flag.
Sending ==
  /\ ui = "cancel" => current # 0
  /\ ui = "launch" => isGenerating
  /\ ui \in {"setFlag", "launch"} => bubbles[Len(bubbles)] = ReplyBubble(0, 0)

\* What holds as long as nothing was stopped.
Undisturbed ==
  /\ Alone
  /\ Alternate
  /\ \A j \in Job : pc[j] = "paint" => index[j] = 2 * j
  /\ Written
  /\ Sending

\* ChatInv with Undisturbed.
TurnInv ==
  /\ ChatInv
  /\ \A j \in Job : pc[j] = "none" => replyLen[j] = 0
  /\ cancelled = {} => Undisturbed

-----------------------------------------------------------------------------

LEMMA NextIs ==
  ASSUME NEW n \in Nat, Launched = 1..n
  PROVE  NextJob = n + 1
<1>1. Cardinality(1..n) = n
  BY FS_Interval
<1> QED
  BY <1>1 DEF NextJob

LEMMA ChatInit == Init => ChatInv
<1> SUFFICES ASSUME Init PROVE ChatInv
  OBVIOUS
<1>1. TypeOK
  <2>1. bubbles \in Seq(BubbleType)
    BY EmptySeq DEF Init
  <2>2. pc \in [Job -> Steps]
    BY DEF Init, Steps
  <2>3. 0 \in 0..MaxPieces /\ current \in 0..MaxJobs
    BY ChatAssumption DEF Init
  <2>4. pieces \in [Job -> 0..MaxPieces]
    BY <2>3 DEF Init
  <2>5. {replyLen, left, index, latePaints, lateCalls} \subseteq [Job -> Nat]
    BY DEF Init
  <2> QED
    BY <2>1, <2>2, <2>3, <2>4, <2>5 DEF Init, TypeOK
<1>2. Turns
  <2>1. Launched = 1..0
    BY DEF Init, Launched
  <2>2. current = 0 /\ Len(bubbles) = 2 * 0 + Added /\ ~(Added > 0)
    BY DEF Init, Added
  <2> QED
    BY <2>1, <2>2, ChatAssumption DEF Turns
<1>3. Known /\ Flag
  BY DEF Init, Known, Flag, FlagHasJob
<1>4. \A j \in Job : Late(j) /\ Placed(j)
  BY DEF Init, Late, Placed, Painting
<1>5. Shown
  BY DEF Init, Shown
<1> QED
  BY <1>1, <1>2, <1>3, <1>4, <1>5 DEF ChatInv

-----------------------------------------------------------------------------
\* The jobs.

\* What every step of a job has in common.
LEMMA JobMoves ==
  ASSUME TypeOK, NEW j \in Job, JobStep(j)
  PROVE  /\ pc[j] \notin {"none"} \union Ended
         /\ pc'[j] \in Steps \ {"none"}
         /\ \A k \in Job \ {j} : pc'[k] = pc[k]
         /\ pc' \in [Job -> Steps]
         /\ UNCHANGED <<ui, current, cancelled>>
         /\ isGenerating' \in BOOLEAN
         /\ isGenerating' => isGenerating
         /\ isGenerating' = isGenerating \/ pc'[j] = "done"
         /\ pc'[j] = "unwound" => j \in cancelled
         /\ pc'[j] = "done" => ~isGenerating'
<1> USE DEF TypeOK, Goto, Call, Steps, InNative, Ended, chat
<1>1. CASE Begin(j)
  BY <1>1 DEF Begin
<1>2. CASE StartReturns(j)
  BY <1>2 DEF StartReturns
<1>3. CASE \E n \in PieceLens : PieceReturns(j, n)
  BY <1>3 DEF PieceReturns
<1>4. CASE EogReturns(j)
  BY <1>4 DEF EogReturns
<1>5. CASE LoopThrows(j)
  BY <1>5 DEF LoopThrows
<1>6. CASE Emit(j)
  BY <1>6 DEF Emit
<1>7. CASE Check(j)
  BY <1>7 DEF Check, NextPiece, NextCharacter
<1>8. CASE Paint(j)
  BY <1>8 DEF Paint, PaintPrefix
<1>9. CASE Delay(j)
  BY <1>9 DEF Delay
<1>10. CASE StopReturns(j)
  BY <1>10 DEF StopReturns
<1>11. CASE Finish(j)
  BY <1>11 DEF Finish
<1>12. CASE Dispatch(j)
  BY <1>12 DEF Dispatch
<1>13. CASE ReadIndex(j)
  BY <1>13 DEF ReadIndex
<1> QED
  BY <1>1, <1>2, <1>3, <1>4, <1>5, <1>6, <1>7, <1>8, <1>9, <1>10, <1>11, <1>12,
     <1>13 DEF JobStep

\* Steps other than painting leave the bubbles alone.
LEMMA JobBubbles ==
  ASSUME TypeOK, NEW j \in Job, Placed(j), JobStep(j)
  PROVE  /\ bubbles' \in Seq(BubbleType)
         /\ Len(bubbles') = Len(bubbles)
         /\ \A i \in 1..Len(bubbles) :
              \/ bubbles'[i] = bubbles[i]
              \/ /\ pc[j] = "paint" /\ i = index[j] /\ pc'[j] = "delay"
                 /\ bubbles'[i] = ReplyBubble(j, replyLen[j] - left[j])
<1>1. CASE Paint(j)
  <2> DEFINE b == ReplyBubble(j, replyLen[j] - left[j])
  <2>1. index[j] \in 1..Len(bubbles)
    <3>1. bubbles \in Seq(BubbleType) /\ Len(bubbles) \in Nat
      BY DEF TypeOK
    <3>2. j \in Nat /\ j >= 1
      BY ChatAssumption DEF Job
    <3> QED
      BY <1>1, <3>1, <3>2 DEF Paint, PaintPrefix, Placed
  <2>2. b \in BubbleType
    <3>1. replyLen[j] \in Nat /\ left[j] \in Nat /\ left[j] <= replyLen[j]
      BY <1>1 DEF Paint, PaintPrefix, Placed, Painting, TypeOK
    <3>2. replyLen[j] - left[j] \in Nat
      BY <3>1
    <3>3. j \in 0..MaxJobs
      BY ChatAssumption DEF Job
    <3> QED
      BY <3>2, <3>3 DEF ReplyBubble, BubbleType
  <2>3. bubbles' = [bubbles EXCEPT ![index[j]] = b] /\ pc[j] = "paint" /\ pc'[j] = "delay"
    BY <1>1 DEF Paint, PaintPrefix, TypeOK
  <2>4. bubbles \in Seq(BubbleType)
    BY DEF TypeOK
  <2> HIDE DEF b
  <2>5. /\ bubbles' \in Seq(BubbleType)
        /\ Len(bubbles') = Len(bubbles)
        /\ \A i \in 1..Len(bubbles) : bubbles'[i] = IF i = index[j] THEN b ELSE bubbles[i]
    BY <2>1, <2>2, <2>3, <2>4, ExceptSeq
  <2> QED
    BY <2>3, <2>5 DEF b
<1>2. CASE UNCHANGED bubbles
  BY <1>2 DEF TypeOK
<1>3. Paint(j) \/ UNCHANGED bubbles
  BY DEF JobStep, Dispatch, Begin, StartReturns, PieceReturns, EogReturns, LoopThrows, Emit,
     Check, NextPiece, NextCharacter, ReadIndex, Delay, StopReturns, Finish, chat
<1> QED
  BY <1>1, <1>2, <1>3

\* The counters of the other jobs stay as they are.
LEMMA JobNumbers ==
  ASSUME TypeOK, NEW j \in Job, JobStep(j)
  PROVE  /\ pieces' \in [Job -> 0..MaxPieces]
         /\ {replyLen', left', index'} \subseteq [Job -> Int]
         /\ {latePaints', lateCalls'} \subseteq [Job -> Nat]
         /\ \A k \in Job \ {j} :
              /\ replyLen'[k] = replyLen[k] /\ left'[k] = left[k] /\ index'[k] = index[k]
              /\ latePaints'[k] = latePaints[k] /\ lateCalls'[k] = lateCalls[k]
<1> USE ChatAssumption DEF TypeOK, Goto, Call
<1>0. Len(bubbles) \in Nat
  OBVIOUS
<1>1. CASE Begin(j)
  BY <1>1 DEF Begin
<1>2. CASE StartReturns(j)
  BY <1>2 DEF StartReturns
<1>3. CASE \E n \in PieceLens : PieceReturns(j, n)
  BY <1>3 DEF PieceReturns
<1>4. CASE EogReturns(j)
  BY <1>4 DEF EogReturns
<1>5. CASE LoopThrows(j)
  BY <1>5 DEF LoopThrows
<1>6. CASE Emit(j)
  <2>1. /\ replyLen' \in [Job -> Int]
        /\ \A k \in Job \ {j} : replyLen'[k] = replyLen[k]
    BY <1>6 DEF Emit
  <2>2. UNCHANGED <<pieces, left, index, latePaints, lateCalls>>
    BY <1>6 DEF Emit
  <2> QED
    BY <2>1, <2>2
<1>7. CASE Check(j)
  <2>1. CASE NextPiece(j)
    BY <2>1 DEF NextPiece
  <2>2. CASE NextCharacter(j)
    BY <2>2 DEF NextCharacter
  <2> QED
    BY <1>7, <2>1, <2>2 DEF Check
<1>8. CASE Paint(j)
  BY <1>8 DEF Paint, PaintPrefix
<1>9. CASE Delay(j)
  <2>1. left' \in [Job -> Int] /\ \A k \in Job \ {j} : left'[k] = left[k]
    BY <1>9 DEF Delay
  <2>2. UNCHANGED <<pieces, replyLen, index, latePaints, lateCalls>>
    BY <1>9 DEF Delay
  <2> QED
    BY <2>1, <2>2
<1>10. CASE StopReturns(j)
  BY <1>10 DEF StopReturns
<1>11. CASE Finish(j)
  BY <1>11 DEF Finish
<1>12. CASE Dispatch(j)
  BY <1>12 DEF Dispatch
<1>13. CASE ReadIndex(j)
  <2>1. index' \in [Job -> Int] /\ \A k \in Job \ {j} : index'[k] = index[k]
    BY <1>0, <1>13 DEF ReadIndex
  <2>2. UNCHANGED <<pieces, replyLen, left, latePaints, lateCalls>>
    BY <1>13 DEF ReadIndex
  <2> QED
    BY <2>1, <2>2
<1> QED
  BY <1>1, <1>2, <1>3, <1>4, <1>5, <1>6, <1>7, <1>8, <1>9, <1>10, <1>11, <1>12,
     <1>13 DEF JobStep

LEMMA JobLate ==
  ASSUME TypeOK, NEW j \in Job, Late(j), Placed(j), JobStep(j)
  PROVE  Late(j)'
<1> USE DEF TypeOK, Goto, Call, Late, Ended, InNative
<1>1. CASE Begin(j)
  BY <1>1 DEF Begin
<1>2. CASE StartReturns(j)
  BY <1>2 DEF StartReturns
<1>3. CASE \E n \in PieceLens : PieceReturns(j, n)
  BY <1>3 DEF PieceReturns
<1>4. CASE EogReturns(j)
  BY <1>4 DEF EogReturns
<1>5. CASE LoopThrows(j)
  BY <1>5 DEF LoopThrows
<1>6. CASE Emit(j)
  BY <1>6 DEF Emit
<1>7. CASE Check(j)
  <2>1. CASE NextPiece(j)
    BY <1>7, <2>1 DEF Check, NextPiece
  <2>2. CASE NextCharacter(j)
    BY <1>7, <2>2 DEF Check, NextCharacter
  <2> QED
    BY <1>7, <2>1, <2>2 DEF Check
<1>8. CASE Paint(j)
  BY <1>8 DEF Paint, PaintPrefix
<1>9. CASE Delay(j)
  BY <1>9 DEF Delay
<1>10. CASE StopReturns(j)
  BY <1>10 DEF StopReturns
<1>11. CASE Finish(j)
  BY <1>11 DEF Finish
<1>12. CASE Dispatch(j)
  BY <1>12 DEF Dispatch
<1>13. CASE ReadIndex(j)
  BY <1>13 DEF ReadIndex
<1> QED
  BY <1>1, <1>2, <1>3, <1>4, <1>5, <1>6, <1>7, <1>8, <1>9, <1>10, <1>11, <1>12,
     <1>13 DEF JobStep

\* The loop stays inside the reply, and what was shown stays shown.
LEMMA JobPlaced ==
  ASSUME TypeOK, Turns, NEW j \in Job, Late(j), Placed(j), JobStep(j),
         Len(bubbles) >= 2 * j
  PROVE  /\ Placed(j)' /\ left'[j] \in Nat /\ replyLen'[j] \in Nat /\ index'[j] \in Nat
         /\ Progress(j) <= Progress(j)'
<1> USE ChatAssumption DEF TypeOK, Goto, Call, Placed, Progress, Painting
<1>0. Len(bubbles) \in Nat
  OBVIOUS
<1>1. CASE Begin(j)
  BY <1>1 DEF Begin
<1>2. CASE StartReturns(j)
  BY <1>2 DEF StartReturns
<1>3. CASE \E n \in PieceLens : PieceReturns(j, n)
  BY <1>3 DEF PieceReturns
<1>4. CASE EogReturns(j)
  BY <1>4 DEF EogReturns
<1>5. CASE LoopThrows(j)
  BY <1>5 DEF LoopThrows
<1>6. CASE Emit(j)
  BY <1>6 DEF Emit
<1>7. CASE Check(j)
  <2>1. CASE NextPiece(j)
    BY <1>7, <2>1 DEF Check, NextPiece
  <2>2. CASE left[j] # 0 /\ NextCharacter(j)
    <3>1. pc[j] = "check" /\ pc'[j] = "index" /\ left[j] > 0
      BY <1>7, <2>2 DEF Check, NextCharacter
    <3>2. UNCHANGED <<left, replyLen, index>>
      BY <2>2 DEF NextCharacter
    <3> QED
      BY <3>1, <3>2
  <2> QED
    BY <1>7, <2>1, <2>2 DEF Check
<1>8. CASE Paint(j)
  BY <1>8 DEF Paint, PaintPrefix
<1>9. CASE Delay(j)
  BY <1>9 DEF Delay
<1>10. CASE StopReturns(j)
  BY <1>10 DEF StopReturns
<1>11. CASE Finish(j)
  BY <1>11 DEF Finish
<1>12. CASE Dispatch(j)
  BY <1>12 DEF Dispatch
<1>13. CASE ReadIndex(j)
  <2>1. pc[j] = "index" /\ pc'[j] = "paint" /\ index'[j] = Len(bubbles)
    BY <1>13 DEF ReadIndex
  <2>2. UNCHANGED <<left, replyLen, bubbles>>
    BY <1>13 DEF ReadIndex, chat
  <2>3. index'[j] \in (2 * j)..Len(bubbles)
    BY <1>0, <2>1 DEF Job
  <2> QED
    BY <1>0, <2>1, <2>2, <2>3
<1> QED
  BY <1>1, <1>2, <1>3, <1>4, <1>5, <1>6, <1>7, <1>8, <1>9, <1>10, <1>11, <1>12,
     <1>13 DEF JobStep


LEMMA Below ==
  ASSUME Turns, Len(bubbles) \in Nat, NEW j \in Job, j \in Launched
  PROVE  2 * j <= Len(bubbles)
<1>1. PICK n \in 0..MaxJobs : Launched = 1..n /\ Len(bubbles) = 2 * n + Added
  BY DEF Turns
<1>2. Added \in {0, 1, 2}
  BY DEF Added
<1>3. j \in Nat /\ n \in Nat /\ j <= n
  BY <1>1, ChatAssumption DEF Job
<1> QED
  BY <1>1, <1>2, <1>3

LEMMA JobInv ==
  ASSUME ChatInv, NEW j \in Job, JobStep(j)
  PROVE  ChatInv'
<1>1. TypeOK /\ Turns /\ Known /\ Flag /\ Late(j) /\ Placed(j) /\ Shown
  BY DEF ChatInv
<1>2. /\ pc[j] \notin {"none"} \union Ended
      /\ pc'[j] \in Steps \ {"none"}
      /\ \A k \in Job \ {j} : pc'[k] = pc[k]
      /\ pc' \in [Job -> Steps]
      /\ UNCHANGED <<ui, current, cancelled>>
      /\ isGenerating' \in BOOLEAN
      /\ isGenerating' => isGenerating
      /\ isGenerating' = isGenerating \/ pc'[j] = "done"
      /\ pc'[j] = "unwound" => j \in cancelled
      /\ pc'[j] = "done" => ~isGenerating'
  BY <1>1, JobMoves
<1>3. /\ bubbles' \in Seq(BubbleType)
      /\ Len(bubbles') = Len(bubbles)
      /\ \A i \in 1..Len(bubbles) :
           \/ bubbles'[i] = bubbles[i]
           \/ /\ pc[j] = "paint" /\ i = index[j] /\ pc'[j] = "delay"
              /\ bubbles'[i] = ReplyBubble(j, replyLen[j] - left[j])
  BY <1>1, JobBubbles
<1>4. /\ pieces' \in [Job -> 0..MaxPieces]
      /\ {replyLen', left', index'} \subseteq [Job -> Int]
      /\ {latePaints', lateCalls'} \subseteq [Job -> Nat]
      /\ \A k \in Job \ {j} :
           /\ replyLen'[k] = replyLen[k] /\ left'[k] = left[k] /\ index'[k] = index[k]
           /\ latePaints'[k] = latePaints[k] /\ lateCalls'[k] = lateCalls[k]
  BY <1>1, JobNumbers
<1>5. bubbles \in Seq(BubbleType) /\ Len(bubbles) \in Nat
  BY <1>1 DEF TypeOK
<1>6. j \in Launched
  BY <1>2 DEF Launched
<1>7. /\ Placed(j)' /\ left'[j] \in Nat /\ replyLen'[j] \in Nat /\ index'[j] \in Nat
      /\ Progress(j) <= Progress(j)'
  BY <1>1, <1>5, <1>6, Below, JobPlaced
<1>8. TypeOK'
  <2>1. {replyLen', left', index'} \subseteq [Job -> Nat]
    <3>1. \A k \in Job : replyLen'[k] \in Nat /\ left'[k] \in Nat /\ index'[k] \in Nat
      BY <1>1, <1>4, <1>7 DEF TypeOK
    <3> QED
      BY <1>4, <3>1
  <2> QED
    BY <1>1, <1>2, <1>3, <1>4, <2>1 DEF TypeOK
<1>9. Launched' = Launched
  BY <1>2 DEF Launched
<1>10. Turns'
  <2>1. Added' = Added
    BY <1>2 DEF Added
  <2> QED
    BY <1>1, <1>2, <1>3, <1>9, <2>1 DEF Turns
<1>11. Known'
  BY <1>1, <1>2, <1>9 DEF Known
<1>12. Flag'
  BY <1>1, <1>2 DEF Flag, FlagHasJob, Known, Launched
<1>13. \A k \in Job : Late(k)' /\ Placed(k)'
  <2> TAKE k \in Job
  <2>1. CASE k = j
    BY <1>1, <1>7, <2>1, JobLate
  <2>2. CASE k # j
    <3>1. Late(k) /\ Placed(k)
      BY DEF ChatInv
    <3> QED
      BY <1>2, <1>3, <1>4, <2>2, <3>1 DEF Late, Placed
  <2> QED
    BY <2>1, <2>2
<1>14. \A k \in Job : Progress(k) <= Progress(k)'
  <2> TAKE k \in Job
  <2>1. CASE k = j
    BY <1>7, <2>1
  <2>2. CASE k # j
    <3>1. pc'[k] = pc[k] /\ replyLen'[k] = replyLen[k] /\ left'[k] = left[k]
      BY <1>2, <1>4, <2>2
    <3>2. Progress(k)' = Progress(k)
      BY <3>1 DEF Progress
    <3>3. replyLen[k] \in Nat /\ left[k] \in Nat
      BY <1>1 DEF TypeOK
    <3>4. Progress(k) \in Int
      BY <3>3 DEF Progress
    <3> QED
      BY <3>2, <3>4
  <2> QED
    BY <2>1, <2>2
<1>15. Shown'
  <2> SUFFICES ASSUME NEW i \in 1..Len(bubbles), NEW k \in Job, bubbles'[i].job = k
               PROVE  bubbles'[i].len <= Progress(k)' /\ (bubbles'[i].isUser \/ 2 * k <= i)
    BY <1>3 DEF Shown
  <2>1. CASE bubbles'[i] = bubbles[i]
    <3>1. bubbles[i].len \in Nat
      <4>1. bubbles[i] \in BubbleType
        BY <1>5, ElementOfSeq
      <4> QED
        BY <4>1 DEF BubbleType
    <3>2. Progress(k) \in Int /\ Progress(k)' \in Int
      <4>1. replyLen[k] \in Nat /\ left[k] \in Nat
        BY <1>1 DEF TypeOK
      <4>2. replyLen'[k] \in Nat /\ left'[k] \in Nat
        BY <1>8 DEF TypeOK
      <4> QED
        BY <4>1, <4>2 DEF Progress
    <3>3. bubbles[i].len <= Progress(k) /\ (bubbles[i].isUser \/ 2 * k <= i)
      BY <1>1, <2>1 DEF Shown
    <3>4. Progress(k) <= Progress(k)'
      BY <1>14
    <3>5. bubbles[i].len <= Progress(k)'
      <4> DEFINE p == Progress(k)
                 q == Progress(k)'
      <4>1. p \in Int /\ q \in Int /\ bubbles[i].len <= p /\ p <= q
        BY <3>2, <3>3, <3>4
      <4> HIDE DEF p, q
      <4>2. bubbles[i].len <= q
        BY <3>1, <4>1
      <4> QED
        BY <4>2 DEF q
    <3> QED
      BY <2>1, <3>3, <3>5
  <2>2. CASE /\ pc[j] = "paint" /\ i = index[j] /\ pc'[j] = "delay"
             /\ bubbles'[i] = ReplyBubble(j, replyLen[j] - left[j])
    <3>1. k = j /\ bubbles'[i].len = replyLen[j] - left[j]
      BY <2>2 DEF ReplyBubble
    <3>2. 2 * j <= i
      BY <1>1, <2>2, <1>5, ChatAssumption DEF Placed, Job
    <3>3. replyLen[j] - left[j] = Progress(j)
      BY <2>2 DEF Progress, Painting
    <3> QED
      BY <1>7, <3>1, <3>2, <3>3
  <2> QED
    BY <1>3, <2>1, <2>2
<1> QED
  BY <1>8, <1>10, <1>11, <1>12, <1>13, <1>15 DEF ChatInv


-----------------------------------------------------------------------------
\* The main thread.

\* What the invariant says of the jobs lasts while they rest, whatever is added
\* below and whoever is cancelled.
LEMMA JobsRest ==
  ASSUME \A j \in Job : Late(j) /\ Placed(j), UNCHANGED <<jobs, history>>,
         cancelled \subseteq cancelled',
         Len(bubbles) \in Nat, Len(bubbles') \in Nat, Len(bubbles') >= Len(bubbles)
  PROVE  \A j \in Job : Late(j)' /\ Placed(j)'
<1> TAKE j \in Job
<1>1. Late(j)'
  BY DEF Late, jobs, history
<1>2. Placed(j)'
  <2>1. pc[j] = "paint" => index[j] \in (2 * j)..Len(bubbles')
    BY ChatAssumption DEF Placed, Job
  <2> QED
    BY <2>1 DEF Placed, jobs
<1> QED
  BY <1>1, <1>2

\* A bubble that is added shows nothing yet.
LEMMA ShownMore ==
  ASSUME TypeOK, Shown, \A k \in Job : Placed(k), UNCHANGED jobs, NEW b \in BubbleType,
         bubbles' = Append(bubbles, b), b.len = 0, b.isUser \/ b.job = 0
  PROVE  /\ bubbles' \in Seq(BubbleType)
         /\ Len(bubbles) \in Nat
         /\ Len(bubbles') = Len(bubbles) + 1
         /\ Shown'
<1>1. bubbles \in Seq(BubbleType) /\ Len(bubbles) \in Nat
  BY DEF TypeOK
<1>2. /\ bubbles' \in Seq(BubbleType)
      /\ Len(bubbles') = Len(bubbles) + 1
      /\ \A i \in 1..Len(bubbles) : bubbles'[i] = bubbles[i]
      /\ bubbles'[Len(bubbles) + 1] = b
  BY <1>1, AppendProperties
<1>3. \A k \in Job : Progress(k)' = Progress(k) /\ Progress(k) >= 0
  <2> TAKE k \in Job
  <2>1. replyLen[k] \in Nat /\ left[k] \in Nat
    BY DEF TypeOK
  <2>2. Placed(k)
    OBVIOUS
  <2> QED
    BY <2>1, <2>2 DEF Progress, Placed, jobs
<1>4. Shown'
  <2> SUFFICES ASSUME NEW i \in 1..Len(bubbles'), NEW k \in Job, bubbles'[i].job = k
               PROVE  bubbles'[i].len <= Progress(k)' /\ (bubbles'[i].isUser \/ 2 * k <= i)
    BY DEF Shown
  <2>1. CASE i \in 1..Len(bubbles)
    <3>1. bubbles'[i] = bubbles[i]
      BY <1>2, <2>1
    <3>2. bubbles[i].len <= Progress(k) /\ (bubbles[i].isUser \/ 2 * k <= i)
      BY <2>1, <3>1 DEF Shown
    <3> QED
      BY <1>3, <3>1, <3>2
  <2>2. CASE i = Len(bubbles) + 1
    <3>1. bubbles'[i].len = 0 /\ (bubbles'[i].isUser \/ bubbles'[i].job = 0)
      BY <1>2, <2>2
    <3>2. k # 0
      BY ChatAssumption DEF Job
    <3> QED
      BY <1>3, <3>1, <3>2
  <2> QED
    BY <1>1, <1>2, <2>1, <2>2
<1> QED
  BY <1>1, <1>2, <1>4

\* The jobs and the bubbles as they were.
LEMMA ShownStill ==
  ASSUME Shown, UNCHANGED <<jobs, bubbles>>
  PROVE  Shown'
BY DEF Shown, Progress, jobs

LEMMA StopInv ==
  ASSUME ChatInv, ClickStop
  PROVE  ChatInv'
<1>1. TypeOK /\ Turns /\ Known /\ Flag /\ Shown
  BY DEF ChatInv
<1>2. Len(bubbles) \in Nat
  BY <1>1 DEF TypeOK
<1>3. /\ UNCHANGED <<jobs, history, bubbles, current, cancelled>>
      /\ ui = "idle" /\ ui' = "cancel" /\ isGenerating' = FALSE
  BY DEF ClickStop
<1>4. TypeOK'
  BY <1>1, <1>3 DEF TypeOK, jobs, history
<1>5. Turns' /\ Known'
  BY <1>1, <1>3 DEF Turns, Added, Known, Launched, jobs
<1>6. Flag'
  BY <1>3 DEF Flag, FlagHasJob
<1>7. \A j \in Job : Late(j)' /\ Placed(j)'
  BY <1>2, <1>3, JobsRest DEF ChatInv
<1>8. Shown'
  BY <1>1, <1>3, ShownStill
<1> QED
  BY <1>4, <1>5, <1>6, <1>7, <1>8 DEF ChatInv

LEMMA CancelInv ==
  ASSUME ChatInv, CancelCurrent
  PROVE  ChatInv'
<1>1. TypeOK /\ Turns /\ Known /\ Flag /\ Shown
  BY DEF ChatInv
<1>2. Len(bubbles) \in Nat
  BY <1>1 DEF TypeOK
<1>3. /\ UNCHANGED <<jobs, history, bubbles, current, isGenerating>>
      /\ ui = "cancel" /\ ui' = "idle" /\ cancelled' = cancelled \union ({current} \ {0})
  BY DEF CancelCurrent, chat
<1>4. cancelled' \subseteq Launched /\ Launched \subseteq Job
  BY <1>1, <1>3 DEF Known, Launched
<1>5. TypeOK'
  BY <1>1, <1>3, <1>4 DEF TypeOK, jobs, history
<1>6. Turns' /\ Known'
  BY <1>1, <1>3, <1>4 DEF Turns, Added, Known, Launched, jobs
<1>7. Flag'
  BY <1>1, <1>3 DEF Flag, FlagHasJob
<1>8. \A j \in Job : Late(j)' /\ Placed(j)'
  BY <1>2, <1>3, JobsRest DEF ChatInv
<1>9. Shown'
  BY <1>1, <1>3, ShownStill
<1> QED
  BY <1>5, <1>6, <1>7, <1>8, <1>9 DEF ChatInv

LEMMA SendInv ==
  ASSUME ChatInv, ClickSend
  PROVE  ChatInv'
<1>1. TypeOK /\ Turns /\ Known /\ Flag /\ Shown
  BY DEF ChatInv
<1>2. PICK n \in 0..MaxJobs : Launched = 1..n /\ current = n /\ Len(bubbles) = 2 * n + Added
  BY <1>1 DEF Turns
<1>3. n \in Nat /\ NextJob = n + 1
  BY <1>2, NextIs, ChatAssumption
<1>4. /\ UNCHANGED <<jobs, history, current, cancelled, isGenerating>>
      /\ ui = "idle" /\ ui' = "addReply" /\ ~isGenerating
      /\ bubbles' = Append(bubbles, UserBubble(n + 1))
      /\ n + 1 \in Job
  BY <1>3 DEF ClickSend
<1>5. UserBubble(n + 1) \in BubbleType
  BY <1>4, ChatAssumption DEF UserBubble, BubbleType, Job
<1>6. UserBubble(n + 1).len = 0 /\ UserBubble(n + 1).isUser
  BY DEF UserBubble
<1>7. /\ bubbles' \in Seq(BubbleType)
      /\ Len(bubbles) \in Nat
      /\ Len(bubbles') = Len(bubbles) + 1
      /\ Shown'
  BY <1>1, <1>4, <1>5, <1>6, ShownMore DEF ChatInv
<1>8. TypeOK'
  BY <1>1, <1>4, <1>7 DEF TypeOK, jobs, history
<1>9. Launched' = Launched
  BY <1>4 DEF Launched, jobs
<1>10. Turns'
  <2>1. Added = 0 /\ Added' = 1
    BY <1>4 DEF Added
  <2>2. n < MaxJobs
    BY <1>3, <1>4, ChatAssumption DEF Job
  <2>3. Len(bubbles') = 2 * n + Added'
    BY <1>2, <1>3, <1>7, <2>1
  <2> QED
    BY <1>2, <1>4, <1>9, <2>2, <2>3 DEF Turns
<1>11. Known' /\ Flag'
  BY <1>1, <1>4, <1>9 DEF Known, Flag, FlagHasJob
<1>12. \A j \in Job : Late(j)' /\ Placed(j)'
  BY <1>4, <1>7, JobsRest DEF ChatInv
<1> QED
  BY <1>7, <1>8, <1>10, <1>11, <1>12 DEF ChatInv

LEMMA ReplyInv ==
  ASSUME ChatInv, AddReplyBubble
  PROVE  ChatInv'
<1>1. TypeOK /\ Turns /\ Known /\ Flag /\ Shown
  BY DEF ChatInv
<1>2. PICK n \in 0..MaxJobs : /\ Launched = 1..n
                              /\ current = n
                              /\ Len(bubbles) = 2 * n + Added
                              /\ Added > 0 => n < MaxJobs
  BY <1>1 DEF Turns
<1>3. /\ UNCHANGED <<jobs, history, current, cancelled, isGenerating>>
      /\ ui = "addReply" /\ ui' = "setFlag"
      /\ bubbles' = Append(bubbles, ReplyBubble(0, 0))
  BY DEF AddReplyBubble
<1>4. ReplyBubble(0, 0) \in BubbleType
  BY ChatAssumption DEF ReplyBubble, BubbleType
<1>5. ReplyBubble(0, 0).len = 0 /\ ReplyBubble(0, 0).job = 0
  BY DEF ReplyBubble
<1>6. /\ bubbles' \in Seq(BubbleType)
      /\ Len(bubbles) \in Nat
      /\ Len(bubbles') = Len(bubbles) + 1
      /\ Shown'
  BY <1>1, <1>3, <1>4, <1>5, ShownMore DEF ChatInv
<1>7. TypeOK'
  BY <1>1, <1>3, <1>6 DEF TypeOK, jobs, history
<1>8. Launched' = Launched
  BY <1>3 DEF Launched, jobs
<1>9. Turns'
  <2>1. Added = 1 /\ Added' = 2
    BY <1>3 DEF Added
  <2>2. n < MaxJobs
    BY <1>2, <2>1
  <2>3. Len(bubbles') = 2 * n + Added'
    BY <1>2, <1>6, <2>1, ChatAssumption
  <2> QED
    BY <1>2, <1>3, <1>8, <2>2, <2>3 DEF Turns
<1>10. Known' /\ Flag'
  BY <1>1, <1>3, <1>8 DEF Known, Flag, FlagHasJob
<1>11. \A j \in Job : Late(j)' /\ Placed(j)'
  BY <1>3, <1>6, JobsRest DEF ChatInv
<1> QED
  BY <1>6, <1>7, <1>9, <1>10, <1>11 DEF ChatInv

LEMMA RaiseInv ==
  ASSUME ChatInv, SetFlag
  PROVE  ChatInv'
<1>1. TypeOK /\ Turns /\ Known /\ Flag /\ Shown
  BY DEF ChatInv
<1>2. Len(bubbles) \in Nat
  BY <1>1 DEF TypeOK
<1>3. /\ UNCHANGED <<jobs, history, bubbles, current, cancelled>>
      /\ ui = "setFlag" /\ ui' = "launch" /\ isGenerating' = TRUE
  BY DEF SetFlag
<1>4. TypeOK'
  BY <1>1, <1>3 DEF TypeOK, jobs, history
<1>5. Added' = Added /\ Launched' = Launched
  BY <1>3 DEF Added, Launched, jobs
<1>6. Turns' /\ Known' /\ Flag'
  BY <1>1, <1>3, <1>5 DEF Turns, Known, Flag, FlagHasJob
<1>7. \A j \in Job : Late(j)' /\ Placed(j)'
  BY <1>2, <1>3, JobsRest DEF ChatInv
<1>8. Shown'
  BY <1>1, <1>3, ShownStill
<1> QED
  BY <1>4, <1>6, <1>7, <1>8 DEF ChatInv

LEMMA LaunchInv ==
  ASSUME ChatInv, Launch
  PROVE  ChatInv'
<1>1. TypeOK /\ Turns /\ Known /\ Flag /\ Shown
  BY DEF ChatInv
<1>2. PICK n \in 0..MaxJobs : /\ Launched = 1..n
                              /\ current = n
                              /\ Len(bubbles) = 2 * n + Added
                              /\ Added > 0 => n < MaxJobs
  BY <1>1 DEF Turns
<1>3. n \in Nat /\ NextJob = n + 1
  BY <1>2, NextIs, ChatAssumption
<1>4. /\ UNCHANGED <<bubbles, isGenerating, cancelled, pieces, replyLen, left, index>>
      /\ UNCHANGED history
      /\ ui = "launch" /\ ui' = "idle"
      /\ pc' = [pc EXCEPT ![n + 1] = "scheduled"] /\ current' = n + 1
  BY <1>3 DEF Launch, chat
<1>5. Added = 2 /\ Added' = 0
  BY <1>4 DEF Added
<1>6. n + 1 \in Job /\ n + 1 \in 1..MaxJobs /\ n + 1 \notin Launched
  BY <1>2, <1>3, <1>5, ChatAssumption DEF Job
<1>7. pc[n + 1] = "none"
  BY <1>6 DEF Launched
<1>8. /\ pc' \in [Job -> Steps] /\ pc'[n + 1] = "scheduled"
      /\ \A k \in Job \ {n + 1} : pc'[k] = pc[k]
  BY <1>1, <1>4, <1>6 DEF TypeOK, Steps
<1>9. current' \in 0..MaxJobs
  BY <1>4, <1>6
<1>10. TypeOK'
  BY <1>1, <1>4, <1>8, <1>9 DEF TypeOK, history
<1>11. Launched' = Launched \union {n + 1}
  BY <1>6, <1>8 DEF Launched
<1>12. Turns'
  <2>1. Launched' = 1..(n + 1)
    BY <1>2, <1>3, <1>11
  <2>2. Len(bubbles') = 2 * (n + 1) + Added'
    BY <1>2, <1>3, <1>4, <1>5
  <2>3. n + 1 \in 0..MaxJobs
    BY <1>6
  <2> QED
    BY <1>4, <1>5, <2>1, <2>2, <2>3 DEF Turns
<1>13. n + 1 \notin cancelled
  BY <1>1, <1>6 DEF Known
<1>14. Known'
  BY <1>1, <1>4, <1>11 DEF Known
<1>15. Flag'
  BY <1>3, <1>4, <1>8, <1>13 DEF Flag, FlagHasJob
<1>16. \A k \in Job : Late(k)' /\ Placed(k)'
  <2> TAKE k \in Job
  <2>1. Late(k) /\ Placed(k)
    BY DEF ChatInv
  <2>2. CASE k = n + 1
    BY <1>4, <1>7, <1>8, <2>1, <2>2 DEF Late, Placed, Painting, Ended, InNative, history
  <2>3. CASE k # n + 1
    BY <1>4, <1>8, <2>1, <2>3 DEF Late, Placed, history
  <2> QED
    BY <2>2, <2>3
<1>17. \A k \in Job : Progress(k)' = Progress(k)
  BY <1>4, <1>7, <1>8 DEF Progress, Painting
<1>18. Shown'
  BY <1>1, <1>4, <1>17 DEF Shown
<1> QED
  BY <1>10, <1>12, <1>14, <1>15, <1>16, <1>18 DEF ChatInv

-----------------------------------------------------------------------------

LEMMA ChatStutter == ChatInv /\ UNCHANGED vars => ChatInv'
<1> SUFFICES ASSUME ChatInv, UNCHANGED vars PROVE ChatInv'
  OBVIOUS
<1>1. /\ UNCHANGED <<ui, bubbles, isGenerating, current, cancelled, pc, pieces>>
      /\ UNCHANGED <<replyLen, left, index, latePaints, lateCalls, jobs>>
  BY DEF vars, chat, jobs, history
<1>2. TypeOK' /\ Turns' /\ Known' /\ Flag'
  BY <1>1 DEF ChatInv, TypeOK, Turns, Added, Known, Flag, FlagHasJob, Launched
<1>3. \A j \in Job : Late(j)' /\ Placed(j)'
  BY <1>1 DEF ChatInv, Late, Placed
<1>4. Shown'
  BY <1>1, ShownStill DEF ChatInv
<1> QED
  BY <1>2, <1>3, <1>4 DEF ChatInv

LEMMA ChatStep == ChatInv /\ [Next]_vars => ChatInv'
<1> SUFFICES ASSUME ChatInv, [Next]_vars PROVE ChatInv'
  OBVIOUS
<1>1. CASE ClickStop
  BY <1>1, StopInv
<1>2. CASE ClickSend
  BY <1>2, SendInv
<1>3. CASE MainStep
  BY <1>3, CancelInv, ReplyInv, RaiseInv, LaunchInv DEF MainStep
<1>4. CASE \E j \in Job : JobStep(j)
  BY <1>4, JobInv
<1>5. CASE Rest \/ UNCHANGED vars
  BY <1>5, ChatStutter DEF Rest
<1> QED
  BY <1>1, <1>2, <1>3, <1>4, <1>5 DEF Next

LEMMA ChatAlways == Spec => []ChatInv
BY ChatInit, ChatStep, PTL DEF Spec

\* The types of the screen's state, whatever is sent and stopped.
THEOREM TypeOKAlways == Spec => []TypeOK
BY ChatAlways, PTL DEF ChatInv

\* The Stop button never stands for a reply that was stopped or has come to its
\* end, over any number of messages.
THEOREM FlagHasJobAlways == Spec => []FlagHasJob
BY ChatAlways, PTL DEF ChatInv, Flag

\* A stopped job paints at most once more, whatever the length of its reply.
THEOREM StopsPaintingAlways == Spec => []StopsPainting
<1>1. ChatInv => StopsPainting
  BY DEF ChatInv, Late, StopsPainting
<1> QED
  BY <1>1, ChatAlways, PTL

\* A stopped job enters native code at most three times more, wherever it stood:
\* three times only if the stop came before its first call.
THEOREM StopsCallingAlways == Spec => []StopsCalling
<1>1. ChatInv => StopsCalling
  BY DEF ChatInv, Late, StopsCalling
<1> QED
  BY <1>1, ChatAlways, PTL

\* The text of a reply is never taken back, over any number of jobs at work in
\* the same list of bubbles.
THEOREM TextGrowsAlways == Spec => TextGrows
<1> DEFINE Grows == \A i \in 1..Len(bubbles) :
                      (bubbles'[i].job = bubbles[i].job) => bubbles'[i].len >= bubbles[i].len
<1>1. ChatInv /\ [Next]_vars => [Grows]_vars
  <2> SUFFICES ASSUME ChatInv, [Next]_vars,
                      NEW i \in 1..Len(bubbles), bubbles'[i].job = bubbles[i].job
               PROVE  bubbles'[i].len >= bubbles[i].len
    OBVIOUS
  <2>1. bubbles \in Seq(BubbleType) /\ Len(bubbles) \in Nat
    BY DEF ChatInv, TypeOK
  <2>2. bubbles[i] \in BubbleType
    BY <2>1, ElementOfSeq
  <2>3. bubbles[i].len \in Nat
    BY <2>2 DEF BubbleType
  <2>4. CASE bubbles'[i] = bubbles[i]
    BY <2>3, <2>4
  <2>5. CASE \E j \in Job : JobStep(j)
    <3>1. PICK j \in Job : JobStep(j)
      BY <2>5
    <3>2. TypeOK /\ Placed(j) /\ Shown
      BY DEF ChatInv
    <3>3. \/ bubbles'[i] = bubbles[i]
          \/ pc[j] = "paint" /\ bubbles'[i] = ReplyBubble(j, replyLen[j] - left[j])
      BY <3>1, <3>2, JobBubbles
    <3>4. CASE pc[j] = "paint" /\ bubbles'[i] = ReplyBubble(j, replyLen[j] - left[j])
      <4>1. bubbles'[i].job = j /\ bubbles'[i].len = replyLen[j] - left[j]
        BY <3>4 DEF ReplyBubble
      <4>2. bubbles[i].len <= Progress(j)
        BY <3>2, <4>1 DEF Shown
      <4>3. Progress(j) = replyLen[j] - left[j] /\ replyLen[j] \in Nat /\ left[j] \in Nat
        BY <3>2, <3>4 DEF Progress, Painting, TypeOK
      <4> QED
        BY <2>3, <4>1, <4>2, <4>3
    <3> QED
      BY <2>4, <3>3, <3>4
  <2>6. CASE \E b \in BubbleType : bubbles' = Append(bubbles, b)
    <3>1. bubbles'[i] = bubbles[i]
      BY <2>1, <2>6, AppendProperties
    <3> QED
      BY <2>4, <3>1
  <2>7. CASE ClickSend
    <3>1. UserBubble(NextJob) \in BubbleType
      BY <2>7, ChatAssumption DEF ClickSend, UserBubble, BubbleType, Job
    <3> QED
      BY <2>6, <2>7, <3>1 DEF ClickSend
  <2>8. CASE AddReplyBubble
    <3>1. ReplyBubble(0, 0) \in BubbleType
      BY ChatAssumption DEF ReplyBubble, BubbleType
    <3> QED
      BY <2>6, <2>8, <3>1 DEF AddReplyBubble
  <2>9. CASE UNCHANGED bubbles
    BY <2>4, <2>9
  <2> QED
    BY <2>5, <2>7, <2>8, <2>9
    DEF Next, MainStep, ClickStop, CancelCurrent, SetFlag, Launch, Rest, vars, chat
<1> QED
  BY <1>1, ChatAlways, PTL DEF Spec, TextGrows

-----------------------------------------------------------------------------
\* Text of stopped jobs.

\* What holds while no stopped job has taken the flag down: only the current job
\* runs unstopped, and never while the main thread sends; it paints its own
\* bubble; a bubble astray was painted after the stop, and is the only one.
Steady ==
  /\ \A j \in Live \ cancelled : j = current /\ (ui = "cancel" \/ (ui = "idle" /\ isGenerating))
  /\ ui = "launch" => isGenerating
  /\ \A j \in Job \ cancelled : pc[j] = "paint" => index[j] = 2 * j
  /\ \A j \in Job : \A h, i \in Astray(j) : latePaints[j] > 0 /\ h = i

\* ChatInv with Steady.
AstrayInv == ChatInv /\ (~FlagTakenDown => Steady)

\* Paints are counted after the stop, at the place last read.
LEMMA JobPaints ==
  ASSUME TypeOK, NEW j \in Job, JobStep(j)
  PROVE  /\ pc[j] = "paint" => latePaints'[j] = latePaints[j] + (IF j \in cancelled THEN 1 ELSE 0)
         /\ pc[j] # "paint" => UNCHANGED latePaints
         /\ pc'[j] = "paint" => index'[j] = Len(bubbles)
<1> USE DEF TypeOK, Goto, Call, chat
<1>1. CASE Paint(j)
  BY <1>1 DEF Paint, PaintPrefix
<1>2. CASE ReadIndex(j)
  BY <1>2 DEF ReadIndex
<1>3. CASE Check(j)
  BY <1>3 DEF Check, NextPiece, NextCharacter
<1>4. CASE \/ Dispatch(j) \/ Begin(j) \/ StartReturns(j)
           \/ \E n \in PieceLens : PieceReturns(j, n)
           \/ EogReturns(j) \/ LoopThrows(j)
  BY <1>4 DEF Dispatch, Begin, StartReturns, PieceReturns, EogReturns, LoopThrows
<1>5. CASE Emit(j) \/ Delay(j) \/ StopReturns(j) \/ Finish(j)
  BY <1>5 DEF Emit, Delay, StopReturns, Finish
<1> QED
  BY <1>1, <1>2, <1>3, <1>4, <1>5 DEF JobStep

\* Adding an empty bubble or a query puts nothing astray.
LEMMA AstrayMore ==
  ASSUME TypeOK, NEW b \in BubbleType, bubbles' = Append(bubbles, b), b.isUser \/ b.job = 0
  PROVE  \A j \in Job : Astray(j)' = Astray(j)
<1>1. bubbles \in Seq(BubbleType) /\ Len(bubbles) \in Nat
  BY DEF TypeOK
<1>2. /\ Len(bubbles') = Len(bubbles) + 1
      /\ \A i \in 1..Len(bubbles) : bubbles'[i] = bubbles[i]
      /\ bubbles'[Len(bubbles) + 1] = b
  BY <1>1, AppendProperties
<1> SUFFICES ASSUME NEW j \in Job PROVE Astray(j)' = Astray(j)
  OBVIOUS
<1>3. j # 0
  BY ChatAssumption DEF Job
<1>4. \A i \in 1..Len(bubbles') : i \in 1..Len(bubbles) \/ i = Len(bubbles) + 1
  BY <1>1, <1>2
<1>5. \A i \in 1..Len(bubbles) : i \in 1..Len(bubbles')
  BY <1>1, <1>2
<1>6. \A i \in Astray(j)' : i \in Astray(j)
  BY <1>2, <1>3, <1>4 DEF Astray
<1>7. \A i \in Astray(j) : i \in Astray(j)'
  BY <1>2, <1>5 DEF Astray
<1> QED
  BY <1>6, <1>7

LEMMA AstrayInit == Init => AstrayInv
<1>1. Init => Steady
  BY DEF Init, Steady, Astray, Live, Launched
<1> QED
  BY <1>1, ChatInit DEF AstrayInv

LEMMA AstrayJob ==
  ASSUME AstrayInv, NEW j \in Job, JobStep(j)
  PROVE  AstrayInv'
<1>1. TypeOK /\ Turns /\ Late(j) /\ Placed(j) /\ ChatInv'
  BY JobInv DEF AstrayInv, ChatInv
<1>2. /\ pc[j] \notin {"none"} \union Ended
      /\ pc'[j] \in Steps \ {"none"}
      /\ \A k \in Job \ {j} : pc'[k] = pc[k]
      /\ UNCHANGED <<ui, current, cancelled>>
      /\ isGenerating' = isGenerating \/ pc'[j] = "done"
  BY <1>1, JobMoves
<1>3. \A k \in Job \ {j} : index'[k] = index[k] /\ latePaints'[k] = latePaints[k]
  BY <1>1, JobNumbers
<1>4. /\ pc[j] = "paint" => latePaints'[j] = latePaints[j] + (IF j \in cancelled THEN 1 ELSE 0)
      /\ pc[j] # "paint" => UNCHANGED latePaints
      /\ pc'[j] = "paint" => index'[j] = Len(bubbles)
  BY <1>1, JobPaints
<1>5. /\ Len(bubbles') = Len(bubbles)
      /\ \A i \in 1..Len(bubbles) :
           \/ bubbles'[i] = bubbles[i]
           \/ /\ pc[j] = "paint" /\ i = index[j] /\ pc'[j] = "delay"
              /\ bubbles'[i] = ReplyBubble(j, replyLen[j] - left[j])
  BY <1>1, JobBubbles
<1>6. SUFFICES ASSUME ~FlagTakenDown' PROVE Steady'
  BY <1>1 DEF AstrayInv
<1>7. ~FlagTakenDown /\ (j \in cancelled => pc'[j] # "done")
  <2>1. \A k \in cancelled : pc'[k] # "done"
    BY <1>2, <1>6 DEF FlagTakenDown
  <2>2. \A k \in cancelled : pc[k] # "done"
    <3>1. \A k \in cancelled : k \in Job
      BY <1>1 DEF TypeOK
    <3> QED
      BY <1>2, <2>1, <3>1 DEF Ended
  <2> QED
    BY <2>1, <2>2 DEF FlagTakenDown
<1>8. Steady
  BY <1>7 DEF AstrayInv
<1>9. j \in Launched /\ j \in Live /\ Launched' = Launched /\ Live' \subseteq Live
  BY <1>2 DEF Live, Launched
<1>10. \A k \in Live' \ cancelled' :
         k = current' /\ (ui' = "cancel" \/ (ui' = "idle" /\ isGenerating'))
  <2> SUFFICES ASSUME NEW k \in Live', k \notin cancelled
               PROVE  k = current /\ (ui = "cancel" \/ (ui = "idle" /\ isGenerating'))
    BY <1>2
  <2>1. k = current /\ (ui = "cancel" \/ (ui = "idle" /\ isGenerating))
    BY <1>8, <1>9 DEF Steady
  <2>2. CASE pc'[j] = "done"
    <3>1. j = current
      BY <1>7, <1>8, <1>9, <2>2 DEF Steady
    <3> QED
      BY <2>1, <2>2, <3>1 DEF Live, Ended
  <2> QED
    BY <1>2, <2>1, <2>2
<1>11. ui' = "launch" => isGenerating'
  <2>1. CASE pc'[j] = "done"
    BY <1>2, <1>7, <1>8, <1>9, <2>1 DEF Steady
  <2> QED
    BY <1>2, <1>8, <2>1 DEF Steady
<1>12. \A k \in Job \ cancelled' : pc'[k] = "paint" => index'[k] = 2 * k
  <2> SUFFICES ASSUME NEW k \in Job, k \notin cancelled, pc'[k] = "paint"
               PROVE  index'[k] = 2 * k
    BY <1>2
  <2>1. CASE k = j
    <3>1. j = current /\ ui \in {"cancel", "idle"}
      BY <1>8, <1>9, <2>1 DEF Steady
    <3>2. Len(bubbles) = 2 * j
      <4>1. j \in Nat
        BY ChatAssumption DEF Job
      <4> QED
        BY <1>1, <3>1, <4>1 DEF Turns, Added
    <3> QED
      BY <1>4, <2>1, <3>2
  <2>2. CASE k # j
    BY <1>2, <1>3, <1>8, <2>2 DEF Steady
  <2> QED
    BY <2>1, <2>2
<1>13. \A k \in Job : \A h, i \in Astray(k)' : latePaints'[k] > 0 /\ h = i
  <2> SUFFICES ASSUME NEW k \in Job, NEW h \in Astray(k)', NEW i \in Astray(k)'
               PROVE  latePaints'[k] > 0 /\ h = i
    OBVIOUS
  <2>1. CASE h \in Astray(k) /\ i \in Astray(k)
    <3>1. latePaints[k] > 0 /\ h = i
      BY <1>8, <2>1 DEF Steady
    <3>2. latePaints[j] \in Nat
      BY <1>1 DEF TypeOK
    <3>3. latePaints'[k] > 0
      BY <1>3, <1>4, <3>1, <3>2
    <3> QED
      BY <3>1, <3>3
  <2>2. ASSUME NEW g \in Astray(k)', g \notin Astray(k)
        PROVE  k = j /\ pc[j] = "paint" /\ g = index[j] /\ pc'[j] = "delay" /\ g # 2 * j
    <3>1. g \in 1..Len(bubbles) /\ bubbles'[g].job = k /\ ~bubbles'[g].isUser /\ g # 2 * k
      BY <1>5, <2>2 DEF Astray
    <3>2. bubbles'[g] # bubbles[g]
      BY <2>2, <3>1 DEF Astray
    <3> QED
      BY <1>5, <3>1, <3>2 DEF ReplyBubble
  <2>3. CASE h \notin Astray(k) \/ i \notin Astray(k)
    <3>1. k = j /\ pc[j] = "paint" /\ pc'[j] = "delay" /\ index[j] # 2 * j
      BY <2>2, <2>3
    <3>2. j \in cancelled
      BY <1>8, <3>1 DEF Steady
    <3>3. latePaints[j] = 0
      BY <1>1, <3>1 DEF Late, TypeOK
    <3>4. Astray(j) = {}
      BY <1>8, <3>3 DEF Steady
    <3>5. h = index[j] /\ i = index[j]
      BY <2>2, <3>1, <3>4
    <3>6. latePaints'[j] = 1
      BY <1>4, <3>1, <3>2, <3>3
    <3> QED
      BY <3>1, <3>5, <3>6
  <2> QED
    BY <2>1, <2>3
<1> QED
  BY <1>10, <1>11, <1>12, <1>13 DEF Steady

\* The bubbles and the jobs as they were.
LEMMA AstrayStill ==
  ASSUME UNCHANGED <<bubbles, latePaints>>
  PROVE  \A j \in Job : Astray(j)' = Astray(j) /\ latePaints'[j] = latePaints[j]
BY DEF Astray

\* A message is launched.
LEMMA AstrayLaunch ==
  ASSUME AstrayInv, Launch
  PROVE  AstrayInv'
<1>1. ChatInv' /\ TypeOK /\ Turns /\ Known
  BY LaunchInv DEF AstrayInv, ChatInv
<1>2. PICK n \in 0..MaxJobs : /\ Launched = 1..n
                              /\ Len(bubbles) = 2 * n + Added
                              /\ Added > 0 => n < MaxJobs
  BY <1>1 DEF Turns
<1>3. n \in Nat /\ NextJob = n + 1
  BY <1>2, NextIs, ChatAssumption
<1>4. /\ UNCHANGED <<bubbles, isGenerating, cancelled, index, latePaints>>
      /\ ui = "launch" /\ ui' = "idle"
      /\ pc' = [pc EXCEPT ![n + 1] = "scheduled"] /\ current' = n + 1
  BY <1>3 DEF Launch, chat, history
<1>5. n + 1 \in Job /\ n + 1 \notin Launched
  <2>1. n < MaxJobs
    BY <1>2, <1>4 DEF Added
  <2> QED
    BY <1>2, <1>3, <2>1, ChatAssumption DEF Job
<1>6. pc[n + 1] = "none" /\ n + 1 \notin cancelled
  BY <1>1, <1>5 DEF Launched, Known
<1>7. pc'[n + 1] = "scheduled" /\ \A k \in Job \ {n + 1} : pc'[k] = pc[k]
  BY <1>1, <1>4, <1>5 DEF TypeOK
<1>8. SUFFICES ASSUME ~FlagTakenDown' PROVE Steady'
  BY <1>1 DEF AstrayInv
<1>9. \A k \in cancelled : k \in Job
  BY <1>1 DEF TypeOK
<1>10. ~FlagTakenDown
  BY <1>4, <1>6, <1>7, <1>8, <1>9 DEF FlagTakenDown
<1>11. Steady
  BY <1>10 DEF AstrayInv
<1>12. isGenerating
  BY <1>4, <1>11 DEF Steady
<1>13. \A k \in Live' \ cancelled' : k = n + 1
  <2> SUFFICES ASSUME NEW k \in Live', k \notin cancelled, k # n + 1 PROVE FALSE
    BY <1>4
  <2>1. k \in Job /\ pc'[k] \notin Ended /\ pc'[k] # "none"
    BY DEF Live, Launched
  <2>2. k \in Live
    BY <1>7, <2>1 DEF Live, Launched
  <2> QED
    BY <1>4, <1>11, <2>2 DEF Steady
<1>14. \A k \in Job \ cancelled' : pc'[k] = "paint" => index'[k] = 2 * k
  BY <1>4, <1>7, <1>11 DEF Steady
<1>15. \A k \in Job : \A h, i \in Astray(k)' : latePaints'[k] > 0 /\ h = i
  BY <1>4, <1>11, AstrayStill DEF Steady
<1> QED
  BY <1>4, <1>12, <1>13, <1>14, <1>15 DEF Steady

\* The other steps of the main thread.
LEMMA AstrayMain ==
  ASSUME AstrayInv, \/ ClickStop \/ ClickSend \/ CancelCurrent \/ AddReplyBubble
                    \/ SetFlag \/ UNCHANGED vars
  PROVE  AstrayInv'
<1>1. ChatInv' /\ TypeOK /\ cancelled \subseteq cancelled' /\ UNCHANGED <<pc, index, latePaints, current>>
  <2>1. ChatInv'
    BY StopInv, SendInv, CancelInv, ReplyInv, RaiseInv, ChatStutter DEF AstrayInv
  <2>2. cancelled \subseteq cancelled' /\ UNCHANGED <<pc, index, latePaints, current>>
    BY DEF ClickStop, ClickSend, CancelCurrent, AddReplyBubble, SetFlag, vars, jobs, history
  <2> QED
    BY <2>1, <2>2 DEF AstrayInv, ChatInv
<1>2. SUFFICES ASSUME ~FlagTakenDown' PROVE Steady'
  BY <1>1 DEF AstrayInv
<1>3. Steady
  BY <1>1, <1>2 DEF AstrayInv, FlagTakenDown
<1>4. Live' = Live
  BY <1>1 DEF Live, Launched
<1>5. \A k \in Job \ cancelled' : pc'[k] = "paint" => index'[k] = 2 * k
  BY <1>1, <1>3 DEF Steady
<1>6. \A k \in Job : Astray(k)' = Astray(k)
  <2>1. CASE ClickSend
    <3>1. UserBubble(NextJob) \in BubbleType /\ UserBubble(NextJob).isUser
      BY <2>1, ChatAssumption DEF ClickSend, UserBubble, BubbleType, Job
    <3> QED
      BY <1>1, <2>1, <3>1, AstrayMore DEF ClickSend
  <2>2. CASE AddReplyBubble
    <3>1. ReplyBubble(0, 0) \in BubbleType /\ ReplyBubble(0, 0).job = 0
      BY ChatAssumption DEF ReplyBubble, BubbleType
    <3> QED
      BY <1>1, <2>2, <3>1, AstrayMore DEF AddReplyBubble
  <2>3. CASE UNCHANGED bubbles
    BY <1>1, <2>3, AstrayStill
  <2> QED
    BY <2>1, <2>2, <2>3 DEF ClickStop, CancelCurrent, SetFlag, vars, chat
<1>7. \A k \in Job : \A h, i \in Astray(k)' : latePaints'[k] > 0 /\ h = i
  BY <1>1, <1>3, <1>6 DEF Steady
<1>8. \A k \in Live \ cancelled' : k = current /\ (ui' = "cancel" \/ (ui' = "idle" /\ isGenerating'))
  <2> SUFFICES ASSUME NEW k \in Live, k \notin cancelled'
               PROVE  k = current /\ (ui' = "cancel" \/ (ui' = "idle" /\ isGenerating'))
    OBVIOUS
  <2>1. k = current /\ (ui = "cancel" \/ (ui = "idle" /\ isGenerating))
    BY <1>1, <1>3 DEF Steady
  <2>2. CASE CancelCurrent
    <3>1. k # 0
      BY ChatAssumption DEF Live, Launched, Job
    <3> QED
      BY <2>1, <2>2, <3>1 DEF CancelCurrent
  <2> QED
    BY <2>1, <2>2 DEF ClickStop, ClickSend, AddReplyBubble, SetFlag, vars, chat
<1>9. ui' = "launch" => isGenerating'
  BY <1>3 DEF Steady, ClickStop, ClickSend, CancelCurrent, AddReplyBubble, SetFlag, vars, chat
<1> QED
  BY <1>1, <1>4, <1>5, <1>7, <1>8, <1>9 DEF Steady

LEMMA AstrayStep == AstrayInv /\ [Next]_vars => AstrayInv'
<1> SUFFICES ASSUME AstrayInv, [Next]_vars PROVE AstrayInv'
  OBVIOUS
<1>1. CASE \E j \in Job : JobStep(j)
  BY <1>1, AstrayJob
<1>2. CASE Launch
  BY <1>2, AstrayLaunch
<1>3. CASE \/ ClickStop \/ ClickSend \/ CancelCurrent \/ AddReplyBubble \/ SetFlag
           \/ Rest \/ UNCHANGED vars
  BY <1>3, AstrayMain DEF Rest
<1> QED
  BY <1>1, <1>2, <1>3 DEF Next, MainStep

\* However many jobs are still at work on the list, none paints above its own
\* reply; and, as long as no stopped job has taken the flag down, a job nobody
\* stopped paints nothing but its own bubble and a stopped one at most one other.
THEOREM OneBubbleAstrayAlways == Spec => []OneBubbleAstray
<1>1. AstrayInv => OneBubbleAstray
  <2> SUFFICES ASSUME AstrayInv PROVE OneBubbleAstray
    OBVIOUS
  <2>1. ASSUME NEW j \in Job, NEW i \in Astray(j) PROVE i > 2 * j
    <3>1. i \in 1..Len(bubbles) /\ bubbles[i].job = j /\ ~bubbles[i].isUser /\ i # 2 * j
      BY DEF Astray
    <3>2. 2 * j <= i
      BY <3>1 DEF AstrayInv, ChatInv, Shown
    <3>3. i \in Int /\ j \in Int
      BY <3>1, ChatAssumption DEF Job
    <3> QED
      BY <3>1, <3>2, <3>3
  <2>2. ASSUME ~FlagTakenDown, NEW j \in Job
        PROVE  Cardinality(Astray(j)) <= IF j \in cancelled THEN 1 ELSE 0
    <3>1. \A h, i \in Astray(j) : latePaints[j] > 0 /\ h = i
      BY <2>2 DEF AstrayInv, Steady
    <3>2. CASE Astray(j) = {}
      BY <3>2, FS_EmptySet
    <3>3. CASE Astray(j) # {}
      <4>1. PICK i \in Astray(j) : Astray(j) = {i}
        BY <3>1, <3>3
      <4>2. Cardinality(Astray(j)) = 1
        BY <4>1, FS_Singleton
      <4>3. j \in cancelled
        BY <3>1, <3>3 DEF AstrayInv, ChatInv, Late
      <4> QED
        BY <4>2, <4>3
    <3> QED
      BY <3>2, <3>3
  <2> QED
    BY <2>1, <2>2 DEF OneBubbleAstray
<1>2. Spec => []AstrayInv
  BY AstrayInit, AstrayStep, PTL DEF Spec
<1> QED
  BY <1>1, <1>2, PTL

-----------------------------------------------------------------------------
\* Taking turns.

LEMMA Halves ==
  ASSUME NEW n \in Nat
  PROVE  /\ (2 * n) % 2 = 0 /\ (2 * n + 1) % 2 = 1
         /\ (2 * n + 1) \div 2 = n /\ (2 * n + 2) \div 2 = n + 1
OBVIOUS

LEMMA TurnInit == Init => TurnInv
<1>1. Init => Undisturbed
  BY DEF Init, Undisturbed, Alone, Alternate, Written, Sending, Live, Launched
<1> QED
  BY <1>1, ChatInit DEF TurnInv, Init

\* What a job that is not stopped paints: its bubble shows what it has seen.
LEMMA JobWrites ==
  ASSUME TypeOK, cancelled = {}, NEW j \in Job, Placed(j), JobStep(j),
         isGenerating \/ ui = "cancel", pc'[j] # "failed"
  PROVE  /\ isGenerating' = isGenerating \/ pc'[j] = "done"
         /\ pc'[j] = "paint" => index'[j] = Len(bubbles)
         /\ \/ bubbles' = bubbles /\ (ui # "cancel" => Seen(j)' = Seen(j))
            \/ /\ pc[j] = "paint" /\ pc'[j] = "delay"
               /\ bubbles' = [bubbles EXCEPT ![index[j]] = ReplyBubble(j, replyLen[j] - left[j])]
               /\ Seen(j)' = replyLen[j] - left[j] + 1
<1> USE ChatAssumption DEF TypeOK, Goto, Call, Seen, chat, Placed, Painting
<1>1. CASE Begin(j)
  BY <1>1 DEF Begin
<1>2. CASE StartReturns(j)
  BY <1>2 DEF StartReturns
<1>3. CASE \E n \in PieceLens : PieceReturns(j, n)
  BY <1>3 DEF PieceReturns
<1>4. CASE EogReturns(j)
  BY <1>4 DEF EogReturns
<1>5. CASE LoopThrows(j)
  BY <1>5 DEF LoopThrows
<1>6. CASE Emit(j)
  BY <1>6 DEF Emit
<1>7. CASE Check(j)
  BY <1>7 DEF Check, NextPiece, NextCharacter
<1>8. CASE Paint(j)
  BY <1>8 DEF Paint, PaintPrefix
<1>9. CASE Delay(j)
  BY <1>9 DEF Delay
<1>10. CASE StopReturns(j)
  BY <1>10 DEF StopReturns
<1>11. CASE Finish(j)
  BY <1>11 DEF Finish
<1>12. CASE Dispatch(j)
  BY <1>12 DEF Dispatch
<1>13. CASE ReadIndex(j)
  BY <1>13 DEF ReadIndex
<1> QED
  BY <1>1, <1>2, <1>3, <1>4, <1>5, <1>6, <1>7, <1>8, <1>9, <1>10, <1>11, <1>12,
     <1>13 DEF JobStep

LEMMA TurnJob ==
  ASSUME TurnInv, NEW j \in Job, JobStep(j)
  PROVE  TurnInv'
<1>1. TypeOK /\ Turns /\ Placed(j) /\ ChatInv'
  BY JobInv DEF TurnInv, ChatInv
<1>2. /\ pc[j] \notin {"none"} \union Ended
      /\ pc'[j] \in Steps \ {"none"}
      /\ \A k \in Job \ {j} : pc'[k] = pc[k]
      /\ pc' \in [Job -> Steps]
      /\ UNCHANGED <<ui, current, cancelled>>
      /\ pc'[j] = "unwound" => j \in cancelled
  BY <1>1, JobMoves
<1>3. \A k \in Job \ {j} : /\ replyLen'[k] = replyLen[k] /\ left'[k] = left[k]
                           /\ index'[k] = index[k]
  BY <1>1, JobNumbers
<1>4. \A k \in Job : pc'[k] = "none" => replyLen'[k] = 0
  BY <1>2, <1>3 DEF TurnInv
<1>5. SUFFICES ASSUME cancelled = {} PROVE Undisturbed'
  BY <1>1, <1>2, <1>4 DEF TurnInv
<1>6. Alone /\ Alternate /\ Written /\ Sending /\ \A k \in Job : pc[k] = "paint" => index[k] = 2 * k
  BY <1>5 DEF TurnInv, Undisturbed
<1>7. bubbles \in Seq(BubbleType) /\ Len(bubbles) \in Nat /\ j \in Nat /\ j >= 1
  BY <1>1, ChatAssumption DEF TypeOK, Job
<1>8. j \in Launched /\ j \in Live
  BY <1>2 DEF Live, Launched
<1>9. j = current /\ (ui = "cancel" \/ (ui = "idle" /\ isGenerating)) /\ \A k \in Live : k = j
  BY <1>6, <1>8 DEF Alone
<1>10. Len(bubbles) = 2 * j
  <2>1. Added = 0
    BY <1>9 DEF Added
  <2> QED
    BY <1>1, <1>7, <1>9, <2>1 DEF Turns
<1>11. Launched' = Launched /\ Live' \subseteq Live
  BY <1>2, <1>8 DEF Launched, Live
<1>12. pc'[j] # "failed" =>
         /\ isGenerating' = isGenerating \/ pc'[j] = "done"
         /\ pc'[j] = "paint" => index'[j] = Len(bubbles)
         /\ \/ bubbles' = bubbles /\ (ui # "cancel" => Seen(j)' = Seen(j))
            \/ /\ pc[j] = "paint" /\ pc'[j] = "delay"
               /\ bubbles' = [bubbles EXCEPT ![index[j]] = ReplyBubble(j, replyLen[j] - left[j])]
               /\ Seen(j)' = replyLen[j] - left[j] + 1
  BY <1>1, <1>5, <1>9, JobWrites
<1>13. Alone'
  <2>1. CASE pc'[j] \in Ended
    BY <1>2, <1>9, <1>11, <2>1 DEF Alone, Live
  <2>2. CASE pc'[j] \notin Ended
    BY <1>2, <1>9, <1>11, <1>12, <2>2 DEF Alone, Ended
  <2> QED
    BY <2>1, <2>2
<1>14. \A k \in Job : pc'[k] = "paint" => index'[k] = 2 * k
  BY <1>2, <1>3, <1>6, <1>10, <1>12
<1>15. Sending'
  BY <1>2, <1>6, <1>9 DEF Sending
<1>16. /\ Len(bubbles') = Len(bubbles)
       /\ \A i \in 1..Len(bubbles) :
            \/ bubbles'[i] = bubbles[i]
            \/ /\ pc[j] = "paint" /\ i = index[j] /\ pc'[j] = "delay"
               /\ bubbles'[i] = ReplyBubble(j, replyLen[j] - left[j])
  BY <1>1, JobBubbles
<1>17. Alternate'
  <2> SUFFICES ASSUME NEW i \in 1..Len(bubbles)
               PROVE  /\ bubbles'[i].isUser <=> (i % 2 = 1)
                      /\ bubbles'[i].job \in {0, (i + 1) \div 2}
    BY <1>16 DEF Alternate
  <2>1. CASE bubbles'[i] = bubbles[i]
    BY <1>6, <2>1 DEF Alternate
  <2>2. CASE pc[j] = "paint" /\ i = index[j] /\ bubbles'[i] = ReplyBubble(j, replyLen[j] - left[j])
    <3>1. i = 2 * j
      BY <1>6, <2>2
    <3>2. bubbles'[i].isUser = FALSE /\ bubbles'[i].job = j
      BY <2>2 DEF ReplyBubble
    <3>3. i % 2 = 0 /\ (i + 1) \div 2 = j
      BY <1>7, <3>1, Halves
    <3> QED
      BY <3>2, <3>3
  <2> QED
    BY <1>16, <2>1, <2>2
<1>18. Written'
  <2> SUFFICES ASSUME ui # "cancel", NEW k \in Launched, pc'[k] \notin {"failed", "unwound"}
               PROVE  bubbles'[2 * k] = Text(k, Seen(k))'
    BY <1>2, <1>11 DEF Written
  <2>1. k \in Job /\ k \in Nat /\ k >= 1 /\ 2 * k \in 1..Len(bubbles)
    <3>1. k \in Job
      BY DEF Launched
    <3>2. k \in Nat /\ k >= 1
      BY <3>1, ChatAssumption DEF Job
    <3>3. 2 * k <= Len(bubbles)
      BY <1>1, <1>7, <3>1, Below
    <3> QED
      BY <1>7, <3>1, <3>2, <3>3
  <2>2. CASE k # j
    <3>1. bubbles[2 * k] = Text(k, Seen(k))
      BY <1>2, <1>6, <2>1, <2>2 DEF Written
    <3>2. Seen(k)' = Seen(k)
      BY <1>2, <1>3, <2>1, <2>2 DEF Seen
    <3>3. bubbles'[2 * k] = bubbles[2 * k]
      BY <1>6, <1>7, <1>16, <2>1, <2>2
    <3> QED
      BY <3>1, <3>2, <3>3 DEF Text
  <2>3. CASE k = j
    <3>1. CASE bubbles' = bubbles /\ Seen(j)' = Seen(j)
      <4>1. bubbles[2 * j] = Text(j, Seen(j))
        BY <1>2, <1>6, <1>8 DEF Written, Ended
      <4> QED
        BY <2>3, <3>1, <4>1 DEF Text
    <3>2. CASE /\ pc[j] = "paint" /\ pc'[j] = "delay"
               /\ bubbles' = [bubbles EXCEPT ![index[j]] = ReplyBubble(j, replyLen[j] - left[j])]
               /\ Seen(j)' = replyLen[j] - left[j] + 1
      <4>1. index[j] = 2 * j
        BY <1>6, <3>2
      <4>2. bubbles'[2 * j] = ReplyBubble(j, replyLen[j] - left[j])
        BY <1>7, <2>1, <2>3, <3>2, <4>1
      <4>3. replyLen[j] \in Nat /\ left[j] \in Nat /\ left[j] <= replyLen[j]
        BY <1>1, <3>2 DEF TypeOK, Placed, Painting
      <4>4. Seen(j)' # 0 /\ Seen(j)' - 1 = replyLen[j] - left[j]
        BY <3>2, <4>3
      <4> QED
        BY <2>3, <4>2, <4>4 DEF Text
    <3> QED
      BY <1>12, <2>3, <3>1, <3>2
  <2> QED
    BY <2>2, <2>3
<1> QED
  BY <1>13, <1>14, <1>15, <1>17, <1>18 DEF Undisturbed

\* While the main thread sends, nobody is at work.
LEMMA NobodyLives ==
  ASSUME Alone, ui # "cancel", ~(ui = "idle" /\ isGenerating)
  PROVE  Live = {}
BY DEF Alone

\* A bubble added in its turn.
LEMMA Alternates ==
  ASSUME TypeOK, Alternate, NEW b \in BubbleType, bubbles' = Append(bubbles, b),
         NEW n \in Nat,
         \/ Len(bubbles) = 2 * n /\ b.isUser /\ b.job \in {0, n + 1}
         \/ Len(bubbles) = 2 * n + 1 /\ ~b.isUser /\ b.job = 0
  PROVE  /\ Alternate'
         /\ Len(bubbles') = Len(bubbles) + 1
         /\ bubbles'[Len(bubbles')] = b
         /\ \A i \in 1..Len(bubbles) : bubbles'[i] = bubbles[i]
<1>1. bubbles \in Seq(BubbleType) /\ Len(bubbles) \in Nat
  BY DEF TypeOK
<1>2. /\ Len(bubbles') = Len(bubbles) + 1
      /\ \A i \in 1..Len(bubbles) : bubbles'[i] = bubbles[i]
      /\ bubbles'[Len(bubbles) + 1] = b
  BY <1>1, AppendProperties
<1>3. Alternate'
  <2> SUFFICES ASSUME NEW i \in 1..Len(bubbles')
               PROVE  /\ bubbles'[i].isUser <=> (i % 2 = 1)
                      /\ bubbles'[i].job \in {0, (i + 1) \div 2}
    BY DEF Alternate
  <2>1. CASE i \in 1..Len(bubbles)
    BY <1>2, <2>1 DEF Alternate
  <2>2. CASE i = Len(bubbles) + 1
    <3>1. bubbles'[i] = b
      BY <1>2, <2>2
    <3>2. b.isUser \in BOOLEAN
      BY DEF BubbleType
    <3>3. CASE Len(bubbles) = 2 * n /\ b.isUser /\ b.job \in {0, n + 1}
      <4>1. i = 2 * n + 1 /\ i + 1 = 2 * n + 2
        BY <2>2, <3>3
      <4>2. i % 2 = 1 /\ (i + 1) \div 2 = n + 1
        BY <4>1, Halves
      <4> QED
        BY <3>1, <3>2, <3>3, <4>2
    <3>4. CASE Len(bubbles) = 2 * n + 1 /\ ~b.isUser /\ b.job = 0
      <4>1. i = 2 * (n + 1)
        BY <2>2, <3>4
      <4>2. i % 2 = 0
        BY <4>1, Halves
      <4> QED
        BY <3>1, <3>2, <3>4, <4>2
    <3> QED
      BY <3>3, <3>4
  <2> QED
    BY <1>1, <1>2, <2>1, <2>2
<1> QED
  BY <1>2, <1>3

\* The bubbles of the jobs at work are not touched by what is added.
LEMMA WrittenStill ==
  ASSUME TypeOK, Turns, Written, ui # "cancel", UNCHANGED jobs,
         \A i \in 1..Len(bubbles) : bubbles'[i] = bubbles[i]
  PROVE  Written'
<1> SUFFICES ASSUME NEW k \in Launched, pc[k] \notin {"failed", "unwound"}
             PROVE  bubbles'[2 * k] = Text(k, Seen(k))'
  BY DEF Written, Launched, jobs
<1>1. bubbles[2 * k] = Text(k, Seen(k))
  BY DEF Written
<1>2. 2 * k \in 1..Len(bubbles)
  <2>1. k \in Job /\ Len(bubbles) \in Nat
    BY DEF Launched, TypeOK
  <2>2. k \in Nat /\ k >= 1
    BY <2>1, ChatAssumption DEF Job
  <2>3. 2 * k <= Len(bubbles)
    BY <2>1, Below
  <2> QED
    BY <2>1, <2>2, <2>3
<1>3. Seen(k)' = Seen(k)
  BY DEF Seen, jobs
<1> QED
  BY <1>1, <1>2, <1>3 DEF Text

LEMMA TurnStop ==
  ASSUME TurnInv, ClickStop
  PROVE  TurnInv'
<1>1. ChatInv' /\ FlagHasJob
  BY StopInv DEF TurnInv, ChatInv, Flag
<1>2. UNCHANGED <<jobs, bubbles, current, cancelled>> /\ ui = "idle" /\ isGenerating /\ ui' = "cancel"
  BY DEF ClickStop
<1>3. current # 0
  BY <1>1, <1>2 DEF FlagHasJob
<1>4. cancelled = {} => Undisturbed'
  <2> SUFFICES ASSUME Undisturbed PROVE Undisturbed'
    BY DEF TurnInv
  <2>1. Live' = Live
    BY <1>2 DEF Live, Launched, jobs
  <2> QED
    BY <1>2, <1>3, <2>1 DEF Undisturbed, Alone, Alternate, Written, Sending, jobs
<1> QED
  BY <1>1, <1>2, <1>4 DEF TurnInv, jobs

LEMMA TurnCancel ==
  ASSUME TurnInv, CancelCurrent
  PROVE  TurnInv'
<1>1. ChatInv'
  BY CancelInv DEF TurnInv
<1>2. UNCHANGED jobs /\ ui = "cancel" /\ cancelled' = cancelled \union ({current} \ {0})
  BY DEF CancelCurrent
<1>3. cancelled = {} => current # 0
  BY <1>2 DEF TurnInv, Undisturbed, Sending
<1>4. cancelled' # {}
  BY <1>2, <1>3
<1> QED
  BY <1>1, <1>2, <1>4 DEF TurnInv, jobs

LEMMA TurnSend ==
  ASSUME TurnInv, ClickSend
  PROVE  TurnInv'
<1>1. ChatInv' /\ TypeOK /\ Turns
  BY SendInv DEF TurnInv, ChatInv
<1>2. PICK n \in 0..MaxJobs : Launched = 1..n /\ Len(bubbles) = 2 * n + Added
  BY <1>1 DEF Turns
<1>3. n \in Nat /\ NextJob = n + 1
  BY <1>2, NextIs, ChatAssumption
<1>4. /\ UNCHANGED <<jobs, current, cancelled, isGenerating>>
      /\ ui = "idle" /\ ui' = "addReply" /\ ~isGenerating
      /\ bubbles' = Append(bubbles, UserBubble(n + 1))
      /\ n + 1 \in Job
  BY <1>3 DEF ClickSend
<1>5. Len(bubbles) = 2 * n
  BY <1>2, <1>3, <1>4 DEF Added
<1>6. cancelled = {} => Undisturbed'
  <2> SUFFICES ASSUME Undisturbed PROVE Undisturbed'
    BY DEF TurnInv
  <2>1. Alone /\ Alternate /\ Written
    BY DEF Undisturbed
  <2>2. UserBubble(n + 1) \in BubbleType
    BY <1>4, ChatAssumption DEF UserBubble, BubbleType, Job
  <2>3. UserBubble(n + 1).isUser /\ UserBubble(n + 1).job = n + 1
    BY DEF UserBubble
  <2>4. Alternate' /\ \A i \in 1..Len(bubbles) : bubbles'[i] = bubbles[i]
    BY <1>1, <1>3, <1>4, <1>5, <2>1, <2>2, <2>3, Alternates
  <2>5. Written'
    BY <1>1, <1>4, <2>1, <2>4, WrittenStill
  <2>6. Live' = {}
    BY <1>4, <2>1, NobodyLives DEF Live, Launched, jobs
  <2> QED
    BY <1>4, <2>4, <2>5, <2>6 DEF Undisturbed, Alone, Sending, jobs
<1> QED
  BY <1>1, <1>4, <1>6 DEF TurnInv, jobs

LEMMA TurnReply ==
  ASSUME TurnInv, AddReplyBubble
  PROVE  TurnInv'
<1>1. ChatInv' /\ TypeOK /\ Turns
  BY ReplyInv DEF TurnInv, ChatInv
<1>2. PICK n \in 0..MaxJobs : Launched = 1..n /\ Len(bubbles) = 2 * n + Added
  BY <1>1 DEF Turns
<1>3. /\ UNCHANGED <<jobs, current, cancelled, isGenerating>>
      /\ ui = "addReply" /\ ui' = "setFlag"
      /\ bubbles' = Append(bubbles, ReplyBubble(0, 0))
  BY DEF AddReplyBubble
<1>4. n \in Nat /\ Len(bubbles) = 2 * n + 1
  BY <1>2, <1>3, ChatAssumption DEF Added
<1>5. cancelled = {} => Undisturbed'
  <2> SUFFICES ASSUME Undisturbed PROVE Undisturbed'
    BY DEF TurnInv
  <2>1. Alone /\ Alternate /\ Written
    BY DEF Undisturbed
  <2>2. ReplyBubble(0, 0) \in BubbleType
    BY ChatAssumption DEF ReplyBubble, BubbleType
  <2>3. ~ReplyBubble(0, 0).isUser /\ ReplyBubble(0, 0).job = 0
    BY DEF ReplyBubble
  <2>4. /\ Alternate'
        /\ bubbles'[Len(bubbles')] = ReplyBubble(0, 0)
        /\ \A i \in 1..Len(bubbles) : bubbles'[i] = bubbles[i]
    BY <1>1, <1>3, <1>4, <2>1, <2>2, <2>3, Alternates
  <2>5. Written'
    BY <1>1, <1>3, <2>1, <2>4, WrittenStill
  <2>6. Live' = {}
    BY <1>3, <2>1, NobodyLives DEF Live, Launched, jobs
  <2> QED
    BY <1>3, <2>4, <2>5, <2>6 DEF Undisturbed, Alone, Sending, jobs
<1> QED
  BY <1>1, <1>3, <1>5 DEF TurnInv, jobs

LEMMA TurnRaise ==
  ASSUME TurnInv, SetFlag
  PROVE  TurnInv'
<1>1. ChatInv' /\ TypeOK /\ Turns
  BY RaiseInv DEF TurnInv, ChatInv
<1>2. /\ UNCHANGED <<jobs, bubbles, current, cancelled>>
      /\ ui = "setFlag" /\ ui' = "launch" /\ isGenerating' = TRUE
  BY DEF SetFlag
<1>3. cancelled = {} => Undisturbed'
  <2> SUFFICES ASSUME Undisturbed PROVE Undisturbed'
    BY DEF TurnInv
  <2>1. Live' = {}
    BY <1>2, NobodyLives DEF Undisturbed, Live, Launched, jobs
  <2>2. Written'
    BY <1>1, <1>2, WrittenStill DEF Undisturbed
  <2> QED
    BY <1>2, <2>1, <2>2 DEF Undisturbed, Alone, Alternate, Sending, jobs
<1> QED
  BY <1>1, <1>2, <1>3 DEF TurnInv, jobs

LEMMA TurnLaunch ==
  ASSUME TurnInv, Launch
  PROVE  TurnInv'
<1>1. ChatInv' /\ TypeOK /\ Turns
  BY LaunchInv DEF TurnInv, ChatInv
<1>2. PICK n \in 0..MaxJobs : /\ Launched = 1..n
                              /\ Len(bubbles) = 2 * n + Added
                              /\ Added > 0 => n < MaxJobs
  BY <1>1 DEF Turns
<1>3. n \in Nat /\ NextJob = n + 1
  BY <1>2, NextIs, ChatAssumption
<1>4. /\ UNCHANGED <<bubbles, isGenerating, cancelled, pieces, replyLen, left, index>>
      /\ ui = "launch" /\ ui' = "idle"
      /\ pc' = [pc EXCEPT ![n + 1] = "scheduled"] /\ current' = n + 1
  BY <1>3 DEF Launch, chat
<1>5. Len(bubbles) = 2 * (n + 1) /\ n < MaxJobs
  BY <1>2, <1>3, <1>4 DEF Added
<1>6. n + 1 \in Job /\ n + 1 \notin Launched
  BY <1>2, <1>3, <1>5, ChatAssumption DEF Job
<1>7. pc[n + 1] = "none"
  BY <1>6 DEF Launched
<1>8. pc'[n + 1] = "scheduled" /\ \A k \in Job \ {n + 1} : pc'[k] = pc[k]
  BY <1>1, <1>4, <1>6 DEF TypeOK
<1>9. \A k \in Job : pc'[k] = "none" => replyLen'[k] = 0
  BY <1>4, <1>8 DEF TurnInv
<1>10. replyLen[n + 1] = 0
  BY <1>6, <1>7 DEF TurnInv
<1>11. cancelled = {} => Undisturbed'
  <2> SUFFICES ASSUME Undisturbed PROVE Undisturbed'
    BY DEF TurnInv
  <2>1. Live = {} /\ Launched' = Launched \union {n + 1}
    BY <1>4, <1>6, <1>8, NobodyLives DEF Undisturbed, Launched
  <2>2. Live' \subseteq {n + 1}
    <3> SUFFICES ASSUME NEW k \in Live', k # n + 1 PROVE FALSE
      OBVIOUS
    <3>1. k \in Launched' /\ pc'[k] \notin Ended
      BY DEF Live
    <3>2. k \in Launched /\ k \in Job
      BY <2>1, <3>1 DEF Launched
    <3>3. pc'[k] = pc[k]
      BY <1>8, <3>2
    <3> QED
      BY <2>1, <3>1, <3>2, <3>3 DEF Live
  <2>3. isGenerating /\ bubbles[2 * (n + 1)] = ReplyBubble(0, 0)
    BY <1>4, <1>5 DEF Undisturbed, Sending
  <2>4. Alone'
    BY <1>4, <2>2, <2>3 DEF Alone
  <2>5. \A k \in Job : pc'[k] = "paint" => index'[k] = 2 * k
    BY <1>4, <1>8 DEF Undisturbed
  <2>6. Written'
    <3> SUFFICES ASSUME NEW k \in Launched', pc'[k] \notin {"failed", "unwound"}
                 PROVE  bubbles'[2 * k] = Text(k, Seen(k))'
      BY DEF Written
    <3>1. CASE k = n + 1
      <4>1. Seen(k)' = 0
        BY <1>4, <1>8, <1>10, <3>1 DEF Seen
      <4> QED
        BY <1>4, <2>3, <3>1, <4>1 DEF Text
    <3>2. CASE k # n + 1
      <4>1. k \in Launched /\ k \in Job \ {n + 1}
        BY <2>1, <3>2 DEF Launched
      <4>2. pc'[k] = pc[k]
        BY <1>8, <4>1
      <4>3. bubbles[2 * k] = Text(k, Seen(k))
        BY <1>4, <4>1, <4>2 DEF Undisturbed, Written
      <4>4. Seen(k)' = Seen(k)
        BY <1>4, <4>2 DEF Seen
      <4> QED
        BY <1>4, <4>3, <4>4 DEF Text
    <3> QED
      BY <3>1, <3>2
  <2> QED
    BY <1>4, <2>4, <2>5, <2>6 DEF Undisturbed, Alternate, Sending
<1> QED
  BY <1>1, <1>4, <1>9, <1>11 DEF TurnInv

LEMMA TurnStutter == TurnInv /\ UNCHANGED vars => TurnInv'
<1> SUFFICES ASSUME TurnInv, UNCHANGED vars PROVE TurnInv'
  OBVIOUS
<1>1. ChatInv'
  BY ChatStutter DEF TurnInv
<1>2. UNCHANGED <<ui, bubbles, isGenerating, current, cancelled, pc, replyLen, left, index>>
  BY DEF vars, chat, jobs
<1>3. cancelled = {} => Undisturbed'
  <2> SUFFICES ASSUME Undisturbed PROVE Undisturbed'
    BY DEF TurnInv
  <2>1. Alone' /\ Alternate' /\ Sending'
    BY <1>2 DEF Undisturbed, Alone, Alternate, Sending, Live, Launched
  <2>2. Written'
    BY <1>2 DEF Undisturbed, Written, Launched, Seen, Text
  <2> QED
    BY <1>2, <2>1, <2>2 DEF Undisturbed
<1> QED
  BY <1>1, <1>2, <1>3 DEF TurnInv

LEMMA TurnStep == TurnInv /\ [Next]_vars => TurnInv'
<1> SUFFICES ASSUME TurnInv, [Next]_vars PROVE TurnInv'
  OBVIOUS
<1>1. CASE ClickStop
  BY <1>1, TurnStop
<1>2. CASE ClickSend
  BY <1>2, TurnSend
<1>3. CASE MainStep
  BY <1>3, TurnCancel, TurnReply, TurnRaise, TurnLaunch DEF MainStep
<1>4. CASE \E j \in Job : JobStep(j)
  BY <1>4, TurnJob
<1>5. CASE Rest \/ UNCHANGED vars
  BY <1>5, TurnStutter DEF Rest
<1> QED
  BY <1>1, <1>2, <1>3, <1>4, <1>5 DEF Next

\* Until the first stop, over any number of messages, one job is at work at a
\* time and the chat is queries with their replies below them, each as far as
\* its job has come.
THEOREM TurnTakingAlways == Spec => []TurnTaking
<1>1. TurnInv => TurnTaking
  <2> SUFFICES ASSUME TurnInv, cancelled = {} PROVE TurnTaking
    BY DEF TurnTaking
  <2>1. Alone /\ Alternate /\ Written /\ TypeOK
    BY DEF TurnInv, Undisturbed, ChatInv
  <2>2. Cardinality(Live) <= 1
    <3>1. Live \subseteq {current}
      BY <2>1 DEF Alone
    <3>2. IsFiniteSet({current}) /\ Cardinality({current}) = 1
      BY FS_Singleton
    <3>3. Cardinality(Live) <= Cardinality({current})
      BY <3>1, <3>2, FS_Subset
    <3> QED
      BY <3>2, <3>3
  <2>3. ASSUME NEW j \in Job, pc[j] = "done", ui # "cancel"
        PROVE  bubbles[2 * j] = IF replyLen[j] = 0 THEN ReplyBubble(0, 0)
                                ELSE ReplyBubble(j, replyLen[j] - 1)
    <3>1. j \in Launched
      BY <2>3 DEF Launched
    <3>2. bubbles[2 * j] = Text(j, Seen(j)) /\ Seen(j) = replyLen[j]
      BY <2>1, <2>3, <3>1 DEF Written, Seen
    <3> QED
      BY <3>2 DEF Text
  <2> QED
    BY <2>1, <2>2, <2>3 DEF TurnTaking, Alternate
<1>2. Spec => []TurnInv
  BY TurnInit, TurnStep, PTL DEF Spec
<1> QED
  BY <1>1, <1>2, PTL

-----------------------------------------------------------------------------
\* Stopped jobs end.

\* The steps a stopped job may take at most.
StepsToEnd(step) ==
  CASE step \in Ended -> 0
    [] step \in {"scheduled", "emit", "delay", "finish"} -> 1
    [] step \in {"paint", "stop"} -> 2
    [] step \in {"none", "loop", "index"} -> 3
    [] step \in {"start", "check"} -> 4
    [] step = "begin" -> 5

StoppedJobAdvances ==
  [][\A j \in Job : j \in cancelled /\ pc'[j] # pc[j]
                    => StepsToEnd(pc'[j]) < StepsToEnd(pc[j])]_vars

\* Each step of a stopped job is nearer to its end.
LEMMA StepAdvances ==
  ASSUME TypeOK, NEW j \in Job, j \in cancelled, JobStep(j)
  PROVE  StepsToEnd(pc'[j]) < StepsToEnd(pc[j])
<1> USE DEF StepsToEnd, Ended, Goto, Call
<1>0. pc \in [Job -> Steps]
  BY DEF TypeOK
<1>1. CASE Begin(j)
  <2>1. pc[j] = "begin" /\ pc'[j] \in {"start"}
    BY <1>0, <1>1 DEF Begin
  <2> QED
    BY <2>1
<1>2. CASE StartReturns(j)
  <2>1. pc[j] = "start" /\ pc'[j] \in {"loop"}
    BY <1>0, <1>2 DEF StartReturns
  <2> QED
    BY <2>1
<1>3. CASE \E n \in PieceLens : PieceReturns(j, n)
  <2>1. pc[j] = "loop" /\ pc'[j] \in {"emit"}
    BY <1>0, <1>3 DEF PieceReturns
  <2> QED
    BY <2>1
<1>4. CASE EogReturns(j)
  <2>1. pc[j] = "loop" /\ pc'[j] \in {"stop"}
    BY <1>0, <1>4 DEF EogReturns
  <2> QED
    BY <2>1
<1>5. CASE LoopThrows(j)
  <2>1. pc[j] = "loop" /\ pc'[j] \in {"failed"}
    BY <1>0, <1>5 DEF LoopThrows
  <2> QED
    BY <2>1
<1>6. CASE Emit(j)
  <2>1. pc[j] = "emit" /\ pc'[j] \in {"unwound"}
    BY <1>0, <1>6 DEF Emit
  <2> QED
    BY <2>1
<1>7. CASE Check(j)
  <2>1. pc[j] = "check" /\ pc'[j] \in {"loop", "index"}
    BY <1>0, <1>7 DEF Check, NextPiece, NextCharacter
  <2> QED
    BY <2>1
<1>8. CASE Paint(j)
  <2>1. pc[j] = "paint" /\ pc'[j] \in {"delay"}
    BY <1>0, <1>8 DEF Paint, PaintPrefix
  <2> QED
    BY <2>1
<1>9. CASE Delay(j)
  <2>1. pc[j] = "delay" /\ pc'[j] \in {"unwound"}
    BY <1>0, <1>9 DEF Delay
  <2> QED
    BY <2>1
<1>10. CASE StopReturns(j)
  <2>1. pc[j] = "stop" /\ pc'[j] \in {"finish"}
    BY <1>0, <1>10 DEF StopReturns
  <2> QED
    BY <2>1
<1>11. CASE Finish(j)
  <2>1. pc[j] = "finish" /\ pc'[j] \in {"done"}
    BY <1>0, <1>11 DEF Finish
  <2> QED
    BY <2>1
<1>12. CASE Dispatch(j)
  <2>1. pc[j] = "scheduled" /\ pc'[j] \in {"unwound"}
    BY <1>0, <1>12 DEF Dispatch
  <2> QED
    BY <2>1
<1>13. CASE ReadIndex(j)
  <2>1. pc[j] = "index" /\ pc'[j] \in {"paint"}
    BY <1>0, <1>13 DEF ReadIndex
  <2> QED
    BY <2>1
<1> QED
  BY <1>1, <1>2, <1>3, <1>4, <1>5, <1>6, <1>7, <1>8, <1>9, <1>10, <1>11, <1>12,
     <1>13 DEF JobStep

\* A job that has been stopped comes to its end within five steps of its own, at
\* whatever step the Stop button met it, counting the native calls it waits for.
THEOREM StoppedJobAdvancesAlways == Spec => StoppedJobAdvances
<1>1. ASSUME ChatInv, Next, NEW j \in Job, j \in cancelled, pc'[j] # pc[j]
      PROVE  StepsToEnd(pc'[j]) < StepsToEnd(pc[j])
  <2>1. TypeOK /\ Known /\ pc \in [Job -> Steps]
    BY <1>1 DEF ChatInv, TypeOK
  <2>2. CASE \E k \in Job : JobStep(k)
    <3>1. JobStep(j)
      BY <1>1, <2>1, <2>2, JobMoves
    <3> QED
      BY <1>1, <2>1, <3>1, StepAdvances
  <2>3. CASE Launch
    <3>1. PICK n \in 0..MaxJobs : Launched = 1..n
      BY <1>1 DEF ChatInv, Turns
    <3>2. n \in Nat /\ NextJob = n + 1
      BY <3>1, NextIs, ChatAssumption
    <3>3. j \in Launched /\ j # NextJob
      BY <1>1, <2>1, <3>1, <3>2 DEF Known
    <3>4. pc'[j] = pc[j]
      BY <2>1, <2>3, <3>3 DEF Launch
    <3> QED
      BY <1>1, <3>4
  <2>4. CASE ClickStop \/ ClickSend \/ CancelCurrent \/ AddReplyBubble \/ SetFlag \/ Rest
    <3>1. pc' = pc
      BY <2>4 DEF ClickStop, ClickSend, CancelCurrent, AddReplyBubble, SetFlag, Rest, vars, jobs
    <3> QED
      BY <1>1, <3>1
  <2> QED
    BY <1>1, <2>2, <2>3, <2>4 DEF Next, MainStep
<1>2. ChatInv /\ [Next]_vars
      => [\A j \in Job : j \in cancelled /\ pc'[j] # pc[j]
                         => StepsToEnd(pc'[j]) < StepsToEnd(pc[j])]_vars
  BY <1>1
<1> QED
  BY <1>2, ChatAlways, PTL DEF Spec, StoppedJobAdvances

=============================================================================
