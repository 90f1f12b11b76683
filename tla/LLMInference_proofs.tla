------------------------- MODULE LLMInference_proofs -------------------------
(***************************************************************************)
(* Proofs about the native chat session, for every context size, batch     *)
(* size, number of turns and choice of pieces.                             *)
(***************************************************************************)
EXTENDS LLMInference, FiniteSetTheorems, SequenceTheorems, TLAPS

\* What startCompletion takes from the formatted chat is a sequence of tokens.
LEMMA PromptType ==
  ASSUME NEW ms \in Seq(MessageType), NEW len \in 0..Len(ms), NEW t \in Nat
  PROVE  PromptFrom(len, ms, t) \in Seq(TokenOf)
<1>1. Len(ms) - len + 1 \in Nat
  OBVIOUS
<1>2. \A j \in 1..(Len(ms) - len + 1) : PromptFrom(len, ms, t)[j] \in TokenOf
  BY DEF PromptFrom, TokenOf, MsgBlock, Opener
<1> QED
  BY <1>1, <1>2 DEF PromptFrom

\* Marking how a turn ended keeps the record of endings a sequence.
LEMMA EndingType ==
  ASSUME NEW s \in Seq(Endings), NEW t, NEW e \in Endings
  PROVE  [s EXCEPT ![t] = e] \in Seq(Endings)
<1>1. CASE t \in 1..Len(s)
  BY <1>1, ExceptSeq
<1>2. CASE t \notin 1..Len(s)
  <2>1. [s EXCEPT ![t] = e] = s
    BY <1>2
  <2> QED
    BY <2>1
<1> QED
  BY <1>1, <1>2

\* Messages have the type of messages.
LEMMA MessageIn ==
  ASSUME NEW role \in {"system", "user", "assistant"}, NEW t \in Nat,
         NEW text \in SUBSET (Nat \ {0})
  PROVE  Message(role, t, text) \in MessageType
BY DEF Message, MessageType

LEMMA BatchType ==
  ASSUME TypeOK
  PROVE  BatchTokens \in Seq(TokenOf)
BY DEF TypeOK, BatchTokens

\* Evaluating a batch keeps the KV cache inside the context.
LEMMA DecodeType ==
  ASSUME TypeOK, Decode
  PROVE  kv' \in Seq(TokenOf) /\ Len(kv') <= NCtx
<1>1. BatchTokens \in Seq(TokenOf)
  BY BatchType
<1>2. kv \in Seq(TokenOf) /\ NCtx \in Nat
  BY SessionAssumption DEF TypeOK
<1>3. kv' = kv \o BatchTokens /\ ~(Len(kv) + Len(BatchTokens) > NCtx)
  BY DEF Decode, ContextFull
<1> HIDE DEF BatchTokens
<1> QED
  BY <1>1, <1>2, <1>3

LEMMA TypeInit == Init => TypeOK
<1> SUFFICES ASSUME Init PROVE TypeOK
  OBVIOUS
<1>1. messages \in Seq(MessageType) /\ prevLen \in 0..Len(messages)
  BY MessageIn DEF Init
<1>2. currToken \in TokenOf
  BY DEF Init, EOG, TokenOf
<1>3. Len(kv) <= NCtx
  BY SessionAssumption DEF Init
<1> QED
  BY <1>1, <1>2, <1>3 DEF Init, TypeOK

LEMMA TypeStep == TypeOK /\ [Next]_vars => TypeOK'
<1> SUFFICES ASSUME TypeOK, [Next]_vars PROVE TypeOK'
  OBVIOUS
<1> USE SessionAssumption
<1>1. CASE StartCompletion
  <2>1. turn + 1 \in Nat
    BY DEF TypeOK, turn
  <2>2. messages' \in Seq(MessageType) /\ Len(messages') = Len(messages) + 1
    BY <1>1, <2>1, MessageIn DEF StartCompletion, TypeOK
  <2>3. prevLen' \in 0..Len(messages')
    BY <1>1, <2>2 DEF StartCompletion, StartOffset, TypeOK
  <2>4. promptTokens' \in Seq(TokenOf)
    <3>1. PromptFrom(prevLen', messages', turn + 1) \in Seq(TokenOf)
      BY <2>1, <2>2, <2>3, PromptType
    <3> QED
      BY <1>1, <3>1 DEF StartCompletion, TypeOK
  <2>5. ending' \in Seq(Endings)
    BY <1>1 DEF StartCompletion, TypeOK, Endings
  <2> QED
    BY <1>1, <2>2, <2>3, <2>4, <2>5 DEF StartCompletion, TypeOK
<1>2. CASE LoopThrows \/ LoopDecodeFails \/ Cancelled
  <2>1. ending' \in Seq(Endings)
    BY <1>2, EndingType DEF LoopThrows, LoopDecodeFails, Cancelled, TypeOK, Endings
  <2> QED
    BY <1>2, <2>1 DEF LoopThrows, LoopDecodeFails, Cancelled, TypeOK, session
<1>3. CASE LoopAborts \/ EmitPiece
  BY <1>3 DEF LoopAborts, EmitPiece, TypeOK, session
<1>4. CASE LoopEndsTurn
  <2>1. kv' \in Seq(TokenOf) /\ Len(kv') <= NCtx
    BY <1>4, DecodeType DEF LoopEndsTurn
  <2>2. messages' \in Seq(MessageType) /\ Len(messages') = Len(messages) + 1
    BY <1>4, MessageIn DEF LoopEndsTurn, TypeOK, turn
  <2>3. ending' \in Seq(Endings)
    BY <1>4, EndingType DEF LoopEndsTurn, TypeOK, Endings
  <2>4. currToken' \in TokenOf
    BY <1>4 DEF LoopEndsTurn, EOG, TokenOf
  <2> QED
    BY <1>4, <2>1, <2>2, <2>3, <2>4 DEF LoopEndsTurn, TypeOK
<1>5. ASSUME NEW kind \in PieceKinds, LoopYieldsPiece(kind) PROVE TypeOK'
  <2>1. kv' \in Seq(TokenOf) /\ Len(kv') <= NCtx
    BY <1>5, DecodeType DEF LoopYieldsPiece
  <2>2. sampled + 1 \in Nat \ {0} /\ turn \in Nat
    BY DEF TypeOK, sampled, turn
  <2>3. currToken' \in TokenOf
    BY <1>5, <2>2 DEF LoopYieldsPiece, Piece, TokenOf
  <2>4. CacheWith(sampled + 1) \in SUBSET (Nat \ {0})
    BY <2>2 DEF CacheWith, TypeOK
  <2>5. Utf8After(utf8, kind) \in {"valid", "cut", "broken"}
    BY DEF Utf8After
  <2>6. response' \in SUBSET (Nat \ {0}) /\ cache' \in SUBSET (Nat \ {0})
        /\ utf8' \in {"valid", "cut", "broken"}
    BY <1>5, <2>4, <2>5 DEF LoopYieldsPiece, TypeOK
  <2>7. ending' \in Seq(Endings) /\ phase' \in {"stop", "emit"}
    BY <1>5, EndingType DEF LoopYieldsPiece, TypeOK, Endings
  <2>8. sampledIn' \in Seq(Nat)
    BY <1>5, <2>2 DEF LoopYieldsPiece, TypeOK
  <2> QED
    BY <1>5, <2>1, <2>3, <2>6, <2>7, <2>8 DEF LoopYieldsPiece, TypeOK
<1>6. CASE StopCompletion
  <2>1. messages' \in Seq(MessageType)
    BY <1>6, MessageIn DEF StopCompletion, TypeOK, turn
  <2>2. prevLen' \in 0..Len(messages')
    BY <1>6, <2>1 DEF StopCompletion
  <2> QED
    BY <1>6, <2>1, <2>2 DEF StopCompletion, TypeOK
<1>7. CASE Rest \/ UNCHANGED vars
  BY <1>7 DEF Rest, vars, session, TypeOK
<1> QED
  BY <1>1, <1>2, <1>3, <1>4, <1>5, <1>6, <1>7 DEF Next, CompletionLoop

\* The session's variables keep their types; _prevLen never runs past the
\* formatted chat and the KV cache never past the context.
THEOREM TypeCorrect == Spec => []TypeOK
<1>1. Init => TypeOK
  BY TypeInit
<1>2. TypeOK /\ [Next]_vars => TypeOK'
  BY TypeStep
<1> QED
  BY <1>1, <1>2, PTL DEF Spec

-----------------------------------------------------------------------------
(***************************************************************************)
(* The session implements PromptFeed.  The argument: between two turns the *)
(* messages up to _prevLen have been evaluated; startCompletion puts all   *)
(* the others in the prompt; and since the prompt is evaluated as a whole, *)
(* from the first token sampled to stopCompletion every message has been.  *)
(***************************************************************************)

\* The messages of ms that were evaluated when the KV cache holds cells.
Fed(ms, cells) ==
  {i \in 1..Len(ms) : \/ ms[i].role = "assistant"
                      \/ \E c \in 1..Len(cells) : cells[c] = MsgBlock(i)}

\* The cells hold no other messages than the first n.
OnlyMessages(cells, n) ==
  \A c \in 1..Len(cells) : cells[c].kind = "msg" => cells[c].n \in 1..n

FeedInv ==
  /\ OnlyMessages(kv, Len(messages))
  /\ currToken.kind # "msg"
  /\ 1..prevLen \subseteq Fed(messages, kv)
  /\ phase = "decode" =>
       \/ batch = "prompt" /\ promptTokens = PromptFrom(prevLen, messages, turn)
       \/ batch = "current" /\ Fed(messages, kv) = 1..Len(messages)
  /\ phase = "emit" => batch = "current"
  /\ phase \in {"emit", "stop"} => Fed(messages, kv) = 1..Len(messages)

\* Evaluating more cells forgets no message.
LEMMA FedConcat ==
  ASSUME NEW ms \in Seq(MessageType), NEW cells \in Seq(TokenOf), NEW b \in Seq(TokenOf)
  PROVE  Fed(ms, cells) \subseteq Fed(ms, cells \o b)
<1>1. \A c \in 1..Len(cells) : c \in 1..Len(cells \o b) /\ (cells \o b)[c] = cells[c]
  OBVIOUS
<1> QED
  BY <1>1 DEF Fed

\* Evaluating the prompt past a point up to which all is evaluated evaluates all.
LEMMA FedPrompt ==
  ASSUME NEW ms \in Seq(MessageType), NEW cells \in Seq(TokenOf),
         NEW len \in 0..Len(ms), NEW t \in Nat,
         1..len \subseteq Fed(ms, cells)
  PROVE  Fed(ms, cells \o PromptFrom(len, ms, t)) = 1..Len(ms)
<1> DEFINE b == PromptFrom(len, ms, t)
<1>1. b \in Seq(TokenOf) /\ Len(b) = Len(ms) - len + 1
  <2>1. b \in Seq(TokenOf)
    BY PromptType
  <2>2. DOMAIN b = 1..(Len(ms) - len + 1)
    BY DEF PromptFrom
  <2> QED
    BY <2>1, <2>2
<1>2. ASSUME NEW i \in (len + 1)..Len(ms) PROVE i \in Fed(ms, cells \o b)
  <2>1. b[i - len] = MsgBlock(i)
    BY DEF PromptFrom
  <2> HIDE DEF b
  <2>2. Len(cells) + (i - len) \in 1..Len(cells \o b)
        /\ (cells \o b)[Len(cells) + (i - len)] = b[i - len]
    BY <1>1
  <2>3. i \in 1..Len(ms)
    OBVIOUS
  <2>4. \E c \in 1..Len(cells \o b) : (cells \o b)[c] = MsgBlock(i)
    BY <2>1, <2>2
  <2> QED
    BY <2>3, <2>4 DEF Fed
<1>3. Fed(ms, cells) \subseteq Fed(ms, cells \o b)
  BY <1>1, FedConcat
<1> HIDE DEF b
<1>4. 1..Len(ms) \subseteq Fed(ms, cells \o b)
  BY <1>2, <1>3
<1>5. Fed(ms, cells \o b) \subseteq 1..Len(ms)
  BY DEF Fed
<1> QED
  BY <1>4, <1>5 DEF b

\* A new answer counts as evaluated, a new query does not.
LEMMA FedAnswer ==
  ASSUME NEW ms \in Seq(MessageType), NEW cells, NEW m \in MessageType,
         m.role = "assistant", Fed(ms, cells) = 1..Len(ms)
  PROVE  Fed(Append(ms, m), cells) = 1..(Len(ms) + 1)
BY DEF Fed

LEMMA FedQuery ==
  ASSUME NEW ms \in Seq(MessageType), NEW cells \in Seq(TokenOf), NEW m \in MessageType,
         m.role = "user", OnlyMessages(cells, Len(ms))
  PROVE  Fed(Append(ms, m), cells) = Fed(ms, cells)
<1>1. \A i \in 1..Len(ms) : Append(ms, m)[i] = ms[i]
  OBVIOUS
<1>2. \A c \in 1..Len(cells) : cells[c] # MsgBlock(Len(ms) + 1)
  BY DEF OnlyMessages, MsgBlock
<1>3. Append(ms, m)[Len(ms) + 1].role # "assistant" /\ Len(Append(ms, m)) = Len(ms) + 1
  OBVIOUS
<1> QED
  BY <1>1, <1>2, <1>3 DEF Fed

\* A prompt holds only messages of the chat.
LEMMA OnlyMessagesPrompt ==
  ASSUME NEW ms \in Seq(MessageType), NEW len \in 0..Len(ms), NEW t \in Nat
  PROVE  OnlyMessages(PromptFrom(len, ms, t), Len(ms))
<1>1. Len(PromptFrom(len, ms, t)) = Len(ms) - len + 1
  <2>1. PromptFrom(len, ms, t) \in Seq(TokenOf)
    BY PromptType
  <2>2. DOMAIN PromptFrom(len, ms, t) = 1..(Len(ms) - len + 1)
    BY DEF PromptFrom
  <2> QED
    BY <2>1, <2>2
<1>2. ASSUME NEW c \in 1..(Len(ms) - len + 1), PromptFrom(len, ms, t)[c].kind = "msg"
      PROVE  PromptFrom(len, ms, t)[c].n \in 1..Len(ms)
  BY <1>2 DEF PromptFrom, MsgBlock, Opener
<1> QED
  BY <1>1, <1>2 DEF OnlyMessages

\* Whatever completionLoop evaluates, it has then evaluated every message.
LEMMA DecodeFeeds ==
  ASSUME TypeOK, FeedInv, Decode
  PROVE  /\ Fed(messages, kv') = 1..Len(messages)
         /\ OnlyMessages(kv', Len(messages))
<1>1. kv' = kv \o BatchTokens /\ kv \in Seq(TokenOf) /\ messages \in Seq(MessageType)
  BY DEF Decode, TypeOK
<1>2. BatchTokens \in Seq(TokenOf)
  BY BatchType
<1>3. CASE batch = "prompt"
  <2>1. BatchTokens = PromptFrom(prevLen, messages, turn) /\ turn \in Nat
        /\ prevLen \in 0..Len(messages)
    BY <1>3 DEF BatchTokens, FeedInv, Decode, TypeOK, turn
  <2>2. Fed(messages, kv') = 1..Len(messages)
    BY <1>1, <2>1, FedPrompt DEF FeedInv
  <2>3. OnlyMessages(BatchTokens, Len(messages))
    BY <1>1, <2>1, OnlyMessagesPrompt
  <2>4. OnlyMessages(kv', Len(messages))
    <3>1. OnlyMessages(kv, Len(messages))
      BY DEF FeedInv
    <3> HIDE DEF BatchTokens
    <3> QED
      BY <1>1, <1>2, <2>3, <3>1 DEF OnlyMessages
  <2> QED
    BY <2>2, <2>4
<1>4. CASE batch = "current"
  <2>1. BatchTokens = <<currToken>> /\ currToken.kind # "msg" /\ currToken \in TokenOf
    BY <1>4 DEF BatchTokens, FeedInv, TypeOK
  <2>2. Fed(messages, kv) = 1..Len(messages)
    BY <1>4 DEF FeedInv, Decode
  <2>3. Fed(messages, kv) \subseteq Fed(messages, kv')
    BY <1>1, <1>2, FedConcat
  <2>4. Fed(messages, kv') \subseteq 1..Len(messages)
    BY DEF Fed
  <2>5. OnlyMessages(kv', Len(messages))
    BY <1>1, <2>1 DEF OnlyMessages, FeedInv
  <2> QED
    BY <2>2, <2>3, <2>4, <2>5
<1> QED
  BY <1>3, <1>4 DEF TypeOK

LEMMA FeedInvInit == Init => FeedInv
<1> SUFFICES ASSUME Init PROVE FeedInv
  OBVIOUS
<1> QED
  BY DEF Init, FeedInv, OnlyMessages, EOG

LEMMA FeedInvStep ==
  ASSUME StoreChats, TypeOK, FeedInv, [Next]_vars
  PROVE  FeedInv'
<1> USE SessionAssumption
<1>1. CASE StartCompletion
  <2>1. turn + 1 \in Nat /\ turn' = turn + 1
    BY <1>1 DEF StartCompletion, TypeOK, turn
  <2>2. messages \in Seq(MessageType) /\ kv \in Seq(TokenOf) /\ prevLen' = prevLen
    BY <1>1 DEF StartCompletion, StartOffset, TypeOK
  <2> DEFINE m == Message("user", turn + 1, {})
  <2>3. m \in MessageType /\ m.role = "user" /\ messages' = Append(messages, m)
    BY <1>1, <2>1, MessageIn DEF StartCompletion, Message
  <2> HIDE DEF m
  <2>4. Fed(messages', kv') = Fed(messages, kv)
    BY <1>1, <2>2, <2>3, FedQuery DEF FeedInv, StartCompletion
  <2>5. OnlyMessages(kv', Len(messages'))
    BY <1>1, <2>2, <2>3 DEF FeedInv, StartCompletion, OnlyMessages
  <2>6. phase' = "decode" =>
          batch' = "prompt" /\ promptTokens' = PromptFrom(prevLen', messages', turn')
    BY <1>1, <2>1 DEF StartCompletion
  <2> QED
    BY <1>1, <2>2, <2>4, <2>5, <2>6 DEF FeedInv, StartCompletion
<1>2. CASE LoopThrows \/ LoopDecodeFails \/ LoopAborts \/ Cancelled
  BY <1>2 DEF LoopThrows, LoopDecodeFails, LoopAborts, Cancelled, FeedInv, session
<1>3. CASE EmitPiece
  BY <1>3 DEF EmitPiece, FeedInv, session
<1>4. CASE LoopEndsTurn
  <2>1. Fed(messages, kv') = 1..Len(messages) /\ OnlyMessages(kv', Len(messages))
    BY <1>4, DecodeFeeds DEF LoopEndsTurn
  <2> DEFINE m == Message("assistant", turn, response)
  <2>2. m \in MessageType /\ m.role = "assistant" /\ messages' = Append(messages, m)
        /\ messages \in Seq(MessageType)
    BY <1>4, MessageIn DEF LoopEndsTurn, Message, TypeOK, turn
  <2> HIDE DEF m
  <2>3. Fed(messages', kv') = 1..Len(messages') /\ Len(messages') = Len(messages) + 1
    BY <2>1, <2>2, FedAnswer
  <2>4. OnlyMessages(kv', Len(messages'))
    BY <2>1, <2>2, <2>3 DEF OnlyMessages
  <2>5. 1..prevLen' \subseteq 1..Len(messages')
    BY <1>4, <2>2, <2>3 DEF LoopEndsTurn, TypeOK
  <2> QED
    BY <1>4, <2>3, <2>4, <2>5 DEF FeedInv, LoopEndsTurn, EOG
<1>5. ASSUME NEW kind \in PieceKinds, LoopYieldsPiece(kind) PROVE FeedInv'
  <2>1. Fed(messages, kv') = 1..Len(messages) /\ OnlyMessages(kv', Len(messages))
    BY <1>5, DecodeFeeds DEF LoopYieldsPiece
  <2>2. 1..prevLen \subseteq 1..Len(messages)
    BY DEF TypeOK
  <2>3. UNCHANGED <<messages, prevLen>> /\ batch' = "current"
        /\ currToken'.kind # "msg" /\ phase' \in {"stop", "emit"}
    BY <1>5 DEF LoopYieldsPiece, Piece
  <2> QED
    BY <2>1, <2>2, <2>3 DEF FeedInv
<1>6. CASE StopCompletion
  <2>1. Fed(messages, kv) = 1..Len(messages) /\ OnlyMessages(kv, Len(messages))
    BY <1>6 DEF StopCompletion, FeedInv
  <2> DEFINE m == Message("assistant", turn, response)
  <2>2. m \in MessageType /\ m.role = "assistant" /\ messages' = Append(messages, m)
        /\ messages \in Seq(MessageType)
    BY <1>6, MessageIn DEF StopCompletion, Message, TypeOK, turn
  <2> HIDE DEF m
  <2>3. Fed(messages', kv) = 1..Len(messages') /\ Len(messages') = Len(messages) + 1
    BY <2>1, <2>2, FedAnswer
  <2>4. OnlyMessages(kv, Len(messages'))
    BY <2>1, <2>2, <2>3 DEF OnlyMessages
  <2> QED
    BY <1>6, <2>3, <2>4 DEF FeedInv, StopCompletion
<1>7. CASE Rest \/ UNCHANGED vars
  BY <1>7 DEF Rest, vars, session, FeedInv, turn
<1> QED
  BY <1>1, <1>2, <1>3, <1>4, <1>5, <1>6, <1>7 DEF Next, CompletionLoop

LEMMA FedMessagesIsFed == FedMessages = Fed(messages, kv)
BY DEF FedMessages, CopiesOf, Fed

\* Each step of the session is a step of PromptFeed, or changes nothing there.
LEMMA FeedStep ==
  ASSUME StoreChats, TypeOK, FeedInv, FeedInv', [Next]_vars
  PROVE  [PromptFeed!FeedNext]_<<Len(messages), FedMessages, prevLen>>
<1> USE SessionAssumption
<1>0. FedMessages = Fed(messages, kv) /\ FedMessages' = Fed(messages', kv')
  BY FedMessagesIsFed DEF FedMessages, CopiesOf, Fed
<1>1. CASE StartCompletion
  <2>1. turn + 1 \in Nat
    BY DEF TypeOK, turn
  <2> DEFINE m == Message("user", turn + 1, {})
  <2>2. m \in MessageType /\ m.role = "user" /\ messages' = Append(messages, m)
        /\ messages \in Seq(MessageType) /\ kv \in Seq(TokenOf)
    BY <1>1, <2>1, MessageIn DEF StartCompletion, Message, TypeOK
  <2> HIDE DEF m
  <2>3. Fed(messages', kv') = Fed(messages, kv)
    BY <1>1, <2>2, FedQuery DEF FeedInv, StartCompletion
  <2>4. prevLen' = prevLen /\ Len(messages') = Len(messages) + 1
    BY <1>1, <2>2 DEF StartCompletion, StartOffset
  <2> QED
    BY <1>0, <2>3, <2>4 DEF PromptFeed!FeedNext, PromptFeed!Submit
<1>2. CASE LoopThrows \/ LoopDecodeFails \/ LoopAborts \/ Cancelled \/ EmitPiece
           \/ Rest \/ UNCHANGED vars
  <2>1. UNCHANGED <<messages, kv, prevLen>>
    BY <1>2 DEF LoopThrows, LoopDecodeFails, LoopAborts, Cancelled, EmitPiece,
                Rest, vars, session
  <2> QED
    BY <1>0, <2>1
<1>3. CASE LoopEndsTurn
  <2>1. Fed(messages', kv') = 1..Len(messages') /\ prevLen' = prevLen
    BY <1>3 DEF FeedInv, LoopEndsTurn
  <2>2. Len(messages') = Len(messages) + 1
    BY <1>3 DEF LoopEndsTurn, TypeOK
  <2> QED
    BY <1>0, <2>1, <2>2 DEF PromptFeed!FeedNext, PromptFeed!Feed
<1>4. ASSUME NEW kind \in PieceKinds, LoopYieldsPiece(kind)
      PROVE  PromptFeed!FeedNext
  <2>1. UNCHANGED <<messages, prevLen>>
    BY <1>4 DEF LoopYieldsPiece
  <2>2. Fed(messages', kv') = 1..Len(messages')
    BY <1>4 DEF FeedInv, LoopYieldsPiece
  <2> QED
    BY <1>0, <2>1, <2>2 DEF PromptFeed!FeedNext, PromptFeed!Feed
<1>5. CASE StopCompletion
  <2>1. prevLen' = Len(messages') /\ Len(messages') = Len(messages) + 1
    BY <1>5 DEF StopCompletion, TypeOK
  <2>2. 1..prevLen' \subseteq Fed(messages', kv')
    BY DEF FeedInv
  <2>3. Fed(messages', kv') = 1..Len(messages')
    BY <2>1, <2>2 DEF Fed
  <2>4. Fed(messages, kv) = 1..Len(messages)
    BY <1>5 DEF FeedInv, StopCompletion
  <2> QED
    BY <1>0, <2>1, <2>3, <2>4 DEF PromptFeed!FeedNext, PromptFeed!Ack
<1> QED
  BY <1>1, <1>2, <1>3, <1>4, <1>5 DEF Next, CompletionLoop

\* With stored chats, every message of the chat reaches the model at least once
\* and _prevLen never moves past one that has not, whatever turns are cancelled
\* or broken off.
THEOREM FeedsPromptsCorrect ==
  ASSUME StoreChats
  PROVE  Spec => FeedsPrompts
<1>1. Init => PromptFeed!FeedInit
  <2> SUFFICES ASSUME Init PROVE PromptFeed!FeedInit
    OBVIOUS
  <2>1. FedMessages = {}
    BY DEF Init, FedMessages, CopiesOf, Message
  <2> QED
    BY <2>1 DEF Init, PromptFeed!FeedInit
<1>2. Init => TypeOK /\ FeedInv
  BY TypeInit, FeedInvInit
<1>3. TypeOK /\ FeedInv /\ [Next]_vars => TypeOK' /\ FeedInv'
  BY TypeStep, FeedInvStep
<1>4. TypeOK /\ FeedInv /\ FeedInv' /\ [Next]_vars
        => [PromptFeed!FeedNext]_<<Len(messages), FedMessages, prevLen>>
  BY FeedStep
<1> QED
  BY <1>1, <1>2, <1>3, <1>4, PTL
     DEF Spec, FeedsPrompts, PromptFeed!FeedSpec, PromptFeed!feedVars

\* With stored chats, _prevLen only ever covers messages the model has
\* evaluated: nothing that startCompletion skips was never read.
THEOREM SkippedIsRead ==
  ASSUME StoreChats
  PROVE  Spec => []PromptFeed!AckedIsFed
<1>1. Init => TypeOK /\ FeedInv
  BY TypeInit, FeedInvInit
<1>2. TypeOK /\ FeedInv /\ [Next]_vars => TypeOK' /\ FeedInv'
  BY TypeStep, FeedInvStep
<1>3. FeedInv => PromptFeed!AckedIsFed
  BY FedMessagesIsFed DEF FeedInv, PromptFeed!AckedIsFed
<1> QED
  BY <1>1, <1>2, <1>3, PTL DEF Spec

-----------------------------------------------------------------------------
(***************************************************************************)
(* The tokens on their way from the sampler into the messages.             *)
(***************************************************************************)

LEMMA TextsAppend ==
  ASSUME NEW ms \in Seq(MessageType), NEW m \in MessageType
  PROVE  Texts(Append(ms, m)) = Texts(ms) \union m.text
<1>1. Len(Append(ms, m)) = Len(ms) + 1 /\ Append(ms, m)[Len(ms) + 1] = m
  OBVIOUS
<1>2. \A i \in 1..Len(ms) : Append(ms, m)[i] = ms[i]
  OBVIOUS
<1>3. 1..(Len(ms) + 1) = 1..Len(ms) \union {Len(ms) + 1}
  OBVIOUS
<1>4. ASSUME NEW a PROVE a \in Texts(Append(ms, m)) <=> a \in Texts(ms) \/ a \in m.text
  <2>1. a \in Texts(ms) <=> \E i \in 1..Len(ms) : a \in ms[i].text
    BY DEF Texts
  <2>2. a \in Texts(Append(ms, m))
          <=> \E i \in 1..(Len(ms) + 1) : a \in Append(ms, m)[i].text
    BY <1>1 DEF Texts
  <2> QED
    BY <1>1, <1>2, <1>3, <2>1, <2>2
<1> QED
  BY <1>4

\* A message that takes over the whole response keeps the order.
LEMMA OrderAppend ==
  ASSUME NEW ms \in Seq(MessageType), NEW m \in MessageType,
         NEW resp, NEW bytes, NEW rest,
         InOrder(ms, resp, bytes), rest \subseteq resp,
         \/ m.text = {}
         \/ m.text = resp /\ rest = {}
  PROVE  InOrder(Append(ms, m), rest, bytes)
<1>1. Len(Append(ms, m)) = Len(ms) + 1 /\ Append(ms, m)[Len(ms) + 1] = m
  OBVIOUS
<1>2. \A i \in 1..Len(ms) : Append(ms, m)[i] = ms[i]
  OBVIOUS
<1>3. \A a \in rest, b \in bytes : a < b
  BY DEF InOrder
<1>4. ASSUME NEW i \in 1..(Len(ms) + 1), NEW a \in Append(ms, m)[i].text
      PROVE  \A b \in rest \union bytes : a < b
  <2>1. CASE i = Len(ms) + 1
    BY <1>1, <1>4, <2>1 DEF InOrder
  <2>2. CASE i \in 1..Len(ms)
    BY <1>2, <1>4, <2>2 DEF InOrder
  <2> QED
    BY <2>1, <2>2
<1>5. ASSUME NEW i \in 1..(Len(ms) + 1), NEW a \in Append(ms, m)[i].text,
             NEW j \in (i + 1)..(Len(ms) + 1), NEW b \in Append(ms, m)[j].text
      PROVE  a < b
  <2>1. i \in 1..Len(ms) /\ a \in ms[i].text
    BY <1>2, <1>5
  <2>2. CASE j = Len(ms) + 1
    BY <1>1, <1>5, <2>1, <2>2 DEF InOrder
  <2>3. CASE j \in (i + 1)..Len(ms)
    BY <1>2, <1>5, <2>1, <2>3 DEF InOrder
  <2> QED
    BY <2>2, <2>3
<1> QED
  BY <1>1, <1>3, <1>4, <1>5 DEF InOrder

LEMMA ConservedInit == Init => TokensConserved
<1> SUFFICES ASSUME Init PROVE TokensConserved
  OBVIOUS
<1>1. Texts(messages) = {}
  BY DEF Init, Message, Texts
<1>2. InOrder(messages, response, cache)
  BY DEF Init, Message, InOrder
<1> QED
  BY <1>1, <1>2 DEF Init, TokensConserved, sampled

LEMMA ConservedStep ==
  ASSUME StoreChats, TypeOK, TokensConserved, [Next]_vars
  PROVE  TokensConserved'
<1> USE SessionAssumption
<1>0. /\ 1..sampled = Texts(messages) \union response \union cache
      /\ InOrder(messages, response, cache)
      /\ messages \in Seq(MessageType) /\ turn \in Nat /\ sampled \in Nat
      /\ response \in SUBSET (Nat \ {0})
  BY DEF TokensConserved, TypeOK, turn, sampled
<1>1. ASSUME NEW m \in MessageType, messages' = Append(messages, m),
             \/ m.text = {} /\ response' = response
             \/ m.text = response /\ response' = {},
             UNCHANGED <<cache, sampledIn>>
      PROVE  TokensConserved'
  <2>1. Texts(messages') = Texts(messages) \union m.text
    BY <1>0, <1>1, TextsAppend
  <2>2. InOrder(messages', response', cache')
    <3>1. InOrder(Append(messages, m), response', cache)
      <4>1. response' \subseteq response
        BY <1>1
      <4>2. m.text = {} \/ (m.text = response /\ response' = {})
        BY <1>1
      <4> QED
        BY <1>0, <4>1, <4>2, OrderAppend
    <3> QED
      BY <1>1, <3>1
  <2>3. sampled' = sampled
    BY <1>1 DEF sampled
  <2>4. 1..sampled' = Texts(messages') \union response' \union cache'
    BY <1>0, <1>1, <2>1, <2>3
  <2> QED
    BY <2>2, <2>4 DEF TokensConserved
<1>2. CASE StartCompletion
  <2>1. Message("user", turn + 1, {}) \in MessageType
        /\ Message("user", turn + 1, {}).text = {}
    BY <1>0, MessageIn DEF Message
  <2> QED
    BY <1>1, <1>2, <2>1 DEF StartCompletion
<1>3. CASE LoopEndsTurn \/ StopCompletion
  <2>1. Message("assistant", turn, response) \in MessageType
        /\ Message("assistant", turn, response).text = response
    BY <1>0, MessageIn DEF Message
  <2> QED
    BY <1>1, <1>3, <2>1 DEF LoopEndsTurn, StopCompletion
<1>4. ASSUME NEW kind \in PieceKinds, LoopYieldsPiece(kind) PROVE TokensConserved'
  <2> DEFINE bytes == CacheWith(sampled + 1)
  <2>1. bytes = cache \union {sampled + 1} /\ sampled' = sampled + 1
        /\ messages' = messages
    BY <1>4 DEF CacheWith, LoopYieldsPiece, sampled, TypeOK
  <2>2. \/ response' = response \union bytes /\ cache' = {}
        \/ response' = response /\ cache' = bytes
    BY <1>4 DEF LoopYieldsPiece
  <2> HIDE DEF bytes
  <2>3. 1..(sampled + 1) = 1..sampled \union {sampled + 1}
    BY <1>0
  <2>4. 1..sampled' = Texts(messages') \union response' \union cache'
    BY <1>0, <2>1, <2>2, <2>3
  <2>5. \A i \in 1..Len(messages) : \A a \in messages[i].text : a < sampled + 1
    <3>1. \A i \in 1..Len(messages) : messages[i].text \subseteq Texts(messages)
      BY DEF Texts
    <3> QED
      BY <1>0, <3>1
  <2>6. \A a \in response : a < sampled + 1
    BY <1>0
  <2>7. InOrder(messages', response', cache')
    BY <1>0, <2>1, <2>2, <2>5, <2>6 DEF InOrder
  <2> QED
    BY <2>4, <2>7 DEF TokensConserved
<1>5. CASE UNCHANGED <<messages, response, cache, sampledIn>>
  BY <1>0, <1>5 DEF TokensConserved, sampled
<1>6. CASE LoopThrows \/ LoopDecodeFails \/ LoopAborts \/ Cancelled \/ EmitPiece
           \/ Rest \/ UNCHANGED vars
  BY <1>5, <1>6 DEF LoopThrows, LoopDecodeFails, LoopAborts, Cancelled, EmitPiece,
                    Rest, vars, session
<1> QED
  BY <1>2, <1>3, <1>4, <1>6 DEF Next, CompletionLoop

\* With stored chats no token is lost, duplicated or reordered between the
\* sampler and the messages, across any sequence of turns.
THEOREM TokensConservedCorrect ==
  ASSUME StoreChats
  PROVE  Spec => []TokensConserved
<1>1. Init => TypeOK /\ TokensConserved
  BY TypeInit, ConservedInit
<1>2. TypeOK /\ TokensConserved /\ [Next]_vars => TypeOK' /\ TokensConserved'
  BY TypeStep, ConservedStep
<1> QED
  BY <1>1, <1>2, PTL DEF Spec

-----------------------------------------------------------------------------
(***************************************************************************)
(* Questions come before answers.  The prompt of a turn ends with its      *)
(* query, and a token is only sampled once the prompt has been evaluated,  *)
(* so the query is in the KV cache before the first piece of its answer.   *)
(***************************************************************************)

\* Message i of ms is the query of turn t.
Query(ms, i, t) == i \in 1..Len(ms) /\ ms[i].role = "user" /\ ms[i].turn = t

\* One of the cells before c holds the query of turn t.
Read(ms, cells, c, t) ==
  \E b \in 1..(c - 1) : cells[b].kind = "msg" /\ Query(ms, cells[b].n, t)

\* Every piece in the cells comes after the query of its turn.
PiecesRead(ms, cells, turns) ==
  \A c \in 1..Len(cells) :
    cells[c].kind = "piece" =>
      /\ cells[c].n \in 1..Len(turns)
      /\ Read(ms, cells, c, turns[cells[c].n])

\* The batch is the last piece sampled, in a turn whose query was evaluated.
Answering ==
  /\ batch = "current"
  /\ currToken = Piece(sampled)
  /\ sampled # 0 /\ sampledIn[sampled] = turn
  /\ Read(messages, kv, Len(kv) + 1, turn)

\* The batch is a prompt that holds the query of the turn.
Asking ==
  /\ batch = "prompt"
  /\ Query(messages, Len(messages), turn)
  /\ \E len \in 0..(Len(messages) - 1) : promptTokens = PromptFrom(len, messages, turn)

AnswerInv ==
  /\ PiecesRead(messages, kv, sampledIn)
  /\ phase = "decode" => Asking \/ Answering
  /\ phase = "emit" => Answering

\* More messages, cells and tokens do not unread a query.
LEMMA ReadMore ==
  ASSUME NEW ms \in Seq(MessageType), NEW m \in MessageType, NEW cells, NEW c, NEW t,
         Read(ms, cells, c, t)
  PROVE  Read(Append(ms, m), cells, c, t)
<1>1. PICK b \in 1..(c - 1) : cells[b].kind = "msg" /\ Query(ms, cells[b].n, t)
  BY DEF Read
<1>2. /\ Len(Append(ms, m)) = Len(ms) + 1
      /\ \A i \in 1..Len(ms) : i \in 1..(Len(ms) + 1) /\ Append(ms, m)[i] = ms[i]
  OBVIOUS
<1>3. Query(Append(ms, m), cells[b].n, t)
  BY <1>1, <1>2 DEF Query
<1> QED
  BY <1>1, <1>3 DEF Read

LEMMA ReadConcat ==
  ASSUME NEW ms, NEW cells \in Seq(TokenOf), NEW b \in Seq(TokenOf),
         NEW c \in 1..(Len(cells) + 1), NEW t, Read(ms, cells, c, t)
  PROVE  Read(ms, cells \o b, c, t)
<1>1. PICK d \in 1..(c - 1) : cells[d].kind = "msg" /\ Query(ms, cells[d].n, t)
  BY DEF Read
<1>2. (cells \o b)[d] = cells[d]
  BY <1>1
<1> QED
  BY <1>1, <1>2 DEF Read

LEMMA PiecesReadMore ==
  ASSUME NEW ms \in Seq(MessageType), NEW m \in MessageType, NEW cells, NEW turns,
         PiecesRead(ms, cells, turns)
  PROVE  PiecesRead(Append(ms, m), cells, turns)
BY ReadMore DEF PiecesRead

\* Whatever completionLoop evaluates, the query of the turn has then been read,
\* and every piece evaluated comes after its own.
LEMMA DecodeReads ==
  ASSUME TypeOK, AnswerInv, Decode
  PROVE  /\ PiecesRead(messages, kv', sampledIn)
         /\ Read(messages, kv', Len(kv') + 1, turn)
<1>1. kv' = kv \o BatchTokens /\ kv \in Seq(TokenOf) /\ messages \in Seq(MessageType)
  BY DEF Decode, TypeOK
<1>2. BatchTokens \in Seq(TokenOf)
  BY BatchType
<1>3. PiecesRead(messages, kv, sampledIn) /\ (Asking \/ Answering)
  BY DEF AnswerInv, Decode
<1> HIDE DEF BatchTokens
<1>4. /\ Len(kv') = Len(kv) + Len(BatchTokens)
      /\ \A c \in 1..Len(kv) : kv'[c] = kv[c]
      /\ \A c \in 1..Len(BatchTokens) : kv'[Len(kv) + c] = BatchTokens[c]
  BY <1>1, <1>2
<1>5. Len(kv) \in Nat /\ Len(BatchTokens) \in Nat /\ Len(messages) \in Nat
  BY <1>1, <1>2
<1>6. ASSUME NEW c \in 1..Len(kv), kv'[c].kind = "piece"
      PROVE  kv'[c].n \in 1..Len(sampledIn) /\ Read(messages, kv', c, sampledIn[kv'[c].n])
  <2>1. kv[c].n \in 1..Len(sampledIn) /\ Read(messages, kv, c, sampledIn[kv[c].n])
    BY <1>3, <1>4, <1>6 DEF PiecesRead
  <2>2. Read(messages, kv', c, sampledIn[kv[c].n])
    BY <1>1, <1>2, <1>5, <2>1, ReadConcat
  <2> QED
    BY <1>4, <2>1, <2>2
<1>7. CASE Asking
  <2>1. PICK len \in 0..(Len(messages) - 1) : BatchTokens = PromptFrom(len, messages, turn)
    BY <1>7 DEF Asking, BatchTokens
  <2> DEFINE q == Len(messages) - len
  <2>2. q \in Nat \ {0} /\ Len(BatchTokens) = q + 1
    <3>1. q \in Nat \ {0}
      BY <1>5
    <3>2. DOMAIN BatchTokens = 1..(q + 1)
      BY <2>1 DEF PromptFrom
    <3> HIDE DEF q
    <3> QED
      BY <1>2, <3>1, <3>2
  <2>3. BatchTokens[q] = MsgBlock(Len(messages))
    BY <1>5, <2>1, <2>2 DEF PromptFrom
  <2>4. \A c \in 1..Len(BatchTokens) : BatchTokens[c].kind # "piece"
    BY <2>1, <2>2 DEF PromptFrom, MsgBlock, Opener
  <2> HIDE DEF q
  <2>5. Read(messages, kv', Len(kv') + 1, turn)
    <3>1. Len(kv) + q \in 1..(Len(kv') + 1 - 1) /\ kv'[Len(kv) + q] = MsgBlock(Len(messages))
      BY <1>4, <1>5, <2>2, <2>3
    <3>2. Query(messages, MsgBlock(Len(messages)).n, turn) /\ MsgBlock(Len(messages)).kind = "msg"
      BY <1>7 DEF Asking, MsgBlock
    <3> QED
      BY <3>1, <3>2 DEF Read
  <2>6. ASSUME NEW c \in 1..Len(kv'), kv'[c].kind = "piece" PROVE c \in 1..Len(kv)
    <3> SUFFICES ASSUME c > Len(kv) PROVE FALSE
      BY <1>5
    <3>1. c - Len(kv) \in 1..Len(BatchTokens) /\ c = Len(kv) + (c - Len(kv))
      BY <1>4, <1>5
    <3>2. kv'[c] = BatchTokens[c - Len(kv)]
      BY <1>4, <3>1
    <3> QED
      BY <2>4, <2>6, <3>1, <3>2
  <2> QED
    BY <1>6, <2>5, <2>6 DEF PiecesRead
<1>8. CASE Answering
  <2>1. BatchTokens = <<Piece(sampled)>> /\ sampled \in 1..Len(sampledIn)
        /\ sampledIn[sampled] = turn
    <3>1. sampled \in Nat
      BY DEF sampled, TypeOK
    <3> QED
      BY <1>8, <3>1 DEF Answering, BatchTokens, sampled
  <2>2. Len(kv') = Len(kv) + 1 /\ kv'[Len(kv) + 1] = Piece(sampled)
    BY <1>4, <1>5, <2>1
  <2>3. Read(messages, kv', Len(kv) + 1, turn)
    BY <1>1, <1>2, <1>5, <1>8, ReadConcat DEF Answering
  <2>4. Read(messages, kv', Len(kv') + 1, turn)
    BY <1>5, <2>2, <2>3 DEF Read
  <2>5. Piece(sampled).n = sampled
    BY DEF Piece
  <2>6. ASSUME NEW c \in 1..Len(kv'), kv'[c].kind = "piece"
        PROVE  kv'[c].n \in 1..Len(sampledIn) /\ Read(messages, kv', c, sampledIn[kv'[c].n])
    <3>1. CASE c \in 1..Len(kv)
      BY <1>6, <2>6, <3>1
    <3>2. CASE c = Len(kv) + 1
      BY <2>1, <2>2, <2>3, <2>5, <3>2
    <3> QED
      BY <1>5, <2>2, <3>1, <3>2
  <2> QED
    BY <2>4, <2>6 DEF PiecesRead
<1> QED
  BY <1>3, <1>7, <1>8

LEMMA AnswerInit == Init => AnswerInv
BY DEF Init, AnswerInv, PiecesRead

LEMMA AnswerStep ==
  ASSUME TypeOK, AnswerInv, [Next]_vars
  PROVE  AnswerInv'
<1>0. messages \in Seq(MessageType) /\ turn \in Nat /\ sampled \in Nat
      /\ sampledIn \in Seq(Nat) /\ PiecesRead(messages, kv, sampledIn)
  BY DEF TypeOK, turn, sampled, AnswerInv
<1>1. CASE StartCompletion
  <2> DEFINE m == Message("user", turn + 1, {})
  <2>1. m \in MessageType /\ m.role = "user" /\ m.turn = turn + 1
        /\ messages' = Append(messages, m)
    BY <1>0, <1>1, MessageIn DEF StartCompletion, Message
  <2> HIDE DEF m
  <2>2. UNCHANGED <<kv, sampledIn>> /\ phase' # "emit" /\ turn' = turn + 1
    BY <1>1 DEF StartCompletion, TypeOK, turn
  <2>3. PiecesRead(messages', kv', sampledIn')
    BY <1>0, <2>1, <2>2, PiecesReadMore
  <2>4. Len(messages') = Len(messages) + 1 /\ messages'[Len(messages')] = m
        /\ Len(messages') \in 1..Len(messages')
    BY <1>0, <2>1
  <2>5. Query(messages', Len(messages'), turn')
    BY <2>1, <2>2, <2>4 DEF Query
  <2>6. phase' = "decode" => batch' = "prompt" /\ promptTokens' = PromptFrom(prevLen', messages', turn')
    BY <1>1, <2>2 DEF StartCompletion
  <2>7. prevLen' \in 0..(Len(messages') - 1)
    BY <1>0, <1>1, <2>4 DEF StartCompletion, StartOffset, TypeOK
  <2> QED
    BY <2>2, <2>3, <2>5, <2>6, <2>7 DEF AnswerInv, Asking
<1>2. CASE LoopThrows \/ LoopDecodeFails \/ LoopAborts \/ Cancelled
  <2>1. UNCHANGED <<messages, kv, sampledIn>> /\ phase' \in {"idle", "dead"}
    BY <1>2 DEF LoopThrows, LoopDecodeFails, LoopAborts, Cancelled, session
  <2> QED
    BY <1>0, <2>1 DEF AnswerInv
<1>3. CASE EmitPiece
  <2>1. Answering /\ UNCHANGED <<messages, kv, sampledIn, batch, currToken, ending>>
        /\ phase' = "decode"
    BY <1>3 DEF EmitPiece, AnswerInv, session
  <2>2. Answering'
    BY <2>1 DEF Answering, sampled, turn
  <2> QED
    BY <1>0, <2>1, <2>2 DEF AnswerInv
<1>4. CASE LoopEndsTurn
  <2>1. PiecesRead(messages, kv', sampledIn)
    BY <1>4, DecodeReads DEF LoopEndsTurn
  <2>2. PiecesRead(messages', kv', sampledIn')
    <3> DEFINE m == Message("assistant", turn, response)
    <3>1. m \in MessageType
      BY <1>0, MessageIn DEF TypeOK
    <3>2. messages' = Append(messages, m) /\ sampledIn' = sampledIn
      BY <1>4 DEF LoopEndsTurn
    <3> HIDE DEF m
    <3> QED
      BY <1>0, <2>1, <3>1, <3>2, PiecesReadMore
  <2>3. phase' = "stop"
    BY <1>4 DEF LoopEndsTurn
  <2> QED
    BY <2>2, <2>3 DEF AnswerInv
<1>5. ASSUME NEW kind \in PieceKinds, LoopYieldsPiece(kind) PROVE AnswerInv'
  <2>1. PiecesRead(messages, kv', sampledIn) /\ Read(messages, kv', Len(kv') + 1, turn)
    BY <1>5, DecodeReads DEF LoopYieldsPiece
  <2>2. UNCHANGED messages /\ batch' = "current" /\ currToken' = Piece(sampled + 1)
        /\ sampledIn' = Append(sampledIn, turn) /\ phase' \in {"stop", "emit"}
    BY <1>5 DEF LoopYieldsPiece
  <2>3. turn' = turn
    BY <1>5 DEF LoopYieldsPiece, TypeOK, turn
  <2>4. /\ Len(sampledIn') = Len(sampledIn) + 1 /\ sampledIn'[Len(sampledIn) + 1] = turn
        /\ \A k \in 1..Len(sampledIn) : k \in 1..Len(sampledIn') /\ sampledIn'[k] = sampledIn[k]
    BY <1>0, <2>2
  <2>5. sampled' = sampled + 1 /\ sampled' # 0 /\ sampledIn'[sampled'] = turn
    BY <1>0, <2>4 DEF sampled
  <2>6. PiecesRead(messages', kv', sampledIn')
    BY <2>1, <2>2, <2>4 DEF PiecesRead
  <2>7. Answering'
    BY <2>1, <2>2, <2>3, <2>5 DEF Answering
  <2> QED
    BY <2>2, <2>6, <2>7 DEF AnswerInv
<1>6. CASE StopCompletion
  <2> DEFINE m == Message("assistant", turn, response)
  <2>1. m \in MessageType
    BY <1>0, MessageIn DEF TypeOK
  <2>2. messages' = Append(messages, m) \/ messages' = messages
    BY <1>6 DEF StopCompletion
  <2>3. UNCHANGED <<kv, sampledIn>> /\ phase' = "idle"
    BY <1>6 DEF StopCompletion
  <2> HIDE DEF m
  <2>4. PiecesRead(messages', kv', sampledIn')
    BY <1>0, <2>1, <2>2, <2>3, PiecesReadMore
  <2> QED
    BY <2>3, <2>4 DEF AnswerInv
<1>7. CASE Rest \/ UNCHANGED vars
  <2>1. UNCHANGED <<messages, kv, sampledIn, batch, currToken, promptTokens, ending, phase>>
    BY <1>7 DEF Rest, vars, session
  <2> QED
    BY <2>1 DEF AnswerInv, Asking, Answering, turn, sampled
<1> QED
  BY <1>1, <1>2, <1>3, <1>4, <1>5, <1>6, <1>7 DEF Next, CompletionLoop

\* The model never continues a question it has not read, with or without stored
\* chats, whatever was cancelled or broken off before.
THEOREM QuestionBeforeAnswerCorrect == Spec => []QuestionBeforeAnswer
<1>1. Init => TypeOK /\ AnswerInv
  BY TypeInit, AnswerInit
<1>2. TypeOK /\ AnswerInv /\ [Next]_vars => TypeOK' /\ AnswerInv'
  BY TypeStep, AnswerStep
<1>3. AnswerInv => QuestionBeforeAnswer
  BY DEF AnswerInv, PiecesRead, Read, Query, QuestionBeforeAnswer
<1> QED
  BY <1>1, <1>2, <1>3, PTL DEF Spec

-----------------------------------------------------------------------------
(***************************************************************************)
(* What the model said and does not remember.  A turn leaves at most its   *)
(* last piece out of the KV cache, and none if it reached an end-of-       *)
(* generation token, which is sampled after that piece was evaluated.      *)
(***************************************************************************)

\* The tokens up to n that no cell holds.
Unheard(n, cells) == {k \in 1..n : \A c \in 1..Len(cells) : cells[c] # Piece(k)}

CutShort == {"abandoned", "sentinel", "open"}

\* Turn t left out at most one of the tokens in ks.
OnePerTurn(ks) == \A k, l \in ks : sampledIn[k] = sampledIn[l] => k = l

ForgetInv ==
  /\ phase \in {"decode", "emit"} => turn # 0 /\ ending[turn] = "open"
  /\ phase = "emit" => batch = "current"
  /\ \A k \in 1..sampled : sampledIn[k] \in 1..turn
  /\ OnePerTurn(Unheard(sampled, kv))
  /\ \A k \in Unheard(sampled, kv) :
       /\ ending[sampledIn[k]] \in CutShort
       /\ phase \in {"decode", "emit"} /\ sampledIn[k] = turn =>
            batch = "current" /\ currToken = Piece(k)

\* After a batch is evaluated, the turn at work has forgotten nothing.
LEMMA DecodeRemembers ==
  ASSUME TypeOK, ForgetInv, Decode
  PROVE  /\ Unheard(sampled, kv') \subseteq Unheard(sampled, kv)
         /\ \A k \in Unheard(sampled, kv') : sampledIn[k] # turn
<1>1. kv' = kv \o BatchTokens /\ kv \in Seq(TokenOf)
  BY DEF Decode, TypeOK
<1>2. BatchTokens \in Seq(TokenOf)
  BY BatchType
<1> HIDE DEF BatchTokens
<1>3. /\ Len(kv') = Len(kv) + Len(BatchTokens)
      /\ \A c \in 1..Len(kv) : c \in 1..Len(kv') /\ kv'[c] = kv[c]
      /\ \A c \in 1..Len(BatchTokens) :
           Len(kv) + c \in 1..Len(kv') /\ kv'[Len(kv) + c] = BatchTokens[c]
  BY <1>1, <1>2
<1>4. Unheard(sampled, kv') \subseteq Unheard(sampled, kv)
  BY <1>3 DEF Unheard
<1>5. ASSUME NEW k \in Unheard(sampled, kv'), sampledIn[k] = turn PROVE FALSE
  <2>1. batch = "current" /\ currToken = Piece(k)
    BY <1>4, <1>5 DEF ForgetInv, Decode
  <2>2. Len(BatchTokens) = 1 /\ BatchTokens[1] = Piece(k)
    BY <2>1 DEF BatchTokens
  <2>3. Len(kv) + 1 \in 1..Len(kv') /\ kv'[Len(kv) + 1] = Piece(k)
    BY <1>3, <2>2
  <2> QED
    BY <1>5, <2>3 DEF Unheard
<1> QED
  BY <1>4, <1>5

LEMMA ForgetInit == Init => ForgetInv
<1> SUFFICES ASSUME Init PROVE ForgetInv
  OBVIOUS
<1>1. sampled = 0 /\ phase = "idle"
  BY DEF Init, sampled
<1>2. Unheard(sampled, kv) = {}
  BY <1>1 DEF Unheard
<1> QED
  BY <1>1, <1>2 DEF ForgetInv, OnePerTurn

\* A turn that ends otherwise than by evaluating the last piece is cut short.
LEMMA ForgetStop ==
  ASSUME TypeOK, ForgetInv, phase \in {"decode", "emit"},
         NEW e \in CutShort, ending' = [ending EXCEPT ![turn] = e],
         phase' = "idle", UNCHANGED <<kv, sampledIn>>
  PROVE  ForgetInv'
<1>1. turn' = turn /\ sampled' = sampled /\ turn \in Nat
  BY DEF turn, sampled, TypeOK
<1>2. \A t \in 1..turn : ending'[t] = ending[t] \/ ending'[t] = e
  BY DEF TypeOK, turn
<1>3. Unheard(sampled, kv)' = Unheard(sampled, kv) /\ Unheard(sampled, kv) \subseteq 1..sampled
  BY <1>1 DEF Unheard
<1>4. \A k \in Unheard(sampled, kv) : ending'[sampledIn[k]] \in CutShort
  BY <1>2, <1>3 DEF ForgetInv
<1>5. OnePerTurn(Unheard(sampled, kv))'
  BY <1>3 DEF ForgetInv, OnePerTurn
<1>6. \A k \in 1..sampled : sampledIn[k] \in 1..turn
  BY DEF ForgetInv
<1> QED
  BY <1>1, <1>3, <1>4, <1>5, <1>6 DEF ForgetInv

LEMMA ForgetStep ==
  ASSUME TypeOK, ForgetInv, [Next]_vars
  PROVE  ForgetInv'
<1>0. /\ turn \in Nat /\ sampled \in Nat /\ ending \in Seq(Endings) /\ sampledIn \in Seq(Nat)
      /\ Unheard(sampled, kv) \subseteq 1..sampled
      /\ \A k \in 1..sampled : sampledIn[k] \in 1..turn
  BY DEF TypeOK, turn, sampled, ForgetInv, Unheard
<1>1. CASE StartCompletion
  <2>1. /\ ending' = Append(ending, "open") /\ turn' = turn + 1 /\ ending'[turn + 1] = "open"
        /\ \A t \in 1..turn : ending'[t] = ending[t]
        /\ UNCHANGED <<kv, sampledIn>> /\ sampled' = sampled
        /\ phase' # "emit"
    BY <1>0, <1>1 DEF StartCompletion, turn, sampled
  <2>2. Unheard(sampled, kv)' = Unheard(sampled, kv)
    BY <2>1 DEF Unheard
  <2>3. OnePerTurn(Unheard(sampled, kv))'
    BY <2>1, <2>2 DEF ForgetInv, OnePerTurn
  <2>4. \A k \in 1..sampled : sampledIn[k] \in 1..(turn + 1) /\ sampledIn[k] # turn + 1
    BY <1>0
  <2>5. \A k \in Unheard(sampled, kv) : ending'[sampledIn[k]] \in CutShort /\ sampledIn[k] # turn + 1
    BY <1>0, <2>1, <2>4 DEF ForgetInv
  <2>6. turn + 1 # 0
    BY <1>0
  <2> QED
    BY <2>1, <2>2, <2>3, <2>4, <2>5, <2>6 DEF ForgetInv
<1>2. CASE LoopThrows \/ LoopDecodeFails \/ Cancelled
  <2>1. "abandoned" \in CutShort
    BY DEF CutShort
  <2> QED
    BY <1>2, <2>1, ForgetStop DEF LoopThrows, LoopDecodeFails, Cancelled, session
<1>3. CASE LoopAborts
  <2>1. phase' = "dead" /\ UNCHANGED <<ending, kv, sampledIn>>
    BY <1>3 DEF LoopAborts, session
  <2> QED
    BY <2>1 DEF ForgetInv, Unheard, OnePerTurn, turn, sampled
<1>4. CASE EmitPiece
  <2>1. phase = "emit" /\ phase' = "decode"
        /\ UNCHANGED <<ending, kv, sampledIn, batch, currToken>>
    BY <1>4 DEF EmitPiece, session
  <2> QED
    BY <2>1 DEF ForgetInv, Unheard, OnePerTurn, turn, sampled
<1>5. CASE LoopEndsTurn
  <2>1. /\ Unheard(sampled, kv') \subseteq Unheard(sampled, kv)
        /\ \A k \in Unheard(sampled, kv') : sampledIn[k] # turn
    BY <1>5, DecodeRemembers DEF LoopEndsTurn
  <2>2. UNCHANGED sampledIn /\ sampled' = sampled /\ phase' = "stop" /\ turn' = turn
        /\ \A t \in 1..turn : t # turn => ending'[t] = ending[t]
    BY <1>5 DEF LoopEndsTurn, sampled, turn, TypeOK
  <2>3. OnePerTurn(Unheard(sampled, kv))'
    BY <2>1, <2>2 DEF ForgetInv, OnePerTurn
  <2>4. \A k \in Unheard(sampled, kv') : ending'[sampledIn[k]] \in CutShort
    BY <1>0, <2>1, <2>2 DEF ForgetInv
  <2> QED
    BY <1>0, <2>2, <2>3, <2>4 DEF ForgetInv
<1>6. ASSUME NEW kind \in PieceKinds, LoopYieldsPiece(kind) PROVE ForgetInv'
  <2>1. /\ Unheard(sampled, kv') \subseteq Unheard(sampled, kv)
        /\ \A k \in Unheard(sampled, kv') : sampledIn[k] # turn
    BY <1>6, DecodeRemembers DEF LoopYieldsPiece
  <2>2. /\ sampledIn' = Append(sampledIn, turn) /\ batch' = "current"
        /\ currToken' = Piece(sampled + 1) /\ turn # 0 /\ ending[turn] = "open"
    BY <1>6 DEF LoopYieldsPiece, Decode, ForgetInv
  <2>3. \/ phase' = "stop" /\ ending' = [ending EXCEPT ![turn] = "sentinel"]
        \/ phase' = "emit" /\ ending' = ending
    BY <1>6 DEF LoopYieldsPiece
  <2>4. turn' = turn /\ ending'[turn] \in CutShort
        /\ (phase' = "emit" => ending'[turn] = "open")
        /\ \A t \in 1..turn : t # turn => ending'[t] = ending[t]
    BY <1>0, <2>2, <2>3 DEF turn, CutShort
  <2>5. /\ sampled' = sampled + 1 /\ sampledIn'[sampled + 1] = turn
        /\ \A k \in 1..sampled : sampledIn'[k] = sampledIn[k]
    BY <1>0, <2>2 DEF sampled
  <2>6. Unheard(sampled', kv') \subseteq Unheard(sampled, kv') \union {sampled + 1}
    BY <1>0, <2>5 DEF Unheard
  <2>7. \A k \in Unheard(sampled', kv') :
          \/ k = sampled + 1
          \/ /\ k \in Unheard(sampled, kv) /\ k \in 1..sampled
             /\ sampledIn'[k] = sampledIn[k] /\ sampledIn[k] # turn
    BY <1>0, <2>1, <2>5, <2>6
  <2>8. OnePerTurn(Unheard(sampled, kv))'
    BY <2>5, <2>7 DEF ForgetInv, OnePerTurn
  <2>9. \A k \in 1..sampled' : sampledIn'[k] \in 1..turn
    <3>1. turn \in 1..turn
      BY <1>0, <2>2
    <3> QED
      BY <1>0, <2>5, <3>1
  <2>10. ASSUME NEW k \in Unheard(sampled', kv')
         PROVE  /\ ending'[sampledIn'[k]] \in CutShort
                /\ sampledIn'[k] = turn => currToken' = Piece(k)
    <3>1. CASE k = sampled + 1
      BY <2>2, <2>4, <2>5, <3>1
    <3>2. CASE k # sampled + 1
      <4>1. /\ k \in Unheard(sampled, kv) /\ k \in 1..sampled
            /\ sampledIn'[k] = sampledIn[k] /\ sampledIn[k] # turn
        BY <2>7, <3>2
      <4>2. ending[sampledIn[k]] \in CutShort /\ sampledIn[k] \in 1..turn
        BY <1>0, <4>1 DEF ForgetInv
      <4> QED
        BY <2>4, <4>1, <4>2
    <3> QED
      BY <3>1, <3>2
  <2> QED
    BY <2>2, <2>3, <2>4, <2>8, <2>9, <2>10 DEF ForgetInv
<1>7. CASE StopCompletion
  <2>1. phase' = "idle" /\ UNCHANGED <<ending, kv, sampledIn>>
    BY <1>7 DEF StopCompletion
  <2> QED
    BY <2>1 DEF ForgetInv, Unheard, OnePerTurn, turn, sampled
<1>8. CASE Rest \/ UNCHANGED vars
  <2>1. UNCHANGED <<phase, ending, kv, sampledIn, batch, currToken>>
    BY <1>8 DEF Rest, vars, session
  <2> QED
    BY <2>1 DEF ForgetInv, Unheard, OnePerTurn, turn, sampled
<1> QED
  BY <1>1, <1>2, <1>3, <1>4, <1>5, <1>6, <1>7, <1>8 DEF Next, CompletionLoop

\* Of everything the model said, over any number of turns, it has forgotten at
\* most one piece for each turn that was broken off or is at work.
THEOREM ForgottenBoundedCorrect == Spec => []ForgottenBounded
<1>1. Init => TypeOK /\ ForgetInv
  BY TypeInit, ForgetInit
<1>2. TypeOK /\ ForgetInv /\ [Next]_vars => TypeOK' /\ ForgetInv'
  BY TypeStep, ForgetStep
<1>3. TypeOK /\ ForgetInv => ForgottenBounded
  <2> SUFFICES ASSUME TypeOK, ForgetInv PROVE ForgottenBounded
    OBVIOUS
  <2> DEFINE ks == Unheard(sampled, kv)
             ts == Turns("abandoned") \union Turns("sentinel") \union Turns("open")
             f == [k \in ks |-> sampledIn[k]]
  <2>1. turn \in Nat /\ sampled \in Nat
    BY DEF TypeOK, turn, sampled
  <2>2. IsFiniteSet(ts)
    <3>1. IsFiniteSet(1..turn)
      BY <2>1, FS_Interval
    <3>2. ts \subseteq 1..turn
      BY DEF Turns
    <3> QED
      BY <3>1, <3>2, FS_Subset
  <2>3. \A k \in ks : sampledIn[k] \in ts
    <3> SUFFICES ASSUME NEW k \in ks PROVE sampledIn[k] \in ts
      OBVIOUS
    <3>1. sampledIn[k] \in 1..turn /\ ending[sampledIn[k]] \in CutShort
      BY DEF ForgetInv, Unheard
    <3> QED
      BY <3>1 DEF Turns, CutShort
  <2>4. \A k, l \in ks : sampledIn[k] = sampledIn[l] => k = l
    BY DEF ForgetInv, OnePerTurn
  <2> HIDE DEF ks, ts
  <2>5. f \in Injection(ks, ts)
    BY <2>3, <2>4 DEF Injection, IsInjective
  <2>6. Cardinality(ks) <= Cardinality(ts)
    BY <2>2, <2>5, FS_Injection
  <2> QED
    BY <2>6 DEF ForgottenBounded, Unheard, ks, ts
<1> QED
  BY <1>1, <1>2, <1>3, PTL DEF Spec

-----------------------------------------------------------------------------
(***************************************************************************)
(* How often a message is evaluated.  A turn evaluates what lies past      *)
(* _prevLen once.  If it is then broken off _prevLen stays behind, so only *)
(* the messages past it can have one more copy than turns were broken off. *)
(***************************************************************************)

Broken == Cardinality(Turns("abandoned"))

\* The cells that hold message i.
Copies(cells, i) == {c \in 1..Len(cells) : cells[c] = MsgBlock(i)}

RefeedInv ==
  /\ \A i \in 1..Len(messages) : Cardinality(Copies(kv, i)) <= 1 + Broken
  /\ phase = "idle" \/ (phase = "decode" /\ batch = "prompt") =>
       \A i \in (prevLen + 1)..Len(messages) : Cardinality(Copies(kv, i)) <= Broken

\* Turns are counted as broken off when they end so, and stay counted.
LEMMA BrokenType ==
  ASSUME TypeOK
  PROVE  IsFiniteSet(Turns("abandoned")) /\ Broken \in Nat
<1>1. IsFiniteSet(1..turn)
  BY FS_Interval DEF TypeOK, turn
<1>2. IsFiniteSet(Turns("abandoned"))
  BY <1>1, FS_Subset DEF Turns
<1> QED
  BY <1>2, FS_CardinalityType DEF Broken

LEMMA BrokenEnd ==
  ASSUME TypeOK, turn # 0, ending[turn] = "open", NEW e,
         ending' = [ending EXCEPT ![turn] = e]
  PROVE  Broken' = IF e = "abandoned" THEN Broken + 1 ELSE Broken
<1>1. turn \in 1..turn /\ turn' = turn
  BY DEF TypeOK, turn
<1>2. ending'[turn] = e /\ \A t \in 1..turn : t # turn => ending'[t] = ending[t]
  <2>1. DOMAIN ending = 1..turn
    BY DEF TypeOK, turn
  <2> QED
    BY <1>1, <2>1
<1>3. turn \notin Turns("abandoned") /\ IsFiniteSet(Turns("abandoned"))
  BY BrokenType DEF Turns
<1>4. ASSUME NEW t
      PROVE  t \in Turns("abandoned")' <=> \/ t = turn /\ e = "abandoned"
                                           \/ t # turn /\ t \in Turns("abandoned")
  <2>1. t \in Turns("abandoned")' <=> t \in 1..turn /\ ending'[t] = "abandoned"
    BY <1>1 DEF Turns
  <2>2. t \in Turns("abandoned") <=> t \in 1..turn /\ ending[t] = "abandoned"
    BY DEF Turns
  <2> QED
    BY <1>1, <1>2, <2>1, <2>2
<1>5. CASE e = "abandoned"
  <2>1. Turns("abandoned")' = Turns("abandoned") \union {turn}
    BY <1>3, <1>4, <1>5
  <2> QED
    BY <1>3, <1>5, <2>1, FS_AddElement DEF Broken
<1>6. CASE e # "abandoned"
  <2>1. Turns("abandoned")' = Turns("abandoned")
    BY <1>3, <1>4, <1>6
  <2> QED
    BY <1>6, <2>1 DEF Broken
<1> QED
  BY <1>5, <1>6

LEMMA BrokenBegin ==
  ASSUME TypeOK, ending' = Append(ending, "open")
  PROVE  Broken' = Broken
<1>1. turn' = turn + 1 /\ turn \in Nat /\ ending'[turn + 1] = "open"
      /\ \A t \in 1..turn : ending'[t] = ending[t]
  BY DEF TypeOK, turn
<1>2. \A t \in 1..(turn + 1) : t \in 1..turn \/ t = turn + 1
  BY <1>1
<1>3. \A t : t \in 1..turn => t \in 1..(turn + 1)
  BY <1>1
<1>4. ASSUME NEW t PROVE t \in Turns("abandoned")' <=> t \in Turns("abandoned")
  <2>1. t \in Turns("abandoned")' <=> t \in 1..(turn + 1) /\ ending'[t] = "abandoned"
    BY <1>1 DEF Turns
  <2>2. t \in Turns("abandoned") <=> t \in 1..turn /\ ending[t] = "abandoned"
    BY DEF Turns
  <2> QED
    BY <1>1, <1>2, <1>3, <2>1, <2>2
<1>5. Turns("abandoned")' = Turns("abandoned")
  BY <1>4
<1> QED
  BY <1>5 DEF Broken

LEMMA CopiesFinite ==
  ASSUME NEW cells \in Seq(TokenOf), NEW i
  PROVE  IsFiniteSet(Copies(cells, i)) /\ Cardinality(Copies(cells, i)) \in Nat
<1>1. IsFiniteSet(1..Len(cells))
  BY FS_Interval
<1>2. IsFiniteSet(Copies(cells, i))
  BY <1>1, FS_Subset DEF Copies
<1> QED
  BY <1>2, FS_CardinalityType

\* A message that does not exist yet has no copies.
LEMMA NoCopies ==
  ASSUME NEW cells, NEW n \in Nat, OnlyMessages(cells, n)
  PROVE  Cardinality(Copies(cells, n + 1)) = 0
<1>1. Copies(cells, n + 1) = {}
  BY DEF Copies, OnlyMessages, MsgBlock
<1> QED
  BY <1>1, FS_EmptySet

\* Evaluating a batch adds at most one copy, and only to messages past _prevLen.
LEMMA DecodeCopies ==
  ASSUME TypeOK, FeedInv, RefeedInv, Decode, NEW i \in 1..Len(messages)
  PROVE  Cardinality(Copies(kv', i)) <= 1 + Broken
<1>1. kv' = kv \o BatchTokens /\ kv \in Seq(TokenOf) /\ messages \in Seq(MessageType)
  BY DEF Decode, TypeOK
<1>2. BatchTokens \in Seq(TokenOf)
  BY BatchType
<1>3. Broken \in Nat /\ Len(messages) \in Nat /\ prevLen \in 0..Len(messages)
  BY BrokenType DEF TypeOK
<1>4. /\ IsFiniteSet(Copies(kv, i)) /\ Cardinality(Copies(kv, i)) \in Nat
      /\ Cardinality(Copies(kv, i)) <= 1 + Broken
  BY <1>1, CopiesFinite DEF RefeedInv
<1> HIDE DEF BatchTokens
<1>5. /\ Len(kv) \in Nat /\ Len(BatchTokens) \in Nat
      /\ Len(kv') = Len(kv) + Len(BatchTokens)
      /\ \A c \in 1..Len(kv) : kv'[c] = kv[c]
      /\ \A c \in 1..Len(BatchTokens) : kv'[Len(kv) + c] = BatchTokens[c]
  BY <1>1, <1>2
<1>6. ASSUME NEW c \in Copies(kv', i), c \notin Copies(kv, i)
      PROVE  /\ c - Len(kv) \in 1..Len(BatchTokens)
             /\ BatchTokens[c - Len(kv)] = MsgBlock(i)
  <2>1. c \in 1..Len(kv') /\ kv'[c] = MsgBlock(i)
    BY <1>6 DEF Copies
  <2>2. c \notin 1..Len(kv)
    BY <1>5, <1>6, <2>1 DEF Copies
  <2>3. c - Len(kv) \in 1..Len(BatchTokens) /\ c = Len(kv) + (c - Len(kv))
    BY <1>5, <2>1, <2>2
  <2> QED
    BY <1>5, <2>1, <2>3
<1>7. CASE batch = "current"
  <2>1. Len(BatchTokens) = 1 /\ BatchTokens[1].kind # "msg"
    BY <1>7 DEF BatchTokens, FeedInv
  <2>2. Copies(kv', i) \subseteq Copies(kv, i)
    <3> SUFFICES ASSUME NEW c \in Copies(kv', i), c \notin Copies(kv, i) PROVE FALSE
      OBVIOUS
    <3>1. c - Len(kv) = 1 /\ BatchTokens[c - Len(kv)] = MsgBlock(i)
      BY <1>6, <2>1
    <3> QED
      BY <2>1, <3>1 DEF MsgBlock
  <2>3. Cardinality(Copies(kv', i)) <= Cardinality(Copies(kv, i))
        /\ Cardinality(Copies(kv', i)) \in Nat
    BY <1>4, <2>2, FS_Subset, FS_CardinalityType
  <2> QED
    BY <1>3, <1>4, <2>3
<1>8. CASE batch = "prompt"
  <2>1. BatchTokens = PromptFrom(prevLen, messages, turn)
    BY <1>8 DEF BatchTokens, FeedInv, Decode
  <2>2. Len(BatchTokens) = Len(messages) - prevLen + 1
    <3>1. Len(messages) - prevLen + 1 \in Nat
      BY <1>3
    <3>2. DOMAIN BatchTokens = 1..(Len(messages) - prevLen + 1)
      BY <2>1 DEF PromptFrom
    <3> QED
      BY <1>2, <3>1, <3>2
  <2>3. ASSUME NEW b \in 1..Len(BatchTokens), BatchTokens[b] = MsgBlock(i)
        PROVE  i = prevLen + b
    BY <1>3, <2>1, <2>2, <2>3 DEF PromptFrom, MsgBlock, Opener
  <2>4. CASE i <= prevLen
    <3>1. Copies(kv', i) \subseteq Copies(kv, i)
      <4> SUFFICES ASSUME NEW c \in Copies(kv', i), c \notin Copies(kv, i) PROVE FALSE
        OBVIOUS
      <4>1. c - Len(kv) \in 1..Len(BatchTokens) /\ i = prevLen + (c - Len(kv))
        BY <1>6, <2>3
      <4> QED
        BY <1>3, <2>4, <4>1
    <3>2. Cardinality(Copies(kv', i)) <= Cardinality(Copies(kv, i))
          /\ Cardinality(Copies(kv', i)) \in Nat
      BY <1>4, <3>1, FS_Subset, FS_CardinalityType
    <3> QED
      BY <1>3, <1>4, <3>2
  <2>5. CASE i > prevLen
    <3> DEFINE d == Len(kv) + (i - prevLen)
    <3>1. Copies(kv', i) \subseteq Copies(kv, i) \union {d}
      <4> SUFFICES ASSUME NEW c \in Copies(kv', i), c \notin Copies(kv, i) PROVE c = d
        OBVIOUS
      <4>1. c - Len(kv) \in 1..Len(BatchTokens) /\ i = prevLen + (c - Len(kv))
        BY <1>6, <2>3
      <4>2. c \in Int
        BY DEF Copies
      <4> QED
        BY <1>3, <1>5, <4>1, <4>2
    <3> HIDE DEF d
    <3>2. Cardinality(Copies(kv, i)) <= Broken
      <4>1. i \in (prevLen + 1)..Len(messages)
        BY <1>3, <2>5
      <4> QED
        BY <1>8, <4>1 DEF RefeedInv, Decode
    <3>3. /\ IsFiniteSet(Copies(kv, i) \union {d})
          /\ Cardinality(Copies(kv, i) \union {d}) <= Cardinality(Copies(kv, i)) + 1
          /\ Cardinality(Copies(kv, i) \union {d}) \in Nat
      BY <1>4, FS_AddElement, FS_CardinalityType
    <3>4. /\ Cardinality(Copies(kv', i)) <= Cardinality(Copies(kv, i) \union {d})
          /\ Cardinality(Copies(kv', i)) \in Nat
      BY <3>1, <3>3, FS_Subset, FS_CardinalityType
    <3> QED
      BY <1>3, <1>4, <3>2, <3>3, <3>4
  <2> QED
    BY <1>3, <2>4, <2>5
<1> QED
  BY <1>7, <1>8 DEF TypeOK

LEMMA RefeedInit == Init => RefeedInv
<1> SUFFICES ASSUME Init PROVE RefeedInv
  OBVIOUS
<1>1. Turns("abandoned") = {}
  BY DEF Init, Turns, turn
<1>2. Broken = 0
  BY <1>1, FS_EmptySet DEF Broken
<1>3. \A i \in 1..Len(messages) : Copies(kv, i) = {}
  BY DEF Init, Copies
<1>4. \A i \in 1..Len(messages) : Cardinality(Copies(kv, i)) = 0
  BY <1>3, FS_EmptySet
<1> QED
  BY <1>2, <1>4 DEF Init, RefeedInv

LEMMA RefeedStep ==
  ASSUME StoreChats, TypeOK, FeedInv, FeedInv', ForgetInv, RefeedInv, [Next]_vars
  PROVE  RefeedInv'
<1>0. /\ Broken \in Nat /\ messages \in Seq(MessageType) /\ Len(messages) \in Nat
      /\ prevLen \in 0..Len(messages) /\ kv \in Seq(TokenOf)
      /\ OnlyMessages(kv, Len(messages))
  BY BrokenType DEF TypeOK, FeedInv
<1>1. \A i \in 1..Len(messages) : /\ Cardinality(Copies(kv, i)) \in Nat
                                  /\ Cardinality(Copies(kv, i)) <= 1 + Broken
  BY <1>0, CopiesFinite DEF RefeedInv
<1>2. CASE StartCompletion
  <2>1. Broken' = Broken
    BY <1>2, BrokenBegin DEF StartCompletion
  <2>2. /\ Len(messages') = Len(messages) + 1 /\ UNCHANGED <<kv, prevLen>> /\ phase = "idle"
    BY <1>0, <1>2 DEF StartCompletion, StartOffset
  <2>3. Cardinality(Copies(kv, Len(messages) + 1)) = 0
    BY <1>0, NoCopies
  <2>4. \A i \in 1..Len(messages) :
          i > prevLen => Cardinality(Copies(kv, i)) <= Broken
    BY <1>0, <2>2 DEF RefeedInv
  <2>5. \A i \in 1..(Len(messages) + 1) :
          /\ Cardinality(Copies(kv, i)) <= 1 + Broken
          /\ i > prevLen => Cardinality(Copies(kv, i)) <= Broken
    <3> TAKE i \in 1..(Len(messages) + 1)
    <3>1. CASE i = Len(messages) + 1
      BY <1>0, <2>3, <3>1
    <3>2. CASE i \in 1..Len(messages)
      BY <1>1, <2>4, <3>2
    <3> QED
      BY <1>0, <3>1, <3>2
  <2> QED
    BY <1>0, <2>1, <2>2, <2>5 DEF RefeedInv
<1>3. CASE LoopThrows \/ LoopDecodeFails \/ Cancelled
  <2>1. Broken' = Broken + 1
    BY <1>3, BrokenEnd DEF LoopThrows, LoopDecodeFails, Cancelled, ForgetInv
  <2>2. UNCHANGED <<messages, kv, prevLen>>
    BY <1>3 DEF LoopThrows, LoopDecodeFails, Cancelled, session
  <2>3. \A i \in 1..Len(messages) : Cardinality(Copies(kv, i)) <= Broken'
    BY <1>0, <1>1, <2>1
  <2>4. \A i \in 1..Len(messages) : Cardinality(Copies(kv, i)) <= 1 + Broken'
    BY <1>0, <1>1, <2>1
  <2> QED
    BY <1>0, <2>2, <2>3, <2>4 DEF RefeedInv
<1>4. CASE LoopAborts \/ EmitPiece
  <2>1. UNCHANGED <<messages, kv, ending, batch>> /\ phase' # "idle"
        /\ (phase' = "decode" => batch = "current")
    BY <1>4 DEF LoopAborts, EmitPiece, session, ForgetInv
  <2>2. Broken' = Broken
    BY <2>1 DEF Broken, Turns, turn
  <2> QED
    BY <2>1, <2>2 DEF RefeedInv
<1>5. CASE LoopEndsTurn \/ \E kind \in PieceKinds : LoopYieldsPiece(kind)
  <2>1. \A i \in 1..Len(messages) : Cardinality(Copies(kv', i)) <= 1 + Broken
    BY <1>5, DecodeCopies DEF LoopEndsTurn, LoopYieldsPiece
  <2>2. Broken' = Broken
    <3>1. turn # 0 /\ ending[turn] = "open"
      BY <1>5 DEF LoopEndsTurn, LoopYieldsPiece, Decode, ForgetInv
    <3>2. \/ \E e \in {"eog", "torn", "sentinel"} : ending' = [ending EXCEPT ![turn] = e]
          \/ ending' = ending
      BY <1>5 DEF LoopEndsTurn, LoopYieldsPiece
    <3>3. CASE \E e \in {"eog", "torn", "sentinel"} : ending' = [ending EXCEPT ![turn] = e]
      BY <3>1, <3>3, BrokenEnd
    <3>4. CASE ending' = ending
      BY <3>4 DEF Broken, Turns, turn
    <3> QED
      BY <3>2, <3>3, <3>4
  <2>3. phase' \in {"stop", "emit"}
    BY <1>5 DEF LoopEndsTurn, LoopYieldsPiece
  <2>4. OnlyMessages(kv', Len(messages))
    BY <1>5, DecodeFeeds DEF LoopEndsTurn, LoopYieldsPiece
  <2>5. Len(messages') \in {Len(messages), Len(messages) + 1}
    BY <1>0, <1>5 DEF LoopEndsTurn, LoopYieldsPiece
  <2>6. Cardinality(Copies(kv', Len(messages) + 1)) = 0
    BY <1>0, <2>4, NoCopies
  <2>7. \A i \in 1..Len(messages') : Cardinality(Copies(kv', i)) <= 1 + Broken
    <3> TAKE i \in 1..Len(messages')
    <3>1. CASE i = Len(messages) + 1
      BY <1>0, <2>6, <3>1
    <3>2. CASE i \in 1..Len(messages)
      BY <2>1, <3>2
    <3> QED
      BY <1>0, <2>5, <3>1, <3>2
  <2> QED
    BY <2>2, <2>3, <2>7 DEF RefeedInv
<1>6. CASE StopCompletion
  <2>1. UNCHANGED <<kv, ending>> /\ Len(messages') = Len(messages) + 1 /\ prevLen' = Len(messages')
    BY <1>0, <1>6 DEF StopCompletion
  <2>2. Broken' = Broken
    BY <2>1 DEF Broken, Turns, turn
  <2>3. Cardinality(Copies(kv, Len(messages) + 1)) = 0
    BY <1>0, NoCopies
  <2>4. \A i \in 1..(Len(messages) + 1) : Cardinality(Copies(kv, i)) <= 1 + Broken
    <3> TAKE i \in 1..(Len(messages) + 1)
    <3>1. CASE i = Len(messages) + 1
      BY <1>0, <2>3, <3>1
    <3>2. CASE i \in 1..Len(messages)
      BY <1>1, <3>2
    <3> QED
      BY <1>0, <3>1, <3>2
  <2>5. (prevLen' + 1)..Len(messages') = {}
    BY <1>0, <2>1
  <2> QED
    BY <2>1, <2>2, <2>4, <2>5 DEF RefeedInv
<1>7. CASE Rest \/ UNCHANGED vars
  <2>1. UNCHANGED <<messages, kv, ending, batch, phase, prevLen>>
    BY <1>7 DEF Rest, vars, session
  <2>2. Broken' = Broken
    BY <2>1 DEF Broken, Turns, turn
  <2> QED
    BY <2>1, <2>2 DEF RefeedInv
<1> QED
  BY <1>2, <1>3, <1>4, <1>5, <1>6, <1>7 DEF Next, CompletionLoop

\* A message is evaluated again only for a turn that was broken off, over any
\* number of turns and however they are broken off.
THEOREM RefeedBoundedCorrect == Spec => []RefeedBounded
<1>1. CASE ~StoreChats
  <2>1. RefeedBounded
    BY <1>1 DEF RefeedBounded
  <2> QED
    BY <2>1, PTL
<1>2. CASE StoreChats
  <2> DEFINE I == TypeOK /\ FeedInv /\ ForgetInv /\ RefeedInv
  <2>1. Init => I
    BY TypeInit, FeedInvInit, ForgetInit, RefeedInit
  <2>2. I /\ [Next]_vars => I'
    BY <1>2, TypeStep, FeedInvStep, ForgetStep, RefeedStep
  <2>3. I => RefeedBounded
    BY DEF RefeedInv, RefeedBounded, Copies, CopiesOf, Broken
  <2> QED
    BY <2>1, <2>2, <2>3, PTL DEF Spec
<1> QED
  BY <1>1, <1>2

-----------------------------------------------------------------------------
(***************************************************************************)
(* Replies are what their turns sampled.  As long as every turn reached an *)
(* end-of-generation token between two characters, nothing is left in the  *)
(* response or the cache when a turn begins, so what they hold is its own. *)
(***************************************************************************)

\* The turns up to t ended well.
Clean(es, t) == \A u \in 1..t : es[u] = "eog"

SampledBy(turns, t) == {k \in 1..Len(turns) : turns[k] = t}

\* Turn t has its reply, and otherwise only empty messages.
Replied(ms, turns, t) ==
  \E i \in 1..Len(ms) :
    /\ ms[i].role = "assistant" /\ ms[i].turn = t
    /\ ms[i].text = SampledBy(turns, t)
    /\ \A j \in 1..Len(ms) \ {i} : ms[j].turn = t => ms[j].text = {}

FaithInv ==
  /\ \A i \in 1..Len(messages) : messages[i].turn <= turn
  /\ \A t \in 1..turn : Clean(ending, t) => Replied(messages, sampledIn, t)
  /\ phase \in {"idle", "stop"} /\ Clean(ending, turn) => response = {} /\ cache = {}
  /\ phase \in {"decode", "emit"} /\ Clean(ending, turn - 1) =>
       /\ response \union cache = SampledBy(sampledIn, turn)
       /\ \A i \in 1..Len(messages) : messages[i].turn = turn => messages[i].text = {}

\* A message of another turn, or an empty one, changes no reply.
LEMMA RepliedMore ==
  ASSUME NEW ms \in Seq(MessageType), NEW m \in MessageType, NEW turns, NEW t,
         Replied(ms, turns, t), m.turn # t \/ m.text = {}
  PROVE  Replied(Append(ms, m), turns, t)
<1>1. PICK i \in 1..Len(ms) :
        /\ ms[i].role = "assistant" /\ ms[i].turn = t
        /\ ms[i].text = SampledBy(turns, t)
        /\ \A j \in 1..Len(ms) \ {i} : ms[j].turn = t => ms[j].text = {}
  BY DEF Replied
<1>2. /\ Len(Append(ms, m)) = Len(ms) + 1 /\ Append(ms, m)[Len(ms) + 1] = m
      /\ \A j \in 1..Len(ms) : j \in 1..(Len(ms) + 1) /\ Append(ms, m)[j] = ms[j]
      /\ \A j \in 1..(Len(ms) + 1) : j \in 1..Len(ms) \/ j = Len(ms) + 1
  OBVIOUS
<1>3. \A j \in 1..(Len(ms) + 1) \ {i} :
        Append(ms, m)[j].turn = t => Append(ms, m)[j].text = {}
  BY <1>1, <1>2
<1> QED
  BY <1>1, <1>2, <1>3 DEF Replied

\* How a turn ends says nothing of the turns before it.
LEMMA CleanEnd ==
  ASSUME TypeOK, turn # 0, NEW e, ending' = [ending EXCEPT ![turn] = e]
  PROVE  /\ turn' = turn
         /\ \A t \in 0..(turn - 1) : Clean(ending', t) <=> Clean(ending, t)
         /\ Clean(ending', turn) <=> e = "eog" /\ Clean(ending, turn - 1)
<1>1. DOMAIN ending = 1..turn /\ turn' = turn /\ turn \in Nat
  BY DEF TypeOK, turn
<1>2. ending'[turn] = e /\ \A t \in 1..turn : t # turn => ending'[t] = ending[t]
  BY <1>1
<1>3. \A t \in 0..(turn - 1) : Clean(ending', t) <=> Clean(ending, t)
  BY <1>1, <1>2 DEF Clean
<1>4. Clean(ending', turn) <=> e = "eog" /\ Clean(ending, turn - 1)
  <2>1. \A u \in 1..turn : u = turn \/ u \in 1..(turn - 1)
    BY <1>1
  <2>2. turn \in 1..turn /\ \A u \in 1..(turn - 1) : u \in 1..turn /\ u # turn
    BY <1>1
  <2> QED
    BY <1>2, <2>1, <2>2 DEF Clean
<1> QED
  BY <1>1, <1>3, <1>4

LEMMA FaithInit == Init => FaithInv
<1> SUFFICES ASSUME Init PROVE FaithInv
  OBVIOUS
<1>1. turn = 0 /\ Len(messages) = 1 /\ messages[1].turn = 0
  BY DEF Init, turn, Message
<1>2. \A i \in 1..Len(messages) : messages[i].turn <= turn
  BY <1>1
<1> QED
  BY <1>1, <1>2 DEF Init, FaithInv

\* A turn that does not end well leaves the earlier replies alone.
LEMMA FaithBroken ==
  ASSUME TypeOK, FaithInv, turn # 0, NEW e, e # "eog",
         ending' = [ending EXCEPT ![turn] = e], phase' \in {"idle", "stop"},
         UNCHANGED <<messages, sampledIn>>
  PROVE  FaithInv'
<1>1. turn \in Nat
  BY DEF TypeOK, turn
<1>2. /\ turn' = turn /\ ~Clean(ending', turn)
      /\ \A t \in 0..(turn - 1) : Clean(ending', t) <=> Clean(ending, t)
  BY CleanEnd
<1>3. \A t \in 1..turn : Clean(ending', t) => Replied(messages, sampledIn, t)
  <2> SUFFICES ASSUME NEW t \in 1..turn, Clean(ending', t)
               PROVE  Replied(messages, sampledIn, t)
    OBVIOUS
  <2>1. t # turn
    BY <1>2
  <2>2. t \in 0..(turn - 1)
    BY <1>1, <2>1
  <2> QED
    BY <1>2, <2>2 DEF FaithInv
<1> QED
  BY <1>2, <1>3 DEF FaithInv

LEMMA FaithStep ==
  ASSUME TypeOK, ForgetInv, FaithInv, [Next]_vars
  PROVE  FaithInv'
<1>0. /\ turn \in Nat /\ messages \in Seq(MessageType) /\ Len(messages) \in Nat
      /\ sampledIn \in Seq(Nat) /\ sampled = Len(sampledIn) /\ sampled \in Nat
      /\ ending \in Seq(Endings)
      /\ \A k \in 1..sampled : sampledIn[k] \in 1..turn
  BY DEF TypeOK, turn, sampled, ForgetInv
<1>1. \A i \in 1..Len(messages) : messages[i].turn \in Nat
  <2>1. \A i \in 1..Len(messages) : messages[i] \in MessageType
    BY <1>0, ElementOfSeq
  <2> QED
    BY <2>1 DEF MessageType
<1>2. CASE StartCompletion
  <2> DEFINE m == Message("user", turn + 1, {})
  <2>1. m \in MessageType /\ m.turn = turn + 1 /\ m.text = {} /\ messages' = Append(messages, m)
    BY <1>0, <1>2, MessageIn DEF StartCompletion, Message
  <2> HIDE DEF m
  <2>2. /\ Len(messages') = Len(messages) + 1 /\ messages'[Len(messages) + 1] = m
        /\ \A i \in 1..Len(messages) : messages'[i] = messages[i]
        /\ \A i \in 1..(Len(messages) + 1) : i \in 1..Len(messages) \/ i = Len(messages) + 1
    BY <1>0, <2>1
  <2>3. /\ turn' = turn + 1 /\ ending'[turn + 1] = "open"
        /\ \A t \in 1..turn : ending'[t] = ending[t]
        /\ phase = "idle" /\ phase' \in {"decode", "dead"}
        /\ UNCHANGED <<response, cache, sampledIn>>
    BY <1>0, <1>2 DEF StartCompletion, turn
  <2>4. \A t \in 0..turn : Clean(ending', t) <=> Clean(ending, t)
    <3> TAKE t \in 0..turn
    <3>1. \A u \in 1..t : u \in 1..turn
      BY <1>0
    <3>2. \A u \in 1..t : ending'[u] = ending[u]
      BY <2>3, <3>1
    <3> QED
      BY <3>2 DEF Clean
  <2>5. \A i \in 1..Len(messages') : messages'[i].turn <= turn'
    <3> TAKE i \in 1..Len(messages')
    <3>1. CASE i = Len(messages) + 1
      BY <1>0, <2>1, <2>2, <2>3, <3>1
    <3>2. CASE i \in 1..Len(messages)
      <4>1. messages[i].turn <= turn /\ messages[i].turn \in Nat
        BY <1>1, <3>2 DEF FaithInv
      <4> QED
        BY <1>0, <2>2, <2>3, <3>2, <4>1
    <3> QED
      BY <2>2, <3>1, <3>2
  <2>6. \A t \in 1..turn' : Clean(ending', t) => Replied(messages', sampledIn', t)
    <3> SUFFICES ASSUME NEW t \in 1..(turn + 1), Clean(ending', t)
                 PROVE  Replied(messages', sampledIn', t)
      BY <2>3
    <3>1. t # turn + 1
      BY <1>0, <2>3 DEF Clean
    <3>2. t \in 1..turn
      BY <1>0, <3>1
    <3>3. Replied(messages, sampledIn, t)
      BY <1>0, <2>4, <3>2 DEF FaithInv
    <3> QED
      BY <1>0, <2>1, <2>3, <3>1, <3>3, RepliedMore
  <2>7. Clean(ending', turn) =>
          /\ response \union cache = SampledBy(sampledIn, turn + 1)
          /\ \A i \in 1..Len(messages') : messages'[i].turn = turn + 1 => messages'[i].text = {}
    <3> SUFFICES ASSUME Clean(ending', turn)
                 PROVE  /\ response \union cache = SampledBy(sampledIn, turn + 1)
                        /\ \A i \in 1..Len(messages') :
                             messages'[i].turn = turn + 1 => messages'[i].text = {}
      OBVIOUS
    <3>1. response = {} /\ cache = {}
      BY <1>0, <2>3, <2>4 DEF FaithInv
    <3>2. SampledBy(sampledIn, turn + 1) = {}
      BY <1>0 DEF SampledBy
    <3>3. \A i \in 1..Len(messages) : messages'[i].turn # turn + 1
      <4> TAKE i \in 1..Len(messages)
      <4>1. messages[i].turn <= turn /\ messages[i].turn \in Nat
        BY <1>1 DEF FaithInv
      <4> QED
        BY <1>0, <2>2, <4>1
    <3> QED
      BY <2>1, <2>2, <3>1, <3>2, <3>3
  <2>8. turn' - 1 = turn
    BY <1>0, <2>3
  <2> QED
    BY <2>3, <2>5, <2>6, <2>7, <2>8 DEF FaithInv
<1>3. CASE LoopThrows \/ LoopDecodeFails \/ Cancelled
  BY <1>3, FaithBroken DEF LoopThrows, LoopDecodeFails, Cancelled, session, ForgetInv
<1>4. CASE LoopAborts
  BY <1>4 DEF LoopAborts, session, FaithInv, turn
<1>5. CASE EmitPiece
  BY <1>5 DEF EmitPiece, session, FaithInv, turn
<1>6. CASE LoopEndsTurn
  <2> DEFINE m == Message("assistant", turn, response)
             e == IF cache = {} THEN "eog" ELSE "torn"
  <2>1. /\ m \in MessageType /\ m.role = "assistant" /\ m.turn = turn /\ m.text = response
        /\ messages' = Append(messages, m) /\ ending' = [ending EXCEPT ![turn] = e]
        /\ e = "eog" => cache = {}
        /\ response' = {} /\ phase' = "stop" /\ UNCHANGED <<cache, sampledIn>>
    BY <1>0, <1>6, MessageIn DEF LoopEndsTurn, Message, TypeOK
  <2>2. phase = "decode" /\ turn # 0
    BY <1>6 DEF LoopEndsTurn, Decode, ForgetInv
  <2> HIDE DEF m, e
  <2>3. /\ turn' = turn
        /\ \A t \in 0..(turn - 1) : Clean(ending', t) <=> Clean(ending, t)
        /\ Clean(ending', turn) <=> e = "eog" /\ Clean(ending, turn - 1)
    BY <2>1, <2>2, CleanEnd
  <2>4. /\ Len(messages') = Len(messages) + 1 /\ messages'[Len(messages) + 1] = m
        /\ \A i \in 1..Len(messages) : messages'[i] = messages[i]
        /\ \A i \in 1..(Len(messages) + 1) : i \in 1..Len(messages) \/ i = Len(messages) + 1
        /\ Len(messages) + 1 \in 1..Len(messages')
    BY <1>0, <2>1
  <2>5. \A i \in 1..Len(messages') : messages'[i].turn <= turn'
    BY <1>0, <2>1, <2>3, <2>4 DEF FaithInv
  <2>6. \A t \in 1..turn : Clean(ending', t) => Replied(messages', sampledIn', t)
    <3> SUFFICES ASSUME NEW t \in 1..turn, Clean(ending', t)
                 PROVE  Replied(messages', sampledIn', t)
      OBVIOUS
    <3>1. CASE t # turn
      <4>1. t \in 0..(turn - 1)
        BY <1>0, <3>1
      <4>2. Replied(messages, sampledIn, t)
        BY <2>3, <4>1 DEF FaithInv
      <4> QED
        BY <1>0, <2>1, <3>1, <4>2, RepliedMore
    <3>2. CASE t = turn
      <4>1. cache = {} /\ Clean(ending, turn - 1)
        BY <2>1, <2>3, <3>2
      <4>2. /\ response = SampledBy(sampledIn, turn)
            /\ \A i \in 1..Len(messages) : messages[i].turn = turn => messages[i].text = {}
        BY <2>2, <4>1 DEF FaithInv
      <4>3. \A j \in 1..Len(messages') \ {Len(messages) + 1} :
              messages'[j].turn = turn => messages'[j].text = {}
        BY <2>4, <4>2
      <4> QED
        BY <2>1, <2>4, <3>2, <4>2, <4>3 DEF Replied
    <3> QED
      BY <3>1, <3>2
  <2> QED
    BY <2>1, <2>3, <2>5, <2>6 DEF FaithInv
<1>7. ASSUME NEW kind \in PieceKinds, LoopYieldsPiece(kind) PROVE FaithInv'
  <2>1. /\ sampledIn' = Append(sampledIn, turn) /\ messages' = messages
        /\ turn # 0 /\ ending[turn] = "open" /\ phase = "decode"
    BY <1>7 DEF LoopYieldsPiece, Decode, ForgetInv
  <2>2. response' \union cache' = response \union cache \union {sampled + 1}
    BY <1>7 DEF LoopYieldsPiece, CacheWith
  <2>3. \/ phase' = "stop" /\ ending' = [ending EXCEPT ![turn] = "sentinel"]
        \/ phase' = "emit" /\ ending' = ending
    BY <1>7 DEF LoopYieldsPiece
  <2>4. /\ turn' = turn /\ ~Clean(ending', turn)
        /\ \A t \in 0..(turn - 1) : Clean(ending', t) <=> Clean(ending, t)
    <3>1. CASE ending' = [ending EXCEPT ![turn] = "sentinel"]
      <4> DEFINE e == "sentinel"
      <4>1. ending' = [ending EXCEPT ![turn] = e] /\ e # "eog"
        BY <3>1
      <4> HIDE DEF e
      <4> QED
        BY <2>1, <4>1, CleanEnd
    <3>2. CASE ending' = ending
      BY <1>0, <2>1, <3>2 DEF Clean, turn
    <3> QED
      BY <2>3, <3>1, <3>2
  <2>5. /\ Len(sampledIn') = sampled + 1 /\ sampledIn'[sampled + 1] = turn
        /\ \A k \in 1..sampled : sampledIn'[k] = sampledIn[k]
        /\ \A k : k \in 1..(sampled + 1) <=> k \in 1..sampled \/ k = sampled + 1
    BY <1>0, <2>1
  <2>6. \A t \in 1..turn : t # turn => SampledBy(sampledIn', t) = SampledBy(sampledIn, t)
    BY <1>0, <2>5 DEF SampledBy
  <2>7. SampledBy(sampledIn', turn) = SampledBy(sampledIn, turn) \union {sampled + 1}
    BY <1>0, <2>5 DEF SampledBy
  <2>8. \A t \in 1..turn : Clean(ending', t) => Replied(messages, sampledIn', t)
    <3> SUFFICES ASSUME NEW t \in 1..turn, Clean(ending', t)
                 PROVE  Replied(messages, sampledIn', t)
      OBVIOUS
    <3>1. t # turn
      BY <2>4
    <3>2. t \in 0..(turn - 1)
      BY <1>0, <3>1
    <3>3. Replied(messages, sampledIn, t)
      BY <2>4, <3>2 DEF FaithInv
    <3> QED
      BY <2>6, <3>1, <3>3 DEF Replied
  <2>9. phase' = "emit" /\ Clean(ending', turn - 1) =>
          /\ response' \union cache' = SampledBy(sampledIn', turn)
          /\ \A i \in 1..Len(messages) : messages[i].turn = turn => messages[i].text = {}
    <3>1. turn - 1 \in 0..(turn - 1)
      BY <1>0, <2>1
    <3> QED
      BY <2>1, <2>2, <2>4, <2>7, <3>1 DEF FaithInv
  <2> QED
    BY <2>1, <2>3, <2>4, <2>8, <2>9 DEF FaithInv
<1>8. CASE StopCompletion
  <2> DEFINE m == Message("assistant", turn, response)
  <2>1. /\ m \in MessageType /\ m.turn = turn /\ m.text = response
        /\ messages' = Append(messages, m) \/ messages' = messages
        /\ response' = {} /\ phase = "stop" /\ phase' = "idle"
        /\ UNCHANGED <<cache, sampledIn, ending>>
    BY <1>0, <1>8, MessageIn DEF StopCompletion, Message, TypeOK
  <2> HIDE DEF m
  <2>2. turn' = turn
    BY <2>1 DEF turn
  <2>3. CASE messages' = messages
    BY <2>1, <2>2, <2>3 DEF FaithInv
  <2>4. CASE messages' = Append(messages, m)
    <3>1. /\ Len(messages') = Len(messages) + 1 /\ messages'[Len(messages) + 1] = m
          /\ \A i \in 1..Len(messages) : messages'[i] = messages[i]
          /\ \A i \in 1..(Len(messages) + 1) : i \in 1..Len(messages) \/ i = Len(messages) + 1
      BY <1>0, <2>1, <2>4
    <3>2. \A i \in 1..Len(messages') : messages'[i].turn <= turn
      <4> TAKE i \in 1..Len(messages')
      <4>1. CASE i = Len(messages) + 1
        BY <1>0, <2>1, <3>1, <4>1
      <4>2. CASE i \in 1..Len(messages)
        BY <3>1, <4>2 DEF FaithInv
      <4> QED
        BY <3>1, <4>1, <4>2
    <3>3. \A t \in 1..turn : Clean(ending, t) => Replied(messages', sampledIn, t)
      <4> SUFFICES ASSUME NEW t \in 1..turn, Clean(ending, t)
                   PROVE  Replied(messages', sampledIn, t)
        OBVIOUS
      <4>1. Replied(messages, sampledIn, t)
        BY DEF FaithInv
      <4>2. m.turn # t \/ m.text = {}
        BY <2>1 DEF FaithInv
      <4> QED
        BY <1>0, <2>1, <2>4, <4>1, <4>2, RepliedMore
    <3> QED
      BY <2>1, <2>2, <3>2, <3>3 DEF FaithInv
  <2> QED
    BY <2>1, <2>3, <2>4
<1>9. CASE Rest \/ UNCHANGED vars
  <2>1. UNCHANGED <<messages, response, cache, sampledIn, ending, phase>>
    BY <1>9 DEF Rest, vars, session
  <2> QED
    BY <2>1 DEF FaithInv, turn
<1> QED
  BY <1>2, <1>3, <1>4, <1>5, <1>6, <1>7, <1>8, <1>9 DEF Next, CompletionLoop

\* While no turn is broken off, every turn has exactly the reply the model gave,
\* over any number of turns and pieces.
THEOREM RepliesFaithfulCorrect == Spec => []RepliesFaithful
<1>1. Init => TypeOK /\ ForgetInv /\ FaithInv
  BY TypeInit, ForgetInit, FaithInit
<1>2. TypeOK /\ ForgetInv /\ FaithInv /\ [Next]_vars => TypeOK' /\ ForgetInv' /\ FaithInv'
  BY TypeStep, ForgetStep, FaithStep
<1>3. FaithInv => RepliesFaithful
  BY DEF FaithInv, Clean, Replied, SampledBy, RepliesFaithful, sampled
<1> QED
  BY <1>1, <1>2, <1>3, PTL DEF Spec

-----------------------------------------------------------------------------
\* Turns end.

\* A batch that is about to be evaluated holds a token.
BatchWaits == phase \in {"decode", "emit"} /\ batch = "prompt" => promptTokens # <<>>

\* The steps a turn may take at most: each round of completionLoop takes a cell of
\* the context.
RoundsLeft ==
  CASE phase = "decode" -> 2 * (NCtx - Len(kv)) + 2
    [] phase = "emit" -> 2 * (NCtx - Len(kv)) + 3
    [] phase = "stop" -> 1
    [] OTHER -> 0

TurnsAdvance == [][phase \notin {"idle", "dead"} => RoundsLeft' < RoundsLeft]_vars

\* Every query makes a prompt that is not empty: the opener of the reply is in it.
LEMMA WaitsStep ==
  ASSUME TypeOK, TypeOK', BatchWaits, [Next]_vars
  PROVE  BatchWaits'
<1>1. CASE StartCompletion
  <2> SUFFICES ASSUME phase' = "decode" PROVE promptTokens' # <<>>
    BY <1>1 DEF BatchWaits, StartCompletion
  <2>1. promptTokens' = PromptFrom(prevLen', messages', turn + 1)
    BY <1>1 DEF StartCompletion
  <2>2. Len(messages') - prevLen' + 1 \in Nat \ {0}
    BY DEF TypeOK
  <2>3. 1 \in DOMAIN promptTokens'
    BY <2>1, <2>2 DEF PromptFrom
  <2> QED
    BY <2>3
<1>2. CASE \E kind \in PieceKinds : LoopYieldsPiece(kind)
  <2>1. batch' = "current"
    BY <1>2 DEF LoopYieldsPiece
  <2> QED
    BY <2>1 DEF BatchWaits
<1>3. CASE EmitPiece \/ Rest \/ UNCHANGED vars
  <2>1. /\ UNCHANGED <<batch, promptTokens>>
        /\ phase' \in {"decode", "emit"} => phase \in {"decode", "emit"}
    BY <1>3 DEF EmitPiece, Rest, vars, session
  <2> QED
    BY <2>1 DEF BatchWaits
<1>4. CASE LoopThrows \/ LoopAborts \/ LoopDecodeFails \/ LoopEndsTurn \/ Cancelled
           \/ StopCompletion
  <2>1. phase' \in {"idle", "dead", "stop"}
    BY <1>4 DEF LoopThrows, LoopAborts, LoopDecodeFails, LoopEndsTurn, Cancelled,
                StopCompletion
  <2> QED
    BY <2>1 DEF BatchWaits
<1> QED
  BY <1>1, <1>2, <1>3, <1>4 DEF Next, CompletionLoop

\* A round takes at least one cell.
LEMMA DecodeFills ==
  ASSUME TypeOK, TypeOK', BatchWaits, Decode
  PROVE  /\ NCtx \in Nat /\ Len(kv) \in Nat /\ Len(kv') \in Nat
         /\ Len(kv) < Len(kv') /\ Len(kv') <= NCtx
<1>1. BatchTokens \in Seq(TokenOf) /\ kv \in Seq(TokenOf)
  BY BatchType DEF TypeOK
<1>2. BatchTokens # <<>>
  BY DEF BatchWaits, Decode, BatchTokens
<1>3. kv' = kv \o BatchTokens /\ Len(kv') <= NCtx
  BY DecodeType DEF Decode
<1> HIDE DEF BatchTokens
<1>4. Len(BatchTokens) \in Nat /\ Len(BatchTokens) > 0
  BY <1>1, <1>2
<1>5. Len(kv') = Len(kv) + Len(BatchTokens)
  BY <1>1, <1>3, ConcatProperties
<1> QED
  BY <1>1, <1>3, <1>4, <1>5, SessionAssumption

\* However the model goes on, and whatever fails, a turn comes to its end before the
\* context is full.
THEOREM TurnsAdvanceCorrect == Spec => TurnsAdvance
<1>1. Init => BatchWaits
  BY DEF Init, BatchWaits
<1>2. TypeOK /\ TypeOK' /\ BatchWaits /\ [Next]_vars => BatchWaits'
  BY WaitsStep
<1>3. TypeOK /\ TypeOK' /\ BatchWaits /\ [Next]_vars
      => [phase \notin {"idle", "dead"} => RoundsLeft' < RoundsLeft]_vars
  <2> SUFFICES ASSUME TypeOK, TypeOK', BatchWaits, Next, phase \notin {"idle", "dead"}
               PROVE  RoundsLeft' < RoundsLeft
    OBVIOUS
  <2> DEFINE room == NCtx - Len(kv)
             roomLeft == NCtx - Len(kv')
  <2>1. room \in Nat /\ roomLeft \in Nat
    BY SessionAssumption DEF TypeOK
  <2>2. /\ phase = "decode" => RoundsLeft = 2 * room + 2
        /\ phase = "emit" => RoundsLeft = 2 * room + 3
        /\ phase = "stop" => RoundsLeft = 1
        /\ phase' = "decode" => RoundsLeft' = 2 * roomLeft + 2
        /\ phase' = "emit" => RoundsLeft' = 2 * roomLeft + 3
        /\ phase' = "stop" => RoundsLeft' = 1
        /\ phase' \in {"idle", "dead"} => RoundsLeft' = 0
    BY DEF RoundsLeft
  <2>3. CASE phase' \in {"idle", "dead"}
    <3>1. phase \in {"decode", "emit", "stop"}
      BY DEF TypeOK
    <3> HIDE DEF room, roomLeft
    <3> QED
      BY <2>1, <2>2, <2>3, <3>1
  <2>4. CASE LoopEndsTurn \/ \E kind \in PieceKinds : LoopYieldsPiece(kind)
    <3>1. phase = "decode" /\ phase' \in {"emit", "stop"} /\ Decode
      BY <2>4 DEF LoopEndsTurn, LoopYieldsPiece, Decode
    <3>2. roomLeft < room
      BY <3>1, DecodeFills
    <3> HIDE DEF room, roomLeft
    <3> QED
      BY <2>1, <2>2, <3>1, <3>2
  <2>5. CASE EmitPiece
    <3>1. phase = "emit" /\ phase' = "decode" /\ roomLeft = room
      BY <2>5 DEF EmitPiece, session
    <3> HIDE DEF room, roomLeft
    <3> QED
      BY <2>1, <2>2, <3>1
  <2>6. CASE StartCompletion \/ Rest
    BY <2>6 DEF StartCompletion, Rest
  <2>7. CASE LoopThrows \/ LoopAborts \/ LoopDecodeFails \/ Cancelled \/ StopCompletion
    <3>1. phase' \in {"idle", "dead"}
      BY <2>7 DEF LoopThrows, LoopAborts, LoopDecodeFails, Cancelled, StopCompletion
    <3> QED
      BY <2>3, <3>1
  <2> QED
    BY <2>4, <2>5, <2>6, <2>7 DEF Next, CompletionLoop
<1> QED
  BY <1>1, <1>2, <1>3, TypeCorrect, PTL DEF Spec, TurnsAdvance

=============================================================================
