----------------------------- MODULE LLMInference -----------------------------
(***************************************************************************)
(* The native chat session (cpp/gguf.cpp/LLMInference.cpp), driven by one  *)
(* caller in the order LLMTalker.getResponse drives it:                    *)
(*                                                                         *)
(*    startCompletion; completionLoop until "[EOG]"; stopCompletion        *)
(*                                                                         *)
(* where the flow may be cancelled whenever a piece is emitted, and a      *)
(* completionLoop that throws ends the flow: in both cases stopCompletion  *)
(* is never called and the next query meets what the broken turn left.     *)
(*                                                                         *)
(* Abstractions.  Every sampled token is a number, 1, 2, ... in the order  *)
(* of sampling; a text is the set of the tokens it is made of.  A formatted*)
(* message is one block of one token, so the length of a formatted chat is *)
(* the number of its messages; the generation prompt the template adds is  *)
(* one more token.  Buffer sizes and timing metrics are left out: they     *)
(* change no decision.                                                     *)
(***************************************************************************)
EXTENDS Integers, Sequences, FiniteSets

CONSTANTS NCtx,        \* llama_n_ctx: cells of the KV cache
          NBatch,      \* n_batch: the longest batch llama_decode accepts
          MaxTurns,    \* bound: how many queries the user asks
          PieceKinds,  \* the kinds of pieces the model may sample
          StoreChats   \* the storeChats argument of create()

\* What the bytes of a piece are: complete characters, the first bytes of a
\* character, bytes that leave an open one open, the bytes that complete one,
\* or the five characters "[EOG]".
AllPieceKinds == {"whole", "lead", "middle", "tail", "sentinel"}

ASSUME SessionAssumption ==
  /\ NCtx \in Nat \ {0}
  /\ NBatch \in Nat \ {0}
  /\ MaxTurns \in Nat
  /\ PieceKinds \subseteq AllPieceKinds
  /\ StoreChats \in BOOLEAN

VARIABLES
  messages,      \* _messages
  prevLen,       \* _prevLen
  promptTokens,  \* _promptTokens
  currToken,     \* _currToken
  batch,         \* what _batch.token points to: "prompt" or "current"
  response,      \* _response
  cache,         \* _cacheResponseTokens: bytes not yet returned
  utf8,          \* how _isValidUtf8 sees those bytes
  kv,            \* the tokens in the KV cache of _ctx, in order
  template,      \* whether llama.cpp knows the model's chat template
  phase,         \* where the caller's getResponse is
  sampledIn,     \* history: sampledIn[k] is the turn that sampled token k
  ending         \* history: how turn t ended: "eog", "torn" (eog inside a
                 \* character), "sentinel", "abandoned", or it is "open"

session == <<messages, prevLen, promptTokens, currToken, batch, response,
             cache, utf8, kv>>
vars == <<session, template, phase, sampledIn, ending>>

-----------------------------------------------------------------------------
\* Tokens, as they appear in prompts, batches and KV cells.

MsgBlock(i) == [kind |-> "msg", n |-> i]
Opener(t) == [kind |-> "open", n |-> t]
Piece(k) == [kind |-> "piece", n |-> k]
EOG == [kind |-> "eog", n |-> 0]
TokenOf == [kind : {"msg", "open", "piece", "eog"}, n : Nat]

turn == Len(ending)
sampled == Len(sampledIn)

Message(role, t, text) == [role |-> role, turn |-> t, text |-> text]

\* Mutant: the whole chat is sent again with every query.
StartOfChat == 0

\* Where startCompletion starts to read the formatted chat.
StartOffset == IF StoreChats THEN prevLen ELSE 0

\* Mutant: the template is applied before the query is added.
PromptWithoutQuery(len, ms, t) ==
  [j \in 1..(Len(ms) - len) |->
     IF j < Len(ms) - len THEN MsgBlock(len + j) ELSE Opener(t)]

\* The chat template's output past _prevLen, tokenized.
PromptFrom(len, ms, t) ==
  [j \in 1..(Len(ms) - len + 1) |->
     IF j <= Len(ms) - len THEN MsgBlock(len + j) ELSE Opener(t)]

\* Mutant: the batch is not re-initialised with the new token.
PromptAgain == promptTokens

BatchTokens == IF batch = "prompt" THEN promptTokens ELSE <<currToken>>

\* _isValidUtf8 over the cached bytes: valid, cut inside a character, or
\* holding a byte sequence that no later byte can repair.
Utf8After(state, kind) ==
  IF /\ state = "valid"
     /\ kind \in {"whole", "sentinel"} THEN "valid"
  ELSE IF state = "valid" /\ kind = "lead" THEN "cut"
  ELSE IF state = "cut" /\ kind = "middle" THEN "cut"
  ELSE IF state = "cut" /\ kind = "tail" THEN "valid"
  ELSE "broken"

\* Mutant: the cached bytes are overwritten.
CacheOnly(piece) == {piece}

\* _cacheResponseTokens += piece
CacheWith(piece) == cache \union {piece}

-----------------------------------------------------------------------------

\* loadModel succeeded and initLLM added the system prompt.
Init ==
  /\ messages = <<Message("system", 0, {})>>
  /\ prevLen = 0
  /\ promptTokens = <<>>
  /\ currToken = EOG
  /\ batch = "prompt"
  /\ response = {}
  /\ cache = {}
  /\ utf8 = "valid"
  /\ kv = <<>>
  /\ template \in {"known", "unknown"}
  /\ phase = "idle"
  /\ sampledIn = <<>>
  /\ ending = <<>>

\* startCompletion: the query joins the messages and everything past _prevLen
\* becomes the prompt.  An unknown template makes it throw; the JNI wrapper
\* does not catch, and the process dies.
StartCompletion ==
  /\ phase = "idle"
  /\ turn < MaxTurns
  /\ messages' = Append(messages, Message("user", turn + 1, {}))
  /\ prevLen' = StartOffset
  /\ ending' = Append(ending, "open")
  /\ IF template = "known"
     THEN /\ promptTokens' = PromptFrom(prevLen', messages', turn + 1)
          /\ batch' = "prompt"
          /\ phase' = "decode"
     ELSE /\ phase' = "dead"
          /\ UNCHANGED <<promptTokens, batch>>
  /\ UNCHANGED <<currToken, response, cache, utf8, kv, template, sampledIn>>

\* Mutant: the limit is compared with the cells in use only.
ContextOverrun == Len(kv) > NCtx

\* completionLoop: the batch would not fit the context.
ContextFull == Len(kv) + Len(BatchTokens) > NCtx

\* Mutant: the throw is answered with another completionLoop.
LoopRetries ==
  /\ phase = "decode"
  /\ ContextFull
  /\ UNCHANGED vars

\* Mutant: a broken turn moves _prevLen as a finished one does.
LoopThrowsAndAcks ==
  /\ phase = "decode"
  /\ ContextFull
  /\ phase' = "idle"
  /\ prevLen' = Len(messages)
  /\ ending' = [ending EXCEPT ![turn] = "abandoned"]
  /\ UNCHANGED <<messages, promptTokens, currToken, batch, response, cache,
                 utf8, kv, template, sampledIn>>

\* ContextFull makes completionLoop throw; the JNI wrapper turns that into a
\* Java exception and the flow ends without stopCompletion.
LoopThrows ==
  /\ phase = "decode"
  /\ ContextFull
  /\ phase' = "idle"
  /\ ending' = [ending EXCEPT ![turn] = "abandoned"]
  /\ UNCHANGED <<session, template, sampledIn>>

\* completionLoop: llama_decode aborts the process on an oversized batch.
LoopAborts ==
  /\ phase = "decode"
  /\ ~ContextFull
  /\ Len(BatchTokens) > NBatch
  /\ phase' = "dead"
  /\ UNCHANGED <<session, template, sampledIn, ending>>

\* completionLoop: llama_decode fails and has restored the KV cache; the loop
\* throws as above.
LoopDecodeFails ==
  /\ phase = "decode"
  /\ ~ContextFull
  /\ Len(BatchTokens) <= NBatch
  /\ phase' = "idle"
  /\ ending' = [ending EXCEPT ![turn] = "abandoned"]
  /\ UNCHANGED <<session, template, sampledIn>>

\* The part of completionLoop that evaluates the batch.
Decode ==
  /\ phase = "decode"
  /\ ~ContextFull
  /\ Len(BatchTokens) <= NBatch
  /\ kv' = kv \o BatchTokens

\* Mutant: the response is not cleared once it has become a message.
LoopEndsTurnKeepingResponse ==
  /\ Decode
  /\ currToken' = EOG
  /\ messages' = Append(messages, Message("assistant", turn, response))
  /\ phase' = "stop"
  /\ ending' = [ending EXCEPT ![turn] = IF cache = {} THEN "eog" ELSE "torn"]
  /\ UNCHANGED <<prevLen, promptTokens, batch, response, cache, utf8, template,
                 sampledIn>>

\* completionLoop samples an end-of-generation token: the reply becomes a message.
LoopEndsTurn ==
  /\ Decode
  /\ currToken' = EOG
  /\ messages' = Append(messages, Message("assistant", turn, response))
  /\ response' = {}
  /\ phase' = "stop"
  /\ ending' = [ending EXCEPT ![turn] = IF cache = {} THEN "eog" ELSE "torn"]
  /\ UNCHANGED <<prevLen, promptTokens, batch, cache, utf8, template, sampledIn>>

\* completionLoop samples a piece of the given kind.  Its bytes join the cache;
\* valid bytes are flushed to the response and returned, others wait.  A
\* returned text equal to "[EOG]" ends the caller's loop.
LoopYieldsPiece(kind) ==
  LET piece == sampled + 1
      bytes == CacheWith(piece)
      state == Utf8After(utf8, kind)
  IN /\ Decode
     /\ currToken' = Piece(piece)
     /\ batch' = "current"
     /\ sampledIn' = Append(sampledIn, turn)
     /\ IF state = "valid"
        THEN response' = response \union bytes /\ cache' = {} /\ utf8' = "valid"
        ELSE response' = response /\ cache' = bytes /\ utf8' = state
     /\ IF state = "valid" /\ kind = "sentinel"
        THEN phase' = "stop" /\ ending' = [ending EXCEPT ![turn] = "sentinel"]
        ELSE phase' = "emit" /\ UNCHANGED ending
     /\ UNCHANGED <<messages, prevLen, promptTokens, template>>

\* The flow emits the piece; its collector takes it and asks for the next.
EmitPiece ==
  /\ phase = "emit"
  /\ phase' = "decode"
  /\ UNCHANGED <<session, template, sampledIn, ending>>

\* The flow finds its job cancelled and unwinds.
Cancelled ==
  /\ phase = "emit"
  /\ phase' = "idle"
  /\ ending' = [ending EXCEPT ![turn] = "abandoned"]
  /\ UNCHANGED <<session, template, sampledIn>>

\* stopCompletion: with storeChats the (by now usually empty) response becomes
\* another assistant message, and _prevLen moves past every message.
StopCompletion ==
  /\ phase = "stop"
  /\ messages' = IF StoreChats
                 THEN Append(messages, Message("assistant", turn, response))
                 ELSE messages
  /\ response' = {}
  /\ prevLen' = Len(messages')
  /\ phase' = "idle"
  /\ UNCHANGED <<promptTokens, currToken, batch, cache, utf8, kv, template,
                 sampledIn, ending>>

\* The user asks nothing more, or the process is gone.
Rest ==
  /\ phase = "dead" \/ (phase = "idle" /\ turn = MaxTurns)
  /\ UNCHANGED vars

CompletionLoop ==
  \/ LoopThrows
  \/ LoopAborts
  \/ LoopDecodeFails
  \/ LoopEndsTurn
  \/ \E kind \in PieceKinds : LoopYieldsPiece(kind)

Next ==
  \/ StartCompletion
  \/ CompletionLoop
  \/ EmitPiece
  \/ Cancelled
  \/ StopCompletion
  \/ Rest

\* The coroutine keeps running once started: every native call returns and the
\* collector takes every piece.  Nothing obliges the user to ask or to cancel,
\* or the model to end its reply.
Fairness ==
  /\ WF_vars(CompletionLoop)
  /\ WF_vars(EmitPiece)
  /\ WF_vars(StopCompletion)

Spec == Init /\ [][Next]_vars

FairSpec == Spec /\ Fairness

-----------------------------------------------------------------------------
(***************************************************************************)
(* Correctness.                                                            *)
(***************************************************************************)

Turns(how) == {t \in 1..turn : ending[t] = how}

Endings == {"open", "eog", "torn", "sentinel", "abandoned"}

MessageType == [role : {"system", "user", "assistant"}, turn : Nat,
                text : SUBSET (Nat \ {0})]

\* Types; _prevLen stays inside the formatted chat that the next
\* startCompletion cuts its prompt from, and the KV cache inside the context.
TypeOK ==
  /\ messages \in Seq(MessageType)
  /\ prevLen \in 0..Len(messages)
  /\ promptTokens \in Seq(TokenOf)
  /\ currToken \in TokenOf
  /\ batch \in {"prompt", "current"}
  /\ response \in SUBSET (Nat \ {0})
  /\ cache \in SUBSET (Nat \ {0})
  /\ utf8 \in {"valid", "cut", "broken"}
  /\ kv \in Seq(TokenOf)
  /\ Len(kv) <= NCtx
  /\ template \in {"known", "unknown"}
  /\ phase \in {"idle", "decode", "emit", "stop", "dead"}
  /\ sampledIn \in Seq(Nat)
  /\ ending \in Seq(Endings)

\* The tokens in the texts of the messages ms.
Texts(ms) == UNION {ms[i].text : i \in 1..Len(ms)}

\* The tokens of earlier messages come before those of later ones, and these
\* before the tokens of resp, and these before the tokens of bytes.
InOrder(ms, resp, bytes) ==
  /\ \A a \in resp, b \in bytes : a < b
  /\ \A i \in 1..Len(ms) : \A a \in ms[i].text :
       /\ \A b \in resp \union bytes : a < b
       /\ \A j \in (i+1)..Len(ms) : \A b \in ms[j].text : a < b

\* No sampled token is lost, duplicated or reordered on its way from the
\* sampler through _cacheResponseTokens and _response into _messages, whatever
\* turns were broken off in between.
TokensConserved ==
  /\ 1..sampled = Texts(messages) \union response \union cache
  /\ InOrder(messages, response, cache)

\* As long as every turn ended on an end-of-generation token between two
\* characters, the messages hold one reply for each turn, exactly what the turn
\* sampled, and besides it only empty ones.
RepliesFaithful ==
  \A t \in 1..turn :
    (\A u \in 1..t : ending[u] = "eog") =>
      \E i \in 1..Len(messages) :
        /\ messages[i].role = "assistant" /\ messages[i].turn = t
        /\ messages[i].text = {k \in 1..sampled : sampledIn[k] = t}
        /\ \A j \in 1..Len(messages) \ {i} :
             messages[j].turn = t => messages[j].text = {}

\* The cells of the KV cache that hold message i.
CopiesOf(i) == {c \in 1..Len(kv) : kv[c] = MsgBlock(i)}

\* A message is evaluated again only because a turn was broken off: at most
\* one extra copy for each such turn.
RefeedBounded ==
  StoreChats => \A i \in 1..Len(messages) :
                  Cardinality(CopiesOf(i)) <= 1 + Cardinality(Turns("abandoned"))

\* The model never continues a question it has not read: each piece in the
\* KV cache comes after the query of the turn that sampled it.
QuestionBeforeAnswer ==
  \A c \in 1..Len(kv) : kv[c].kind = "piece" =>
    \E b \in 1..(c-1) :
      /\ kv[b].kind = "msg"
      /\ messages[kv[b].n].role = "user"
      /\ messages[kv[b].n].turn = sampledIn[kv[c].n]

\* The pieces the model said but does not remember: the last one of each turn
\* that did not reach an end-of-generation token, and the one in flight.
ForgottenBounded ==
  LET forgotten == {k \in 1..sampled : \A c \in 1..Len(kv) : kv[c] # Piece(k)}
      cutShort == Turns("abandoned") \union Turns("sentinel") \union Turns("open")
  IN Cardinality(forgotten) <= Cardinality(cutShort)

\* With stored chats the session delivers its messages to the model at least
\* once each, in the sense of PromptFeed.  An assistant message counts as
\* evaluated: the model produced it.
FedMessages ==
  {i \in 1..Len(messages) : messages[i].role = "assistant" \/ CopiesOf(i) # {}}

PromptFeed == INSTANCE PromptFeed
                WITH sent <- Len(messages), fed <- FedMessages, acked <- prevLen

FeedsPrompts == PromptFeed!FeedSpec

\* Every turn ends: a reply that never reaches an end-of-generation token runs
\* into the context limit.
TurnEnds == (phase \in {"decode", "emit", "stop"}) ~> (phase \in {"idle", "dead"})

-----------------------------------------------------------------------------
(***************************************************************************)
(* What a comment of LLMInference.h says, and the code does not do.        *)
(***************************************************************************)

\* LLMInference.h: _response "stores the complete response for the given
\* query".  It may begin with what an earlier, broken turn left there.
ResponseIsForQuery ==
  phase # "idle" => \A k \in response : sampledIn[k] = turn

=============================================================================
