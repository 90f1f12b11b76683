------------------------- MODULE ModelLoading_proofs -------------------------
(***************************************************************************)
(* Proofs about choosing and loading a model, for any number of clicks and *)
(* any files: what is behind the screen, when the button works again, and  *)
(* that without a race selections and loaders take turns.                  *)
(***************************************************************************)
EXTENDS ModelLoading, FiniteSetTheorems, TLAPS

\* What has been created stays: the chat is open, the state is 2, or a loader
\* is past create, only if there is a session.
Behind ==
  /\ ~dialog \/ state = 2 => talker # NoTalker
  /\ \A c \in Click : loader[c] \in {"prompt", "finish", "done"} => talker # NoTalker

\* A loader that calls create has the metadata, and its selection has ended.
Ready ==
  \A c \in Click :
    /\ loader[c] = "create" => args[c].size \in Complete /\ args[c].template \in Complete
    /\ loader[c] # "none" => pc[c] = "ended"

\* Before the first loader a 1 stands for a selection that will take it back or
\* launch a loader.
TakenBack ==
  ~initLLM =>
    /\ \A c \in Click : loader[c] = "none"
    /\ state # 2
    /\ state = 1 => \E c \in Click : pc[c] \in {"pick", "read", "test", "init", "launch"}

Working(c) == pc[c] \in Selecting \ {"check"} \/ loader[c] \in Loading

\* What the loader of c has gathered is of the file in modelPath.
OwnFile(c) ==
  /\ loader[c] \in {"size", "template", "call"} =>
       reader = IF modelPath \in Gguf THEN modelPath ELSE NoFile
  /\ loader[c] \in {"template", "call"} => args[c].size \in {modelPath, NoFile}
  /\ loader[c] = "call" => args[c].template \in {modelPath, NoFile}
  /\ loader[c] = "create" => /\ args[c].weights = modelPath
                             /\ args[c].size = modelPath
                             /\ args[c].template = modelPath
  /\ loader[c] = "prompt" => talker.prompts = 0
  /\ loader[c] = "finish" => talker.prompts = 1

\* Without a race only one is at work, behind a state of 1 that keeps others
\* out, and so modelPath, reader and talker are its own.
Alone ==
  /\ \A c, d \in Click : Working(c) /\ Working(d) => c = d
  /\ \A c \in Click : Working(c) => pc[c] = "mark" \/ state = 1
  /\ talker # NoTalker => talker.weights = talker.size /\ talker.size = talker.template
  /\ state = 2 => talker.prompts = 1
  /\ \A c \in Click : OwnFile(c)

\* The inductive invariant.
LoadInv ==
  /\ TypeOK
  /\ Behind
  /\ Ready
  /\ TakenBack
  /\ ~raced => Alone

-----------------------------------------------------------------------------

\* The empty path is no model file.
LEMMA FileFacts ==
  /\ Complete \subseteq Gguf /\ Gguf \subseteq Path /\ Complete \subseteq Path
  /\ NoFile \in Path /\ NoFile \notin Gguf /\ NoFile \notin Complete
BY FilesAssumption DEF Path

\* A session that was created is not the one that was not.
LEMMA SessionThere ==
  ASSUME NEW t \in [weights : Gguf, size : Complete, template : Complete, prompts : Nat]
  PROVE  t # NoTalker
BY FileFacts DEF NoTalker

LEMMA LoadInit == Init => LoadInv
<1> SUFFICES ASSUME Init PROVE LoadInv
  OBVIOUS
<1>1. TypeOK
  <2>1. NoArgs \in [weights : Path, size : Metadata, template : Metadata]
    BY FileFacts DEF NoArgs, Metadata
  <2>2. /\ args \in [Click -> [weights : Path, size : Metadata, template : Metadata]]
        /\ picked \in [Click -> Path]
    BY <2>1, FileFacts DEF Init
  <2>3. /\ pc \in [Click -> Selecting \union {"none", "ended"}]
        /\ loader \in [Click -> Loading \union {"none", "done", "failed"}]
    BY DEF Init
  <2>4. dialog \in BOOLEAN /\ initLLM \in BOOLEAN /\ crashed \in BOOLEAN /\ raced \in BOOLEAN
    BY DEF Init
  <2>5. state \in 0..2 /\ modelPath \in Path /\ reader \in Gguf \union {NoFile} /\ talker = NoTalker
    BY FileFacts DEF Init
  <2> QED
    BY <2>2, <2>3, <2>4, <2>5 DEF TypeOK
<1>2. Behind /\ Ready /\ TakenBack
  BY DEF Init, Behind, Ready, TakenBack
<1>3. Alone
  BY DEF Init, Alone, Working, OwnFile, Selecting, Loading
<1> QED
  BY <1>1, <1>2, <1>3 DEF LoadInv

LEMMA LoadStutter == LoadInv /\ UNCHANGED vars => LoadInv'
<1> SUFFICES ASSUME LoadInv, UNCHANGED vars PROVE LoadInv'
  OBVIOUS
<1>1. /\ UNCHANGED <<dialog, state, modelPath, initLLM, reader, talker>>
      /\ UNCHANGED <<pc, picked, loader, args, crashed, raced>>
  BY DEF vars, shared
<1>2. TypeOK' /\ Behind' /\ Ready' /\ TakenBack'
  BY <1>1 DEF LoadInv, TypeOK, Behind, Ready, TakenBack
<1>3. ~raced => Alone'
  BY <1>1 DEF LoadInv, Alone, Working, OwnFile
<1> QED
  BY <1>1, <1>2, <1>3 DEF LoadInv

-----------------------------------------------------------------------------
\* Types.

LEMMA SelectionTypes ==
  ASSUME TypeOK, NEW c \in Click,
         \/ ClickSelect(c) \/ SelectionStep(c) \/ \E f \in Path : PickerReturns(c, f)
  PROVE  TypeOK'
<1> USE FileFacts DEF TypeOK, At, Goto, shared, Selecting, Loading
<1>1. CASE ClickSelect(c)
  BY <1>1 DEF ClickSelect
<1>2. CASE CheckLoading(c)
  BY <1>2 DEF CheckLoading
<1>3. CASE MarkLoading(c)
  BY <1>3 DEF MarkLoading
<1>4. CASE \E f \in Path : PickerReturns(c, f)
  BY <1>4 DEF PickerReturns
<1>5. CASE ReadPath(c)
  BY <1>5 DEF ReadPath
<1>6. CASE TestPicked(c)
  BY <1>6 DEF TestPicked
<1>7. CASE TestInit(c)
  BY <1>7 DEF TestInit
<1>8. CASE LaunchLoader(c)
  BY <1>8 DEF LaunchLoader
<1> QED
  BY <1>1, <1>2, <1>3, <1>4, <1>5, <1>6, <1>7, <1>8 DEF SelectionStep

\* What reading one field of the metadata does.
LEMMA MetadataRead ==
  ASSUME TypeOK, NEW c \in Click, NEW field \in {"size", "template"},
         NEW next \in Loading, ReadMetadata(c, field, next)
  PROVE  /\ UNCHANGED <<dialog, state, modelPath, initLLM, reader, talker, pc, picked, raced>>
         /\ crashed' \in BOOLEAN
         /\ args' \in [Click -> [weights : Path, size : Metadata, template : Metadata]]
         /\ loader' \in [Click -> Loading \union {"none", "done", "failed"}]
         /\ \A d \in Click \ {c} : args'[d] = args[d] /\ loader'[d] = loader[d]
         /\ \/ loader'[c] = "failed"
            \/ /\ loader'[c] = next
               /\ reader # NoFile
               /\ args'[c].size \in IF field = "size" THEN {reader, NoFile} ELSE {args[c].size}
               /\ args'[c].template \in IF field = "template" THEN {reader, NoFile}
                                        ELSE {args[c].template}
<1> USE FileFacts
<1>1. UNCHANGED <<dialog, state, modelPath, initLLM, reader, talker, pc, picked, raced>>
      /\ crashed' \in BOOLEAN
  BY DEF ReadMetadata, Load, TypeOK
<1>2. loader' \in [Click -> Loading \union {"none", "done", "failed"}]
      /\ \A d \in Click \ {c} : loader'[d] = loader[d]
      /\ loader'[c] \in {next, "failed"}
  BY DEF ReadMetadata, Load, TypeOK
<1>3. args[c] \in [weights : Path, size : Metadata, template : Metadata]
  BY DEF TypeOK
<1>4. CASE reader # NoFile
  <2> DEFINE v == IF reader \in Complete THEN reader ELSE NoFile
             a == [args[c] EXCEPT ![field] = v]
  <2>1. v \in Metadata /\ v \in {reader, NoFile}
    BY DEF Metadata
  <2>2. args' = [args EXCEPT ![c] = a] /\ loader'[c] = next
    BY <1>4 DEF ReadMetadata, Load, TypeOK
  <2> HIDE DEF v
  <2>3. a \in [weights : Path, size : Metadata, template : Metadata]
    BY <1>3, <2>1
  <2>4. /\ a.size \in IF field = "size" THEN {v} ELSE {args[c].size}
        /\ a.template \in IF field = "template" THEN {v} ELSE {args[c].template}
    BY <1>3
  <2> HIDE DEF a
  <2>5. args' \in [Click -> [weights : Path, size : Metadata, template : Metadata]]
        /\ args'[c] = a /\ \A d \in Click \ {c} : args'[d] = args[d]
    BY <2>2, <2>3 DEF TypeOK
  <2> QED
    BY <1>1, <1>2, <1>4, <2>1, <2>2, <2>4, <2>5
<1>5. CASE reader = NoFile
  <2>1. UNCHANGED args /\ loader'[c] = "failed"
    BY <1>5 DEF ReadMetadata, Load, TypeOK
  <2> QED
    BY <1>1, <1>2, <2>1 DEF TypeOK
<1> QED
  BY <1>4, <1>5

LEMMA LoaderTypes ==
  ASSUME TypeOK, Behind, Ready, NEW c \in Click, LoaderStep(c)
  PROVE  TypeOK'
<1> USE FileFacts
<1>1. CASE LoaderMarks(c)
  BY <1>1 DEF LoaderMarks, LoaderAt, Load, Loading, TypeOK
<1>2. CASE OpenReader(c)
  BY <1>2 DEF OpenReader, LoaderAt, Load, Loading, TypeOK
<1>3. CASE ReadContextSize(c) \/ ReadChatTemplate(c)
  <2>1. PICK field \in {"size", "template"}, next \in Loading : ReadMetadata(c, field, next)
    BY <1>3 DEF ReadContextSize, ReadChatTemplate, Loading
  <2>2. /\ UNCHANGED <<dialog, state, modelPath, initLLM, reader, talker, pc, picked, raced>>
        /\ crashed' \in BOOLEAN
        /\ args' \in [Click -> [weights : Path, size : Metadata, template : Metadata]]
        /\ loader' \in [Click -> Loading \union {"none", "done", "failed"}]
    BY <2>1, MetadataRead
  <2> QED
    BY <2>2 DEF TypeOK
<1>4. CASE CallCreate(c)
  <2> DEFINE a == [args[c] EXCEPT !.weights = modelPath]
  <2>1. a \in [weights : Path, size : Metadata, template : Metadata]
    BY DEF TypeOK
  <2>2. args' = args \/ args' = [args EXCEPT ![c] = a]
    BY <1>4 DEF CallCreate, Load
  <2> HIDE DEF a
  <2>3. args' \in [Click -> [weights : Path, size : Metadata, template : Metadata]]
    BY <2>1, <2>2 DEF TypeOK
  <2> QED
    BY <1>4, <2>3 DEF CallCreate, LoaderAt, Load, Loading, TypeOK
<1>5. CASE CreateReturns(c)
  <2>1. args[c].size \in Complete /\ args[c].template \in Complete /\ args[c].weights \in Gguf
    BY <1>5 DEF CreateReturns, LoaderAt, Ready
  <2>2. talker' \in [weights : Gguf, size : Complete, template : Complete, prompts : Nat]
    BY <1>5, <2>1 DEF CreateReturns
  <2> QED
    BY <1>5, <2>2 DEF CreateReturns, LoaderAt, Load, Loading, TypeOK
<1>6. CASE CreateThrows(c)
  BY <1>6 DEF CreateThrows, LoaderAt, Load, Loading, TypeOK
<1>7. CASE AddSystemPrompt(c)
  <2>1. talker \in [weights : Gguf, size : Complete, template : Complete, prompts : Nat]
    BY <1>7 DEF AddSystemPrompt, LoaderAt, Behind, TypeOK
  <2>2. talker' \in [weights : Gguf, size : Complete, template : Complete, prompts : Nat]
    BY <1>7, <2>1 DEF AddSystemPrompt
  <2> QED
    BY <1>7, <2>2 DEF AddSystemPrompt, LoaderAt, Load, Loading, TypeOK
<1>8. CASE FinishLoading(c)
  BY <1>8 DEF FinishLoading, LoaderAt, Load, Loading, TypeOK
<1> QED
  BY <1>1, <1>2, <1>3, <1>4, <1>5, <1>6, <1>7, <1>8 DEF LoaderStep

-----------------------------------------------------------------------------
\* What does not depend on races.

LEMMA SelectionOrder ==
  ASSUME TypeOK, Behind, Ready, TakenBack, NEW c \in Click,
         \/ ClickSelect(c) \/ SelectionStep(c) \/ \E f \in Path : PickerReturns(c, f)
  PROVE  Behind' /\ Ready' /\ TakenBack'
<1> USE DEF TypeOK, At, Goto, shared, Behind, Ready, TakenBack
<1>1. CASE ClickSelect(c)
  BY <1>1 DEF ClickSelect
<1>2. CASE CheckLoading(c)
  BY <1>2 DEF CheckLoading
<1>3. CASE MarkLoading(c)
  BY <1>3 DEF MarkLoading
<1>4. CASE \E f \in Path : PickerReturns(c, f)
  BY <1>4 DEF PickerReturns
<1>5. CASE ReadPath(c)
  BY <1>5 DEF ReadPath
<1>6. CASE TestPicked(c)
  BY <1>6 DEF TestPicked
<1>7. CASE TestInit(c)
  BY <1>7 DEF TestInit
<1>8. CASE LaunchLoader(c)
  BY <1>8 DEF LaunchLoader
<1> QED
  BY <1>1, <1>2, <1>3, <1>4, <1>5, <1>6, <1>7, <1>8 DEF SelectionStep

LEMMA LoaderOrder ==
  ASSUME TypeOK, Behind, Ready, TakenBack, NEW c \in Click, LoaderStep(c)
  PROVE  Behind' /\ Ready' /\ TakenBack'
<1>0. loader[c] # "none" /\ UNCHANGED <<dialog, initLLM, pc>>
  BY DEF LoaderStep, LoaderMarks, OpenReader, ReadContextSize, ReadChatTemplate, CallCreate,
     CreateReturns, CreateThrows, AddSystemPrompt, FinishLoading, ReadMetadata, LoaderAt, Load
<1>1. TakenBack'
  BY <1>0 DEF TakenBack
<1> USE FileFacts DEF TypeOK, LoaderAt, Load, Behind, Ready
<1>2. CASE LoaderMarks(c)
  BY <1>1, <1>2 DEF LoaderMarks
<1>3. CASE OpenReader(c)
  BY <1>1, <1>3 DEF OpenReader
<1>4. CASE ReadContextSize(c) \/ ReadChatTemplate(c)
  <2>1. PICK field \in {"size", "template"}, next \in {"template", "call"} :
          ReadMetadata(c, field, next)
    BY <1>4 DEF ReadContextSize, ReadChatTemplate
  <2>2. next \in Loading
    BY DEF Loading
  <2>3. /\ UNCHANGED <<dialog, state, talker, pc>>
        /\ \A d \in Click \ {c} : args'[d] = args[d] /\ loader'[d] = loader[d]
        /\ loader'[c] \in {next, "failed"}
    BY <2>1, <2>2, MetadataRead
  <2> QED
    BY <1>0, <1>1, <2>3
<1>5. CASE CallCreate(c)
  <2>1. CASE loader'[c] = "failed" /\ UNCHANGED args
    BY <1>1, <1>5, <2>1 DEF CallCreate
  <2>2. CASE ~(NoFile \in {args[c].size, args[c].template})
    <3>1. args[c].size \in Complete /\ args[c].template \in Complete
      BY <2>2 DEF Metadata
    <3>2. args'[c].size = args[c].size /\ args'[c].template = args[c].template
          /\ \A d \in Click \ {c} : args'[d] = args[d] /\ loader'[d] = loader[d]
      BY <1>5, <2>2 DEF CallCreate
    <3> QED
      BY <1>1, <1>5, <2>2, <3>1, <3>2 DEF CallCreate
  <2> QED
    BY <1>5, <2>1, <2>2 DEF CallCreate
<1>6. CASE CreateReturns(c)
  <2>1. talker' \in [weights : Gguf, size : Complete, template : Complete, prompts : Nat]
    BY <1>6 DEF CreateReturns
  <2>2. talker' # NoTalker
    BY <2>1, SessionThere
  <2> QED
    BY <1>1, <1>6, <2>2 DEF CreateReturns
<1>7. CASE CreateThrows(c)
  BY <1>1, <1>7 DEF CreateThrows
<1>8. CASE AddSystemPrompt(c)
  <2>1. talker' \in [weights : Gguf, size : Complete, template : Complete, prompts : Nat]
    BY <1>8 DEF AddSystemPrompt
  <2>2. talker' # NoTalker
    BY <2>1, SessionThere
  <2> QED
    BY <1>1, <1>8, <2>2 DEF AddSystemPrompt
<1>9. CASE FinishLoading(c)
  BY <1>1, <1>9 DEF FinishLoading
<1> QED
  BY <1>2, <1>3, <1>4, <1>5, <1>6, <1>7, <1>8, <1>9 DEF LoaderStep

-----------------------------------------------------------------------------
\* What holds without a race.

\* c goes on alone: the others are as they were and not at work.
LEMMA AloneKept ==
  ASSUME NEW c \in Click,
         \A d \in Click \ {c} : ~Working(d) /\ ~Working(d)',
         \A d \in Click \ {c} : loader[d] = loader'[d],
         Working(c)' => pc'[c] = "mark" \/ state' = 1,
         (talker # NoTalker)' => (talker.weights = talker.size /\ talker.size = talker.template)',
         (state = 2)' => (talker.prompts = 1)',
         OwnFile(c)'
  PROVE  Alone'
<1>1. \A d \in Click \ {c} : OwnFile(d)'
  BY DEF Working, OwnFile, Loading
<1> QED
  BY <1>1 DEF Alone

\* The steps of a selection.
LEMMA SelectionAlone ==
  ASSUME LoadInv, Alone, ~raced', NEW c \in Click,
         \/ ClickSelect(c) \/ SelectionStep(c) \/ \E f \in Path : PickerReturns(c, f)
  PROVE  Alone'
<1> USE DEF At, Goto, shared
<1>0. TypeOK /\ Ready /\ (loader[c] # "none" => pc[c] = "ended")
  BY DEF LoadInv, Ready
<1>1. CASE ClickSelect(c)
  <2>1. /\ UNCHANGED <<state, modelPath, reader, talker, loader, args>>
        /\ pc[c] = "none" /\ pc'[c] = "check" /\ \A d \in Click \ {c} : pc'[d] = pc[d]
    BY <1>0, <1>1 DEF ClickSelect, TypeOK
  <2>2. \A d \in Click : Working(d)' = Working(d)
    BY <2>1 DEF Working, Selecting
  <2>3. \A d \in Click : OwnFile(d)'
    BY <2>1 DEF OwnFile, Alone
  <2>4. \A d \in Click : Working(d) => pc'[d] = "mark" \/ state = 1
    BY <2>1 DEF Alone, Working, Selecting
  <2> QED
    BY <2>1, <2>2, <2>3, <2>4 DEF Alone
<1>2. CASE CheckLoading(c)
  <2>1. /\ UNCHANGED <<state, modelPath, reader, talker, loader, args>>
        /\ pc[c] = "check" /\ \A d \in Click \ {c} : pc'[d] = pc[d]
        /\ pc'[c] = IF state = 1 THEN "ended" ELSE "mark"
        /\ state # 2 /\ ~(state = 0 /\ \E d \in Click : pc[d] = "mark")
    BY <1>0, <1>2 DEF CheckLoading, TypeOK
  <2>2. ~Working(c) /\ loader[c] = "none"
    BY <1>0, <2>1 DEF Working, Selecting, Loading
  <2>3. \A d \in Click \ {c} : Working(d)' = Working(d)
    BY <2>1 DEF Working
  <2>4. \A d \in Click : OwnFile(d)'
    BY <2>1 DEF OwnFile, Alone
  <2>5. CASE state = 1
    <3>1. ~Working(c)'
      BY <2>1, <2>2, <2>5 DEF Working, Selecting, Loading
    <3> QED
      BY <2>1, <2>2, <2>3, <2>4, <2>5, <3>1 DEF Alone
  <2>6. CASE state = 0
    <3>1. \A d \in Click : ~Working(d)
      BY <2>1, <2>6 DEF Alone
    <3> QED
      BY <2>1, <2>3, <2>4, <2>6, <3>1 DEF Alone
  <2> QED
    BY <1>0, <2>1, <2>5, <2>6 DEF TypeOK
<1>3. CASE ~ClickSelect(c) /\ ~CheckLoading(c)
  <2>1. pc[c] \in Selecting \ {"check"}
    BY <1>3 DEF SelectionStep, MarkLoading, ReadPath, TestPicked, TestInit, LaunchLoader,
       PickerReturns, Selecting
  <2>2. Working(c) /\ loader[c] = "none"
    BY <1>0, <2>1 DEF Working, Selecting
  <2>3. \A d \in Click \ {c} : ~Working(d)
    BY <2>2 DEF Alone
  <2>4. /\ UNCHANGED <<reader, talker, args>>
        /\ \A d \in Click \ {c} : pc'[d] = pc[d] /\ loader'[d] = loader[d]
    BY <1>0, <1>3 DEF SelectionStep, MarkLoading, ReadPath, TestPicked, TestInit, LaunchLoader,
       PickerReturns, TypeOK
  <2>5. \A d \in Click \ {c} : ~Working(d)'
    BY <2>3, <2>4 DEF Working
  <2>6. loader'[c] \in {"none", "mark"}
    BY <1>0, <1>3, <2>2 DEF SelectionStep, MarkLoading, ReadPath, TestPicked, TestInit,
       LaunchLoader, PickerReturns, TypeOK
  <2>7. OwnFile(c)'
    BY <2>6 DEF OwnFile
  <2>8. pc[c] = "mark" \/ state = 1
    BY <2>2 DEF Alone
  <2>9. Working(c)' => state' = 1
    BY <1>0, <1>3, <2>2, <2>8 DEF SelectionStep, MarkLoading, ReadPath, TestPicked, TestInit,
       LaunchLoader, PickerReturns, TypeOK, Working, Selecting, Loading
  <2>10. state' \in {state, 0, 1}
    BY <1>3 DEF SelectionStep, MarkLoading, ReadPath, TestPicked, TestInit, LaunchLoader,
       PickerReturns
  <2>11. (talker # NoTalker)' => (talker.weights = talker.size /\ talker.size = talker.template)'
    BY <2>4 DEF Alone
  <2>12. (state = 2)' => (talker.prompts = 1)'
    BY <2>4, <2>10 DEF Alone
  <2> QED
    BY <2>3, <2>4, <2>5, <2>7, <2>9, <2>11, <2>12, AloneKept
<1> QED
  BY <1>1, <1>2, <1>3

\* The steps of a loader.
LEMMA LoaderAlone ==
  ASSUME LoadInv, Alone, ~raced', NEW c \in Click, LoaderStep(c)
  PROVE  Alone'
<1> USE FileFacts
<1>0. TypeOK /\ Behind /\ Ready
  BY DEF LoadInv
<1>1. loader[c] \in Loading
  BY DEF LoaderStep, LoaderMarks, OpenReader, ReadContextSize, ReadChatTemplate, CallCreate,
     CreateReturns, CreateThrows, AddSystemPrompt, FinishLoading, LoaderAt, Loading
<1>2. /\ UNCHANGED <<modelPath, pc>>
      /\ \A d \in Click \ {c} : loader'[d] = loader[d]
  BY <1>0 DEF LoaderStep, LoaderMarks, OpenReader, ReadContextSize, ReadChatTemplate, CallCreate,
     CreateReturns, CreateThrows, AddSystemPrompt, FinishLoading, ReadMetadata, Load, TypeOK
<1>3. Working(c) /\ pc[c] = "ended" /\ state = 1
  BY <1>0, <1>1 DEF Working, Ready, Loading, Alone
<1>4. \A d \in Click \ {c} : ~Working(d) /\ ~Working(d)'
  BY <1>2, <1>3 DEF Working, Alone
<1>5. ~(pc'[c] \in Selecting)
  BY <1>2, <1>3 DEF Selecting
<1>6. OwnFile(c)
  BY DEF Alone
<1>7. args[c] \in [weights : Path, size : Metadata, template : Metadata]
  BY <1>0 DEF TypeOK
<1> USE <1>0 DEF LoaderAt, Load, TypeOK
<1>8. CASE LoaderMarks(c)
  <2>1. loader'[c] = "open" /\ state' = 1 /\ UNCHANGED talker
    BY <1>8 DEF LoaderMarks
  <2>2. OwnFile(c)'
    BY <2>1 DEF OwnFile
  <2> QED
    BY <1>2, <1>4, <2>1, <2>2, AloneKept DEF Alone
<1>9. CASE OpenReader(c)
  <2>1. /\ loader'[c] = "size" /\ UNCHANGED <<state, talker>>
        /\ reader' = IF modelPath' \in Gguf THEN modelPath' ELSE NoFile
    BY <1>9 DEF OpenReader
  <2>2. OwnFile(c)'
    BY <2>1 DEF OwnFile
  <2> QED
    BY <1>2, <1>3, <1>4, <2>1, <2>2, AloneKept DEF Alone
<1>10. CASE ReadContextSize(c)
  <2>1. ReadMetadata(c, "size", "template") /\ loader[c] = "size" /\ "template" \in Loading
    BY <1>10 DEF ReadContextSize, Loading
  <2>2. /\ UNCHANGED <<state, reader, talker>>
        /\ \/ loader'[c] = "failed"
           \/ /\ loader'[c] = "template" /\ reader # NoFile
              /\ args'[c].size \in {reader, NoFile}
    BY <2>1, MetadataRead
  <2>3. reader = IF modelPath \in Gguf THEN modelPath ELSE NoFile
    BY <1>6, <2>1 DEF OwnFile
  <2>4. OwnFile(c)'
    BY <1>2, <2>2, <2>3 DEF OwnFile
  <2> QED
    BY <1>2, <1>3, <1>4, <2>2, <2>4, AloneKept DEF Alone
<1>11. CASE ReadChatTemplate(c)
  <2>1. ReadMetadata(c, "template", "call") /\ loader[c] = "template" /\ "call" \in Loading
    BY <1>11 DEF ReadChatTemplate, Loading
  <2>2. /\ UNCHANGED <<state, reader, talker>>
        /\ \/ loader'[c] = "failed"
           \/ /\ loader'[c] = "call" /\ reader # NoFile
              /\ args'[c].size = args[c].size
              /\ args'[c].template \in {reader, NoFile}
    BY <2>1, MetadataRead
  <2>3. /\ reader = IF modelPath \in Gguf THEN modelPath ELSE NoFile
        /\ args[c].size \in {modelPath, NoFile}
    BY <1>6, <2>1 DEF OwnFile
  <2>4. OwnFile(c)'
    BY <1>2, <2>2, <2>3 DEF OwnFile
  <2> QED
    BY <1>2, <1>3, <1>4, <2>2, <2>4, AloneKept DEF Alone
<1>12. CASE CallCreate(c)
  <2>1. loader[c] = "call" /\ UNCHANGED <<state, reader, talker>>
    BY <1>12 DEF CallCreate
  <2>2. args[c].size \in {modelPath, NoFile} /\ args[c].template \in {modelPath, NoFile}
    BY <1>6, <2>1 DEF OwnFile
  <2>3. CASE loader'[c] = "failed"
    <3>1. OwnFile(c)'
      BY <2>3 DEF OwnFile
    <3> QED
      BY <1>2, <1>3, <1>4, <2>1, <3>1, AloneKept DEF Alone
  <2>4. CASE ~(NoFile \in {args[c].size, args[c].template})
    <3>1. loader'[c] = "create" /\ args'[c] = [args[c] EXCEPT !.weights = modelPath]
      BY <1>12, <2>4 DEF CallCreate
    <3>2. /\ args'[c].weights = modelPath
          /\ args'[c].size = args[c].size /\ args'[c].template = args[c].template
      BY <1>7, <3>1
    <3>3. OwnFile(c)'
      BY <1>2, <2>2, <2>4, <3>1, <3>2 DEF OwnFile
    <3> QED
      BY <1>2, <1>3, <1>4, <2>1, <3>3, AloneKept DEF Alone
  <2> QED
    BY <1>12, <2>3, <2>4 DEF CallCreate
<1>13. CASE CreateReturns(c)
  <2>1. /\ loader[c] = "create" /\ loader'[c] = "prompt" /\ UNCHANGED state
        /\ talker'.weights = args[c].weights /\ talker'.size = args[c].size
        /\ talker'.template = args[c].template /\ talker'.prompts = 0
    BY <1>13 DEF CreateReturns
  <2>2. args[c].weights = args[c].size /\ args[c].size = args[c].template
    BY <1>6, <2>1 DEF OwnFile
  <2>3. OwnFile(c)'
    BY <2>1 DEF OwnFile
  <2> QED
    BY <1>2, <1>3, <1>4, <2>1, <2>2, <2>3, AloneKept
<1>14. CASE CreateThrows(c)
  <2>1. loader'[c] = "failed" /\ UNCHANGED <<state, talker>>
    BY <1>14 DEF CreateThrows
  <2>2. OwnFile(c)'
    BY <2>1 DEF OwnFile
  <2> QED
    BY <1>2, <1>3, <1>4, <2>1, <2>2, AloneKept DEF Alone
<1>15. CASE AddSystemPrompt(c)
  <2>1. /\ loader[c] = "prompt" /\ loader'[c] = "finish" /\ UNCHANGED state
        /\ talker' = [talker EXCEPT !.prompts = @ + 1]
    BY <1>15 DEF AddSystemPrompt
  <2>2. talker # NoTalker /\ talker.prompts = 0
    BY <1>6, <2>1 DEF OwnFile, Behind
  <2>3. talker \in [weights : Gguf, size : Complete, template : Complete, prompts : Nat]
    BY <2>2
  <2>4. /\ talker'.weights = talker.weights /\ talker'.size = talker.size
        /\ talker'.template = talker.template /\ talker'.prompts = 1
    BY <2>1, <2>2, <2>3
  <2>5. OwnFile(c)'
    BY <2>1, <2>4 DEF OwnFile
  <2> QED
    BY <1>2, <1>3, <1>4, <2>1, <2>2, <2>4, <2>5, AloneKept DEF Alone
<1>16. CASE FinishLoading(c)
  <2>1. loader[c] = "finish" /\ loader'[c] = "done" /\ UNCHANGED talker
    BY <1>16 DEF FinishLoading
  <2>2. talker.prompts = 1
    BY <1>6, <2>1 DEF OwnFile
  <2>3. OwnFile(c)' /\ ~Working(c)'
    BY <1>5, <2>1 DEF OwnFile, Working, Loading
  <2> QED
    BY <1>2, <1>4, <2>1, <2>2, <2>3, AloneKept DEF Alone
<1> QED
  BY <1>8, <1>9, <1>10, <1>11, <1>12, <1>13, <1>14, <1>15, <1>16 DEF LoaderStep

-----------------------------------------------------------------------------
\* The invariant.

\* Every step preserves it; a race that has begun is never forgotten.
LEMMA LoadStep == LoadInv /\ [Next]_vars => LoadInv'
<1> SUFFICES ASSUME LoadInv, [Next]_vars PROVE LoadInv'
  OBVIOUS
<1>0. TypeOK /\ Behind /\ Ready /\ TakenBack /\ (~raced => Alone)
  BY DEF LoadInv
<1>1. ASSUME NEW c \in Click,
             \/ ClickSelect(c) \/ SelectionStep(c) \/ \E f \in Path : PickerReturns(c, f)
      PROVE  LoadInv'
  <2>1. ~raced' => ~raced
    BY <1>1 DEF ClickSelect, SelectionStep, CheckLoading, MarkLoading, ReadPath, TestPicked,
       TestInit, LaunchLoader, PickerReturns
  <2>2. TypeOK'
    BY <1>0, <1>1, SelectionTypes
  <2>3. Behind' /\ Ready' /\ TakenBack'
    BY <1>0, <1>1, SelectionOrder
  <2>4. ~raced' => Alone'
    BY <1>0, <1>1, <2>1, SelectionAlone
  <2> QED
    BY <2>2, <2>3, <2>4 DEF LoadInv
<1>2. ASSUME NEW c \in Click, LoaderStep(c)
      PROVE  LoadInv'
  <2>1. ~raced' => ~raced
    BY <1>2 DEF LoaderStep, LoaderMarks, OpenReader, ReadContextSize, ReadChatTemplate,
       CallCreate, CreateReturns, CreateThrows, AddSystemPrompt, FinishLoading, ReadMetadata, Load
  <2>2. TypeOK'
    BY <1>0, <1>2, LoaderTypes
  <2>3. Behind' /\ Ready' /\ TakenBack'
    BY <1>0, <1>2, LoaderOrder
  <2>4. ~raced' => Alone'
    BY <1>0, <1>2, <2>1, LoaderAlone
  <2> QED
    BY <2>2, <2>3, <2>4 DEF LoadInv
<1>3. CASE CollectLoaded
  <2>1. /\ dialog' = FALSE /\ state = 2
        /\ UNCHANGED <<state, modelPath, initLLM, reader, talker, pc, picked, loader, args>>
        /\ UNCHANGED <<crashed, raced>>
    BY <1>3 DEF CollectLoaded
  <2>2. TypeOK'
    BY <1>0, <2>1 DEF TypeOK
  <2>3. Behind' /\ Ready' /\ TakenBack'
    BY <1>0, <2>1 DEF Behind, Ready, TakenBack
  <2>4. ~raced' => Alone'
    BY <1>0, <2>1 DEF Alone, Working, OwnFile
  <2> QED
    BY <2>2, <2>3, <2>4 DEF LoadInv
<1>4. CASE UNCHANGED vars
  BY <1>4, LoadStutter
<1> QED
  BY <1>1, <1>2, <1>3, <1>4 DEF Next, Rest

LEMMA LoadAlways == Spec => []LoadInv
<1> QED
  BY LoadInit, LoadStep, PTL DEF Spec

-----------------------------------------------------------------------------

\* The variables keep their types: a session is only ever created with a context
\* size and a chat template that the reader found.
THEOREM TypeOKAlways == Spec => []TypeOK
<1>1. LoadInv => TypeOK
  BY DEF LoadInv
<1> QED
  BY <1>1, LoadAlways, PTL

\* The chat is only ever shown with a session behind it, however many selections
\* and loaders race, fail or overwrite each other.
THEOREM ModelBehindScreenAlways == Spec => []ModelBehindScreen
<1>1. LoadInv => ModelBehindScreen
  BY DEF LoadInv, Behind, ModelBehindScreen
<1> QED
  BY <1>1, LoadAlways, PTL

\* When all selections have ended and none launched a loader, the button of the
\* dialog works again.
THEOREM SelectableAgainAlways == Spec => []SelectableAgain
<1>1. LoadInv => SelectableAgain
  BY DEF LoadInv, TypeOK, TakenBack, SelectableAgain
<1> QED
  BY <1>1, LoadAlways, PTL

\* Without a race on the test of loadingLLMState, at most one selection or loader
\* is at work.
THEOREM OneAtATimeAlways == Spec => []OneAtATime
<1>1. LoadInv => OneAtATime
  <2> SUFFICES ASSUME LoadInv, ~raced PROVE Cardinality(Busy) <= 1
    BY DEF OneAtATime
  <2>1. \A c, d \in Busy : c = d
    BY DEF LoadInv, Alone, Working, Busy
  <2>2. CASE Busy = {}
    BY <2>2, FS_EmptySet
  <2>3. CASE Busy # {}
    <3>1. PICK c \in Busy : TRUE
      BY <2>3
    <3>2. Busy = {c}
      BY <2>1, <3>1
    <3> QED
      BY <3>2, FS_Singleton
  <2> QED
    BY <2>2, <2>3
<1> QED
  BY <1>1, LoadAlways, PTL

\* Without such a race the session has the weights, the context size and the chat
\* template of one file, and exactly one system prompt once the model is loaded.
THEOREM OneModelAlways == Spec => []OneModel
<1>1. LoadInv => OneModel
  BY DEF LoadInv, Alone, OneModel
<1> QED
  BY <1>1, LoadAlways, PTL

=============================================================================
