----------------------------- MODULE ModelLoading -----------------------------
(***************************************************************************)
(* Choosing and loading a model: the file dialog of HomeScreen, and        *)
(* selectLLMModelFile and initLLM of ChatViewModel, with the LLMReader and *)
(* LLMTalker calls they make.                                              *)
(*                                                                         *)
(* Every click on the dialog's button starts a selection, a coroutine on   *)
(* Dispatchers.Default; a selection that ends with a file may start a      *)
(* loader, another coroutine there.  They run in parallel and share        *)
(* loadingLLMState, modelPath, initLLM, the reader and the talker; every   *)
(* access to those is a step of its own.  The main thread collects         *)
(* loadingLLMState and takes the dialog away when it sees a 2.             *)
(*                                                                         *)
(* A loader that fails ends with an exception nobody catches (on Android   *)
(* the process ends with it).  The file picker itself does not fail.       *)
(***************************************************************************)
EXTENDS Integers, FiniteSets

CONSTANTS MaxClicks,  \* bound: how often the user clicks the button
          Files,      \* the files the picker offers
          Gguf,       \* those that parse as GGUF
          Complete,   \* those with a context length and a chat template, too
          NoFile      \* the empty path: nothing was picked

ASSUME FilesAssumption ==
  /\ MaxClicks \in Nat
  /\ Complete \subseteq Gguf
  /\ Gguf \subseteq Files
  /\ NoFile \notin Files

Click == 1..MaxClicks
Path == Files \union {NoFile}

VARIABLES
  dialog,     \* showFileDialog
  state,      \* loadingLLMState: 0 default, 1 loading, 2 loaded
  modelPath,  \* modelPath; the built-in default counts as NoFile
  initLLM,    \* the flag initLLM
  reader,     \* the file behind LLMReader.nativeHandle, NoFile for 0
  talker,     \* the session behind LLMTalker.nativePtr, NoTalker for 0
  pc,         \* where each selection is
  picked,     \* what selectLLMModelFile returned to it
  loader,     \* where the loader started by each selection is
  args,       \* what it has evaluated for LLMTalker.create
  crashed,    \* whether the process died in native code
  raced       \* history: two selections passed the test of loadingLLMState
              \* together, or one passed it after a model was loaded

shared == <<dialog, state, modelPath, initLLM, reader, talker>>
vars == <<shared, pc, picked, loader, args, crashed, raced>>

NoTalker == [weights |-> NoFile, size |-> NoFile, template |-> NoFile, prompts |-> 0]
NoArgs == [weights |-> NoFile, size |-> NoFile, template |-> NoFile]

Selecting == {"check", "mark", "pick", "read", "test", "init", "launch"}
Loading == {"mark", "open", "size", "template", "call", "create", "prompt", "finish"}

-----------------------------------------------------------------------------

Init ==
  /\ dialog = TRUE
  /\ state = 0
  /\ modelPath = NoFile
  /\ initLLM = FALSE
  /\ reader = NoFile
  /\ talker = NoTalker
  /\ pc = [c \in Click |-> "none"]
  /\ picked = [c \in Click |-> NoFile]
  /\ loader = [c \in Click |-> "none"]
  /\ args = [c \in Click |-> NoArgs]
  /\ crashed = FALSE
  /\ raced = FALSE

-----------------------------------------------------------------------------
\* A selection.

\* c's selection is about to take the given step.
At(c, step) == ~crashed /\ pc[c] = step

Goto(c, step) == pc' = [pc EXCEPT ![c] = step]

\* The button starts a selection as long as the dialog is there; it is not
\* disabled while a model is loading.
ClickSelect(c) ==
  /\ dialog
  /\ At(c, "none")
  /\ \A d \in 1..(c - 1) : pc[d] # "none"
  /\ Goto(c, "check")
  /\ UNCHANGED <<shared, picked, loader, args, crashed, raced>>

\* Mutant: the button does not look at loadingLLMState.
CheckNothing(c) ==
  /\ At(c, "check")
  /\ Goto(c, "mark")
  /\ raced' = (raced \/ state = 2 \/ (state = 0 /\ \E d \in Click : pc[d] = "mark"))
  /\ UNCHANGED <<shared, picked, loader, args, crashed>>

\* A selection gives up while another one or a loader is at work.
CheckLoading(c) ==
  /\ At(c, "check")
  /\ Goto(c, IF state = 1 THEN "ended" ELSE "mark")
  /\ raced' = (raced \/ state = 2 \/ (state = 0 /\ \E d \in Click : pc[d] = "mark"))
  /\ UNCHANGED <<shared, picked, loader, args, crashed>>

\* Mutant: selectLLMModelFile does not announce the selection.
MarkNothing(c) ==
  /\ At(c, "mark")
  /\ Goto(c, "pick")
  /\ UNCHANGED <<shared, picked, loader, args, crashed, raced>>

\* selectLLMModelFile: emit(1) ...
MarkLoading(c) ==
  /\ At(c, "mark")
  /\ state' = 1
  /\ Goto(c, "pick")
  /\ UNCHANGED <<dialog, modelPath, initLLM, reader, talker, picked, loader,
                 args, crashed, raced>>

\* ... the picker comes back with a file or with nothing ...
PickerReturns(c, f) ==
  /\ At(c, "pick")
  /\ modelPath' = f
  /\ Goto(c, "read")
  /\ UNCHANGED <<dialog, state, initLLM, reader, talker, picked, loader, args,
                 crashed, raced>>

\* ... and modelPath is read back as the result.
ReadPath(c) ==
  /\ At(c, "read")
  /\ picked' = [picked EXCEPT ![c] = modelPath]
  /\ Goto(c, "test")
  /\ UNCHANGED <<shared, loader, args, crashed, raced>>

\* Mutant: a picker left without a file only shows the snackbar.
TestWithoutReset(c) ==
  /\ At(c, "test")
  /\ Goto(c, IF picked[c] = NoFile THEN "ended" ELSE "init")
  /\ UNCHANGED <<shared, picked, loader, args, crashed, raced>>

\* Without a file the button is reset, else initLLM is called.
TestPicked(c) ==
  /\ At(c, "test")
  /\ IF picked[c] = NoFile
     THEN Goto(c, "ended") /\ state' = 0
     ELSE Goto(c, "init") /\ state' = state
  /\ UNCHANGED <<dialog, modelPath, initLLM, reader, talker, picked, loader,
                 args, crashed, raced>>

\* initLLM returns at once when it was called before ...
TestInit(c) ==
  /\ At(c, "init")
  /\ Goto(c, IF initLLM THEN "ended" ELSE "launch")
  /\ UNCHANGED <<shared, picked, loader, args, crashed, raced>>

\* ... else it raises its flag and launches a loader.
LaunchLoader(c) ==
  /\ At(c, "launch")
  /\ initLLM' = TRUE
  /\ loader' = [loader EXCEPT ![c] = "mark"]
  /\ Goto(c, "ended")
  /\ UNCHANGED <<dialog, state, modelPath, reader, talker, picked, args,
                 crashed, raced>>

-----------------------------------------------------------------------------
\* A loader.

\* c's loader is about to take the given step.
LoaderAt(c, step) == ~crashed /\ loader[c] = step

\* The loader of c goes on, in a step that touches no selection.
Load(c, step) ==
  /\ loader' = [loader EXCEPT ![c] = step]
  /\ UNCHANGED <<dialog, modelPath, initLLM, pc, picked, raced>>

\* Mutant: a loader announces its result before it has one.
LoaderMarksLoaded(c) ==
  /\ LoaderAt(c, "mark")
  /\ state' = 2
  /\ Load(c, "open")
  /\ UNCHANGED <<reader, talker, args, crashed>>

LoaderMarks(c) ==
  /\ LoaderAt(c, "mark")
  /\ state' = 1
  /\ Load(c, "open")
  /\ UNCHANGED <<reader, talker, args, crashed>>

\* llmReader.loadModel: the handle is 0 when the file does not parse.
OpenReader(c) ==
  /\ LoaderAt(c, "open")
  /\ reader' = IF modelPath \in Gguf THEN modelPath ELSE NoFile
  /\ Load(c, "size")
  /\ UNCHANGED <<state, talker, args, crashed>>

\* getContextSize and getChatTemplate assert that the handle is not 0.  With
\* assertions disabled a null handle is dereferenced in native code instead.
ReadMetadata(c, field, next) ==
  /\ IF reader # NoFile
     THEN /\ args' = [args EXCEPT ![c] =
                        [@ EXCEPT ![field] = IF reader \in Complete THEN reader ELSE NoFile]]
          /\ Load(c, next)
          /\ UNCHANGED crashed
     ELSE /\ crashed' \in BOOLEAN
          /\ Load(c, "failed")
          /\ UNCHANGED args
  /\ UNCHANGED <<state, reader, talker>>

ReadContextSize(c) == LoaderAt(c, "size") /\ ReadMetadata(c, "size", "template")

ReadChatTemplate(c) == LoaderAt(c, "template") /\ ReadMetadata(c, "template", "call")

\* Mutant: create is called with whatever the reader has found.
CallCreateUnchecked(c) ==
  /\ LoaderAt(c, "call")
  /\ args' = [args EXCEPT ![c].weights = modelPath]
  /\ Load(c, "create")
  /\ UNCHANGED <<state, reader, talker, crashed>>

\* The arguments of create: modelPath is read again, and a value the reader did
\* not find is a null that "!!" throws on.
CallCreate(c) ==
  /\ LoaderAt(c, "call")
  /\ IF NoFile \in {args[c].size, args[c].template}
     THEN Load(c, "failed") /\ UNCHANGED args
     ELSE /\ args' = [args EXCEPT ![c].weights = modelPath]
          /\ Load(c, "create")
  /\ UNCHANGED <<state, reader, talker, crashed>>

\* create succeeds only with a file that parses, and may fail with any.
CreateReturns(c) ==
  /\ LoaderAt(c, "create")
  /\ args[c].weights \in Gguf
  /\ talker' = [weights |-> args[c].weights, size |-> args[c].size,
                template |-> args[c].template, prompts |-> 0]
  /\ Load(c, "prompt")
  /\ UNCHANGED <<state, reader, args, crashed>>

\* The exception leaves nativePtr as it was.
CreateThrows(c) ==
  /\ LoaderAt(c, "create")
  /\ Load(c, "failed")
  /\ UNCHANGED <<state, reader, talker, args, crashed>>

AddSystemPrompt(c) ==
  /\ LoaderAt(c, "prompt")
  /\ talker' = [talker EXCEPT !.prompts = @ + 1]
  /\ Load(c, "finish")
  /\ UNCHANGED <<state, reader, args, crashed>>

\* Mutant: the loader ends without a word.
FinishSilently(c) ==
  /\ LoaderAt(c, "finish")
  /\ Load(c, "done")
  /\ UNCHANGED <<state, reader, talker, args, crashed>>

FinishLoading(c) ==
  /\ LoaderAt(c, "finish")
  /\ state' = 2
  /\ Load(c, "done")
  /\ UNCHANGED <<reader, talker, args, crashed>>

-----------------------------------------------------------------------------

\* The collector on the main thread.  A StateFlow is conflated: the collector
\* may miss a 2 that something overwrites.
CollectLoaded ==
  /\ ~crashed
  /\ dialog
  /\ state = 2
  /\ dialog' = FALSE
  /\ UNCHANGED <<state, modelPath, initLLM, reader, talker, pc, picked, loader,
                 args, crashed, raced>>

\* What a selection does on its own; when the picker returns is up to the user.
SelectionStep(c) ==
  \/ CheckLoading(c)
  \/ MarkLoading(c)
  \/ ReadPath(c)
  \/ TestPicked(c)
  \/ TestInit(c)
  \/ LaunchLoader(c)

LoaderStep(c) ==
  \/ LoaderMarks(c)
  \/ OpenReader(c)
  \/ ReadContextSize(c)
  \/ ReadChatTemplate(c)
  \/ CallCreate(c)
  \/ CreateReturns(c)
  \/ CreateThrows(c)
  \/ AddSystemPrompt(c)
  \/ FinishLoading(c)

\* No coroutine has anything left to do, or the process is gone.
Rest ==
  /\ crashed \/ \A c \in Click : pc[c] \in {"none", "ended"} /\ loader[c] \notin Loading
  /\ UNCHANGED vars

Next ==
  \/ \E c \in Click :
       \/ ClickSelect(c)
       \/ \E f \in Path : PickerReturns(c, f)
       \/ SelectionStep(c)
       \/ LoaderStep(c)
  \/ CollectLoaded
  \/ Rest

\* Coroutines and the collector are scheduled and native calls return.  The
\* user need not click, nor close the picker.
Fairness ==
  /\ \A c \in Click : WF_vars(SelectionStep(c))
  /\ \A c \in Click : WF_vars(LoaderStep(c))
  /\ WF_vars(CollectLoaded)

Spec == Init /\ [][Next]_vars

FairSpec == Spec /\ Fairness

-----------------------------------------------------------------------------
(***************************************************************************)
(* Correctness.                                                            *)
(***************************************************************************)

Metadata == Complete \union {NoFile}

\* Types; a session is only ever created with metadata that was found.
TypeOK ==
  /\ dialog \in BOOLEAN
  /\ state \in 0..2
  /\ modelPath \in Path
  /\ initLLM \in BOOLEAN
  /\ reader \in Gguf \union {NoFile}
  /\ \/ talker = NoTalker
     \/ talker \in [weights : Gguf, size : Complete, template : Complete, prompts : Nat]
  /\ pc \in [Click -> Selecting \union {"none", "ended"}]
  /\ picked \in [Click -> Path]
  /\ loader \in [Click -> Loading \union {"none", "done", "failed"}]
  /\ args \in [Click -> [weights : Path, size : Metadata, template : Metadata]]
  /\ crashed \in BOOLEAN
  /\ raced \in BOOLEAN

\* The selections and loaders at work.
Busy == {c \in Click : pc[c] \in Selecting \ {"check"} \/ loader[c] \in Loading}

\* The assertion of verifyHandle ("Model is not loaded"): once the dialog is
\* gone and a message can be sent, there is a session, whatever was clicked.
ModelBehindScreen == ~dialog => talker # NoTalker

\* The test of loadingLLMState lets one selection or loader work at a time,
\* unless two selections pass it together or one comes after the model.
OneAtATime == ~raced => Cardinality(Busy) <= 1

\* Then the session has the weights, the context size and the chat template of
\* one file, and one system prompt once its loader is done.
OneModel ==
  (~raced /\ talker # NoTalker) =>
    /\ talker.weights = talker.size /\ talker.size = talker.template
    /\ state = 2 => talker.prompts = 1

\* Leaving the picker without a file never locks the button: when all
\* selections have ended and none started a loader, the state is 0 again.
SelectableAgain ==
  ((\A c \in Click : pc[c] \in {"none", "ended"}) /\ ~initLLM) => state = 0

\* A loader that does not fail opens the chat.
LoadOpensChat ==
  \A c \in Click : (loader[c] = "mark") ~> (~dialog \/ loader[c] = "failed" \/ crashed \/ raced)

-----------------------------------------------------------------------------
(***************************************************************************)
(* What a comment of the code says, and the code does not do.              *)
(***************************************************************************)

\* ChatViewModel.kt on loadingLLMState: "0 default,1 loading,2 loading
\* completely".  A 1 may stand for a load that has failed.
OneMeansLoading == (state = 1 /\ ~crashed) => Busy # {}

=============================================================================
