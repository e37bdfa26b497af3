----------------------- MODULE StandardCompilerProofs -----------------------
(***************************************************************************)
(* What runs check of StandardCompiler, for every sequence of requests.    *)
(* The stack's own invariants hold in the composition, because every step  *)
(* is one of the stack or keeps them as a setting or a cached source       *)
(* mapping does (StackInv); on top of them stand FlowInv, what the stack   *)
(* may be at in each stage, and one invariant per property.  Together they *)
(* give the refinement ServesEachAlone.                                    *)
(***************************************************************************)
EXTENDS StandardCompiler, CompilerStackProofs

\* What CompilerStackProofs shows of the stack, in each stage of a request.
StackInv ==
  /\ ParseInv /\ AnalysisInv /\ ContractsInv
  /\ stage # "idle" => FreshInv

\* The stack is called in one stage only, always for compile(), and from a fresh start.
FlowInv ==
  /\ stage \in {"idle", "sources", "compile", "collect"}
  /\ stage # "idle" => request \in Requests
  /\ stage = "sources" => inputs \subseteq DOMAIN request.sources
  /\ stage # "collect" => pc = "idle"
  /\ stage \in {"sources", "compile"} => stackState \in {Empty, SourcesSet}
  /\ stage = "collect" =>
       /\ op = "compile"
       /\ stackState = CompilationSuccessful => pc = "idle" /\ outcome = "true"

-----------------------------------------------------------------------------
(* The steps of the composition as steps of the stack. *)

\* The settings of a request are settings.
LEMMA NewSettingsTyped ==
  ASSUME ParseInv, request \in Requests PROVE NewSettings \in Settings
<1>1. settings \in Settings
  BY DEF ParseInv, Typed
<1>2. RequestedContractNames(request.selection) \in SUBSET (Name \cup {NoSuchContract})
  <2>1. request.selection \subseteq (Name \cup {Star}) \X (Name \cup {Star, NoName})
    BY RequestAssumption
  <2>2. QED
    BY <2>1 DEF RequestedContractNames
<1>3. /\ request.evmVersion \in EVMVersions \cup {Absent}
      /\ request.optimize \in BOOLEAN \cup {Absent}
      /\ request.remapping \in Remappings /\ request.libraries \in Libraries
      /\ request.literal \in BOOLEAN
  BY RequestAssumption
<1>4. QED
  BY <1>1, <1>2, <1>3 DEF NewSettings, Settings

\* A method step belongs to a method that runs and keeps its name and the settings.
LEMMA MethodSteps ==
  ASSUME MethodStep
  PROVE  /\ pc \in {"parse", "load", "pass", "compile"}
         /\ settings' = settings /\ op' = op
  BY DEF MethodStep, ParseSource, ParseSourceGivesUp, ImportKnown, ImportNotFound, ImportRead,
         AnnotateImport, StoreNewSources, EndParse, CheckSource, CheckSourceAborts, NextPass,
         EndAnalyze, CompileContract, CodeGenerationFails, AssemblyFails, CompilesNow,
         EndCompile

\* Every step but two is one of the stack, or none of its business.
LEMMA StackSteps ==
  ASSUME FlowInv,
         \/ \E r \in Requests : Receive(r)
         \/ RejectShape \/ RejectAuxiliaryInput \/ NothingToReport \/ CallCompile \/ StackStep
         \/ \E n \in Name : AddContent(n) \/ HashMismatch(n) \/ AddFromUrls(n)
                            \/ NoUrlWorks(n) \/ InvalidSource(n) \/ AddResponse(n)
  PROVE  [Next]_vars
<1>1. CASE \E r \in Requests : Receive(r)
  BY <1>1 DEF Receive, Next, ClientCall
<1>2. CASE \/ RejectShape \/ RejectAuxiliaryInput \/ NothingToReport
           \/ \E n \in Name : HashMismatch(n) \/ NoUrlWorks(n) \/ InvalidSource(n)
  BY <1>2 DEF RejectShape, RejectAuxiliaryInput, NothingToReport, HashMismatch, NoUrlWorks,
    InvalidSource
<1>3. CASE CallCompile
  BY <1>3 DEF CallCompile, Next, ClientCall
<1>4. CASE StackStep
  BY <1>4 DEF StackStep, Next
<1>5. CASE \E n \in Name : AddContent(n) \/ AddFromUrls(n)
  <2>1. PICK n \in Name : AddContent(n) \/ AddFromUrls(n)
    BY <1>5
  <2>2. stage = "sources" /\ n \in inputs /\ AddSource(n, InputOf(n).text, FALSE)
    BY <2>1 DEF AddContent, AddFromUrls, TakesInput
  <2>3. InputOf(n).text \in Contents /\ FALSE \in IsLibraryArgs
    BY <2>1, <2>2, RequestAssumption DEF FlowInv, AddContent, AddFromUrls, InputOf
  <2>4. ClientCall
    BY <2>2, <2>3 DEF ClientCall
  <2>5. QED
    BY <2>4 DEF Next
<1>6. CASE \E n \in Name : AddResponse(n)
  <2>1. PICK n \in Name : AddResponse(n)
    BY <1>6
  <2>2. n \in Responses /\ AddSMTLib2Response(n)
    BY <2>1, RequestAssumption DEF FlowInv, AddResponse
  <2>3. ClientCall
    BY <2>2 DEF ClientCall
  <2>4. QED
    BY <2>3 DEF Next
<1>7. QED
  BY <1>1, <1>2, <1>3, <1>4, <1>5, <1>6

\* Setting everything a request says is as quiet as setting one thing.
LEMMA ApplySettingsStack ==
  ASSUME StackInv, FlowInv, ApplySettings PROVE StackInv'
<1>1. /\ ChangeSettings(NewSettings) /\ stage = "sources" /\ request \in Requests
  BY DEF ApplySettings, SourcesDone, FlowInv
<1>2. /\ UNCHANGED <<stackState, sourceVars, sourceOrder, contracts, reporter>>
      /\ settings' = NewSettings /\ pc' = "idle" /\ op' = "settings"
      /\ todo' = {} /\ newSources' = [n \in {} |-> NotFound] /\ pass' = 1
  BY <1>1 DEF ChangeSettings, Call, Leave
<1>3. Quiet
  BY <1>1, <1>2, NewSettingsTyped DEF Quiet, StackInv, ParseInv, Typed, PhaseInv
<1>4. ParseInv'
  BY <1>3, QuietPreserves DEF StackInv
<1>5. AnalysisInv'
  BY <1>2, ClosureOfSources DEF StackInv, AnalysisInv, AnalysedIsClean
<1>6. contracts' \in [DOMAIN contracts -> Contract]
  BY <1>2 DEF StackInv, ContractsInv
<1>7. ContractsInv' /\ FreshInv'
  BY <1>2, <1>6, IdleContracts, NotCompiling DEF StackInv
<1>8. QED
  BY <1>4, <1>5, <1>7 DEF StackInv

\* The answer caches source mappings and nothing else.
LEMMA CollectStack ==
  ASSUME StackInv, FlowInv, Collect PROVE StackInv'
<1>1. /\ UNCHANGED <<stackState, sourceVars, sourceOrder, settings, reporter, todo, newSources,
                     pass>>
      /\ pc = "idle" /\ pc' = "idle" /\ stage' = "idle"
  BY DEF Collect, Answer, loopVars
<1>2. contracts' \in [DOMAIN contracts -> Contract]
  <2>1. ASSUME NEW n \in DOMAIN contracts
        PROVE  /\ contracts[n] \in Contract
               /\ [contracts[n] EXCEPT !.sourceMapping = contracts[n].compiler] \in Contract
    BY ContractFields DEF StackInv, ContractsInv
  <2>2. QED
    BY <2>1 DEF Collect
<1>3. Quiet
  BY <1>1 DEF Quiet, StackInv, ParseInv, Typed, PhaseInv
<1>4. ParseInv'
  BY <1>3, QuietPreserves DEF StackInv
<1>5. AnalysisInv'
  BY <1>1, ClosureOfSources DEF StackInv, AnalysisInv, AnalysedIsClean
<1>6. ContractsInv'
  BY <1>1, <1>2, IdleContracts DEF StackInv
<1>7. QED
  BY <1>1, <1>4, <1>5, <1>6 DEF StackInv

\* A request starts on a stack that compile() has not just left.
LEMMA ReceiveFresh ==
  ASSUME NEW r \in Requests, Receive(r) PROVE FreshInv'
<1>1. pc' = "idle" /\ op' = "reset"
  BY DEF Receive, ResetDroppingSources, Call, Leave
<1>2. QED
  BY <1>1, NotCompiling

\* The stack's invariants hold in the composition.
LEMMA StackInvStep == StackInv /\ FlowInv /\ [SCNext]_allVars => StackInv'
<1> SUFFICES ASSUME StackInv, FlowInv, [SCNext]_allVars PROVE StackInv'
  OBVIOUS
<1>1. ASSUME [Next]_vars, stage' # "idle" => FreshInv \/ FreshInv' PROVE StackInv'
  <2>1. ParseInv' /\ AnalysisInv' /\ ContractsInv'
    BY <1>1, ParseInvStep, AnalysisInvStep, ContractsInvStep DEF StackInv
  <2>2. stage' # "idle" => FreshInv'
    BY <1>1, FreshInvStep DEF StackInv
  <2>3. QED
    BY <2>1, <2>2 DEF StackInv
<1>2. CASE \E r \in Requests : Receive(r)
  <2>1. FreshInv'
    BY <1>2, ReceiveFresh
  <2>2. [Next]_vars
    BY <1>2, StackSteps
  <2>3. QED
    BY <1>1, <2>1, <2>2
<1>3. CASE \/ RejectShape \/ RejectAuxiliaryInput \/ NothingToReport \/ CallCompile \/ StackStep
           \/ \E n \in Name : AddContent(n) \/ HashMismatch(n) \/ AddFromUrls(n)
                              \/ NoUrlWorks(n) \/ InvalidSource(n) \/ AddResponse(n)
  <2>1. [Next]_vars
    BY <1>3, StackSteps
  <2>2. stage' # "idle" => stage # "idle"
    BY <1>3
    DEF RejectShape, RejectAuxiliaryInput, NothingToReport, CallCompile, StackStep, AddContent,
        HashMismatch, AddFromUrls, NoUrlWorks, InvalidSource, AddResponse, TakesInput, Answer, scVars
  <2>3. QED
    BY <1>1, <2>1, <2>2 DEF StackInv
<1>4. CASE ApplySettings
  BY <1>4, ApplySettingsStack
<1>5. CASE Collect
  BY <1>5, CollectStack
<1>6. CASE UNCHANGED allVars
  <2>1. UNCHANGED vars /\ stage' = stage
    BY <1>6 DEF allVars, scVars
  <2>2. QED
    BY <1>1, <2>1 DEF StackInv
<1>7. QED
  BY <1>2, <1>3, <1>4, <1>5, <1>6 DEF SCNext

\* The stack has nothing to show before the first request.
LEMMA StackInvInit == SCInit => StackInv
<1>1. Init => AnalysisInv
  BY DEF Init, AnalysisInv, AnalysedIsClean, Empty, ParsingSuccessful, AnalysisSuccessful
<1>2. QED
  BY <1>1, ParseInvInit, ContractsInvInit DEF SCInit, StackInv

\* Calls that are settled before the stack is called.
LEMMA ClientSteps ==
  ASSUME \/ \E r \in Requests : Receive(r)
         \/ RejectShape \/ RejectAuxiliaryInput \/ NothingToReport \/ ApplySettings \/ Collect
         \/ \E n \in Name : AddContent(n) \/ HashMismatch(n) \/ AddFromUrls(n)
                            \/ NoUrlWorks(n) \/ InvalidSource(n) \/ AddResponse(n)
  PROVE  /\ pc' = "idle" \/ pc' = pc
         /\ stackState' = stackState \/ stackState' \in {Empty, SourcesSet}
         /\ stage' \in {"idle", "sources", "compile"}
         /\ stage' = "compile" => stage = "sources" /\ request' = request
         /\ stage' = "sources" =>
              \/ /\ stackState' \in {Empty, SourcesSet} /\ request' \in Requests
                 /\ inputs' = DOMAIN request'.sources
              \/ /\ stage = "sources" /\ request' = request /\ inputs' \subseteq inputs
                 /\ stackState' = stackState \/ stackState' = SourcesSet
<1>1. CASE \E r \in Requests : Receive(r)
  BY <1>1 DEF Receive, ResetDroppingSources, Leave
<1>2. CASE \E n \in Name : AddContent(n) \/ AddFromUrls(n)
  BY <1>2 DEF AddContent, AddFromUrls, TakesInput, AddSource, Leave
<1>3. CASE \E n \in Name : HashMismatch(n) \/ NoUrlWorks(n)
  BY <1>3 DEF HashMismatch, NoUrlWorks, TakesInput, vars
<1>4. CASE \E n \in Name : AddResponse(n)
  BY <1>4 DEF AddResponse, AddSMTLib2Response, Leave, scVars
<1>5. CASE \/ RejectShape \/ RejectAuxiliaryInput \/ NothingToReport \/ Collect
           \/ \E n \in Name : InvalidSource(n)
  BY <1>5 DEF RejectShape, RejectAuxiliaryInput, NothingToReport, Collect, InvalidSource, Answer,
    vars
<1>6. CASE ApplySettings
  BY <1>6 DEF ApplySettings, SourcesDone, ChangeSettings, Leave, Answer
<1>7. QED
  BY <1>1, <1>2, <1>3, <1>4, <1>5, <1>6

\* While compile() runs, only its return makes the stack compiled.
LEMMA CompileReturns ==
  ASSUME ParseInv, MethodStep, op = "compile", stackState # CompilationSuccessful,
         stackState' = CompilationSuccessful
  PROVE  EndCompile /\ pc' = "idle" /\ outcome' = "true"
<1>1. stackState' = stackState \/ stackState' \in {ParsingSuccessful, AnalysisSuccessful}
      \/ EndCompile
  BY DEF MethodStep, ParseSource, ParseSourceGivesUp, ImportKnown, ImportNotFound,
         ImportRead, AnnotateImport, StoreNewSources, EndParse, CheckSource,
         CheckSourceAborts, NextPass, EndAnalyze, CompileContract, CodeGenerationFails,
         AssemblyFails, CompilesNow
<1>2. EndCompile
  BY <1>1 DEF ParsingSuccessful, AnalysisSuccessful, CompilationSuccessful
<1>3. QED
  BY <1>2 DEF EndCompile, Leave

\* The stages follow one another, the stack within them.
LEMMA FlowInvStep == ParseInv /\ FlowInv /\ [SCNext]_allVars => FlowInv'
<1> SUFFICES ASSUME ParseInv, FlowInv, [SCNext]_allVars PROVE FlowInv'
  OBVIOUS
<1>1. CASE \/ \E r \in Requests : Receive(r)
           \/ RejectShape \/ RejectAuxiliaryInput \/ NothingToReport \/ ApplySettings \/ Collect
           \/ \E n \in Name : AddContent(n) \/ HashMismatch(n) \/ AddFromUrls(n)
                              \/ NoUrlWorks(n) \/ InvalidSource(n) \/ AddResponse(n)
  <2>1. pc' = "idle"
    BY <1>1, ClientSteps
    DEF FlowInv, Receive, RejectShape, RejectAuxiliaryInput, NothingToReport, ApplySettings,
        SourcesDone, Collect, AddContent, HashMismatch, AddFromUrls, NoUrlWorks, InvalidSource, AddResponse,
        TakesInput
  <2>2. QED
    BY <1>1, <2>1, ClientSteps DEF FlowInv
<1>2. CASE CallCompile
  <2>1. /\ stage' = "collect" /\ op' = "compile" /\ stackState' = stackState
        /\ stage = "compile" /\ request' = request
    BY <1>2 DEF CallCompile, ParseRefused, StartParse, CallsParse, CallReporting, Call
  <2>2. stackState' # CompilationSuccessful
    BY <2>1 DEF FlowInv, Empty, SourcesSet, CompilationSuccessful
  <2>3. QED
    BY <2>1, <2>2 DEF FlowInv
<1>3. CASE StackStep
  <2>1. MethodStep /\ UNCHANGED <<stage, request, inputs>>
    BY <1>3 DEF StackStep, scVars
  <2>2. stage = "collect" /\ pc # "idle" /\ op' = op
    BY <2>1, MethodSteps DEF FlowInv
  <2>3. stackState # CompilationSuccessful
    BY <2>2 DEF FlowInv
  <2>4. stackState' = CompilationSuccessful => pc' = "idle" /\ outcome' = "true"
    BY <2>1, <2>2, <2>3, CompileReturns DEF FlowInv
  <2>5. QED
    BY <2>1, <2>2, <2>4 DEF FlowInv
<1>4. CASE UNCHANGED allVars
  BY <1>4 DEF allVars, vars, scVars, FlowInv
<1>5. QED
  BY <1>1, <1>2, <1>3, <1>4 DEF SCNext

\* Both hold from the first state on.
LEMMA CompositionHolds == SCSpec => [](StackInv /\ FlowInv)
<1>1. SCInit => FlowInv
  BY DEF SCInit, Init, FlowInv
<1>2. StackInv => ParseInv
  BY DEF StackInv
<1>3. QED
  BY <1>1, <1>2, StackInvInit, StackInvStep, FlowInvStep, PTL DEF SCSpec

-----------------------------------------------------------------------------
(* RequestSettingsEffective. *)

\* What the request asks for, with the defaults filled in.
RequestedSettings ==
  [optimize |-> IF request.optimize = Absent THEN FALSE ELSE request.optimize,
   evmVersion |-> IF request.evmVersion = Absent THEN DefaultEVMVersion
                  ELSE request.evmVersion,
   libraries |-> request.libraries, literal |-> request.literal,
   requested |-> RequestedContractNames(request.selection),
   remapping |-> request.remapping]

\* The settings that a request may leave out are at their defaults until it is read.
SettingsInv ==
  /\ stage = "sources" =>
       settings.optimize = FALSE /\ settings.evmVersion = DefaultEVMVersion
  /\ stage \in {"compile", "collect"} => settings = RequestedSettings

\* Reading the settings of a request leaves none of an earlier one.
LEMMA ApplySettingsReads ==
  ASSUME ParseInv, FlowInv, SettingsInv, ApplySettings, request.malformed = "none"
  PROVE  settings' = RequestedSettings
<1>1. stage = "sources" /\ settings' = NewSettings
  BY DEF ApplySettings, SourcesDone, ChangeSettings
<1>2. \A k \in 1..8 : Reaches(k)
  <2>1. \A j \in 1..8 : SettingNames[j] # "none"
    <3> SUFFICES ASSUME NEW j \in 1..8 PROVE SettingNames[j] # "none"
      OBVIOUS
    <3>1. j \in {1, 2, 3, 4, 5, 6, 7, 8}
      OBVIOUS
    <3>2. QED
      BY <3>1 DEF SettingNames
  <2>2. QED
    BY <2>1 DEF Reaches
<1>3. settings \in Settings
  BY DEF ParseInv, Typed
<1>4. settings.optimize = FALSE /\ settings.evmVersion = DefaultEVMVersion
  BY <1>1 DEF SettingsInv
<1>5. Reaches(2) /\ Reaches(3) /\ Reaches(5) /\ Reaches(6) /\ Reaches(7) /\ Reaches(8)
  BY <1>2
<1>6. NewSettings =
        [settings EXCEPT
           !.evmVersion = IF request.evmVersion # Absent THEN request.evmVersion ELSE @,
           !.remapping = request.remapping,
           !.optimize = IF request.optimize # Absent THEN request.optimize ELSE @,
           !.libraries = request.libraries,
           !.literal = request.literal,
           !.requested = RequestedContractNames(request.selection)]
  BY <1>5 DEF NewSettings
<1>7. NewSettings = RequestedSettings
  BY <1>3, <1>4, <1>6 DEF RequestedSettings, Settings
<1>8. QED
  BY <1>1, <1>7

\* Every step keeps it.
LEMMA SettingsInvStep ==
  ParseInv /\ FlowInv /\ SettingsInv /\ [SCNext]_allVars => SettingsInv'
<1> SUFFICES ASSUME ParseInv, FlowInv, SettingsInv, [SCNext]_allVars PROVE SettingsInv'
  OBVIOUS
<1>1. ASSUME \/ ResetDroppingSources
             \/ \E n \in Name : AddSource(n, InputOf(n).text, FALSE)
      PROVE  settings'.optimize = FALSE /\ settings'.evmVersion = DefaultEVMVersion
  <2>1. settings \in Settings
    BY DEF ParseInv, Typed
  <2>2. QED
    BY <1>1, <2>1 DEF ResetDroppingSources, AddSource, ResetAllButSources, Settings
<1>2. CASE \E r \in Requests : Receive(r)
  BY <1>1, <1>2 DEF Receive, SettingsInv
<1>3. CASE \E n \in Name : AddContent(n) \/ AddFromUrls(n)
  BY <1>1, <1>3 DEF AddContent, AddFromUrls, TakesInput, SettingsInv
<1>4. CASE \E n \in Name : HashMismatch(n) \/ NoUrlWorks(n)
  BY <1>4 DEF HashMismatch, NoUrlWorks, TakesInput, vars, SettingsInv
<1>5. CASE \E n \in Name : AddResponse(n)
  BY <1>5 DEF AddResponse, AddSMTLib2Response, scVars, SettingsInv
<1>6. CASE \/ RejectShape \/ RejectAuxiliaryInput \/ NothingToReport \/ Collect
           \/ \E n \in Name : InvalidSource(n)
  BY <1>6 DEF RejectShape, RejectAuxiliaryInput, NothingToReport, Collect, InvalidSource, Answer,
    SettingsInv
<1>7. CASE ApplySettings
  <2>1. CASE request.malformed = "none"
    <3>1. settings' = RequestedSettings /\ UNCHANGED request /\ stage' = "compile"
      BY <1>7, <2>1, ApplySettingsReads DEF ApplySettings
    <3>2. QED
      BY <3>1 DEF SettingsInv, RequestedSettings
  <2>2. CASE request.malformed # "none"
    BY <1>7, <2>2 DEF ApplySettings, Answer, SettingsInv
  <2>3. QED
    BY <2>1, <2>2
<1>8. CASE CallCompile
  BY <1>8 DEF CallCompile, ParseRefused, StartParse, SettingsInv, RequestedSettings
<1>9. CASE StackStep
  <2>1. settings' = settings /\ UNCHANGED <<stage, request>>
    BY <1>9, MethodSteps DEF StackStep, scVars
  <2>2. QED
    BY <2>1 DEF SettingsInv, RequestedSettings
<1>10. CASE UNCHANGED allVars
  BY <1>10 DEF allVars, vars, scVars, SettingsInv, RequestedSettings
<1>11. QED
  BY <1>2, <1>3, <1>4, <1>5, <1>6, <1>7, <1>8, <1>9, <1>10 DEF SCNext

\* However many requests came before and wherever they failed, compile() runs with what
\* this request says and with the defaults for the rest.
THEOREM SettingsAreTheRequests == SCSpec => []RequestSettingsEffective
<1>1. SCInit => SettingsInv
  BY DEF SCInit, SettingsInv
<1>2. SettingsInv => RequestSettingsEffective
  BY DEF SettingsInv, RequestedSettings, RequestSettingsEffective
<1>3. StackInv => ParseInv
  BY DEF StackInv
<1>4. QED
  BY <1>1, <1>2, <1>3, CompositionHolds, SettingsInvStep, PTL DEF SCSpec

-----------------------------------------------------------------------------
(* RequestedByFileCompiled. *)

\* A deployable contract that was requested by its file was compiled.
LEMMA RequestedIsCompiled ==
  ASSUME StackInv, FlowInv, SettingsInv, stage = "collect", CompilationSuccess,
         \A p \in request.selection : p[1] # Star,
         NEW n \in OutputContracts, Deployable(n)
  PROVE  contracts[n].object # NoBuild
<1>1. /\ pc = "idle" /\ op = "compile" /\ outcome = "true" /\ request \in Requests
      /\ stackState >= AnalysisSuccessful /\ stackState >= ParsingSuccessful
  BY DEF FlowInv, CompilationSuccess, CompilationSuccessful, AnalysisSuccessful,
         ParsingSuccessful
<1>2. n \in DOMAIN contracts /\ IsArtifactRequested(n)
  BY DEF OutputContracts
<1>3. n \in sourceOrder /\ n \in Name
  BY <1>1, <1>2 DEF StackInv, ContractsInv, OrderedContracts, ParseInv, Typed
<1>4. IsRequestedContract(n)
  <2>1. settings.requested = RequestedContractNames(request.selection)
    BY DEF SettingsInv, RequestedSettings
  <2>2. PICK p \in request.selection : p[1] = n /\ p[2] \in {n, Star}
    BY <1>2 DEF IsArtifactRequested
  <2>3. CASE \E q \in request.selection : q[2] \in {Star, NoName}
    BY <2>1, <2>3 DEF RequestedContractNames, IsRequestedContract
  <2>4. CASE ~\E q \in request.selection : q[2] \in {Star, NoName}
    <3>1. p[2] = n
      BY <2>2, <2>4
    <3>2. n \in RequestedContractNames(request.selection)
      BY <2>2, <2>4, <3>1 DEF RequestedContractNames
    <3>3. QED
      BY <2>1, <3>2 DEF IsRequestedContract
  <2>5. QED
    BY <2>3, <2>4
<1>5. n \in ToCompile
  BY <1>3, <1>4, ClosureClosed DEF ToCompile
<1>6. contracts[n].object = [build |-> CurrentBuild, linked |-> settings.libraries]
  BY <1>1, <1>5 DEF StackInv, FreshInv, CompileReturnsFreshObjects
<1>7. [build |-> CurrentBuild, linked |-> settings.libraries] \in Object
  BY ObjectsTyped DEF StackInv, ParseInv, Typed, Settings, Object
<1>8. QED
  BY <1>6, <1>7, StackAssumption

\* An answer with an exception or a malformed input has no contracts.
LEMMA FatalHasNothing ==
  ASSUME NEW type
  PROVE  /\ DOMAIN FatalOutput(type).contracts = {}
         /\ FatalOutput(type).found.errors = 1
  BY DEF FatalOutput, NoOutput, NothingFound

\* Which steps answer, and what.
LEMMA Answers ==
  ASSUME [SCNext]_allVars, FlowInv, stage' = "idle"
  PROVE  \/ stage = "idle" /\ UNCHANGED allVars
         \/ \E type : output' = FatalOutput(type)
         \/ Collect
<1>1. CASE \/ \E r \in Requests : Receive(r)
           \/ \E n \in Name : AddContent(n) \/ HashMismatch(n) \/ AddFromUrls(n)
                              \/ NoUrlWorks(n) \/ AddResponse(n)
           \/ CallCompile \/ StackStep
  <2>1. CASE StackStep
    BY <2>1, MethodSteps DEF StackStep, FlowInv, scVars
  <2>2. QED
    BY <1>1, <2>1
    DEF Receive, AddContent, HashMismatch, AddFromUrls, NoUrlWorks, AddResponse, TakesInput,
        CallCompile, scVars
<1>2. CASE \/ RejectShape \/ RejectAuxiliaryInput \/ NothingToReport
           \/ \E n \in Name : InvalidSource(n)
  BY <1>2 DEF RejectShape, RejectAuxiliaryInput, NothingToReport, InvalidSource, Answer
<1>3. CASE ApplySettings
  BY <1>3 DEF ApplySettings, Answer
<1>4. CASE UNCHANGED allVars
  BY <1>4 DEF allVars, scVars
<1>5. QED
  BY <1>1, <1>2, <1>3, <1>4 DEF SCNext

\* A deployable contract whose bytecode is requested by its file has bytecode in the
\* answer, for every outputSelection that names its files.
THEOREM RequestedHasBytecode == SCSpec => []RequestedByFileCompiled
<1>1. SCInit => SettingsInv /\ RequestedByFileCompiled
  BY DEF SCInit, SettingsInv, RequestedByFileCompiled, NoOutput
<1>2. StackInv /\ FlowInv /\ SettingsInv /\ RequestedByFileCompiled /\ [SCNext]_allVars
        => RequestedByFileCompiled'
  <2> SUFFICES ASSUME StackInv, FlowInv, SettingsInv, RequestedByFileCompiled,
                      [SCNext]_allVars, stage' = "idle"
               PROVE  RequestedByFileCompiled'
    BY DEF RequestedByFileCompiled
  <2>1. CASE stage = "idle" /\ UNCHANGED allVars
    BY <2>1
    DEF allVars, vars, sourceVars, scVars, RequestedByFileCompiled, Deployable, HasContract
  <2>2. CASE \E type : output' = FatalOutput(type)
    BY <2>2, FatalHasNothing DEF RequestedByFileCompiled
  <2>3. CASE Collect
    <3>1. /\ stage = "collect" /\ request' = request /\ UNCHANGED sourceVars
          /\ output'.contracts = [n \in OutputContracts |-> contracts[n].object]
      BY <2>3 DEF Collect, Answer
    <3>2. \A n : Deployable(n)' <=> Deployable(n)
      BY <3>1, SourceFacts
    <3>3. ASSUME NEW n \in OutputContracts, Deployable(n),
                 \A p \in request.selection : p[1] # Star
          PROVE  contracts[n].object # NoBuild
      BY <3>1, <3>3, RequestedIsCompiled DEF OutputContracts
    <3>4. QED
      BY <3>1, <3>2, <3>3 DEF RequestedByFileCompiled
  <2>4. QED
    BY <2>1, <2>2, <2>3, Answers
<1>3. StackInv => ParseInv
  BY DEF StackInv
<1>4. QED
  BY <1>1, <1>2, <1>3, CompositionHolds, SettingsInvStep, PTL DEF SCSpec

-----------------------------------------------------------------------------
(* NoForeignSources. *)

\* The sources of the stack that the request supplies.
Roots == sources \cap DOMAIN request.sources

\* Before compile() the stack has only sources of the request and no trees; then every
\* source it gains is imported by one it has.
ReachInv ==
  /\ stage \in {"sources", "compile"} =>
       /\ sources \subseteq DOMAIN request.sources
       /\ \A n \in Name : ast[n] = NoAST
  /\ stage = "collect" =>
       /\ sources \subseteq Closure(Roots, ImportedBy)
       /\ pc \in {"parse", "load"} => \A n \in todo \cup (Name \ sources) : ast[n] = NoAST
       /\ pc = "load" => DOMAIN newSources \subseteq ImportedBy[current]

\* A set within reach stays there as more is imported and imported sources join it.
LEMMA ReachGrows ==
  ASSUME NEW S, NEW T \in SUBSET Name, NEW R, NEW U, NEW f, NEW g,
         S \subseteq Closure(R, f), R \subseteq U, \A n \in Name : f[n] \subseteq g[n],
         \A n \in T : n \in S \/ \E m \in S : n \in g[m]
  PROVE  T \subseteq Closure(U, g)
<1>1. Closure(R, f) \subseteq Closure(U, g)
  BY DEF Closure
<1>2. ASSUME NEW n \in T PROVE n \in Closure(U, g)
  BY <1>1, ClosureClosed
<1>3. QED
  BY <1>2

\* The two facts of the reach that a step of compile() has to keep.
LEMMA ReachKept ==
  ASSUME ReachInv, stage = "collect", stage' = "collect", request' = request,
         sources \subseteq sources', sources' \subseteq Name,
         \A n \in Name : ImportedBy[n] \subseteq ImportedBy'[n],
         \A n \in sources' \ sources : \E m \in sources : n \in ImportedBy'[m]
  PROVE  sources' \subseteq Closure(Roots, ImportedBy)'
<1>1. Roots \subseteq Roots'
  BY DEF Roots
<1>2. sources \subseteq Closure(Roots, ImportedBy)
  BY DEF ReachInv
<1>3. sources' \subseteq Closure(Roots', ImportedBy')
  BY <1>1, <1>2, ReachGrows
<1>4. QED
  BY <1>3 DEF Closure

\* A source is parsed: its tree imports nothing yet, and it had none before.
LEMMA ParseReach ==
  ASSUME StackInv, ReachInv, stage = "collect", stage' = "collect", request' = request,
         NEW n \in Name, ParseSource(n) \/ ParseSourceGivesUp(n)
  PROVE  ReachInv'
<1>1. /\ pc = "parse" /\ n \in todo /\ sources' = sources /\ n \in sources
      /\ \/ pc' = "idle"
         \/ pc' \in {"parse", "load"} /\ todo' = todo \ {n}
  BY DEF ParseSource, ParseSourceGivesUp, Leave, StackInv, ParseInv, ParsingInv
<1>2. ast \in [Name -> AST \cup {NoAST}] /\ sources \subseteq Name /\ ast[n] = NoAST
  BY <1>1 DEF StackInv, ParseInv, Typed, ReachInv
<1>3. \A m \in Name \ {n} : ast'[m] = ast[m]
  BY <1>2 DEF ParseSource, ParseSourceGivesUp
<1>4. \A m \in Name : ImportedBy[m] \subseteq ImportedBy'[m]
  BY <1>1, <1>2, <1>3 DEF ImportedBy
<1>5. sources' \subseteq Closure(Roots, ImportedBy)'
  BY <1>1, <1>2, <1>4, ReachKept
<1>6. pc' \in {"parse", "load"} => \A m \in todo' \cup (Name \ sources') : ast'[m] = NoAST
  <2>1. todo \subseteq Name
    BY DEF StackInv, ParseInv, Typed
  <2>2. QED
    BY <1>1, <1>3, <2>1 DEF ReachInv
<1>7. pc' = "load" => DOMAIN newSources' = {}
  BY <1>1 DEF ParseSource, ParseSourceGivesUp, Leave
<1>8. QED
  BY <1>5, <1>6, <1>7 DEF ReachInv

\* An import is annotated, and its source looked up or read.
LEMMA ImportReach ==
  ASSUME StackInv, ReachInv, stage = "collect", stage' = "collect", request' = request,
         NEW i \in Name,
         ImportKnown(i) \/ ImportNotFound(i) \/ \E answer \in ReadResults : ImportRead(i, answer)
  PROVE  ReachInv'
<1>1. ParseInv /\ AnnotateImport(i)
  BY DEF StackInv, ImportKnown, ImportNotFound, ImportRead
<1>2. /\ pc = "load" /\ i \in pending /\ sources' = sources
      /\ \A m \in Name \ {current} : ast'[m] = ast[m]
      /\ ast'[current] # NoAST
      /\ DOMAIN ast'[current].imports = DOMAIN ast[current].imports \cup {i}
      /\ ast'[current].imports[i] = settings.remapping[i]
      /\ \A j \in DOMAIN ast[current].imports \ {i} :
           ast'[current].imports[j] = ast[current].imports[j]
  BY <1>1, AnnotateFacts
<1>3. /\ current \in sources /\ current \notin todo /\ sources \subseteq Name
      /\ i \notin DOMAIN ast[current].imports
  BY <1>1, <1>2 DEF ParseInv, Typed, LoadingInv
<1>4. /\ \A m \in Name : ImportedBy[m] \subseteq ImportedBy'[m]
      /\ settings.remapping[i] \in ImportedBy'[current]
  <2>1. \A m \in Name \ {current} : ImportedBy'[m] = ImportedBy[m]
    BY <1>2 DEF ImportedBy
  <2>2. ImportedBy[current] \subseteq ImportedBy'[current]
    BY <1>2, <1>3 DEF ImportedBy
  <2>3. settings.remapping[i] \in ImportedBy'[current]
    BY <1>2, <1>3 DEF ImportedBy
  <2>4. QED
    BY <2>1, <2>2, <2>3
<1>5. sources' \subseteq Closure(Roots, ImportedBy)'
  BY <1>2, <1>3, <1>4, ReachKept
<1>6. \/ pc' = "idle"
      \/ /\ pc' = "load" /\ todo' = todo /\ current' = current
         /\ DOMAIN newSources' \subseteq DOMAIN newSources \cup {settings.remapping[i]}
  BY <1>2 DEF ImportKnown, ImportNotFound, ImportRead, Leave
<1>7. \A m \in todo \cup (Name \ sources) : ast'[m] = NoAST
  <2>1. todo \subseteq Name
    BY <1>1 DEF ParseInv, Typed
  <2>2. QED
    BY <1>2, <1>3, <2>1 DEF ReachInv
<1>8. DOMAIN newSources \subseteq ImportedBy'[current]
  BY <1>2, <1>3, <1>4 DEF ReachInv
<1>9. QED
  BY <1>2, <1>4, <1>5, <1>6, <1>7, <1>8 DEF ReachInv

\* The sources that were read join the stack.
LEMMA StoreReach ==
  ASSUME StackInv, ReachInv, stage = "collect", stage' = "collect", request' = request,
         StoreNewSources
  PROVE  ReachInv'
<1>1. /\ pc = "load" /\ pc' = "parse" /\ sources' = sources \cup DOMAIN newSources
      /\ ast' = ast /\ todo' = todo \cup DOMAIN newSources
  BY DEF StoreNewSources
<1>2. /\ DOMAIN newSources \subseteq Name /\ sources \subseteq Name /\ current \in sources
      /\ DOMAIN newSources \cap sources = {}
  BY <1>1 DEF StackInv, ParseInv, Typed, LoadingInv
<1>3. /\ DOMAIN newSources \subseteq ImportedBy[current]
      /\ \A n \in todo \cup (Name \ sources) : ast[n] = NoAST
  BY <1>1 DEF ReachInv
<1>4. \A n \in Name : ImportedBy[n] \subseteq ImportedBy'[n]
  BY <1>1, <1>2 DEF ImportedBy
<1>5. sources' \subseteq Closure(Roots, ImportedBy)'
  <2>1. \A n \in sources' \ sources : \E m \in sources : n \in ImportedBy'[m]
    BY <1>1, <1>2, <1>3, <1>4
  <2>2. sources \subseteq sources' /\ sources' \subseteq Name
    BY <1>1, <1>2
  <2>3. QED
    BY <1>4, <2>1, <2>2, ReachKept
<1>6. \A n \in todo' \cup (Name \ sources') : ast'[n] = NoAST
  BY <1>1, <1>2, <1>3
<1>7. QED
  BY <1>1, <1>5, <1>6 DEF ReachInv

\* The later phases do not touch the sources.
LEMMA LaterReach ==
  ASSUME ParseInv, ReachInv, stage = "collect", stage' = "collect", request' = request,
         UNCHANGED sourceVars, pc' \notin {"parse", "load"}
  PROVE  ReachInv'
<1>1. sources' = sources /\ sources \subseteq Name
  BY DEF sourceVars, ParseInv, Typed
<1>2. ImportedBy' = ImportedBy
  BY DEF sourceVars, ImportedBy
<1>3. sources' \subseteq Closure(Roots, ImportedBy)'
  BY <1>1, <1>2, ReachKept
<1>4. QED
  BY <1>3 DEF ReachInv

\* Every step keeps it.
LEMMA ReachInvStep == StackInv /\ FlowInv /\ ReachInv /\ [SCNext]_allVars => ReachInv'
<1> SUFFICES ASSUME StackInv, FlowInv, ReachInv, [SCNext]_allVars PROVE ReachInv'
  OBVIOUS
<1>1. CASE \E r \in Requests : Receive(r)
  BY <1>1 DEF Receive, ResetDroppingSources, ReachInv
<1>2. CASE \E n \in Name : AddContent(n) \/ AddFromUrls(n)
  BY <1>2 DEF AddContent, AddFromUrls, TakesInput, AddSource, FlowInv, ReachInv
<1>3. CASE \E n \in Name : HashMismatch(n) \/ NoUrlWorks(n)
  BY <1>3 DEF HashMismatch, NoUrlWorks, TakesInput, vars, sourceVars, ReachInv
<1>4. CASE \E n \in Name : AddResponse(n)
  BY <1>4 DEF AddResponse, AddSMTLib2Response, scVars, sourceVars, ReachInv
<1>5. CASE \/ RejectShape \/ RejectAuxiliaryInput \/ NothingToReport \/ Collect
           \/ \E n \in Name : InvalidSource(n)
  BY <1>5 DEF RejectShape, RejectAuxiliaryInput, NothingToReport, Collect, InvalidSource, Answer,
    ReachInv
<1>6. CASE ApplySettings
  BY <1>6 DEF ApplySettings, SourcesDone, ChangeSettings, Answer, sourceVars, ReachInv
<1>7. CASE CallCompile
  <2>1. /\ stage = "compile" /\ stage' = "collect" /\ request' = request
        /\ UNCHANGED sourceVars
        /\ \/ pc' = "idle"
           \/ pc' = "parse" /\ todo' = sources
    BY <1>7 DEF CallCompile, ParseRefused, StartParse, Leave
  <2>2. /\ sources \subseteq Name /\ sources \subseteq DOMAIN request.sources
        /\ \A n \in Name : ast[n] = NoAST
    BY <2>1 DEF ReachInv, StackInv, ParseInv, Typed
  <2>3. sources' \subseteq Closure(Roots, ImportedBy)'
    <3>1. Roots' = sources'
      BY <2>1, <2>2 DEF Roots, sourceVars
    <3>2. sources' \subseteq Name
      BY <2>1, <2>2 DEF sourceVars
    <3>3. QED
      BY <3>1, <3>2 DEF Closure
  <2>4. QED
    BY <2>1, <2>2, <2>3 DEF ReachInv, sourceVars
<1>8. CASE StackStep
  <2>1. /\ MethodStep /\ request' = request /\ stage' = stage /\ stage = "collect"
    BY <1>8, MethodSteps DEF StackStep, scVars, FlowInv
  <2>2. CASE \E n \in Name : ParseSource(n) \/ ParseSourceGivesUp(n)
    BY <2>1, <2>2, ParseReach
  <2>3. CASE \/ \E i \in Name : ImportKnown(i) \/ ImportNotFound(i)
             \/ \E i \in Name, answer \in ReadResults : ImportRead(i, answer)
    BY <2>1, <2>3, ImportReach
  <2>4. CASE StoreNewSources
    BY <2>1, <2>4, StoreReach
  <2>5. CASE \/ EndParse \/ NextPass \/ EndAnalyze \/ EndCompile
             \/ \E n \in Name : CheckSource(n) \/ CheckSourceAborts(n)
             \/ \E n \in Name : CompileContract(n) \/ CodeGenerationFails(n) \/ AssemblyFails(n)
    <3>1. UNCHANGED sourceVars /\ pc' \notin {"parse", "load"}
      BY <2>5
      DEF EndParse, BeginAnalyze, Leave, NextPass, EndAnalyze, BeginCompile, EndCompile,
          CheckSource, CheckSourceAborts, CompileContract, CodeGenerationFails, AssemblyFails,
          CompilesNow
    <3>2. QED
      BY <2>1, <3>1, LaterReach DEF StackInv
  <2>6. QED
    BY <2>1, <2>2, <2>3, <2>4, <2>5 DEF MethodStep
<1>9. CASE UNCHANGED allVars
  <2>1. UNCHANGED <<stage, request, sources, ast, todo, pc, newSources, current>>
    BY <1>9 DEF allVars, vars, sourceVars, loopVars, scVars
  <2>2. ImportedBy' = ImportedBy /\ Roots' = Roots
    BY <2>1 DEF ImportedBy, Roots
  <2>3. QED
    BY <2>1, <2>2 DEF ReachInv, Closure
<1>10. QED
  BY <1>1, <1>2, <1>3, <1>4, <1>5, <1>6, <1>7, <1>8, <1>9 DEF SCNext

\* The sources of an analysed stack are those of this request and what they import: of
\* an earlier request nothing is left.
THEOREM SourcesAreTheRequests == SCSpec => []NoForeignSources
<1>1. SCInit => ReachInv
  BY DEF SCInit, ReachInv
<1>2. StackInv /\ ReachInv => NoForeignSources
  <2> SUFFICES ASSUME StackInv, ReachInv, stage = "collect", AnalysisSuccess
               PROVE  sources = Closure(Roots, ImportedBy)
    BY DEF NoForeignSources, Roots
  <2>1. stackState >= ParsingSuccessful
    BY DEF AnalysisSuccess, StackInv, ParseInv, Typed, Empty, ParsingSuccessful,
           AnalysisSuccessful
  <2>2. sources \in SUBSET Name /\ \A m \in sources : ImportedBy[m] \subseteq sources
    BY <2>1 DEF StackInv, ParseInv, Typed, ParsedStackIsClosed, Loaded, ImportedBy
  <2>3. Roots \subseteq sources
    BY DEF Roots
  <2>4. Closure(Roots, ImportedBy) \subseteq sources
    BY <2>2, <2>3, ClosureClosed
  <2>5. QED
    BY <2>4 DEF ReachInv
<1>3. QED
  BY <1>1, <1>2, CompositionHolds, ReachInvStep, PTL DEF SCSpec

-----------------------------------------------------------------------------
(* FailureReported. *)

\* An exception, an error in the list, or the notice that errors were dropped.
Reported == Threw \/ ~ContainsOnlyWarnings(reporter) \/ reporter.list.aborting > 0

\* compile() fails for a reason that the answer will find: it threw, or its list says so,
\* or it had no sources to begin with, and then only errors of the request's own list
\* can explain that.
FailInv ==
  /\ found \in [errors : Nat, warnings : Nat]
  /\ stage \in {"sources", "compile"} => reporter.list = NoDiagnostics
  /\ stage # "idle" /\ stackState = Empty =>
       reporter.list = NoDiagnostics /\ found.warnings = 0
  /\ stage = "collect" /\ pc = "pass" /\ ~noErrors => ~ContainsOnlyWarnings(reporter)
  /\ stage = "collect" /\ pc = "idle" => CompilationSuccess \/ Reported \/ stackState = Empty
  /\ FailureReported

\* error() leaves an error or the notice.
LEMMA ErrorLeavesTrace ==
  ASSUME NEW r \in Reporter
  PROVE  /\ ~ContainsOnlyWarnings(Error(r)) \/ Error(r).list.aborting > 0
         /\ ~ErrorThrows(r) => ~ContainsOnlyWarnings(Error(r))
  BY DEF Reporter, ErrorList, Error, ContainsOnlyWarnings

\* noErrors becomes FALSE only with an error in the list.
LEMMA FailsIsListed ==
  ASSUME ParseInv, NEW n \in Name, ~Aborts(n), Fails(n)
  PROVE  ~ContainsOnlyWarnings(ReportAfter(n))
<1>1. Finds(n) => ReportAfter(n) = Error(reporter) /\ ~ErrorThrows(reporter)
  BY DEF Aborts, ReportAfter
<1>2. Finds(n) => ~ContainsOnlyWarnings(ReportAfter(n))
  BY <1>1, ErrorLeavesTrace DEF ParseInv, Typed
<1>3. QED
  BY <1>2 DEF Fails

\* A step of compile() that ends it, or goes on with the analysis.
LEMMA CompileFails ==
  ASSUME ParseInv, MethodStep, op = "compile",
         pc = "pass" /\ ~noErrors => ~ContainsOnlyWarnings(reporter)
  PROVE  /\ pc' = "pass" /\ ~noErrors' => ~ContainsOnlyWarnings(reporter')
         /\ pc' = "idle" => stackState' = CompilationSuccessful \/ Reported'
<1>1. reporter \in Reporter
  BY DEF ParseInv, Typed
<1>2. CASE \/ \E n \in Name : ParseSource(n) \/ ParseSourceGivesUp(n)
           \/ \E i \in Name : ImportKnown(i) \/ ImportNotFound(i)
           \/ \E i \in Name, answer \in ReadResults : ImportRead(i, answer)
           \/ StoreNewSources
           \/ \E n \in Name : CompileContract(n) \/ CodeGenerationFails(n) \/ AssemblyFails(n)
  <2>1. /\ pc' # "pass"
        /\ pc' = "idle" => outcome' \in {"FatalError", "InternalCompilerError", "CompilerError"}
    BY <1>2
    DEF ParseSource, ParseSourceGivesUp, ImportKnown, ImportNotFound, ImportRead,
        AnnotateImport, StoreNewSources, CompileContract, CodeGenerationFails, AssemblyFails,
        CompilesNow, Leave
  <2>2. QED
    BY <2>1 DEF Reported, Threw
<1>3. CASE EndParse
  <2>1. CASE pc' = "idle" /\ ~ContainsOnlyWarnings(reporter) /\ reporter' = reporter
    BY <2>1 DEF Reported, ContainsOnlyWarnings
  <2>2. CASE pc' = "pass" /\ noErrors' = TRUE
    BY <2>2
  <2>3. QED
    BY <1>3, <2>1, <2>2 DEF EndParse, BeginAnalyze, Leave
<1>4. CASE \E n \in Name : CheckSource(n)
  <2>1. PICK n \in Name : CheckSource(n)
    BY <1>4
  <2>2. /\ pc = "pass" /\ pc' = "pass" /\ ~Aborts(n) /\ reporter' = ReportAfter(n)
        /\ noErrors' = IF Fails(n) THEN FALSE ELSE noErrors
    BY <2>1 DEF CheckSource
  <2>3. Fails(n) => ~ContainsOnlyWarnings(reporter')
    BY <2>2, FailsIsListed
  <2>4. ~ContainsOnlyWarnings(reporter) => ~ContainsOnlyWarnings(reporter')
    BY <1>1, <2>2, ReporterSteps DEF ReportAfter
  <2>5. QED
    BY <2>2, <2>3, <2>4
<1>5. CASE \E n \in Name : CheckSourceAborts(n)
  <2>1. pc' = "idle" /\ reporter' = Error(reporter)
    BY <1>5 DEF CheckSourceAborts, Leave
  <2>2. QED
    BY <1>1, <2>1, ErrorLeavesTrace DEF Reported, ContainsOnlyWarnings
<1>6. CASE NextPass
  BY <1>6 DEF NextPass
<1>7. CASE EndAnalyze
  <2>1. pc = "pass" /\ pc' # "pass" /\ reporter' = reporter /\ (pc' = "idle" => ~noErrors)
    BY <1>7 DEF EndAnalyze, BeginCompile, Leave
  <2>2. QED
    BY <2>1 DEF Reported, ContainsOnlyWarnings
<1>8. CASE EndCompile
  BY <1>8 DEF EndCompile, Leave
<1>9. QED
  BY <1>2, <1>3, <1>4, <1>5, <1>6, <1>7, <1>8 DEF MethodStep

\* compile() works on sources, so a stack without any never gets that far.
LEMMA EmptyStays ==
  ASSUME ParseInv, MethodStep PROVE stackState' # Empty
<1>1. \/ stackState' \in {ParsingSuccessful, AnalysisSuccessful, CompilationSuccessful}
      \/ stackState' = stackState
  BY DEF MethodStep, ParseSource, ParseSourceGivesUp, ImportKnown, ImportNotFound,
         ImportRead, AnnotateImport, StoreNewSources, EndParse, CheckSource,
         CheckSourceAborts, NextPass, EndAnalyze, CompileContract, CodeGenerationFails,
         AssemblyFails, CompilesNow, EndCompile
<1>2. stackState # Empty
  BY MethodSteps
  DEF ParseInv, ParsingInv, PhaseInv, Empty, SourcesSet, ParsingSuccessful, AnalysisSuccessful
<1>3. QED
  BY <1>1, <1>2 DEF Empty, ParsingSuccessful, AnalysisSuccessful, CompilationSuccessful

\* The answer to a request that failed.
LEMMA CollectReports ==
  ASSUME ParseInv, FlowInv, FailInv, Collect PROVE FailInv'
<1>1. /\ stage = "collect" /\ pc = "idle" /\ stage' = "idle" /\ output'.found = Collected
      /\ UNCHANGED <<stackState, reporter>> /\ found' = NothingFound
      /\ CompilationSuccess \/ Collected # NothingFound
  BY DEF Collect, Answer
<1>2. /\ found.errors \in Nat /\ found.warnings \in Nat
      /\ found = [errors |-> found.errors, warnings |-> found.warnings]
  BY DEF FailInv
<1>3. /\ reporter.list.errors \in Nat /\ reporter.list.warnings \in Nat
      /\ reporter.list.ignoring \in Nat /\ reporter.list.aborting \in Nat
  BY DEF ParseInv, Typed, Reporter, ErrorList
<1>4. CASE CompilationSuccess
  BY <1>1, <1>4 DEF FailInv, FailureReported, CompilationSuccess, NothingFound
<1>5. CASE Threw
  <2>1. Collected.errors > 0
    BY <1>2, <1>5 DEF Collected
  <2>2. QED
    BY <1>1, <2>1 DEF FailInv, FailureReported, NothingFound
<1>6. CASE ~CompilationSuccess /\ ~Threw
  <2>1. /\ Collected.errors = found.errors + reporter.list.errors
        /\ Collected.warnings = found.warnings + reporter.list.warnings
                                  + reporter.list.ignoring + reporter.list.aborting
        /\ Collected = [errors |-> Collected.errors, warnings |-> Collected.warnings]
    BY <1>6 DEF Collected
  <2>2. CASE stackState = Empty
    <3>1. Collected.warnings = 0
      BY <1>1, <2>1, <2>2 DEF FailInv, NoDiagnostics
    <3>2. Collected.errors # 0
      <4> SUFFICES ASSUME Collected.errors = 0 PROVE FALSE
        OBVIOUS
      <4>1. Collected = [errors |-> 0, warnings |-> 0]
        BY <2>1, <3>1
      <4>2. QED
        BY <1>1, <1>6, <4>1 DEF NothingFound
    <3>3. Collected.errors \in Nat
      <4>1. Collected.errors = found.errors + reporter.list.errors
        BY <2>1
      <4>2. QED
        BY <1>2, <1>3, <4>1
    <3>4. Collected.errors > 0
      BY <3>2, <3>3
    <3>5. QED
      BY <1>1, <3>4 DEF FailInv, FailureReported, NothingFound
  <2>3. CASE ~ContainsOnlyWarnings(reporter)
    <3>1. Collected.errors > 0
      BY <1>2, <1>3, <2>1, <2>3 DEF ContainsOnlyWarnings
    <3>2. QED
      BY <1>1, <3>1 DEF FailInv, FailureReported, NothingFound
  <2>4. CASE reporter.list.aborting > 0
    <3>1. Collected.warnings > 0
      BY <1>2, <1>3, <2>1, <2>4
    <3>2. QED
      BY <1>1, <2>4, <3>1 DEF FailInv, FailureReported, NothingFound
  <2>5. QED
    BY <1>1, <1>6, <2>2, <2>3, <2>4 DEF FailInv, Reported
<1>7. QED
  BY <1>4, <1>5, <1>6

\* Every step keeps it.
LEMMA FailInvStep == StackInv /\ FlowInv /\ FailInv /\ [SCNext]_allVars => FailInv'
<1> SUFFICES ASSUME StackInv, FlowInv, FailInv, [SCNext]_allVars PROVE FailInv'
  OBVIOUS
<1>1. ParseInv /\ found \in [errors : Nat, warnings : Nat]
  BY DEF StackInv, FailInv
<1>2. NothingFound \in [errors : Nat, warnings : Nat]
  BY DEF NothingFound
<1>3. CASE \E r \in Requests : Receive(r)
  <2>1. /\ stage' = "sources" /\ found' = NothingFound /\ stackState' = Empty
        /\ reporter' = Clear(reporter)
    BY <1>3 DEF Receive, ResetDroppingSources, ResetAllButSources
  <2>2. QED
    BY <1>2, <2>1 DEF FailInv, FailureReported, Clear, NothingFound
<1>4. CASE \E n \in Name : AddContent(n) \/ AddFromUrls(n)
  <2>1. PICK n \in Name : AddContent(n) \/ AddFromUrls(n)
    BY <1>4
  <2>2. /\ stage = "sources" /\ stage' = "sources" /\ stackState' = SourcesSet
        /\ reporter' = Clear(reporter) /\ n \in inputs
    BY <2>1 DEF AddContent, AddFromUrls, TakesInput, AddSource, ResetAllButSources
  <2>3. found' \in [errors : Nat, warnings : Nat]
    <3>1. CASE AddContent(n)
      BY <1>1, <3>1 DEF AddContent
    <3>2. CASE AddFromUrls(n)
      <4>1. InputOf(n).failures \in Nat /\ InputOf(n).mismatches \in Nat
        BY <2>2, <3>2, RequestAssumption DEF AddFromUrls, InputOf, FlowInv
      <4>2. QED
        BY <1>1, <3>2, <4>1 DEF AddFromUrls
    <3>3. QED
      BY <2>1, <3>1, <3>2
  <2>4. QED
    BY <2>2, <2>3 DEF FailInv, FailureReported, Clear, Empty, SourcesSet
<1>5. CASE \E n \in Name : HashMismatch(n) \/ NoUrlWorks(n)
  <2>1. PICK n \in Name : HashMismatch(n) \/ NoUrlWorks(n)
    BY <1>5
  <2>2. /\ stage = "sources" /\ stage' = "sources" /\ n \in inputs
        /\ UNCHANGED <<stackState, reporter>>
    BY <2>1 DEF HashMismatch, NoUrlWorks, TakesInput, vars
  <2>3. found' \in [errors : Nat, warnings : Nat] /\ found'.warnings = found.warnings
    <3>1. CASE HashMismatch(n)
      BY <1>1, <3>1 DEF HashMismatch
    <3>2. CASE NoUrlWorks(n)
      <4>1. InputOf(n).failures \in Nat /\ InputOf(n).mismatches \in Nat
        BY <2>2, <3>2, RequestAssumption DEF NoUrlWorks, InputOf, FlowInv
      <4>2. QED
        BY <1>1, <3>2, <4>1 DEF NoUrlWorks
    <3>3. QED
      BY <2>1, <3>1, <3>2
  <2>4. QED
    BY <2>2, <2>3 DEF FailInv, FailureReported
<1>6. CASE (\E n \in Name : AddResponse(n)) \/ (ApplySettings /\ stage' # "idle")
  <2>1. /\ stage = "sources" /\ stage' \in {"sources", "compile"}
        /\ UNCHANGED <<stackState, reporter, found>>
    BY <1>6 DEF AddResponse, AddSMTLib2Response, ApplySettings, SourcesDone, ChangeSettings,
                Answer, scVars
  <2>2. QED
    BY <2>1 DEF FailInv, FailureReported
<1>7. CASE \/ RejectShape \/ RejectAuxiliaryInput \/ NothingToReport
           \/ (ApplySettings /\ stage' = "idle")
           \/ \E n \in Name : InvalidSource(n)
  <2>1. /\ stage' = "idle" /\ found' = NothingFound
        /\ \E type : output' = FatalOutput(type)
    BY <1>7 DEF RejectShape, RejectAuxiliaryInput, NothingToReport, ApplySettings, InvalidSource,
      Answer
  <2>2. output'.found.errors = 1
    BY <2>1, FatalHasNothing
  <2>3. QED
    BY <1>2, <2>1, <2>2 DEF FailInv, FailureReported
<1>8. CASE CallCompile
  <2>1. /\ stage = "compile" /\ stage' = "collect" /\ UNCHANGED <<stackState, found>>
        /\ \/ pc' = "idle" /\ stackState # SourcesSet /\ reporter' = reporter
           \/ pc' = "parse" /\ stackState = SourcesSet
    BY <1>8 DEF CallCompile, ParseRefused, StartParse, Leave
  <2>2. stackState \in {Empty, SourcesSet}
    BY <2>1 DEF FlowInv
  <2>3. QED
    BY <2>1, <2>2 DEF FailInv, FailureReported, Empty, SourcesSet
<1>9. CASE StackStep
  <2>1. MethodStep /\ UNCHANGED <<stage, found>> /\ stage = "collect" /\ op = "compile"
    BY <1>9, MethodSteps DEF StackStep, scVars, FlowInv
  <2>2. pc = "pass" /\ ~noErrors => ~ContainsOnlyWarnings(reporter)
    BY <2>1 DEF FailInv
  <2>3. /\ pc' = "pass" /\ ~noErrors' => ~ContainsOnlyWarnings(reporter')
        /\ pc' = "idle" => stackState' = CompilationSuccessful \/ Reported'
        /\ stackState' # Empty
    BY <1>1, <2>1, <2>2, CompileFails, EmptyStays
  <2>4. QED
    BY <1>1, <2>1, <2>3 DEF FailInv, FailureReported, CompilationSuccess, ContainsOnlyWarnings
<1>10. CASE Collect
  BY <1>1, <1>10, CollectReports
<1>11. CASE UNCHANGED allVars
  <2>1. UNCHANGED <<stage, found, reporter, stackState, pc, noErrors, outcome, output, served>>
    BY <1>11 DEF allVars, vars, loopVars, scVars
  <2>2. QED
    BY <2>1
    DEF FailInv, FailureReported, CompilationSuccess, Reported, Threw, ContainsOnlyWarnings
<1>12. QED
  BY <1>3, <1>4, <1>5, <1>6, <1>7, <1>8, <1>9, <1>10, <1>11 DEF SCNext

\* An answer without all its contracts says why, whichever step of the request or of the
\* compilation failed and however often the reporter was used before.
THEOREM FailuresAreReported == SCSpec => []FailureReported
<1>1. SCInit => FailInv
  BY DEF SCInit, FailInv, FailureReported, NothingFound
<1>2. FailInv => FailureReported
  BY DEF FailInv
<1>3. QED
  BY <1>1, <1>2, CompositionHolds, FailInvStep, PTL DEF SCSpec

-----------------------------------------------------------------------------
(* ServesEachAlone. *)

\* What has been read of the request is on the stack, and every mistake of it listed;
\* the stack has nothing else.  From compile() on all of it is read.
GivenInv ==
  /\ stage # "idle" => isLibrary = [n \in Name |-> FALSE]
  /\ stage = "sources" =>
       /\ sources = Given(request) \ inputs
       /\ \A n \in sources : scanner[n] = request.sources[n].text
       /\ stackState = Empty <=> sources = {}
       /\ \A n \in DOMAIN request.sources \ inputs :
            /\ request.sources[n].kind # "invalid"
            /\ Mistaken(request.sources[n]) => found.errors > 0
       /\ (\A n \in DOMAIN request.sources \ inputs :
             n \notin Given(request) /\ ~Mistaken(request.sources[n])) => found = NothingFound
  /\ stage \in {"compile", "collect"} =>
       /\ WellFormed(request)
       /\ Given(request) \subseteq sources
       /\ \A n \in Given(request) : scanner[n] = request.sources[n].text
       /\ stackState = Empty <=> Given(request) = {}
       /\ Given(request) = {} => sources = {}
       /\ HasMistake(request) => found.errors > 0
       /\ Given(request) = {} /\ ~HasMistake(request) => found = NothingFound
  /\ stage = "collect" /\ Given(request) = {} => pc = "idle" /\ outcome = "false"

\* The queries that the SMT checker has for the sources and the request does not answer.
Unanswered == {n \in ImportClosure : scanner[n].query /\ n \notin request.responses}

\* Queries are listed by the last pass only, which no error stops.
QueryInv ==
  /\ smt \in [responses : SUBSET Name, unhandled : SUBSET Name]
  /\ stage = "sources" => smt.responses \subseteq request.responses
  /\ stage \in {"compile", "collect"} => smt.responses = request.responses
  /\ stage # "idle" /\ stackState < AnalysisSuccessful /\ ~(pc = "pass" /\ pass = 12) =>
       smt.unhandled = {}
  /\ stage = "collect" /\ pc = "pass" /\ pass = 12 =>
       noErrors /\ smt.unhandled = Unanswered \ todo
  /\ stage = "collect" /\ stackState >= AnalysisSuccessful => smt.unhandled = Unanswered

\* A contract has no object yet, or one of this compile(), linked once it succeeded.
BuiltInv ==
  stage = "collect" => \A n \in DOMAIN contracts :
    \/ contracts[n].object = NoBuild
    \/ /\ stackState # CompilationSuccessful /\ contracts[n].object = AssembledObject
    \/ /\ stackState = CompilationSuccessful
       /\ contracts[n].object = [build |-> CurrentBuild, linked |-> settings.libraries]

\* A running method keeps the sources it has, and their texts.
LEMMA MethodKeepsSources ==
  ASSUME ParseInv, MethodStep
  PROVE  /\ sources \subseteq sources' /\ isLibrary' = isLibrary
         /\ \A n \in sources : scanner'[n] = scanner[n]
<1>1. CASE StoreNewSources
  <2>1. DOMAIN newSources \cap sources = {} /\ sources \subseteq Name
    BY <1>1 DEF StoreNewSources, ParseInv, LoadingInv, Typed
  <2>2. QED
    BY <1>1, <2>1 DEF StoreNewSources
<1>2. CASE ~StoreNewSources
  BY <1>2
  DEF MethodStep, ParseSource, ParseSourceGivesUp, AnnotateImport, ImportKnown, ImportNotFound,
      ImportRead, EndParse, CheckSource, CheckSourceAborts, NextPass, EndAnalyze,
      CompileContract, CodeGenerationFails, AssemblyFails, CompilesNow, EndCompile, sourceVars
<1>3. QED
  BY <1>1, <1>2

\* A source that is read joins the stack, unless it is a mistake, which is then listed.
LEMMA InputGiven ==
  ASSUME StackInv, FlowInv, FailInv, GivenInv, NEW n \in Name,
         AddContent(n) \/ AddFromUrls(n) \/ HashMismatch(n) \/ NoUrlWorks(n)
  PROVE  GivenInv'
<1> DEFINE input == request.sources[n]
<1>1. /\ stage = "sources" /\ stage' = "sources" /\ request' = request
      /\ n \in inputs /\ inputs' = inputs \ {n} /\ n \in DOMAIN request.sources
      /\ request \in Requests /\ inputs \subseteq DOMAIN request.sources
  BY DEF AddContent, AddFromUrls, HashMismatch, NoUrlWorks, TakesInput, FlowInv
<1>2. /\ found.errors \in Nat
      /\ input.kind = "urls" => input.failures \in Nat /\ input.mismatches \in Nat
  BY <1>1, RequestAssumption DEF FailInv
<1>3. /\ input.kind # "invalid"
      /\ Mistaken(input) => found'.errors > 0
      /\ found.errors > 0 => found'.errors > 0
  <2>1. found = [errors |-> found.errors, warnings |-> found.warnings]
    BY DEF FailInv
  <2>2. CASE AddContent(n)
    BY <1>2, <2>2 DEF AddContent, Mistaken, InputOf
  <2>3. CASE AddFromUrls(n)
    BY <1>2, <2>3 DEF AddFromUrls, Mistaken, InputOf
  <2>4. CASE HashMismatch(n)
    BY <1>2, <2>1, <2>4 DEF HashMismatch, Mistaken, InputOf
  <2>5. CASE NoUrlWorks(n)
    BY <1>2, <2>1, <2>5 DEF NoUrlWorks, Mistaken, InputOf
  <2>6. QED
    BY <2>2, <2>3, <2>4, <2>5
<1>4. CASE AddContent(n) \/ AddFromUrls(n)
  <2>1. AddSource(n, input.text, FALSE) /\ Supplies(input)
    BY <1>4 DEF AddContent, AddFromUrls, Supplies, InputOf
  <2>2. /\ sources' = sources \cup {n} /\ stackState' = SourcesSet
        /\ scanner' = [scanner EXCEPT ![n] = input.text]
        /\ isLibrary' = [isLibrary EXCEPT ![n] = FALSE]
    BY <2>1 DEF AddSource
  <2>3. isLibrary' = [m \in Name |-> FALSE]
    BY <1>1, <2>2 DEF GivenInv
  <2>4. n \in Given(request)
    BY <1>1, <2>1 DEF Given
  <2>5. scanner \in [Name -> Contents] /\ sources \subseteq Name
    BY DEF StackInv, ParseInv, Typed
  <2>6. sources' = Given(request) \ inputs'
    BY <1>1, <2>2, <2>4 DEF GivenInv
  <2>7. \A m \in sources' : scanner'[m] = request.sources[m].text
    BY <1>1, <2>2, <2>5 DEF GivenInv
  <2>8. \A m \in DOMAIN request.sources \ inputs' :
          /\ request.sources[m].kind # "invalid"
          /\ Mistaken(request.sources[m]) => found'.errors > 0
    BY <1>1, <1>3 DEF GivenInv
  <2>9. ~(stackState' = Empty) /\ sources' # {}
    BY <2>2 DEF Empty, SourcesSet
  <2>10. QED
    BY <1>1, <2>3, <2>4, <2>6, <2>7, <2>8, <2>9 DEF GivenInv
<1>5. CASE HashMismatch(n) \/ NoUrlWorks(n)
  <2>1. UNCHANGED <<sources, scanner, isLibrary, stackState>> /\ ~Supplies(input)
    BY <1>5 DEF HashMismatch, NoUrlWorks, vars, sourceVars, Supplies, InputOf
  <2>2. n \notin Given(request)
    BY <2>1 DEF Given
  <2>3. sources' = Given(request) \ inputs'
    BY <1>1, <2>1, <2>2 DEF GivenInv
  <2>4. \A m \in DOMAIN request.sources \ inputs' :
          /\ request.sources[m].kind # "invalid"
          /\ Mistaken(request.sources[m]) => found'.errors > 0
    BY <1>1, <1>3 DEF GivenInv
  <2>5. ~Mistaken(input) => found' = found
    <3>1. CASE HashMismatch(n)
      BY <3>1 DEF HashMismatch, Mistaken, InputOf
    <3>2. CASE NoUrlWorks(n) /\ ~Mistaken(input)
      <4>1. input.mismatches = 0 /\ input.failures = 0 /\ input.kind = "urls"
        BY <1>2, <3>2 DEF NoUrlWorks, Mistaken, InputOf
      <4>2. found' = [found EXCEPT !.errors = found.errors + 0 + 0]
        BY <3>2, <4>1 DEF NoUrlWorks, InputOf
      <4>3. QED
        BY <1>2, <4>2 DEF FailInv
    <3>3. QED
      BY <1>5, <3>1, <3>2
  <2>6. (\A m \in DOMAIN request.sources \ inputs' :
           m \notin Given(request) /\ ~Mistaken(request.sources[m])) => found' = NothingFound
    BY <1>1, <2>5 DEF GivenInv
  <2>7. QED
    BY <1>1, <2>1, <2>3, <2>4, <2>6 DEF GivenInv
<1>6. QED
  BY <1>4, <1>5

\* Every step keeps it.
LEMMA GivenInvStep ==
  StackInv /\ FlowInv /\ FailInv /\ GivenInv /\ [SCNext]_allVars => GivenInv'
<1> SUFFICES ASSUME StackInv, FlowInv, FailInv, GivenInv, [SCNext]_allVars PROVE GivenInv'
  OBVIOUS
<1>1. CASE \E r \in Requests : Receive(r)
  <2>1. /\ stage' = "sources" /\ sources' = {} /\ inputs' = DOMAIN request'.sources
        /\ isLibrary' = [n \in Name |-> FALSE] /\ stackState' = Empty
        /\ found' = NothingFound
    BY <1>1 DEF Receive, ResetDroppingSources
  <2>2. Given(request') \ inputs' = {}
    BY <2>1 DEF Given
  <2>3. QED
    BY <2>1, <2>2 DEF GivenInv
<1>2. CASE \E n \in Name : AddContent(n) \/ AddFromUrls(n) \/ HashMismatch(n) \/ NoUrlWorks(n)
  BY <1>2, InputGiven
<1>3. CASE \E n \in Name : AddResponse(n)
  BY <1>3 DEF AddResponse, AddSMTLib2Response, scVars, sourceVars, GivenInv
<1>4. CASE \/ RejectShape \/ RejectAuxiliaryInput \/ NothingToReport \/ Collect
           \/ \E n \in Name : InvalidSource(n)
  BY <1>4 DEF RejectShape, RejectAuxiliaryInput, NothingToReport, Collect, InvalidSource, Answer,
    GivenInv
<1>5. CASE ApplySettings
  <2>1. /\ stage = "sources" /\ inputs = {} /\ request.shape = "ok"
        /\ DOMAIN request.sources # {}
        /\ UNCHANGED <<sources, scanner, isLibrary, stackState, request>>
        /\ \/ stage' = "compile" /\ found' = found /\ request.malformed = "none"
           \/ stage' = "idle"
    BY <1>5 DEF ApplySettings, SourcesDone, ChangeSettings, sourceVars, Answer
  <2>2. WellFormed(request) \/ stage' = "idle"
    BY <2>1 DEF GivenInv, WellFormed, HasSources
  <2>3. Given(request) = sources
    BY <2>1 DEF GivenInv, Given
  <2>4. HasMistake(request) => found.errors > 0
    BY <2>1 DEF GivenInv, HasMistake
  <2>5. Given(request) = {} /\ ~HasMistake(request) => found = NothingFound
    BY <2>1 DEF GivenInv, HasMistake
  <2>6. QED
    BY <2>1, <2>2, <2>3, <2>4, <2>5 DEF GivenInv
<1>6. CASE CallCompile
  <2>1. /\ stage = "compile" /\ stage' = "collect"
        /\ UNCHANGED <<sources, scanner, isLibrary, stackState, request, found>>
        /\ stackState = Empty => pc' = "idle" /\ outcome' = "false"
    BY <1>6 DEF CallCompile, ParseRefused, StartParse, sourceVars, Leave, Empty, SourcesSet
  <2>2. QED
    BY <2>1 DEF GivenInv
<1>7. CASE StackStep
  <2>1. /\ MethodStep /\ UNCHANGED <<stage, request, found>> /\ stage = "collect"
        /\ pc # "idle"
    BY <1>7, MethodSteps DEF StackStep, scVars, FlowInv
  <2>2. Given(request) # {} /\ stackState' # Empty
    BY <2>1, EmptyStays DEF GivenInv, StackInv
  <2>3. /\ sources \subseteq sources' /\ isLibrary' = isLibrary
        /\ \A n \in sources : scanner'[n] = scanner[n]
    BY <2>1, MethodKeepsSources DEF StackInv
  <2>4. /\ Given(request) \subseteq sources'
        /\ \A n \in Given(request) : scanner'[n] = request.sources[n].text
    BY <2>1, <2>3 DEF GivenInv
  <2>5. QED
    BY <2>1, <2>2, <2>3, <2>4 DEF GivenInv
<1>8. CASE UNCHANGED allVars
  BY <1>8 DEF allVars, vars, sourceVars, scVars, GivenInv
<1>9. QED
  BY <1>1, <1>2, <1>3, <1>4, <1>5, <1>6, <1>7, <1>8 DEF SCNext

\* The queries that are listed depend on the sources and the request only.
LEMMA UnansweredStays ==
  ASSUME UNCHANGED <<sourceVars, request>> PROVE Unanswered' = Unanswered
<1>1. ImportClosure' = ImportClosure
  BY ClosureOfSources
<1>2. QED
  BY <1>1 DEF Unanswered, sourceVars

\* The SMT checker is the last pass.
LEMMA SmtPass ==
  ASSUME NEW k \in 1..12 PROVE Passes[k] = "smt" <=> k = 12
<1>1. \/ k = 1 \/ k = 2 \/ k = 3 \/ k = 4 \/ k = 5 \/ k = 6
      \/ k = 7 \/ k = 8 \/ k = 9 \/ k = 10 \/ k = 11 \/ k = 12
  OBVIOUS
<1>2. QED
  BY <1>1 DEF Passes

\* The last pass lists the query of a source, and nothing but a query stops it.
LEMMA CheckSourceQueries ==
  ASSUME StackInv, FlowInv, QueryInv, NEW n \in Name,
         CheckSource(n) \/ CheckSourceAborts(n), UNCHANGED scVars, stage = "collect"
  PROVE  QueryInv'
<1>1. /\ pc = "pass" /\ n \in todo /\ UNCHANGED <<stackState, sourceVars, sourceOrder, request>>
      /\ stage' = stage
  BY DEF CheckSource, CheckSourceAborts, scVars
<1>2. /\ stackState = ParsingSuccessful /\ pass \in 1..12 /\ sourceOrder = ImportClosure
      /\ todo \subseteq ImportClosure /\ ImportClosure \subseteq sources
  BY <1>1, ClosureInSources DEF StackInv, ParseInv, PhaseInv, Typed, AnalysisInv, ParsingSuccessful
<1>3. /\ ast[n] # NoAST /\ ast[n].content = scanner[n] /\ ast[n].content \in Contents
  <2>1. n \in sources /\ Loaded(n)
    BY <1>1, <1>2 DEF StackInv, ParseInv, ParsedStackIsClosed, ParsingSuccessful
  <2>2. scanner[n] \in Contents
    BY DEF StackInv, ParseInv, Typed
  <2>3. QED
    BY <2>1, <2>2 DEF Loaded
<1>4. PassName = "smt" <=> pass = 12
  BY <1>2, SmtPass DEF PassName
<1>5. Unanswered' = Unanswered
  BY <1>1, UnansweredStays
<1>6. CASE pass = 12
  <2>1. ~Finds(n)
    BY <1>3, <1>4, <1>6, StackAssumption DEF Finds
  <2>2. CheckSource(n)
    BY <2>1 DEF CheckSourceAborts, Aborts
  <2>3. ~Fails(n)
    BY <1>4, <1>6 DEF Fails
  <2>4. /\ noErrors' = noErrors /\ todo' = todo \ {n} /\ pc' = "pass" /\ pass' = pass
        /\ smt' = IF ast[n].content.query /\ n \notin smt.responses
                  THEN [smt EXCEPT !.unhandled = smt.unhandled \cup {n}] ELSE smt
    BY <1>4, <1>6, <2>2, <2>3 DEF CheckSource
  <2>5. /\ smt.responses = request.responses /\ smt.unhandled = Unanswered \ todo
        /\ smt \in [responses : SUBSET Name, unhandled : SUBSET Name] /\ noErrors
    BY <1>1, <1>6 DEF QueryInv
  <2>6. n \in Unanswered <=> ast[n].content.query /\ n \notin smt.responses
    BY <1>1, <1>2, <1>3, <2>5 DEF Unanswered
  <2>7. smt'.unhandled = Unanswered \ todo' /\ smt'.responses = smt.responses
    BY <1>1, <2>4, <2>5, <2>6
  <2>8. smt' \in [responses : SUBSET Name, unhandled : SUBSET Name]
    BY <2>4, <2>5
  <2>9. QED
    BY <1>1, <1>2, <1>5, <1>6, <2>4, <2>5, <2>7, <2>8
    DEF QueryInv, ParsingSuccessful, AnalysisSuccessful
<1>7. CASE pass # 12
  <2>1. smt' = smt
    BY <1>4, <1>7 DEF CheckSource, CheckSourceAborts
  <2>2. \/ pc' = "idle"
        \/ pc' = "pass" /\ pass' = pass
    BY <1>1 DEF CheckSource, CheckSourceAborts, Leave
  <2>3. smt.unhandled = {} /\ smt.responses = request.responses
    BY <1>1, <1>2, <1>7 DEF QueryInv, ParsingSuccessful, AnalysisSuccessful
  <2>4. QED
    BY <1>1, <1>2, <1>7, <2>1, <2>2, <2>3
    DEF QueryInv, ParsingSuccessful, AnalysisSuccessful
<1>8. QED
  BY <1>6, <1>7

\* The analysis goes on: it reaches the last pass without an error, and ends well only
\* after it.
LEMMA PassesQueries ==
  ASSUME StackInv, FlowInv, QueryInv, NextPass \/ EndAnalyze, UNCHANGED scVars,
         stage = "collect"
  PROVE  QueryInv'
<1>1. /\ pc = "pass" /\ todo = {} /\ UNCHANGED <<sourceVars, sourceOrder, request, smt>>
      /\ stage' = stage
  BY DEF NextPass, EndAnalyze, scVars
<1>2. /\ stackState = ParsingSuccessful /\ pass \in 1..12 /\ sourceOrder = ImportClosure
  BY <1>1 DEF StackInv, ParseInv, PhaseInv, Typed, AnalysisInv
<1>3. Unanswered' = Unanswered /\ Unanswered \subseteq sourceOrder
  BY <1>1, <1>2, UnansweredStays DEF Unanswered
<1>4. CASE NextPass
  <2>1. /\ pc' = "pass" /\ todo' = sourceOrder /\ pass' = pass + 1 /\ noErrors' = noErrors
        /\ stackState' = stackState /\ pass # 12 /\ (pass = 11 => noErrors)
    BY <1>2, <1>4, PassNames DEF NextPass, LastPass, PostTypes
  <2>2. smt.unhandled = {} /\ smt.responses = request.responses
    BY <1>1, <1>2, <2>1 DEF QueryInv, ParsingSuccessful, AnalysisSuccessful
  <2>3. QED
    BY <1>1, <1>2, <1>3, <2>1, <2>2 DEF QueryInv, ParsingSuccessful, AnalysisSuccessful
<1>5. CASE EndAnalyze
  <2>1. /\ pc' # "pass"
        /\ \/ stackState' = stackState /\ ~noErrors
           \/ stackState' = AnalysisSuccessful /\ pass = 12
    BY <1>2, <1>5, PassNames DEF EndAnalyze, LastPass, BeginCompile, Leave
  <2>2. CASE stackState' = stackState /\ ~noErrors
    <3>1. smt.unhandled = {} /\ smt.responses = request.responses
      BY <1>1, <1>2, <2>2 DEF QueryInv, ParsingSuccessful, AnalysisSuccessful
    <3>2. QED
      BY <1>1, <1>2, <2>1, <2>2, <3>1 DEF QueryInv, ParsingSuccessful, AnalysisSuccessful
  <2>3. CASE stackState' = AnalysisSuccessful /\ pass = 12
    <3>1. smt.unhandled = Unanswered /\ smt.responses = request.responses
      BY <1>1, <2>3 DEF QueryInv
    <3>2. QED
      BY <1>1, <1>3, <2>1, <2>3, <3>1 DEF QueryInv, AnalysisSuccessful
  <2>4. QED
    BY <2>1, <2>2, <2>3
<1>6. QED
  BY <1>4, <1>5

\* The steps of a method before and after the analysis list no query.
LEMMA OtherQueries ==
  ASSUME StackInv, FlowInv, QueryInv, UNCHANGED scVars, stage = "collect",
         \/ \E n \in Name : ParseSource(n) \/ ParseSourceGivesUp(n)
         \/ \E i \in Name : ImportKnown(i) \/ ImportNotFound(i)
         \/ \E i \in Name, answer \in ReadResults : ImportRead(i, answer)
         \/ StoreNewSources \/ EndParse \/ EndCompile
         \/ \E n \in Name : CompileContract(n) \/ CodeGenerationFails(n) \/ AssemblyFails(n)
  PROVE  QueryInv'
<1>1. smt' = smt /\ request' = request /\ stage' = stage
  BY DEF scVars, ParseSource, ParseSourceGivesUp, AnnotateImport, ImportKnown, ImportNotFound,
         ImportRead, StoreNewSources, EndParse, EndCompile, CompileContract,
         CodeGenerationFails, AssemblyFails, CompilesNow
<1>2. CASE \/ EndCompile
           \/ \E n \in Name : CompileContract(n) \/ CodeGenerationFails(n) \/ AssemblyFails(n)
  <2>1. /\ pc = "compile" /\ UNCHANGED sourceVars /\ pc' # "pass"
        /\ stackState' = stackState \/ stackState' = CompilationSuccessful
    BY <1>2 DEF EndCompile, CompileContract, CodeGenerationFails, AssemblyFails, CompilesNow, Leave
  <2>2. stackState >= AnalysisSuccessful /\ stackState \in Nat
    BY <2>1 DEF StackInv, ParseInv, PhaseInv, Typed, Empty
  <2>3. Unanswered' = Unanswered
    BY <1>1, <2>1, UnansweredStays
  <2>4. stackState' >= AnalysisSuccessful /\ ~(stackState' < AnalysisSuccessful)
    BY <2>1, <2>2 DEF AnalysisSuccessful, CompilationSuccessful
  <2>5. QED
    BY <1>1, <2>1, <2>2, <2>3, <2>4 DEF QueryInv
<1>3. CASE ~(\/ EndCompile
             \/ \E n \in Name : CompileContract(n) \/ CodeGenerationFails(n) \/ AssemblyFails(n))
  <2>1. pc \in {"parse", "load"}
    BY <1>3 DEF ParseSource, ParseSourceGivesUp, AnnotateImport, ImportKnown, ImportNotFound,
                ImportRead, StoreNewSources, EndParse
  <2>2. stackState = SourcesSet
    BY <2>1 DEF StackInv, ParseInv, ParsingInv
  <2>3. /\ stackState' = stackState \/ stackState' = ParsingSuccessful
        /\ pc' = "pass" => pass' = 1
    BY <1>3 DEF ParseSource, ParseSourceGivesUp, AnnotateImport, ImportKnown, ImportNotFound,
                ImportRead, StoreNewSources, EndParse, BeginAnalyze, Leave
  <2>4. smt.unhandled = {} /\ smt.responses = request.responses
    BY <2>1, <2>2 DEF QueryInv, SourcesSet, AnalysisSuccessful
  <2>5. QED
    BY <1>1, <2>2, <2>3, <2>4 DEF QueryInv, SourcesSet, ParsingSuccessful, AnalysisSuccessful
<1>4. QED
  BY <1>2, <1>3

\* Every step keeps it.
LEMMA QueryInvStep == StackInv /\ FlowInv /\ QueryInv /\ [SCNext]_allVars => QueryInv'
<1> SUFFICES ASSUME StackInv, FlowInv, QueryInv, [SCNext]_allVars PROVE QueryInv'
  OBVIOUS
<1>1. CASE \/ \E r \in Requests : Receive(r)
           \/ \E n \in Name : AddContent(n) \/ AddFromUrls(n)
  <2>1. /\ smt' = [responses |-> {}, unhandled |-> {}] /\ stage' = "sources"
        /\ pc' = "idle"
    BY <1>1
    DEF Receive, ResetDroppingSources, AddContent, AddFromUrls, TakesInput, AddSource, Leave,
        ResetAllButSources
  <2>2. QED
    BY <2>1 DEF QueryInv
<1>2. CASE \E n \in Name : HashMismatch(n) \/ NoUrlWorks(n)
  <2>1. /\ stage = "sources" /\ UNCHANGED <<smt, stage, request, stackState, pc, pass>>
    BY <1>2 DEF HashMismatch, NoUrlWorks, TakesInput, vars, loopVars
  <2>2. QED
    BY <2>1 DEF QueryInv
<1>3. CASE \E n \in Name : AddResponse(n)
  <2>1. PICK n \in Name : AddResponse(n)
    BY <1>3
  <2>2. /\ stage = "sources" /\ n \in request.responses
        /\ UNCHANGED <<stage, request, stackState>> /\ pc' = "idle" /\ pc = "idle"
        /\ smt' = [smt EXCEPT !.responses = smt.responses \cup {n}]
    BY <2>1 DEF AddResponse, AddSMTLib2Response, Call, Leave, scVars
  <2>3. smt \in [responses : SUBSET Name, unhandled : SUBSET Name]
    BY DEF QueryInv
  <2>4. QED
    BY <2>2, <2>3 DEF QueryInv
<1>4. CASE \/ RejectShape \/ RejectAuxiliaryInput \/ NothingToReport \/ Collect
           \/ \E n \in Name : InvalidSource(n)
  BY <1>4 DEF RejectShape, RejectAuxiliaryInput, NothingToReport, Collect, InvalidSource, Answer,
    vars, QueryInv
<1>5. CASE ApplySettings
  <2>1. /\ stage = "sources" /\ request.responses \subseteq smt.responses
        /\ UNCHANGED <<smt, stackState, request>> /\ pc = "idle" /\ pc' = "idle"
        /\ stage' \in {"compile", "idle"}
    BY <1>5 DEF ApplySettings, SourcesDone, ChangeSettings, Call, Leave, Answer
  <2>2. stackState \in {Empty, SourcesSet}
    BY <2>1 DEF FlowInv
  <2>3. QED
    BY <2>1, <2>2 DEF QueryInv
<1>6. CASE CallCompile
  <2>1. /\ stage = "compile" /\ stage' = "collect" /\ pc = "idle" /\ pc' # "pass"
        /\ UNCHANGED <<smt, stackState, request>>
    BY <1>6 DEF CallCompile, ParseRefused, StartParse, CallsParse, CallReporting, Call, Leave
  <2>2. stackState \in {Empty, SourcesSet}
    BY <2>1 DEF FlowInv
  <2>3. ~(stackState >= AnalysisSuccessful) /\ stackState < AnalysisSuccessful
    BY <2>2 DEF Empty, SourcesSet, AnalysisSuccessful
  <2>4. QED
    BY <2>1, <2>3 DEF QueryInv
<1>7. CASE StackStep
  <2>1. MethodStep /\ UNCHANGED scVars /\ stage = "collect"
    BY <1>7, MethodSteps DEF StackStep, FlowInv
  <2>2. QED
    BY <2>1, CheckSourceQueries, PassesQueries, OtherQueries DEF MethodStep
<1>8. CASE UNCHANGED allVars
  <2>1. UNCHANGED <<sourceVars, request, smt, stage, stackState, pc, pass, noErrors, todo>>
    BY <1>8 DEF allVars, vars, scVars, loopVars
  <2>2. Unanswered' = Unanswered
    BY <2>1, UnansweredStays
  <2>3. QED
    BY <2>1, <2>2 DEF QueryInv
<1>9. QED
  BY <1>1, <1>2, <1>3, <1>4, <1>5, <1>6, <1>7, <1>8 DEF SCNext

\* The contracts of a compilation: entered empty, built once, linked at its end.
LEMMA CompileBuilds ==
  ASSUME StackInv, FlowInv, BuiltInv, MethodStep, UNCHANGED scVars, stage = "collect"
  PROVE  BuiltInv'
<1>1. /\ pc # "idle" /\ settings' = settings /\ stage' = stage
      /\ stackState # CompilationSuccessful
      /\ contracts \in [DOMAIN contracts -> Contract]
  BY MethodSteps DEF FlowInv, scVars, StackInv, ContractsInv
<1>2. CurrentBuild' = CurrentBuild /\ AssembledObject' = AssembledObject
  BY <1>1 DEF CurrentBuild, AssembledObject
<1>3. \A n \in DOMAIN contracts : contracts[n].object \in {NoBuild, AssembledObject}
  BY <1>1 DEF BuiltInv
<1>4. ASSUME stackState' # CompilationSuccessful,
             \A n \in DOMAIN contracts' : contracts'[n].object \in {NoBuild, AssembledObject}
      PROVE  BuiltInv'
  BY <1>2, <1>4 DEF BuiltInv
<1>5. CASE EndCompile
  <2>1. /\ stackState' = CompilationSuccessful
        /\ DOMAIN contracts' = DOMAIN contracts
        /\ \A n \in DOMAIN contracts : contracts'[n] =
             [contracts[n] EXCEPT !.object = Link(contracts[n].object),
                                  !.runtimeObject = Link(contracts[n].runtimeObject)]
    BY <1>5 DEF EndCompile
  <2>2. \A n \in DOMAIN contracts : contracts'[n].object = Link(contracts[n].object)
    BY <1>1, <2>1 DEF Contract
  <2>3. /\ Link(NoBuild) = NoBuild
        /\ Link(AssembledObject) = [build |-> CurrentBuild, linked |-> settings.libraries]
    <3>1. AssembledObject # NoBuild
      BY ObjectsTyped, StackAssumption DEF StackInv
    <3>2. QED
      BY <3>1 DEF Link, AssembledObject
  <2>4. QED
    BY <1>1, <1>2, <1>3, <2>1, <2>2, <2>3 DEF BuiltInv
<1>6. CASE \E n \in Name : CompileContract(n) \/ CodeGenerationFails(n) \/ AssemblyFails(n)
  <2>1. PICK n \in Name : CompileContract(n) \/ CodeGenerationFails(n) \/ AssemblyFails(n)
    BY <1>6
  <2>2. stackState' = stackState
    BY <2>1 DEF CompileContract, CodeGenerationFails, AssemblyFails, CompilesNow
  <2>3. ASSUME NEW c \in Contract, NEW b, NEW o
        PROVE  /\ [c EXCEPT !.compiler = b, !.metadata = b].object = c.object
               /\ [c EXCEPT !.compiler = b, !.metadata = b, !.object = o].object = o
               /\ [c EXCEPT !.compiler = b, !.metadata = b, !.object = o,
                            !.runtimeObject = o].object = o
    BY DEF Contract
  <2>4. ASSUME NEW m \in DOMAIN contracts' PROVE contracts'[m].object \in {NoBuild, AssembledObject}
    <3>1. /\ m \in DOMAIN contracts /\ contracts[m] \in Contract
          /\ (m # n => contracts'[m] = contracts[m])
      BY <1>1, <2>1 DEF CompileContract, CodeGenerationFails, AssemblyFails
    <3>2. CASE CompileContract(n)
      BY <1>3, <2>3, <3>1, <3>2 DEF CompileContract
    <3>3. CASE CodeGenerationFails(n)
      BY <1>3, <2>3, <3>1, <3>3 DEF CodeGenerationFails
    <3>4. CASE AssemblyFails(n)
      BY <1>3, <2>3, <3>1, <3>4 DEF AssemblyFails
    <3>5. QED
      BY <2>1, <3>2, <3>3, <3>4
  <2>5. QED
    BY <1>1, <1>4, <2>2, <2>4
<1>7. CASE \E n \in Name : CheckSource(n)
  <2>1. PICK n \in Name : CheckSource(n)
    BY <1>7
  <2>2. stackState' = stackState /\ contracts' = EnterContract(n)
    BY <2>1 DEF CheckSource
  <2>3. NewContract.object = NoBuild
    BY DEF NewContract
  <2>4. ASSUME NEW m \in DOMAIN contracts' PROVE contracts'[m].object \in {NoBuild, AssembledObject}
    BY <1>3, <2>2, <2>3 DEF EnterContract
  <2>5. QED
    BY <1>1, <1>4, <2>2, <2>4
<1>8. CASE ~(\/ EndCompile \/ \E n \in Name : CheckSource(n)
             \/ \E n \in Name : CompileContract(n) \/ CodeGenerationFails(n) \/ AssemblyFails(n))
  <2>1. /\ contracts' = contracts
        /\ stackState' = stackState \/ stackState' \in {ParsingSuccessful, AnalysisSuccessful}
    BY <1>8
    DEF MethodStep, ParseSource, ParseSourceGivesUp, AnnotateImport, ImportKnown, ImportNotFound,
        ImportRead, StoreNewSources, EndParse, CheckSourceAborts, NextPass, EndAnalyze
  <2>2. stackState' # CompilationSuccessful
    BY <1>1, <2>1 DEF ParsingSuccessful, AnalysisSuccessful, CompilationSuccessful
  <2>3. QED
    BY <1>3, <1>4, <2>1, <2>2
<1>9. QED
  BY <1>5, <1>6, <1>7, <1>8

\* Every step keeps it.
LEMMA BuiltInvStep == StackInv /\ FlowInv /\ BuiltInv /\ [SCNext]_allVars => BuiltInv'
<1> SUFFICES ASSUME StackInv, FlowInv, BuiltInv, [SCNext]_allVars, stage' = "collect"
             PROVE  BuiltInv'
  BY DEF BuiltInv
<1>1. CASE \/ \E r \in Requests : Receive(r)
           \/ RejectShape \/ RejectAuxiliaryInput \/ NothingToReport \/ ApplySettings \/ Collect
           \/ \E n \in Name : AddContent(n) \/ HashMismatch(n) \/ AddFromUrls(n)
                              \/ NoUrlWorks(n) \/ InvalidSource(n) \/ AddResponse(n)
  BY <1>1, ClientSteps
<1>2. CASE CallCompile
  <2>1. stage = "compile" /\ contracts' = contracts
    BY <1>2 DEF CallCompile, ParseRefused, StartParse
  <2>2. DOMAIN contracts' = {}
    BY <2>1
    DEF FlowInv, StackInv, ContractsInv, Empty, SourcesSet, ParsingSuccessful
  <2>3. QED
    BY <2>2 DEF BuiltInv
<1>3. CASE StackStep
  BY <1>3, MethodSteps, CompileBuilds DEF StackStep, FlowInv
<1>4. CASE UNCHANGED allVars
  BY <1>4 DEF allVars, vars, scVars, BuiltInv, AssembledObject, CurrentBuild
<1>5. QED
  BY <1>1, <1>2, <1>3, <1>4 DEF SCNext

\* All that the answers rest on.
ServeInv == StackInv /\ FlowInv /\ SettingsInv /\ FailInv /\ GivenInv /\ QueryInv /\ BuiltInv

\* An analysed stack: its sources are those of the request and all of them were visited.
LEMMA AnalysedSources ==
  ASSUME ServeInv, stage = "collect", AnalysisSuccess
  PROVE  /\ ImportClosure = sources /\ sourceOrder = sources
         /\ smt.unhandled = Unanswered
         /\ Given(request) # {} /\ Given(request) \subseteq sources
         /\ \A n \in sources : ast[n] # NoAST /\ ast[n].content = scanner[n]
         /\ \A n \in Given(request) : scanner[n] = request.sources[n].text
<1>1. /\ stackState >= AnalysisSuccessful /\ stackState >= ParsingSuccessful
      /\ stackState # Empty
  BY DEF ServeInv, AnalysisSuccess, StackInv, ParseInv, Typed, Empty, ParsingSuccessful,
         AnalysisSuccessful
<1>2. ImportClosure = sources
  <2>1. ImportClosure \subseteq sources
    BY <1>1, ClosureInSources DEF ServeInv, StackInv
  <2>2. sources \subseteq Name /\ isLibrary = [n \in Name |-> FALSE]
    BY DEF ServeInv, StackInv, ParseInv, Typed, GivenInv
  <2>3. {n \in sources : ~isLibrary[n]} = sources
    BY <2>2
  <2>4. sources \subseteq ImportClosure
    BY <2>2, <2>3, ClosureClosed DEF ImportClosure
  <2>5. QED
    BY <2>1, <2>4
<1>3. sourceOrder = ImportClosure
  BY <1>1 DEF ServeInv, StackInv, ContractsInv
<1>4. smt.unhandled = Unanswered
  BY <1>1 DEF ServeInv, QueryInv
<1>5. Given(request) # {} /\ Given(request) \subseteq sources
      /\ \A n \in Given(request) : scanner[n] = request.sources[n].text
  BY <1>1 DEF ServeInv, GivenInv
<1>6. \A n \in sources : ast[n] # NoAST /\ ast[n].content = scanner[n]
  BY <1>1 DEF ServeInv, StackInv, ParseInv, ParsedStackIsClosed, Loaded
<1>7. QED
  BY <1>2, <1>3, <1>4, <1>5, <1>6

\* Without an analysis there are no queries and no contracts to answer with.
LEMMA NotAnalysed ==
  ASSUME ServeInv, stage = "collect", pc = "idle", ~AnalysisSuccess
  PROVE  smt.unhandled = {} /\ OutputContracts = {} /\ ~CompilationSuccess
<1>1. stackState \in 0..4
  BY DEF ServeInv, StackInv, ParseInv, Typed, Empty, CompilationSuccessful
<1>2. stackState < AnalysisSuccessful /\ stackState # CompilationSuccessful
  BY <1>1 DEF AnalysisSuccess, AnalysisSuccessful, CompilationSuccessful
<1>3. smt.unhandled = {}
  BY <1>2 DEF ServeInv, QueryInv
<1>4. QED
  BY <1>2, <1>3 DEF OutputContracts, CompilationSuccess

\* The sources and queries of an answer.
LEMMA CollectSources ==
  ASSUME ServeInv, Collect PROVE SourcesAnswered(request, output')
<1>1. /\ stage = "collect" /\ pc = "idle"
      /\ output'.sources = (IF AnalysisSuccess THEN sources ELSE {})
      /\ output'.queries = smt.unhandled
      /\ DOMAIN output'.contracts = OutputContracts
  BY DEF Collect, Answer
<1>2. CASE AnalysisSuccess
  <2>1. OutputContracts \subseteq sources
    <3>1. OutputContracts \subseteq DOMAIN contracts
      BY DEF OutputContracts
    <3>2. DOMAIN contracts \subseteq sourceOrder
      BY <1>2 DEF ServeInv, StackInv, ContractsInv, AnalysisSuccess, OrderedContracts
    <3>3. QED
      BY <1>1, <1>2, <3>1, <3>2, AnalysedSources
  <2>2. Unanswered \subseteq sources
    BY <1>1, <1>2, AnalysedSources DEF Unanswered
  <2>3. \A n \in Given(request) :
          n \in Unanswered <=> request.sources[n].text.query /\ n \notin request.responses
    BY <1>1, <1>2, AnalysedSources DEF Unanswered
  <2>4. QED
    BY <1>1, <1>2, <2>1, <2>2, <2>3, AnalysedSources DEF SourcesAnswered
<1>3. CASE ~AnalysisSuccess
  BY <1>1, <1>3, NotAnalysed DEF SourcesAnswered
<1>4. QED
  BY <1>2, <1>3

\* The object of a contract in an answer.
LEMMA CollectObjects ==
  ASSUME ServeInv, stage = "collect", CompilationSuccess, NEW n \in DOMAIN contracts
  PROVE  contracts[n].object \in {NoBuild, ObjectFor(request)}
<1>1. settings = RequestedSettings
  BY DEF ServeInv, SettingsInv
<1>2. [build |-> CurrentBuild, linked |-> settings.libraries] = ObjectFor(request)
  BY <1>1 DEF RequestedSettings, CurrentBuild, ObjectFor
<1>3. QED
  BY <1>2 DEF ServeInv, BuiltInv, CompilationSuccess

\* The contracts of an answer.
LEMMA CollectContracts ==
  ASSUME ServeInv, Collect PROVE ContractsAnswered(request, output')
<1>1. /\ stage = "collect" /\ pc = "idle"
      /\ CompilationSuccess \/ Collected # NothingFound
      /\ output'.contracts = [n \in OutputContracts |-> contracts[n].object]
      /\ output'.found = Collected
  BY DEF Collect, Answer
<1>2. CASE ~CompilationSuccess
  <2>1. OutputContracts = {}
    BY <1>2 DEF OutputContracts
  <2>2. QED
    BY <1>1, <1>2, <2>1 DEF ContractsAnswered
<1>3. CASE CompilationSuccess
  <2>1. AnalysisSuccess
    BY <1>3 DEF AnalysisSuccess, CompilationSuccess, AnalysisSuccessful, CompilationSuccessful
  <2>2. /\ OutputContracts = {n \in DOMAIN contracts : Wants(request, n)}
        /\ DOMAIN output'.contracts = OutputContracts
        /\ \A n \in OutputContracts : output'.contracts[n] = contracts[n].object
    BY <1>1, <1>3 DEF OutputContracts, IsArtifactRequested, Wants
  <2>3. DOMAIN contracts = {n \in sources : HasContract(n)}
    <3>1. DOMAIN contracts = OrderedContracts
      BY <2>1 DEF ServeInv, StackInv, ContractsInv, AnalysisSuccess
    <3>2. QED
      BY <1>1, <2>1, <3>1, AnalysedSources DEF OrderedContracts
  <2>4. ASSUME NEW n \in Given(request)
        PROVE  /\ HasContract(n) <=> request.sources[n].text.contract
               /\ request.sources[n].text.contract /\ request.sources[n].text.deployable
                    => Deployable(n)
               /\ n \in sources
    <3>1. /\ n \in sources /\ ast[n] # NoAST
          /\ ast[n].content = request.sources[n].text
      BY <1>1, <2>1, AnalysedSources
    <3>2. QED
      BY <3>1 DEF HasContract, Deployable
  <2>5. \A n \in DOMAIN output'.contracts :
          Wants(request, n) /\ output'.contracts[n] \in {NoBuild, ObjectFor(request)}
    BY <1>1, <1>3, <2>2, CollectObjects
  <2>6. \A n \in Given(request) :
          request.sources[n].text.contract /\ Wants(request, n) <=> n \in DOMAIN output'.contracts
    BY <2>2, <2>3, <2>4
  <2>7. ASSUME \A p \in request.selection : p[1] # Star,
               NEW n \in Given(request) \cap DOMAIN output'.contracts,
               request.sources[n].text.deployable
        PROVE  output'.contracts[n] = ObjectFor(request)
    <3>1. n \in OutputContracts /\ n \in Given(request) /\ HasContract(n)
      BY <2>2, <2>3, <2>7
    <3>2. Deployable(n)
      BY <2>4, <2>7, <3>1
    <3>3. contracts[n].object # NoBuild
      BY <1>1, <1>3, <2>7, <3>1, <3>2, RequestedIsCompiled DEF ServeInv
    <3>4. QED
      BY <2>2, <2>5, <3>1, <3>3
  <2>8. QED
    BY <2>5, <2>6, <2>7 DEF ContractsAnswered
<1>4. QED
  BY <1>2, <1>3

\* What is in the request's own list when the answer is made.
LEMMA CollectedCounts ==
  ASSUME ServeInv, stage = "collect"
  PROVE  /\ found.errors > 0 => Collected.errors > 0
         /\ Threw => Collected.errors > 0
         /\ ~ContainsOnlyWarnings(reporter) /\ ~Threw => Collected.errors > 0
         /\ reporter.list.aborting > 0 /\ ~Threw => Collected.warnings > 0
         /\ ~Threw /\ stackState = Empty => Collected = found
<1>1. /\ found.errors \in Nat /\ found.warnings \in Nat
      /\ found = [errors |-> found.errors, warnings |-> found.warnings]
  BY DEF ServeInv, FailInv
<1>2. /\ reporter.list.errors \in Nat /\ reporter.list.warnings \in Nat
      /\ reporter.list.ignoring \in Nat /\ reporter.list.aborting \in Nat
  BY DEF ServeInv, StackInv, ParseInv, Typed, Reporter, ErrorList
<1>3. CASE Threw
  BY <1>1, <1>3 DEF Collected
<1>4. CASE ~Threw
  <2>1. /\ Collected.errors = found.errors + reporter.list.errors
        /\ Collected.warnings = found.warnings + reporter.list.warnings
                                  + reporter.list.ignoring + reporter.list.aborting
        /\ Collected = [errors |-> Collected.errors, warnings |-> Collected.warnings]
    BY <1>4 DEF Collected
  <2>2. stackState = Empty => Collected = found
    <3>1. stackState = Empty => reporter.list = NoDiagnostics
      BY DEF ServeInv, FailInv
    <3>2. stackState = Empty =>
            Collected.errors = found.errors /\ Collected.warnings = found.warnings
      BY <1>1, <2>1, <3>1 DEF NoDiagnostics
    <3>3. QED
      BY <1>1, <2>1, <3>2
  <2>3. ~ContainsOnlyWarnings(reporter) => Collected.errors > 0
    BY <1>1, <1>2, <2>1 DEF ContainsOnlyWarnings
  <2>4. found.errors > 0 => Collected.errors > 0
    BY <1>1, <1>2, <2>1
  <2>5. reporter.list.aborting > 0 => Collected.warnings > 0
    BY <1>1, <1>2, <2>1
  <2>6. QED
    BY <1>4, <2>2, <2>3, <2>4, <2>5
<1>5. QED
  BY <1>3, <1>4

\* There is nothing to report exactly for a request without a source and a mistake.
LEMMA NothingGiven ==
  ASSUME ServeInv, stage = "collect", pc = "idle"
  PROVE  ~CompilationSuccess /\ Collected = NothingFound
           <=> Given(request) = {} /\ ~HasMistake(request)
<1>1. ASSUME ~CompilationSuccess, Collected = NothingFound
      PROVE  Given(request) = {} /\ ~HasMistake(request)
  <2>1. ~(Collected.errors > 0) /\ ~(Collected.warnings > 0)
    BY <1>1 DEF NothingFound
  <2>2. ~Reported
    BY <2>1, CollectedCounts DEF Reported
  <2>3. stackState = Empty
    BY <1>1, <2>2 DEF ServeInv, FailInv
  <2>4. ~(found.errors > 0)
    BY <2>1, CollectedCounts
  <2>5. QED
    BY <2>3, <2>4 DEF ServeInv, GivenInv
<1>2. ASSUME Given(request) = {}, ~HasMistake(request)
      PROVE  ~CompilationSuccess /\ Collected = NothingFound
  <2>1. stackState = Empty /\ outcome = "false" /\ found = NothingFound
    BY <1>2 DEF ServeInv, GivenInv
  <2>2. ~Threw
    BY <2>1 DEF Threw
  <2>3. Collected = NothingFound
    BY <2>1, <2>2, CollectedCounts
  <2>4. QED
    BY <2>1, <2>3 DEF CompilationSuccess, Empty, CompilationSuccessful
<1>3. QED
  BY <1>1, <1>2

\* Every answer is one of its request.
LEMMA EveryAnswer ==
  ASSUME ServeInv,
         \/ RejectShape \/ RejectAuxiliaryInput \/ NothingToReport \/ Collect
         \/ \E n \in Name : InvalidSource(n)
         \/ ApplySettings /\ stage' = "idle"
  PROVE  /\ stage # "idle" /\ stage' = "idle" /\ UNCHANGED <<request, served>>
         /\ IsAnswer(request, output')
<1>1. stage # "idle" /\ stage' = "idle" /\ UNCHANGED <<request, served>>
  BY DEF RejectShape, RejectAuxiliaryInput, NothingToReport, Collect, InvalidSource,
    ApplySettings, SourcesDone, Answer
<1>2. CASE RejectShape
  BY <1>2 DEF RejectShape, Answer, IsAnswer, HasSources
<1>3. CASE \E n \in Name : InvalidSource(n)
  <2>1. PICK n \in Name : InvalidSource(n)
    BY <1>3
  <2>2. n \in DOMAIN request.sources /\ request.sources[n].kind = "invalid"
    BY <2>1 DEF InvalidSource, InputOf, ServeInv, FlowInv
  <2>3. output' = FatalOutput("JSONError")
    BY <2>1 DEF InvalidSource, Answer
  <2>4. QED
    BY <1>1, <2>2, <2>3 DEF IsAnswer, HasSources
<1>4. CASE RejectAuxiliaryInput \/ (ApplySettings /\ stage' = "idle")
  <2>1. /\ request.malformed # "none" /\ output' = FatalOutput(MalformedError(request.malformed))
        /\ stage = "sources" /\ inputs = {} /\ request.shape = "ok" /\ DOMAIN request.sources # {}
    BY <1>4 DEF RejectAuxiliaryInput, AuxiliaryParts, ApplySettings, SourcesDone, Answer
  <2>2. HasSources(request)
    BY <2>1 DEF ServeInv, GivenInv, HasSources
  <2>3. QED
    BY <1>1, <2>1, <2>2 DEF IsAnswer, WellFormed
<1>5. CASE NothingToReport
  <2>1. /\ stage = "collect" /\ pc = "idle" /\ ~CompilationSuccess
        /\ Collected = NothingFound /\ output' = FatalOutput("InternalCompilerError")
    BY <1>5 DEF NothingToReport, Answer
  <2>2. Given(request) = {} /\ ~HasMistake(request) /\ WellFormed(request)
    BY <2>1, NothingGiven DEF ServeInv, GivenInv
  <2>3. QED
    BY <1>1, <2>1, <2>2 DEF IsAnswer
<1>6. CASE Collect
  <2>1. /\ stage = "collect" /\ pc = "idle"
        /\ CompilationSuccess \/ Collected # NothingFound
        /\ output'.fatal = "none" /\ output'.found = Collected
    BY <1>6 DEF Collect, Answer
  <2>2. WellFormed(request) /\ (HasMistake(request) => found.errors > 0)
    BY <2>1 DEF ServeInv, GivenInv
  <2>3. Given(request) # {} \/ HasMistake(request)
    BY <2>1, NothingGiven
  <2>4. HasMistake(request) => output'.found.errors > 0
    BY <2>1, <2>2, CollectedCounts
  <2>5. QED
    BY <1>1, <1>6, <2>1, <2>2, <2>3, <2>4, CollectSources, CollectContracts DEF IsAnswer
<1>7. QED
  BY <1>2, <1>3, <1>4, <1>5, <1>6

\* A step of the compiler accepts, responds, or is none of its client's business.
LEMMA ServesStep ==
  ServeInv /\ [SCNext]_allVars => [Accept \/ Respond]_<<busy, request, output, served>>
<1> SUFFICES ASSUME ServeInv, [SCNext]_allVars
             PROVE  [Accept \/ Respond]_<<busy, request, output, served>>
  OBVIOUS
<1>1. CASE \E r \in Requests : Receive(r)
  <2>1. Accept
    BY <1>1 DEF Receive, Accept, busy
  <2>2. QED
    BY <2>1
<1>2. CASE \/ RejectShape \/ RejectAuxiliaryInput \/ NothingToReport \/ Collect
           \/ \E n \in Name : InvalidSource(n)
           \/ ApplySettings /\ stage' = "idle"
  <2>1. Respond
    BY <1>2, EveryAnswer DEF Respond, busy
  <2>2. QED
    BY <2>1
<1>3. CASE \/ \E n \in Name : AddContent(n) \/ HashMismatch(n) \/ AddFromUrls(n)
                              \/ NoUrlWorks(n) \/ AddResponse(n)
           \/ ApplySettings /\ stage' # "idle"
           \/ CallCompile \/ StackStep \/ UNCHANGED allVars
  <2>1. UNCHANGED <<request, output, served>> /\ (stage = "idle" <=> stage' = "idle")
    BY <1>3 DEF AddContent, HashMismatch, AddFromUrls, NoUrlWorks, TakesInput, AddResponse,
                ApplySettings, SourcesDone, Answer, CallCompile, StackStep, scVars, allVars
  <2>2. QED
    BY <2>1 DEF busy
<1>4. QED
  BY <1>1, <1>2, <1>3 DEF SCNext

\* To its client the compiler is one without memory: for every sequence of requests,
\* read callback, text and limit of the reporter, whatever failed before, each request is
\* accepted and answered once, by an output that it alone admits.
THEOREM ServesRequestsAlone == SCSpec => ServesEachAlone
<1>1. SCInit => SettingsInv /\ FailInv /\ GivenInv /\ QueryInv /\ BuiltInv
  BY DEF SCInit, Init, SettingsInv, FailInv, FailureReported, GivenInv, QueryInv, BuiltInv,
         NothingFound
<1>2. SCInit => ~busy /\ output = NoOutput /\ served = 0
  BY DEF SCInit, busy
<1>3. StackInv => ParseInv
  BY DEF StackInv
<1>4. StackInv /\ FlowInv /\ SettingsInv /\ FailInv /\ GivenInv /\ QueryInv /\ BuiltInv => ServeInv
  BY DEF ServeInv
<1>5. QED
  BY <1>1, <1>2, <1>3, <1>4, CompositionHolds, SettingsInvStep, FailInvStep, GivenInvStep,
     QueryInvStep, BuiltInvStep, ServesStep, PTL DEF SCSpec, ServesEachAlone

-----------------------------------------------------------------------------
(* Every request ends. *)

\* An upper bound for the steps of a request: one for each source and each answer to a
\* query, for the settings, for the call and for the answer, and those of compile().
RequestStepsLeft ==
  CASE stage = "idle" -> 0
    [] stage = "collect" -> StepsLeft + 1
    [] stage = "compile" -> MostSteps + 2
    [] stage = "sources" -> MostSteps + 3 + Cardinality(inputs)
                              + Cardinality(request.responses \ smt.responses)

MostRequestSteps == MostSteps + 3 + 2 * Cardinality(Name)

\* A step of a request always leaves fewer to do.
RequestsEnd ==
  /\ [](RequestStepsLeft \in 0..MostRequestSteps)
  /\ [][busy => RequestStepsLeft' < RequestStepsLeft]_allVars

\* The answers to queries come after the sources.
AnswersLast == stage = "sources" /\ inputs # {} => smt.responses = {}

LEMMA AnswersLastStep == FlowInv /\ AnswersLast /\ [SCNext]_allVars => AnswersLast'
<1> SUFFICES ASSUME FlowInv, AnswersLast, [SCNext]_allVars PROVE AnswersLast'
  OBVIOUS
<1>1. CASE \/ \E r \in Requests : Receive(r)
           \/ \E n \in Name : AddContent(n) \/ AddFromUrls(n)
  BY <1>1
  DEF AnswersLast, Receive, ResetDroppingSources, AddContent, AddFromUrls, AddSource,
      ResetAllButSources
<1>2. CASE \E n \in Name : HashMismatch(n) \/ NoUrlWorks(n)
  BY <1>2 DEF AnswersLast, HashMismatch, NoUrlWorks, TakesInput, vars
<1>3. CASE \E n \in Name : AddResponse(n)
  BY <1>3 DEF AnswersLast, AddResponse, scVars
<1>4. CASE \/ RejectShape \/ RejectAuxiliaryInput \/ NothingToReport \/ Collect
           \/ ApplySettings \/ CallCompile
           \/ \E n \in Name : InvalidSource(n)
  BY <1>4
  DEF AnswersLast, RejectShape, RejectAuxiliaryInput, NothingToReport, Collect, ApplySettings,
      CallCompile, InvalidSource, Answer
<1>5. CASE StackStep
  BY <1>5, MethodSteps DEF AnswersLast, StackStep, scVars, FlowInv
<1>6. CASE UNCHANGED allVars
  BY <1>6 DEF AnswersLast, allVars, vars, scVars
<1>7. QED
  BY <1>1, <1>2, <1>3, <1>4, <1>5, <1>6 DEF SCNext

\* What is counted of a request, stage by stage.
RequestBounds ==
  /\ RequestStepsLeft \in 0..MostRequestSteps
  /\ busy => RequestStepsLeft > 0
  /\ stage = "sources" => RequestStepsLeft >= MostSteps + 3

LEMMA RequestBounded == ParseInv /\ FlowInv /\ InPhase => RequestBounds
<1> SUFFICES ASSUME ParseInv, FlowInv, InPhase PROVE RequestBounds
  OBVIOUS
<1>1. StepsLeft \in 0..MostSteps /\ MostSteps \in Nat
  BY StepsBounded DEF StepsBound
<1>2. Cardinality(Name) \in Nat
  BY CountsHold DEF Counts
<1>3. CASE stage # "sources"
  BY <1>1, <1>2, <1>3 DEF FlowInv, RequestBounds, RequestStepsLeft, MostRequestSteps, busy
<1>4. CASE stage = "sources"
  <2>1. inputs \in SUBSET Name /\ request.responses \ smt.responses \in SUBSET Name
    BY <1>4, RequestAssumption, StackAssumption DEF FlowInv
  <2>2. /\ Cardinality(inputs) \in 0..Cardinality(Name)
        /\ Cardinality(request.responses \ smt.responses) \in 0..Cardinality(Name)
    BY <2>1, SomeNames
  <2>3. RequestStepsLeft = MostSteps + 3 + Cardinality(inputs)
                             + Cardinality(request.responses \ smt.responses)
    BY <1>4 DEF RequestStepsLeft
  <2>4. QED
    BY <1>1, <1>2, <1>4, <2>2, <2>3 DEF RequestBounds, MostRequestSteps
<1>5. QED
  BY <1>3, <1>4

\* Reading the sources and the answers ends.
LEMMA ReadingEnds ==
  ASSUME FlowInv, AnswersLast, ParseInv, InPhase,
         NEW n \in Name,
         \/ AddContent(n) \/ HashMismatch(n) \/ AddFromUrls(n) \/ NoUrlWorks(n)
         \/ AddResponse(n)
  PROVE  RequestStepsLeft' < RequestStepsLeft
<1> DEFINE open == request.responses \ smt.responses
<1>1. stage = "sources" /\ stage' = "sources" /\ request' = request
  BY DEF AddContent, HashMismatch, AddFromUrls, NoUrlWorks, AddResponse, TakesInput, scVars
<1>2. inputs \in SUBSET Name /\ open \in SUBSET Name
  BY <1>1, RequestAssumption, StackAssumption DEF FlowInv
<1>3. Cardinality(inputs) \in Nat /\ Cardinality(open) \in Nat /\ MostSteps \in Nat
  BY <1>2, SomeNames, StepsBounded DEF StepsBound
<1>4. /\ RequestStepsLeft = MostSteps + 3 + Cardinality(inputs) + Cardinality(open)
      /\ RequestStepsLeft' = MostSteps + 3 + Cardinality(inputs') + Cardinality(open')
  BY <1>1 DEF RequestStepsLeft
<1>5. CASE AddResponse(n)
  <2>1. n \in open /\ open' = open \ {n} /\ inputs' = inputs
    <3>1. n \in request.responses \ smt.responses
      BY <1>5 DEF AddResponse
    <3>2. smt' = [smt EXCEPT !.responses = @ \cup {n}] /\ inputs' = inputs
      BY <1>5 DEF AddResponse, AddSMTLib2Response, scVars
    <3>3. smt'.responses = smt.responses \cup {n} \/ smt'.responses = smt.responses
      BY <3>2
    <3>4. QED
      BY <1>1, <3>1, <3>2, <3>3
  <2>2. QED
    BY <1>2, <1>3, <1>4, <2>1, SomeNames
<1>6. CASE AddContent(n) \/ HashMismatch(n) \/ AddFromUrls(n) \/ NoUrlWorks(n)
  <2>1. n \in inputs /\ inputs' = inputs \ {n}
    BY <1>6 DEF AddContent, HashMismatch, AddFromUrls, NoUrlWorks, TakesInput
  <2>2. smt'.responses = smt.responses
    <3>1. smt.responses = {}
      BY <1>1, <2>1 DEF AnswersLast
    <3>2. smt' = [responses |-> {}, unhandled |-> {}] \/ smt' = smt
      BY <1>6
      DEF AddContent, HashMismatch, AddFromUrls, NoUrlWorks, AddSource, ResetAllButSources, vars
    <3>3. QED
      BY <3>1, <3>2
  <2>3. open' = open
    BY <1>1, <2>2
  <2>4. Cardinality(inputs') = Cardinality(inputs) - 1
    BY <1>2, <2>1, SomeNames
  <2>5. Cardinality(open') = Cardinality(open)
    BY <2>3
  <2> HIDE DEF open
  <2>6. QED
    BY <1>3, <1>4, <2>4, <2>5
<1>7. QED
  BY <1>5, <1>6

\* The stage an answer leaves is left for good.
LEMMA AnswerEnds ==
  ASSUME FlowInv, ParseInv, InPhase, busy, stage' = "idle"
  PROVE  RequestStepsLeft' < RequestStepsLeft
<1>1. RequestStepsLeft \in Nat /\ RequestStepsLeft > 0
  BY RequestBounded, CountsHold, StepsBounded
  DEF RequestBounds, MostRequestSteps, Counts, StepsBound
<1>2. RequestStepsLeft' = 0
  BY DEF RequestStepsLeft
<1>3. QED
  BY <1>1, <1>2

\* Every step of a request is one less.
LEMMA RequestStepEnds ==
  ASSUME FlowInv, ParseInv, ParseInv', InPhase, InPhase', AnswersLast, busy, SCNext
  PROVE  RequestStepsLeft' < RequestStepsLeft
<1>1. /\ StepsLeft \in 0..MostSteps /\ MostSteps \in Nat /\ StepsLeft' \in 0..MostSteps
      /\ RequestStepsLeft \in Int
      /\ stage = "sources" => RequestStepsLeft >= MostSteps + 3
  BY RequestBounded, StepsBounded, StepsNext, CountsHold
  DEF RequestBounds, MostRequestSteps, StepsBound, Counts
<1>2. CASE \/ RejectShape \/ RejectAuxiliaryInput \/ NothingToReport \/ Collect
           \/ \E n \in Name : InvalidSource(n)
  BY <1>2, AnswerEnds DEF RejectShape, RejectAuxiliaryInput, NothingToReport, Collect,
    InvalidSource, Answer
<1>3. CASE \E n \in Name : \/ AddContent(n) \/ HashMismatch(n) \/ AddFromUrls(n)
                           \/ NoUrlWorks(n) \/ AddResponse(n)
  BY <1>3, ReadingEnds
<1>4. CASE ApplySettings
  <2>1. stage = "sources" /\ stage' \in {"compile", "idle"}
    BY <1>4 DEF ApplySettings, SourcesDone, Answer
  <2>2. CASE stage' = "compile"
    <3>1. RequestStepsLeft' = MostSteps + 2
      BY <2>2 DEF RequestStepsLeft, MostSteps
    <3>2. QED
      BY <1>1, <2>1, <3>1
  <2>3. QED
    BY <2>1, <2>2, AnswerEnds
<1>5. CASE CallCompile
  <2>1. stage = "compile" /\ stage' = "collect"
    BY <1>5 DEF CallCompile
  <2>2. RequestStepsLeft = MostSteps + 2 /\ RequestStepsLeft' = StepsLeft' + 1
    BY <2>1 DEF RequestStepsLeft
  <2>3. \A a \in 0..MostSteps : a + 1 < MostSteps + 2
    BY <1>1
  <2>4. QED
    BY <1>1, <2>2, <2>3, Zenon
<1>6. CASE StackStep
  <2>1. stage = "collect" /\ stage' = "collect" /\ MethodStep
    BY <1>6, MethodSteps DEF StackStep, scVars, FlowInv
  <2>2. RequestStepsLeft = StepsLeft + 1 /\ RequestStepsLeft' = StepsLeft' + 1
    BY <2>1 DEF RequestStepsLeft
  <2>3. StepsLeft' < StepsLeft
    BY <2>1, MethodStepEnds
  <2>4. \A a, b \in 0..MostSteps : a < b => a + 1 < b + 1
    BY <1>1
  <2>5. QED
    BY <1>1, <2>2, <2>3, <2>4, Zenon
<1>7. CASE \E r \in Requests : Receive(r)
  BY <1>7 DEF Receive, busy
<1>8. QED
  BY <1>2, <1>3, <1>4, <1>5, <1>6, <1>7 DEF SCNext

\* The stack is in a phase throughout.
LEMMA PhaseInComposition == FlowInv /\ InPhase /\ [SCNext]_allVars => InPhase'
<1> SUFFICES ASSUME FlowInv, InPhase, [SCNext]_allVars PROVE InPhase'
  OBVIOUS
<1>1. CASE [Next]_vars
  BY <1>1, PhaseStep
<1>2. CASE ApplySettings \/ Collect
  BY <1>2 DEF ApplySettings, Collect, ChangeSettings, Leave, InPhase
<1>3. CASE UNCHANGED allVars
  BY <1>3 DEF allVars, vars, InPhase
<1>4. QED
  BY <1>1, <1>2, <1>3, StackSteps DEF SCNext

\* No request is worked on for ever: each step between its arrival and its answer leaves
\* fewer to do, and there are never more than MostRequestSteps.  This is what
\* RequestsAnswered rests on besides fairness.
THEOREM EveryRequestEnds == SCSpec => RequestsEnd
<1>1. SCInit => InPhase /\ AnswersLast
  BY DEF SCInit, Init, InPhase, AnswersLast
<1>2. StackInv => ParseInv
  BY DEF StackInv
<1>3. ParseInv /\ FlowInv /\ InPhase => RequestStepsLeft \in 0..MostRequestSteps
  BY RequestBounded DEF RequestBounds
<1>4. /\ FlowInv /\ ParseInv /\ ParseInv' /\ InPhase /\ InPhase' /\ AnswersLast
      /\ [SCNext]_allVars
      => [busy => RequestStepsLeft' < RequestStepsLeft]_allVars
  BY RequestStepEnds
<1>5. QED
  BY <1>1, <1>2, <1>3, <1>4, CompositionHolds, PhaseInComposition, AnswersLastStep, PTL
  DEF SCSpec, RequestsEnd

=============================================================================
