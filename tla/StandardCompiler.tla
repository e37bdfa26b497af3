-------------------------- MODULE StandardCompiler --------------------------
(***************************************************************************)
(* solidity::StandardCompiler (libsolidity/interface/StandardCompiler.cpp) *)
(* composed with the CompilerStack it owns: compileInternal() is the only  *)
(* client of the stack, and one StandardCompiler may serve any number of   *)
(* requests.  Each call it makes to the stack is one step.                 *)
(*                                                                         *)
(* A request is the JSON input by what compileInternal reads of it:        *)
(*   shape      "ok", or the check of its outer form that fails            *)
(*   sources    name -> Input (below)                                      *)
(*   responses  the SMT queries auxiliaryInput answers                     *)
(*   malformed  the first part behind the sources that is wrong, "none" if *)
(*              all are right                                              *)
(*   evmVersion, optimize    a value or Absent                             *)
(*   remapping, libraries, literal   with the code's defaults filled in    *)
(*   selection  outputSelection: a set of <<file, contract>> pairs, either *)
(*              of which may be Star, the second also NoName               *)
(* The contract of source n is <<n, n>>.                                   *)
(***************************************************************************)
EXTENDS CompilerStack

CONSTANTS Requests,     \* the requests a client may send
          Absent, Star, NoName,
          RequestBound  \* number of requests served

\* The parts behind the sources that may be malformed, the settings in the order they are read.
AuxiliaryParts == {"auxiliaryInput", "queryHash"}
SettingNames == << "settings", "evmVersion", "remappings", "optimizer", "optimizer.enabled",
                   "libraries", "metadata", "outputSelection" >>

\* Parts the code asks for a member of without a look at their JSON type.
Unchecked == {"auxiliaryInput", "settings", "optimizer", "metadata", "outputSelection"}

\* How a malformed part is answered: by a check of the code, or by the exception of the JSON
\* library (Json::LogicError), which compile() catches.
MalformedError(part) == IF part \in Unchecked THEN "InternalCompilerError" ELSE "JSONError"

\* Requests are typed as the code reads them: an input has what its kind says, and what
\* is not Absent is a value of the setting.  addSource() is called without isLibrary.
ASSUME RequestAssumption ==
  /\ RequestBound \in Nat
  /\ {Star, NoName} \cap Name = {}
  /\ FALSE \in IsLibraryArgs
  /\ \A r \in Requests :
       /\ DOMAIN r.sources \subseteq Name
       /\ \A n \in DOMAIN r.sources :
            LET input == r.sources[n]
            IN  /\ input.kind = "content" => input.text \in Contents
                /\ input.kind = "urls" => /\ input.text \in Contents \cup {NotFound}
                                          /\ input.failures \in Nat /\ input.mismatches \in Nat
       /\ r.malformed \in {"none"} \cup AuxiliaryParts
                             \cup {SettingNames[k] : k \in 1..Len(SettingNames)}
       /\ r.responses \subseteq Responses
       /\ r.evmVersion \in EVMVersions \cup {Absent}
       /\ r.optimize \in BOOLEAN \cup {Absent}
       /\ r.remapping \in Remappings /\ r.libraries \in Libraries /\ r.literal \in BOOLEAN
       /\ r.selection \subseteq (Name \cup {Star}) \X (Name \cup {Star, NoName})

VARIABLES request,   \* the input being served
          stage,     \* where compileInternal is
          inputs,    \* the sources it has still to add
          found,     \* errors and warnings in its own JSON list
          output,    \* the last answer
          served     \* requests so far

scVars == <<request, stage, inputs, found, output, served>>
allVars == <<vars, scVars>>

NothingFound == [errors |-> 0, warnings |-> 0]

NoOutput == [fatal |-> "none", found |-> NothingFound, sources |-> {},
             queries |-> {}, contracts |-> [n \in {} |-> NoBuild]]

\* formatFatalError: a single error and nothing else.
FatalOutput(type) == [NoOutput EXCEPT !.fatal = type, !.found.errors = 1]

SCInit ==
  /\ Init
  /\ request \in Requests
  /\ stage = "idle" /\ inputs = {} /\ served = 0
  /\ found = NothingFound
  /\ output = NoOutput

Answer(o) ==
  /\ stage' = "idle"
  /\ output' = o
  /\ inputs' = {} /\ found' = NothingFound
  /\ UNCHANGED <<request, served>>

\* A request arrives; the stack is reset before anything of it is looked at.
Receive(r) ==
  /\ stage = "idle" /\ served < RequestBound
  /\ ResetDroppingSources
  /\ request' = r /\ served' = served + 1
  /\ stage' = "sources"
  /\ inputs' = DOMAIN r.sources
  /\ found' = NothingFound /\ output' = NoOutput

\* Not an object, another language, no sources.
RejectShape ==
  /\ stage = "sources"
  /\ request.shape # "ok" \/ DOMAIN request.sources = {}
  /\ Answer(FatalOutput("JSONError"))
  /\ UNCHANGED vars

InputOf(n) == request.sources[n]

TakesInput(n) ==
  /\ stage = "sources" /\ request.shape = "ok"
  /\ n \in inputs
  /\ inputs' = inputs \ {n}
  /\ UNCHANGED <<request, stage, output, served>>

\* "content" whose hash is absent or matches.
AddContent(n) ==
  /\ TakesInput(n)
  /\ InputOf(n).kind = "content" /\ InputOf(n).match
  /\ AddSource(n, InputOf(n).text, FALSE)
  /\ UNCHANGED found

\* "content" with a hash that does not match: an error, and the next source.
HashMismatch(n) ==
  /\ TakesInput(n)
  /\ InputOf(n).kind = "content" /\ ~InputOf(n).match
  /\ found' = [found EXCEPT !.errors = @ + 1]
  /\ UNCHANGED vars

\* "urls": the first that can be read with a matching hash is added.  A mismatch is an
\* error even so; a failure is a warning then and an error otherwise.
AddFromUrls(n) ==
  /\ TakesInput(n)
  /\ InputOf(n).kind = "urls"
  /\ InputOf(n).text # NotFound
  /\ AddSource(n, InputOf(n).text, FALSE)
  /\ found' = [errors |-> found.errors + InputOf(n).mismatches,
               warnings |-> found.warnings + InputOf(n).failures]

NoUrlWorks(n) ==
  /\ TakesInput(n)
  /\ InputOf(n).kind = "urls"
  /\ InputOf(n).text = NotFound
  /\ found' = [found EXCEPT !.errors = @ + InputOf(n).mismatches + InputOf(n).failures]
  /\ UNCHANGED vars

\* Neither "content" nor "urls": the request ends, sources added so far stay.
InvalidSource(n) ==
  /\ stage = "sources" /\ request.shape = "ok"
  /\ n \in inputs
  /\ InputOf(n).kind = "invalid"
  /\ Answer(FatalOutput("JSONError"))
  /\ UNCHANGED vars

AddResponse(n) ==
  /\ stage = "sources" /\ request.shape = "ok" /\ inputs = {} /\ DOMAIN request.sources # {}
  /\ n \in request.responses \ smt.responses
  /\ AddSMTLib2Response(n)
  /\ UNCHANGED scVars

\* The answers to queries are no object, one is no text or is for no hash: others may have been
\* added before it.
RejectAuxiliaryInput ==
  /\ stage = "sources" /\ request.shape = "ok" /\ inputs = {} /\ DOMAIN request.sources # {}
  /\ request.malformed \in AuxiliaryParts
  /\ Answer(FatalOutput(MalformedError(request.malformed)))
  /\ UNCHANGED vars

SourcesDone ==
  /\ stage = "sources" /\ request.shape = "ok" /\ inputs = {} /\ DOMAIN request.sources # {}
  /\ request.responses \subseteq smt.responses
  /\ request.malformed \notin AuxiliaryParts

-----------------------------------------------------------------------------
(* Settings. *)

\* Mutant: "*" as a contract name is not treated as a wildcard.
StarIsAName(selection) ==
  IF \E p \in selection : p[2] = NoName THEN {}
  ELSE {IF p[1] = p[2] THEN p[1] ELSE NoSuchContract : p \in selection}

\* requestedContractNames(): a contract "*" or "" anywhere means no filter; otherwise
\* "<file>:<contract>", where the file "*" becomes the empty name.
RequestedContractNames(selection) ==
  IF \E p \in selection : p[2] \in {Star, NoName} THEN {}
  ELSE {IF p[1] = p[2] THEN p[1] ELSE NoSuchContract : p \in selection}

\* The settings are read in order up to the malformed one.
Reaches(k) == \A j \in 1..k : SettingNames[j] # request.malformed

\* Mutant: the metadata setting is only passed on when the request has it.
LiteralOnlyWhenSet ==
  [settings EXCEPT
     !.evmVersion = IF Reaches(2) /\ request.evmVersion # Absent THEN request.evmVersion ELSE @,
     !.remapping = IF Reaches(3) THEN request.remapping ELSE @,
     !.optimize = IF Reaches(5) /\ request.optimize # Absent THEN request.optimize ELSE @,
     !.libraries = IF Reaches(6) THEN request.libraries ELSE @,
     !.literal = IF Reaches(7) /\ request.literal THEN TRUE ELSE @,
     !.requested = IF Reaches(8) THEN RequestedContractNames(request.selection) ELSE @]

NewSettings ==
  [settings EXCEPT
     !.evmVersion = IF Reaches(2) /\ request.evmVersion # Absent THEN request.evmVersion ELSE @,
     !.remapping = IF Reaches(3) THEN request.remapping ELSE @,
     !.optimize = IF Reaches(5) /\ request.optimize # Absent THEN request.optimize ELSE @,
     !.libraries = IF Reaches(6) THEN request.libraries ELSE @,
     !.literal = IF Reaches(7) THEN request.literal ELSE @,
     !.requested = IF Reaches(8) THEN RequestedContractNames(request.selection) ELSE @]

ApplySettings ==
  /\ SourcesDone
  /\ ChangeSettings(NewSettings)
  /\ \/ /\ request.malformed = "none"
        /\ stage' = "compile"
        /\ UNCHANGED <<request, inputs, found, output, served>>
     \/ /\ request.malformed # "none"
        /\ Answer(FatalOutput(MalformedError(request.malformed)))

-----------------------------------------------------------------------------
(* compile() and the answer. *)

CallCompile ==
  /\ stage = "compile"
  /\ ParseRefused("compile") \/ StartParse("compile")
  /\ stage' = "collect"
  /\ UNCHANGED <<request, inputs, found, output, served>>

StackStep ==
  /\ MethodStep
  /\ UNCHANGED scVars

Threw == outcome \in {"FatalError", "InternalCompilerError", "CompilerError"}

\* Mutant: the stack's list is appended whether or not compile() threw.
CollectAlways ==
  [errors |-> found.errors + reporter.list.errors,
   warnings |-> found.warnings + reporter.list.warnings + reporter.list.ignoring
                  + reporter.list.aborting]

\* The list of the stack is appended, unless compile() threw: then the exception is,
\* and the list is not looked at.
Collected ==
  IF Threw THEN [found EXCEPT !.errors = @ + 1]
  ELSE [errors |-> found.errors + reporter.list.errors,
        warnings |-> found.warnings + reporter.list.warnings + reporter.list.ignoring
                       + reporter.list.aborting]

\* isArtifactRequested() for the bytecode of n's contract.
IsArtifactRequested(n) ==
  \E p \in request.selection : p[1] \in {n, Star} /\ p[2] \in {n, Star}

AnalysisSuccess == stackState >= AnalysisSuccessful
CompilationSuccess == stackState = CompilationSuccessful

\* The contracts whose bytecode the answer holds.
OutputContracts ==
  IF CompilationSuccess THEN {n \in DOMAIN contracts : IsArtifactRequested(n)} ELSE {}

\* "No error reported, but compilation failed."
NothingToReport ==
  /\ stage = "collect" /\ pc = "idle"
  /\ ~CompilationSuccess /\ Collected = NothingFound
  /\ Answer(FatalOutput("InternalCompilerError"))
  /\ UNCHANGED vars

\* The answer; bytecode comes with sourceMapping(), which caches it in the contract.
Collect ==
  /\ stage = "collect" /\ pc = "idle"
  /\ CompilationSuccess \/ Collected # NothingFound
  /\ Answer([fatal |-> "none", found |-> Collected,
             sources |-> IF AnalysisSuccess THEN sources ELSE {},
             queries |-> smt.unhandled,
             contracts |-> [n \in OutputContracts |-> contracts[n].object]])
  /\ contracts' = [n \in DOMAIN contracts |->
       IF n \in OutputContracts /\ contracts[n].sourceMapping = NoBuild
       THEN [contracts[n] EXCEPT !.sourceMapping = contracts[n].compiler]
       ELSE contracts[n]]
  /\ UNCHANGED <<stackState, sourceVars, sourceOrder, settings, reporter, smt, op, pc,
                 loopVars, outcome>>

SCNext ==
  \/ \E r \in Requests : Receive(r)
  \/ RejectShape \/ RejectAuxiliaryInput
  \/ \E n \in Name : AddContent(n) \/ HashMismatch(n) \/ AddFromUrls(n) \/ NoUrlWorks(n)
                     \/ InvalidSource(n) \/ AddResponse(n)
  \/ ApplySettings \/ CallCompile \/ StackStep \/ NothingToReport \/ Collect

SCSpec == SCInit /\ [][SCNext]_allVars /\ WF_allVars(SCNext)

-----------------------------------------------------------------------------
\* When compile() runs, its settings are those of this request with the documented
\* defaults for what it does not say; nothing is left of an earlier request, also of
\* one that failed half way, although reset() does not reset everything.
RequestSettingsEffective ==
  stage = "collect" /\ pc # "idle" =>
    settings = [optimize |-> IF request.optimize = Absent THEN FALSE ELSE request.optimize,
                evmVersion |-> IF request.evmVersion = Absent THEN DefaultEVMVersion
                               ELSE request.evmVersion,
                libraries |-> request.libraries, literal |-> request.literal,
                requested |-> RequestedContractNames(request.selection),
                remapping |-> request.remapping]

\* Every source an answer lists is part of the request or imported, directly or not, by
\* a source of it: the text of an earlier request is never compiled again.
NoForeignSources ==
  stage = "collect" /\ AnalysisSuccess =>
    sources = Closure(sources \cap DOMAIN request.sources, ImportedBy)

\* An answer without all the contracts it should have says so: compile() failed only
\* with an error, or with the notice that errors were dropped, in the list.
FailureReported ==
  stage = "idle" /\ served > 0 =>
    \/ output.found.errors > 0
    \/ reporter.list.aborting > 0 /\ output.found.warnings > 0
    \/ CompilationSuccess

\* A contract whose bytecode is requested by its file has bytecode in the answer, if it
\* can be deployed (no request of this kind is lost between the two ways the code reads
\* outputSelection: to choose what to compile and to choose what to print).
RequestedByFileCompiled ==
  stage = "idle" /\ (\A p \in request.selection : p[1] # Star) =>
    \A n \in DOMAIN output.contracts : Deployable(n) => output.contracts[n] # NoBuild

\* Every request is answered.
RequestsAnswered == stage # "idle" ~> stage = "idle"

-----------------------------------------------------------------------------
(* What a client may rely on: a compiler without memory. *)

\* The sources whose text the request supplies; an input that is an error.
Supplies(input) ==
  \/ input.kind = "content" /\ input.match
  \/ input.kind = "urls" /\ input.text # NotFound

Given(r) == {n \in DOMAIN r.sources : Supplies(r.sources[n])}

Mistaken(input) ==
  \/ input.kind = "content" /\ ~input.match
  \/ input.kind = "urls" /\ input.mismatches > 0
  \/ input.kind = "urls" /\ input.text = NotFound /\ input.failures > 0

HasMistake(r) == \E n \in DOMAIN r.sources : Mistaken(r.sources[n])

HasSources(r) ==
  /\ r.shape = "ok" /\ DOMAIN r.sources # {}
  /\ \A n \in DOMAIN r.sources : r.sources[n].kind # "invalid"

WellFormed(r) == HasSources(r) /\ r.malformed = "none"

\* The only object that may be an answer to r: its settings, its libraries.
ObjectFor(r) ==
  [build |-> [optimize |-> IF r.optimize = Absent THEN FALSE ELSE r.optimize,
              evmVersion |-> IF r.evmVersion = Absent THEN DefaultEVMVersion
                             ELSE r.evmVersion,
              libraries |-> r.libraries, literal |-> r.literal],
   linked |-> r.libraries]

Wants(r, n) == \E p \in r.selection : p[1] \in {n, Star} /\ p[2] \in {n, Star}

\* What an answer says of the sources and of the texts the request gives.
SourcesAnswered(r, o) ==
  /\ o.sources # {} => Given(r) # {} /\ Given(r) \subseteq o.sources
  /\ o.queries \subseteq o.sources /\ DOMAIN o.contracts \subseteq o.sources
  /\ \A n \in Given(r) \cap o.sources :
       n \in o.queries <=> r.sources[n].text.query /\ n \notin r.responses

\* The contracts of a request: all that it wants or none, none only with a report, and
\* in an object nothing but what this request asks for.
ContractsAnswered(r, o) ==
  /\ \A n \in DOMAIN o.contracts : Wants(r, n) /\ o.contracts[n] \in {NoBuild, ObjectFor(r)}
  /\ DOMAIN o.contracts # {} \/ o.found = NothingFound =>
       \A n \in Given(r) : r.sources[n].text.contract /\ Wants(r, n) <=> n \in DOMAIN o.contracts
  /\ (\A p \in r.selection : p[1] # Star) =>
       \A n \in Given(r) \cap DOMAIN o.contracts :
         r.sources[n].text.deployable => o.contracts[n] = ObjectFor(r)

\* The outputs that r admits, whatever the compiler served before.
IsAnswer(r, o) ==
  \/ ~HasSources(r) /\ o = FatalOutput("JSONError")
  \/ HasSources(r) /\ ~WellFormed(r) /\ o = FatalOutput(MalformedError(r.malformed))
  \/ /\ WellFormed(r) /\ Given(r) = {} /\ ~HasMistake(r)
     /\ o = FatalOutput("InternalCompilerError")
  \/ /\ WellFormed(r) /\ (Given(r) # {} \/ HasMistake(r))
     /\ o.fatal = "none"
     /\ HasMistake(r) => o.found.errors > 0
     /\ SourcesAnswered(r, o) /\ ContractsAnswered(r, o)

busy == stage # "idle"

Accept ==
  /\ ~busy /\ busy'
  /\ request' \in Requests
  /\ output' = NoOutput /\ served' = served + 1

Respond ==
  /\ busy /\ ~busy'
  /\ IsAnswer(request, output')
  /\ UNCHANGED <<request, served>>

\* Refinement: to its client, the compiler with its one stack, its reporter and all it
\* keeps between requests is one that accepts a request and responds with an output
\* that this request alone admits, once.
ServesEachAlone ==
  /\ ~busy /\ output = NoOutput /\ served = 0
  /\ [][Accept \/ Respond]_<<busy, request, output, served>>

=============================================================================
