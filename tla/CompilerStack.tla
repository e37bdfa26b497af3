--------------------------- MODULE CompilerStack ---------------------------
(***************************************************************************)
(* solidity::CompilerStack (libsolidity/interface/CompilerStack.{h,cpp}):  *)
(* the object that holds the sources and carries them through parsing,     *)
(* analysis and code generation.  Its client (solc, StandardCompiler, a    *)
(* test) may call the public methods in any order and any number of times. *)
(*                                                                         *)
(* A public method that loops is a sequence of steps, one per source or    *)
(* contract it handles; no other method can be called before it returns    *)
(* (pc = "idle").  The std::map and std::vector orders of those loops are  *)
(* left open: names are opaque, so any order is allowed.                   *)
(*                                                                         *)
(* A source text is a Content record; it says what each stage will find:   *)
(*   parse       "ok", "error" (a recoverable parser error), "fatal"       *)
(*   imports     the paths it imports                                      *)
(*   defect      the analysis pass that finds an error in it, or NoDefect  *)
(*   fatal       whether that error is reported by a fatal...Error method  *)
(*   warns       the static analyzer has a warning for it                  *)
(*   contract    it defines a contract (at most one, so a contract is      *)
(*               named by its source; "deployable" when compileContract    *)
(*               does not skip it)                                         *)
(*   deps        imported paths whose contract it creates with "new"       *)
(*   query       the SMT checker has a query for it (a query is identified *)
(*               by its source)                                            *)
(***************************************************************************)
EXTENDS ErrorReporter, FiniteSets, Sequences

CONSTANTS
  Name,            \* source unit names, also import paths
  Contents,        \* the source texts
  NoAST,           \* a null shared_ptr<SourceUnit>
  NotFound,        \* the read callback's failure
  NoBuild,         \* nothing generated yet
  ReadResults,     \* what m_readFile may answer
  Remappings,      \* the sets of remappings a client may set, each a function
                   \* from import path to source unit name
  DefaultRemapping,
  EVMVersions, DefaultEVMVersion,
  Libraries, NoLibraries,
  RequestedSets,   \* arguments of setRequestedContractNames
  OptimizeArgs,    \* arguments of setOptimiserSettings
  LiteralArgs,     \* arguments of useMetadataLiteralSources
  IsLibraryArgs,   \* arguments of addSource
  NoSuchContract,  \* a requested name that no contract has
  Responses,       \* queries a client may answer
  Prerelease,      \* the build's version string is a prerelease
  ReportBound      \* no method is called once a counter of the reporter exceeds it

Empty == 0
SourcesSet == 1
ParsingSuccessful == 2
AnalysisSuccessful == 3
CompilationSuccessful == 4

\* The stages of analyze(), in order.  (CFG::constructFlow reports nothing of its
\* own and is part of "controlFlow".)
Passes == << "syntax", "docStrings", "registerDeclarations", "performImports",
             "resolveNames", "contractLevel", "types", "postTypes",
             "controlFlow", "static", "viewPure", "smt" >>

NoDefect == "none"

PartialMap(S, T) == UNION {[D -> T] : D \in SUBSET S}

AST == [content : Contents, imports : PartialMap(Name, Name)]

Settings == [optimize : BOOLEAN, evmVersion : EVMVersions, libraries : Libraries,
             literal : BOOLEAN, requested : SUBSET (Name \cup {NoSuchContract}),
             remapping : Remappings]

\* What a Compiler object and the metadata are made from.
Build == [optimize : BOOLEAN, evmVersion : EVMVersions, libraries : Libraries,
          literal : BOOLEAN]

\* An assembled object: what it was built from, the settings its metadata hash
\* covers included, and the libraries whose addresses were linked into it.
Object == [build : Build, linked : Libraries]

Contract == [compiler : Build \cup {NoBuild}, metadata : Build \cup {NoBuild},
             object : Object \cup {NoBuild}, runtimeObject : Object \cup {NoBuild},
             sourceMapping : Build \cup {NoBuild}]

NewContract == [compiler |-> NoBuild, metadata |-> NoBuild, object |-> NoBuild,
                runtimeObject |-> NoBuild, sourceMapping |-> NoBuild]

ASSUME StackAssumption ==
  /\ IsFiniteSet(Name) /\ Name # {} /\ Contents # {}
  /\ NoAST \notin AST
  /\ NotFound \notin Contents
  /\ NoBuild \notin Build \cup Object
  /\ ReadResults \subseteq Contents \cup {NotFound}
  /\ Remappings \subseteq [Name -> Name] /\ DefaultRemapping \in Remappings
  /\ DefaultEVMVersion \in EVMVersions
  /\ NoLibraries \in Libraries
  /\ RequestedSets \subseteq SUBSET (Name \cup {NoSuchContract})
  /\ NoSuchContract \notin Name
  /\ OptimizeArgs \cup LiteralArgs \cup IsLibraryArgs \cup {Prerelease} \subseteq BOOLEAN
  /\ Responses \subseteq Name
  /\ ReportBound \in Nat
  /\ \A c \in Contents :
       /\ c.parse \in {"ok", "error", "fatal"}
       /\ c.imports \subseteq Name
       /\ c.deps \subseteq c.imports
       /\ c.defect # "smt"     \* SMTChecker reports warnings only
       /\ c.defect \in {"resolveNames", "contractLevel", "types"} => c.contract
       /\ {c.fatal, c.warns, c.contract, c.deployable, c.query} \subseteq BOOLEAN

VARIABLES
  stackState,     \* m_stackState
  sources,        \* the keys of m_sources
  scanner,        \* for a key: the text its Scanner holds
  ast,            \* for a key: its SourceUnit
  isLibrary,
  sourceOrder,    \* m_sourceOrder, as a set
  contracts,      \* m_contracts, keyed by the source that defines the contract
  settings,       \* the settings and the remappings
  reporter,       \* m_errorReporter
  smt,            \* m_smtlib2Responses and m_unhandledSMTLib2Queries
  op,             \* the public method being executed, or the last one
  pc,             \* where it is
  todo,           \* the sources or contracts its loop has still to handle
  current,        \* the source whose imports are being loaded
  pending,        \* the imports of it not yet looked at
  newSources,     \* loadMissingSources' result so far
  pass,           \* index in Passes
  noErrors,       \* analyze()'s flag
  outcome         \* what the last method returned or threw

sourceVars == <<sources, scanner, ast, isLibrary>>
loopVars == <<todo, current, pending, newSources, pass, noErrors>>
vars == <<stackState, sourceVars, sourceOrder, contracts, settings, reporter,
          smt, op, pc, loopVars, outcome>>

Outcomes == {"none", "true", "false", "FatalError", "InternalCompilerError",
             "CompilerError"}

DefaultSettings ==
  [optimize |-> FALSE, evmVersion |-> DefaultEVMVersion, libraries |-> NoLibraries,
   literal |-> FALSE, requested |-> {}, remapping |-> DefaultRemapping]

CurrentBuild == [optimize |-> settings.optimize, evmVersion |-> settings.evmVersion,
                 libraries |-> settings.libraries, literal |-> settings.literal]

\* The least set that contains S and is closed under next \in [Name -> SUBSET Name].
Closure(S, next) ==
  {n \in Name : \A T \in SUBSET Name :
                   S \subseteq T /\ (\A m \in T : next[m] \subseteq T) => n \in T}

ImportedBy == [n \in Name |->
  IF n \in sources /\ ast[n] # NoAST
  THEN {ast[n].imports[i] : i \in DOMAIN ast[n].imports} ELSE {}]

HasContract(n) == ast[n] # NoAST /\ ast[n].content.contract

Deployable(n) == HasContract(n) /\ ast[n].content.deployable

\* annotation().contractDependencies
DependsOn == [n \in Name |->
  IF n \in sources /\ HasContract(n)
  THEN {m \in {ast[n].imports[d] : d \in ast[n].content.deps \cap DOMAIN ast[n].imports} :
          m \in sources /\ HasContract(m)}
  ELSE {}]

\* The dependencies known when the type checker is at n: those of the contracts it has
\* checked.  (Those an earlier analyze() of the same trees left only add errors to an
\* analysis that fails anyway.)
KnownWhenAt(n) == [m \in Name |-> IF m \in todo \ {n} THEN {} ELSE DependsOn[m]]

\* Mutant: only a contract that creates itself directly is rejected.
CreatesDirectly(n) == n \in DependsOn[n]

\* contractDependenciesAreCyclic: some chain of "new" expressions that starts at the
\* contract comes back to where it was.
DependenciesAreCyclic(n) ==
  \E m \in Closure({n}, KnownWhenAt(n)) : m \in Closure(KnownWhenAt(n)[m], KnownWhenAt(n))

\* A local variable that does not exist at the moment, or the value of a name that
\* is no key of m_sources.
AnyName == CHOOSE n \in Name : TRUE
AnyText == CHOOSE c \in Contents : TRUE

-----------------------------------------------------------------------------
Init ==
  /\ stackState = Empty
  /\ sources = {}
  /\ scanner = [n \in Name |-> AnyText]
  /\ ast = [n \in Name |-> NoAST]
  /\ isLibrary = [n \in Name |-> FALSE]
  /\ sourceOrder = {}
  /\ contracts = [n \in {} |-> NewContract]
  /\ settings = DefaultSettings
  /\ reporter = NewReporter
  /\ smt = [responses |-> {}, unhandled |-> {}]
  /\ op = "none" /\ pc = "idle"
  /\ todo = {} /\ pending = {} /\ newSources = [n \in {} |-> NotFound]
  /\ current = AnyName
  /\ pass = 1 /\ noErrors = TRUE
  /\ outcome = "none"

\* The client calls a method: the previous one has returned.
Call(method) ==
  /\ pc = "idle"
  /\ op' = method

\* The method returns (or throws) with this outcome.
Leave(result) ==
  /\ pc' = "idle"
  /\ outcome' = result
  /\ todo' = {} /\ pending' = {} /\ newSources' = [n \in {} |-> NotFound]
  /\ current' = AnyName /\ pass' = 1 /\ noErrors' = TRUE

\* Mutant: reset() leaves the contracts of the previous sources.
ResetKeepingContracts ==
  /\ smt' = [responses |-> {}, unhandled |-> {}]
  /\ settings' = [settings EXCEPT !.libraries = NoLibraries,
                                  !.evmVersion = DefaultEVMVersion,
                                  !.optimize = FALSE]
  /\ sourceOrder' = {}
  /\ contracts' = contracts
  /\ reporter' = Clear(reporter)

\* What reset() does apart from m_sources and the state.  The requested names,
\* useMetadataLiteralSources and the remappings are not touched; the reporter's
\* list is cleared, its counters are not.
ResetAllButSources ==
  /\ smt' = [responses |-> {}, unhandled |-> {}]
  /\ settings' = [settings EXCEPT !.libraries = NoLibraries,
                                  !.evmVersion = DefaultEVMVersion,
                                  !.optimize = FALSE]
  /\ sourceOrder' = {}
  /\ contracts' = [n \in {} |-> NewContract]
  /\ reporter' = Clear(reporter)

\* reset(true): the loop that should reset every Source works on copies of them,
\* so scanners and syntax trees stay.
ResetKeepingSources ==
  /\ Call("reset")
  /\ stackState' = SourcesSet
  /\ ResetAllButSources
  /\ Leave("none")
  /\ UNCHANGED sourceVars

\* Mutant: reset(false) forgets to clear m_sources.
ResetWithoutClear ==
  /\ Call("reset")
  /\ stackState' = Empty
  /\ ResetAllButSources
  /\ Leave("none")
  /\ UNCHANGED sourceVars

\* reset(false)
ResetDroppingSources ==
  /\ Call("reset")
  /\ stackState' = Empty
  /\ sources' = {}
  /\ scanner' = [n \in Name |-> AnyText]
  /\ ast' = [n \in Name |-> NoAST]
  /\ isLibrary' = [n \in Name |-> FALSE]
  /\ ResetAllButSources
  /\ Leave("none")

AddSource(n, c, lib) ==
  /\ Call("addSource")
  /\ stackState' = SourcesSet
  /\ ResetAllButSources
  /\ sources' = sources \cup {n}
  /\ scanner' = [scanner EXCEPT ![n] = c]
  /\ isLibrary' = [isLibrary EXCEPT ![n] = lib]
  /\ Leave(IF n \in sources THEN "true" ELSE "false")
  /\ UNCHANGED ast

-----------------------------------------------------------------------------
(* Settings. *)

ChangeSettings(new) ==
  /\ Call("settings")
  /\ settings' = new
  /\ Leave("none")
  /\ UNCHANGED <<stackState, sourceVars, sourceOrder, contracts, reporter, smt>>

SetOptimiserSettings == \E b \in OptimizeArgs : ChangeSettings([settings EXCEPT !.optimize = b])

SetLibraries == \E l \in Libraries : ChangeSettings([settings EXCEPT !.libraries = l])

SetRequestedContractNames ==
  \E s \in RequestedSets : ChangeSettings([settings EXCEPT !.requested = s])

UseMetadataLiteralSources ==
  \E b \in LiteralArgs : ChangeSettings([settings EXCEPT !.literal = b])

SetRemappings == \E r \in Remappings : ChangeSettings([settings EXCEPT !.remapping = r])

SetEVMVersion ==
  /\ stackState < ParsingSuccessful
  /\ \E v \in EVMVersions : ChangeSettings([settings EXCEPT !.evmVersion = v])

\* The assertion "Set EVM version after parsing." fails.
SetEVMVersionTooLate ==
  /\ stackState >= ParsingSuccessful
  /\ Call("settings")
  /\ Leave("InternalCompilerError")
  /\ UNCHANGED <<stackState, sourceVars, sourceOrder, contracts, settings, reporter, smt>>

AddSMTLib2Response(n) ==
  /\ Call("addSMTLib2Response")
  /\ smt' = [smt EXCEPT !.responses = @ \cup {n}]
  /\ Leave("none")
  /\ UNCHANGED <<stackState, sourceVars, sourceOrder, contracts, settings, reporter>>

\* sourceMapping(): computed from the compiler's items once, then cached in the
\* contract.  contract() throws for an unknown name and asserts the state.
SourceMapping(n) ==
  /\ Call("sourceMapping")
  /\ stackState >= AnalysisSuccessful
  /\ n \in DOMAIN contracts
  /\ contracts' = [contracts EXCEPT ![n].sourceMapping =
                      IF @ = NoBuild THEN contracts[n].compiler ELSE @]
  /\ pc' = "idle" /\ outcome' = "none" /\ current' = n
  /\ UNCHANGED <<stackState, sourceVars, sourceOrder, settings, reporter, smt,
                 todo, pending, newSources, pass, noErrors>>

-----------------------------------------------------------------------------
(* parse() *)

\* The client calls a method that may report.
CallReporting(method) ==
  /\ Call(method)
  /\ reporter.errorCount <= ReportBound
  /\ reporter.warningCount <= ReportBound

\* The methods that start by parsing.
CallsParse(method) ==
  /\ method \in {"parse", "parseAndAnalyze", "compile"}
  /\ method = "compile" => stackState < AnalysisSuccessful
  /\ CallReporting(method)

\* "if (m_stackState != SourcesSet) return false"
ParseRefused(method) ==
  /\ CallsParse(method)
  /\ stackState # SourcesSet
  /\ Leave("false")
  /\ UNCHANGED <<stackState, sourceVars, sourceOrder, contracts, settings, reporter, smt>>

StartParse(method) ==
  /\ CallsParse(method)
  /\ stackState = SourcesSet
  /\ reporter' = IF Prerelease THEN Warning(Clear(reporter)) ELSE Clear(reporter)
  /\ pc' = "parse"
  /\ todo' = sources
  /\ UNCHANGED <<stackState, sourceVars, sourceOrder, contracts, settings, smt,
                 current, pending, newSources, pass, noErrors, outcome>>

\* What Parser::parse leaves in the reporter for this text, and whether it gives up
\* (it catches the FatalError and returns null).
ParserReport(c) == IF c.parse = "ok" THEN reporter ELSE Error(reporter)
ParserGivesUp(c) == c.parse = "fatal" \/ (c.parse = "error" /\ ErrorThrows(reporter))

ParseSource(n) ==
  /\ pc = "parse" /\ n \in todo
  /\ ~ParserGivesUp(scanner[n])
  /\ reporter' = ParserReport(scanner[n])
  /\ ast' = [ast EXCEPT ![n] = [content |-> scanner[n], imports |-> [i \in {} |-> n]]]
  /\ pc' = "load"
  /\ current' = n
  /\ todo' = todo \ {n}
  /\ pending' = scanner[n].imports
  /\ newSources' = [i \in {} |-> NotFound]
  /\ UNCHANGED <<stackState, sources, scanner, isLibrary, sourceOrder, contracts,
                 settings, smt, op, pass, noErrors, outcome>>

\* No tree: the source is skipped, unless the assertion "Parser returned null but
\* did not report error." fails, which leaves parse() altogether.
ParseSourceGivesUp(n) ==
  /\ pc = "parse" /\ n \in todo
  /\ ParserGivesUp(scanner[n])
  /\ reporter' = ParserReport(scanner[n])
  /\ ast' = [ast EXCEPT ![n] = NoAST]
  /\ \/ /\ ContainsOnlyWarnings(ParserReport(scanner[n]))
        /\ Leave("InternalCompilerError")
     \/ /\ ~ContainsOnlyWarnings(ParserReport(scanner[n]))
        /\ todo' = todo \ {n}
        /\ UNCHANGED <<pc, current, pending, newSources, pass, noErrors, outcome>>
  /\ UNCHANGED <<stackState, sources, scanner, isLibrary, sourceOrder, contracts,
                 settings, smt, op>>

\* loadMissingSources annotates the import with its global path ...
AnnotateImport(i) ==
  /\ pc = "load" /\ i \in pending
  /\ ast' = [ast EXCEPT ![current].imports =
               [j \in DOMAIN @ \cup {i} |->
                  IF j = i THEN settings.remapping[i] ELSE @[j]]]
  /\ UNCHANGED <<stackState, sources, scanner, isLibrary, sourceOrder, contracts,
                 settings, smt, op>>

\* ... and goes on when the source is there already ...
ImportKnown(i) ==
  /\ AnnotateImport(i)
  /\ settings.remapping[i] \in sources \cup DOMAIN newSources
  /\ pending' = pending \ {i}
  /\ UNCHANGED <<reporter, pc, todo, newSources, current, pass, noErrors, outcome>>

\* ... or asks the read callback, which finds it ...
ImportRead(i, answer) ==
  /\ AnnotateImport(i)
  /\ settings.remapping[i] \notin sources \cup DOMAIN newSources
  /\ answer # NotFound
  /\ newSources' = [m \in DOMAIN newSources \cup {settings.remapping[i]} |->
                      IF m = settings.remapping[i] THEN answer ELSE newSources[m]]
  /\ pending' = pending \ {i}
  /\ UNCHANGED <<reporter, pc, todo, current, pass, noErrors, outcome>>

\* ... or does not.  Nothing in parse() catches the FatalError of an error past the
\* limit: the exception leaves the method and takes newSources with it.
ImportNotFound(i) ==
  /\ AnnotateImport(i)
  /\ settings.remapping[i] \notin sources \cup DOMAIN newSources
  /\ NotFound \in ReadResults
  /\ reporter' = Error(reporter)
  /\ \/ /\ ErrorThrows(reporter)
        /\ Leave("FatalError")
     \/ /\ ~ErrorThrows(reporter)
        /\ pending' = pending \ {i}
        /\ UNCHANGED <<pc, outcome, todo, newSources, current, pass, noErrors>>

\* Mutant: the sources found by loadMissingSources are stored but not parsed.
StoreWithoutParsing ==
  /\ pc = "load" /\ pending = {}
  /\ sources' = sources \cup DOMAIN newSources
  /\ scanner' = [n \in Name |-> IF n \in DOMAIN newSources THEN newSources[n]
                                 ELSE scanner[n]]
  /\ pc' = "parse"
  /\ UNCHANGED <<stackState, ast, isLibrary, sourceOrder, contracts, settings,
                 reporter, smt, op, todo, current, pending, newSources, pass, noErrors, outcome>>

\* Mutant: every import of the source is queued again, the known ones too.
QueueEveryImport ==
  /\ pc = "load" /\ pending = {}
  /\ sources' = sources \cup DOMAIN newSources
  /\ scanner' = [n \in Name |-> IF n \in DOMAIN newSources THEN newSources[n]
                                 ELSE scanner[n]]
  /\ todo' = todo \cup ((sources \cup DOMAIN newSources) \cap ImportedBy[current])
  /\ newSources' = [n \in {} |-> NotFound]
  /\ pc' = "parse"
  /\ UNCHANGED <<stackState, ast, isLibrary, sourceOrder, contracts, settings,
                 reporter, smt, op, current, pending, pass, noErrors, outcome>>

\* parse() stores what loadMissingSources returned and will parse it too.
StoreNewSources ==
  /\ pc = "load" /\ pending = {}
  /\ sources' = sources \cup DOMAIN newSources
  /\ scanner' = [n \in Name |-> IF n \in DOMAIN newSources THEN newSources[n]
                                 ELSE scanner[n]]
  /\ todo' = todo \cup DOMAIN newSources
  /\ newSources' = [n \in {} |-> NotFound]
  /\ pc' = "parse"
  /\ UNCHANGED <<stackState, ast, isLibrary, sourceOrder, contracts, settings,
                 reporter, smt, op, current, pending, pass, noErrors, outcome>>

\* resolveImports(): the sources that are not libraries and what they reach.
ImportClosure == Closure({n \in sources : ~isLibrary[n]}, ImportedBy)

\* analyze() from its start: m_sourceOrder is set, then the first pass runs.
BeginAnalyze ==
  /\ sourceOrder' = ImportClosure
  /\ pc' = "pass" /\ pass' = 1 /\ noErrors' = TRUE
  /\ todo' = ImportClosure
  /\ UNCHANGED <<current, pending, newSources, outcome>>

EndParse ==
  /\ pc = "parse" /\ todo = {}
  /\ \/ /\ ~ContainsOnlyWarnings(reporter)
        /\ Leave("false")
        /\ UNCHANGED <<stackState, sourceOrder>>
     \/ /\ ContainsOnlyWarnings(reporter)
        /\ stackState' = ParsingSuccessful
        /\ \/ op = "parse" /\ Leave("true") /\ UNCHANGED sourceOrder
           \/ op # "parse" /\ BeginAnalyze
  /\ UNCHANGED <<sourceVars, contracts, settings, reporter, smt, op>>

-----------------------------------------------------------------------------
(* analyze() *)

AnalyzeRefused ==
  /\ CallReporting("analyze")
  /\ stackState # ParsingSuccessful
  /\ Leave("false")
  /\ UNCHANGED <<stackState, sourceVars, sourceOrder, contracts, settings, reporter, smt>>

StartAnalyze ==
  /\ CallReporting("analyze")
  /\ stackState = ParsingSuccessful
  /\ BeginAnalyze
  /\ UNCHANGED <<stackState, sourceVars, contracts, settings, reporter, smt>>

PassName == Passes[pass]

\* The index of PostTypeChecker: from there on a pass runs only if noErrors.
PostTypes == 8

\* The pass finds an error in n.  checkTypeRequirements also rejects a contract
\* whose "new" expressions lead to a cycle.
Finds(n) ==
  \/ ast[n].content.defect = PassName
  \/ PassName = "types" /\ HasContract(n) /\ DependenciesAreCyclic(n)

\* The error leaves analyze(): as a FatalError (a fatal error, or one past the
\* limit) or because performImports or resolveNamesAndTypes returned false.
Aborts(n) ==
  /\ Finds(n)
  /\ \/ ast[n].content.fatal
     \/ ErrorThrows(reporter)
     \/ PassName \in {"performImports", "resolveNames"}

ReportAfter(n) ==
  IF Finds(n) THEN Error(reporter)
  ELSE IF PassName = "static" /\ ast[n].content.warns THEN Warning(reporter)
  ELSE reporter

\* Mutant: PostTypeChecker and the flow analysis answer for their own errors only.
OwnErrorsOnly(n) ==
  CASE PassName = "syntax" -> ~ContainsOnlyWarnings(ReportAfter(n))
    [] PassName \in {"contractLevel", "types"} ->
         HasContract(n) /\ ~ContainsOnlyWarnings(ReportAfter(n))
    [] PassName \in {"docStrings", "postTypes", "controlFlow", "static", "viewPure"} -> Finds(n)
    [] OTHER -> FALSE

\* The pass answers false for n.  Most checkers answer for everything in the error
\* list, whoever reported it; DocStringAnalyser and ViewPureChecker for themselves;
\* registerDeclarations answers false only through a FatalError.
Fails(n) ==
  CASE PassName \in {"syntax", "postTypes", "controlFlow", "static"} ->
         ~ContainsOnlyWarnings(ReportAfter(n))
    [] PassName \in {"contractLevel", "types"} ->
         HasContract(n) /\ ~ContainsOnlyWarnings(ReportAfter(n))
    [] PassName \in {"docStrings", "viewPure"} -> Finds(n)
    [] OTHER -> FALSE

\* The name resolution loop enters the contract in m_contracts, unless a previous
\* analyze() did.
EnterContract(n) ==
  IF PassName = "resolveNames" /\ HasContract(n) /\ n \notin DOMAIN contracts
  THEN [m \in DOMAIN contracts \cup {n} |->
          IF m = n THEN NewContract ELSE contracts[m]]
  ELSE contracts

CheckSource(n) ==
  /\ pc = "pass" /\ n \in todo
  /\ ~Aborts(n)
  /\ reporter' = ReportAfter(n)
  /\ noErrors' = IF Fails(n) THEN FALSE ELSE noErrors
  /\ contracts' = EnterContract(n)
  /\ smt' = IF PassName = "smt" /\ ast[n].content.query /\ n \notin smt.responses
            THEN [smt EXCEPT !.unhandled = @ \cup {n}] ELSE smt
  /\ todo' = todo \ {n}
  /\ UNCHANGED <<stackState, sourceVars, sourceOrder, settings, op, pc, current,
                 pending, newSources, pass, outcome>>

CheckSourceAborts(n) ==
  /\ pc = "pass" /\ n \in todo
  /\ Aborts(n)
  /\ reporter' = Error(reporter)
  /\ Leave("false")
  /\ UNCHANGED <<stackState, sourceVars, sourceOrder, contracts, settings, smt, op>>

LastPass == pass = Len(Passes) \/ (pass + 1 >= PostTypes /\ ~noErrors)

NextPass ==
  /\ pc = "pass" /\ todo = {}
  /\ ~LastPass
  /\ pass' = pass + 1
  /\ todo' = sourceOrder
  /\ UNCHANGED <<stackState, sourceVars, sourceOrder, contracts, settings, reporter,
                 smt, op, pc, current, pending, newSources, noErrors, outcome>>

-----------------------------------------------------------------------------
(* compile() *)

IsRequestedContract(n) == settings.requested = {} \/ n \in settings.requested

\* The contracts compileContract generates code for: the requested ones and what
\* they create, as far as they are not skipped.
ToCompile ==
  {n \in Closure({m \in sourceOrder : Deployable(m) /\ IsRequestedContract(m)},
                 [m \in Name |-> IF m \in sources /\ Deployable(m)
                                 THEN DependsOn[m] ELSE {}]) :
     Deployable(n)}

BeginCompile ==
  /\ pc' = "compile"
  /\ todo' = ToCompile
  /\ UNCHANGED <<current, pending, newSources, pass, noErrors, outcome>>

EndAnalyze ==
  /\ pc = "pass" /\ todo = {}
  /\ LastPass
  /\ \/ /\ ~noErrors
        /\ Leave("false")
        /\ UNCHANGED stackState
     \/ /\ noErrors
        /\ stackState' = AnalysisSuccessful
        /\ \/ op # "compile" /\ Leave("true")
           \/ op = "compile" /\ BeginCompile
  /\ UNCHANGED <<sourceVars, sourceOrder, contracts, settings, reporter, smt, op>>

StartCompile ==
  /\ CallReporting("compile")
  /\ stackState >= AnalysisSuccessful
  /\ BeginCompile
  /\ UNCHANGED <<stackState, sourceVars, sourceOrder, contracts, settings, reporter, smt>>

\* compileContract reaches n once what n creates is compiled.
CompilesNow(n) ==
  /\ pc = "compile" /\ n \in todo
  /\ DependsOn[n] \cap todo = {}
  /\ UNCHANGED <<stackState, sourceVars, sourceOrder, settings, reporter, smt, op>>

AssembledObject == [build |-> CurrentBuild, linked |-> NoLibraries]

\* Mutant: the runtime object of an earlier compile() is kept.
CompileOnce(n) ==
  /\ CompilesNow(n)
  /\ contracts' = [contracts EXCEPT
       ![n] = [@ EXCEPT !.compiler = CurrentBuild, !.metadata = CurrentBuild,
                        !.object = AssembledObject,
                        !.runtimeObject = IF @ = NoBuild THEN AssembledObject ELSE @]]
  /\ todo' = todo \ {n}
  /\ UNCHANGED <<pc, current, pending, newSources, pass, noErrors, outcome>>

CompileContract(n) ==
  /\ CompilesNow(n)
  /\ contracts' = [contracts EXCEPT
       ![n] = [@ EXCEPT !.compiler = CurrentBuild, !.metadata = CurrentBuild,
                        !.object = AssembledObject, !.runtimeObject = AssembledObject]]
  /\ todo' = todo \ {n}
  /\ UNCHANGED <<pc, current, pending, newSources, pass, noErrors, outcome>>

\* Code generation throws (stack too deep, an unimplemented feature): the new
\* compiler and metadata are stored already, the objects are not.
CodeGenerationFails(n) ==
  /\ CompilesNow(n)
  /\ contracts' = [contracts EXCEPT
       ![n] = [@ EXCEPT !.compiler = CurrentBuild, !.metadata = CurrentBuild]]
  /\ Leave("CompilerError")

\* An AssemblyException becomes a failed assertion, for the deployment object or,
\* with that one stored, for the runtime object.
AssemblyFails(n) ==
  /\ CompilesNow(n)
  /\ \E o \in {contracts[n].object, AssembledObject} :
       contracts' = [contracts EXCEPT
         ![n] = [@ EXCEPT !.compiler = CurrentBuild, !.metadata = CurrentBuild, !.object = o]]
  /\ Leave("InternalCompilerError")

\* LinkerObject::link fills the placeholders that are left and keeps the others.
Link(object) ==
  IF object = NoBuild \/ object.linked # NoLibraries THEN object
  ELSE [object EXCEPT !.linked = settings.libraries]

\* link() visits every contract, the ones this call did not compile too.
EndCompile ==
  /\ pc = "compile" /\ todo = {}
  /\ stackState' = CompilationSuccessful
  /\ contracts' = [n \in DOMAIN contracts |->
       [contracts[n] EXCEPT !.object = Link(@), !.runtimeObject = Link(@)]]
  /\ Leave("true")
  /\ UNCHANGED <<sourceVars, sourceOrder, settings, reporter, smt, op>>

-----------------------------------------------------------------------------
\* What a client may do between two method calls.
ClientCall ==
  \/ ResetKeepingSources \/ ResetDroppingSources
  \/ \E n \in Name, c \in Contents, lib \in IsLibraryArgs : AddSource(n, c, lib)
  \/ SetOptimiserSettings \/ SetLibraries \/ SetRequestedContractNames
  \/ UseMetadataLiteralSources \/ SetRemappings \/ SetEVMVersion \/ SetEVMVersionTooLate
  \/ \E n \in Responses : AddSMTLib2Response(n)
  \/ \E n \in Name : SourceMapping(n)
  \/ \E m \in {"parse", "parseAndAnalyze", "compile"} : ParseRefused(m) \/ StartParse(m)
  \/ AnalyzeRefused \/ StartAnalyze \/ StartCompile

\* A step of the method that is running.
MethodStep ==
  \/ \E n \in Name : ParseSource(n) \/ ParseSourceGivesUp(n)
  \/ \E i \in Name : ImportKnown(i) \/ ImportNotFound(i)
  \/ \E i \in Name, answer \in ReadResults : ImportRead(i, answer)
  \/ StoreNewSources \/ EndParse
  \/ \E n \in Name : CheckSource(n) \/ CheckSourceAborts(n)
  \/ NextPass \/ EndAnalyze
  \/ \E n \in Name : CompileContract(n) \/ CodeGenerationFails(n) \/ AssemblyFails(n)
  \/ EndCompile

Next == ClientCall \/ MethodStep

\* A method that was called keeps running; a client need never call one.
Spec == Init /\ [][Next]_vars /\ WF_vars(MethodStep)

-----------------------------------------------------------------------------
\* A source that later stages can work on: it has the tree of the text its scanner
\* holds now, and every import of it is annotated with a source that is there.
Loaded(n) ==
  /\ ast[n] # NoAST
  /\ ast[n].content = scanner[n]
  /\ DOMAIN ast[n].imports = scanner[n].imports
  /\ \A i \in scanner[n].imports : ast[n].imports[i] \in sources

\* Once parse() succeeded every source is loaded, whatever was added, replaced, reset
\* or parsed in vain before.  (resolveImports asserts m_sources.count(path) and
\* dereferences every ast; ids and annotations of a replaced text would be stale.)
ParsedStackIsClosed ==
  stackState >= ParsingSuccessful => \A n \in sources : Loaded(n)

\* analyze() succeeds only with an error list of warnings, although its passes
\* disagree on what they answer for: an error that one pass reports and does not
\* answer for (registerDeclarations) must be caught by a later one.
AnalysedIsClean ==
  stackState >= AnalysisSuccessful => ContainsOnlyWarnings(reporter)

\* After analysis m_contracts holds exactly the contracts of m_sourceOrder, also when
\* an earlier analyze() failed half way; so m_contracts.at() in compileContract finds
\* every contract it is asked for, the created ones too.
ContractsComplete ==
  stackState >= AnalysisSuccessful =>
    /\ DOMAIN contracts = {n \in sourceOrder : HasContract(n)}
    /\ pc = "compile" => todo \subseteq DOMAIN contracts

\* When compile() returns true, each contract it was to generate carries objects,
\* metadata and items built from the current settings and linked with the current
\* libraries, also on a stack that was compiled (or failed to) before.
CompileReturnsFreshObjects ==
  op = "compile" /\ pc = "idle" /\ outcome = "true" =>
    \A n \in ToCompile :
      LET linked == [build |-> CurrentBuild, linked |-> settings.libraries]
      IN  /\ contracts[n].compiler = CurrentBuild
          /\ contracts[n].metadata = CurrentBuild
          /\ contracts[n].object = linked
          /\ contracts[n].runtimeObject = linked

\* compileContract recurses into what a contract creates and enters a contract in
\* _compiledContracts only at its end: some contract is always ready, no recursion is
\* endless.  This rests on checkTypeRequirements rejecting every creation cycle.
CreationOrderExists ==
  pc = "compile" /\ todo # {} => \E n \in todo : DependsOn[n] \cap todo = {}

=============================================================================
