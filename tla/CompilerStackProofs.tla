------------------------ MODULE CompilerStackProofs ------------------------
(***************************************************************************)
(* What runs check of CompilerStack, for every set of names, texts,        *)
(* remappings, settings and callback answers and both limits of the        *)
(* reporter.  Each section strengthens one property until every step keeps *)
(* it:                                                                     *)
(*   ParsedStackIsClosed         ParseInv                                  *)
(*   AnalysedIsClean             AnalysisInv                               *)
(*   ContractsComplete           ContractsInv                              *)
(*   CompileReturnsFreshObjects  FreshInv                                  *)
(*   CreationOrderExists         OrderInv                                  *)
(* The last section counts the steps a method has still to make.           *)
(***************************************************************************)
EXTENDS CompilerStack, FiniteSetTheorems, WellFoundedInduction, TLAPS

\* The parts of TypeOK the proofs use.
Typed ==
  /\ stackState \in Empty..CompilationSuccessful
  /\ sources \subseteq Name
  /\ scanner \in [Name -> Contents]
  /\ ast \in [Name -> AST \cup {NoAST}]
  /\ settings \in Settings
  /\ reporter \in Reporter
  /\ todo \subseteq Name
  /\ sourceOrder \subseteq Name
  /\ DOMAIN newSources \subseteq Name
  /\ newSources \in [DOMAIN newSources -> Contents]
  /\ pass \in 1..12

\* The source parse() is working on has the tree of its text; the imports seen so far
\* are annotated and, unless an error was reported, lead to sources that are there or
\* about to be stored.
LoadingInv ==
  pc = "load" =>
    /\ current \in sources \ todo
    /\ ast[current] # NoAST
    /\ ast[current].content = scanner[current]
    /\ pending \subseteq scanner[current].imports
    /\ DOMAIN ast[current].imports = scanner[current].imports \ pending
    /\ DOMAIN newSources \cap sources = {}
    /\ ContainsOnlyWarnings(reporter) =>
         \A i \in DOMAIN ast[current].imports :
           ast[current].imports[i] \in sources \cup DOMAIN newSources

\* While parse() runs, every source it has finished is loaded, or an error is listed.
ParsingInv ==
  pc \in {"parse", "load"} =>
    /\ stackState = SourcesSet
    /\ todo \subseteq sources
    /\ ContainsOnlyWarnings(reporter) =>
         \A n \in sources \ todo : (pc = "load" /\ n = current) \/ Loaded(n)

\* The later phases run on a parsed stack only.
PhaseInv ==
  /\ pc = "pass" => stackState = ParsingSuccessful
  /\ pc = "compile" => stackState >= AnalysisSuccessful

\* ParsedStackIsClosed made inductive.
ParseInv == Typed /\ LoadingInv /\ ParsingInv /\ PhaseInv /\ ParsedStackIsClosed

\* The analysis visits the import closure; errors only exist if there is something to
\* visit; and while noErrors is TRUE in spite of an error, PostTypeChecker, the pass
\* that answers for the whole list, is still to come for at least one source.
AnalysisInv ==
  /\ pc = "pass" => sourceOrder = ImportClosure /\ todo \subseteq sourceOrder
  /\ stackState >= ParsingSuccessful /\ ~ContainsOnlyWarnings(reporter) =>
       ImportClosure # {}
  /\ pc = "pass" /\ noErrors /\ ~ContainsOnlyWarnings(reporter) =>
       pass < PostTypes \/ (pass = PostTypes /\ todo = sourceOrder)
  /\ AnalysedIsClean

-----------------------------------------------------------------------------
(* Typing. *)

\* The methods of the reporter keep a reporter a reporter; only error() changes
\* whether the list holds more than warnings.
LEMMA ReporterSteps ==
  ASSUME NEW r \in Reporter
  PROVE  /\ Warning(r) \in Reporter /\ Error(r) \in Reporter /\ Clear(r) \in Reporter
         /\ ContainsOnlyWarnings(Clear(r))
         /\ ContainsOnlyWarnings(Warning(r)) <=> ContainsOnlyWarnings(r)
         /\ ContainsOnlyWarnings(Error(r)) => ContainsOnlyWarnings(r)
  BY LimitsAssumption
  DEF Reporter, ErrorList, NoDiagnostics, Warning, Counted, Error, Clear, ErrorThrows,
      ContainsOnlyWarnings

\* A chosen name is a name, a chosen text a text.
LEMMA AnyTyped == AnyName \in Name /\ AnyText \in Contents
  BY StackAssumption DEF AnyName, AnyText

\* What Leave assigns is well typed.
LEMMA LeaveTyped ==
  ASSUME NEW result, Leave(result)
  PROVE  /\ pc' = "idle" /\ todo' = {} /\ pass' = 1
         /\ DOMAIN newSources' = {} /\ newSources' \in [DOMAIN newSources' -> Contents]
  BY DEF Leave

\* reset() and addSource() keep the types.
LEMMA TypedReset ==
  ASSUME Typed,
         \/ ResetKeepingSources \/ ResetDroppingSources
         \/ \E n \in Name, c \in Contents, lib \in IsLibraryArgs : AddSource(n, c, lib)
  PROVE  Typed' /\ stackState' \in {Empty, SourcesSet} /\ pc' = "idle"
<1>1. ASSUME ResetAllButSources
      PROVE  settings' \in Settings /\ reporter' \in Reporter /\ sourceOrder' = {}
  BY <1>1, ReporterSteps, StackAssumption DEF Typed, ResetAllButSources, Settings
<1>2. CASE ResetKeepingSources
  BY <1>1, <1>2, LeaveTyped
  DEF ResetKeepingSources, Typed, sourceVars, Empty, SourcesSet, CompilationSuccessful
<1>3. CASE ResetDroppingSources
  BY <1>1, <1>3, LeaveTyped, AnyTyped
  DEF ResetDroppingSources, Typed, Empty, SourcesSet, CompilationSuccessful
<1>4. CASE \E n \in Name, c \in Contents, lib \in IsLibraryArgs : AddSource(n, c, lib)
  <2>1. PICK n \in Name, c \in Contents, lib \in IsLibraryArgs : AddSource(n, c, lib)
    BY <1>4
  <2>2. QED
    BY <1>1, <2>1, LeaveTyped
    DEF AddSource, Typed, Empty, SourcesSet, CompilationSuccessful
<1>5. QED
  BY <1>2, <1>3, <1>4

-----------------------------------------------------------------------------
(* Steps that leave the sources alone. *)

\* What the quiet steps have in common: the sources stay, and so does the reporter or it
\* only gains entries; the stack does not get past parsing by them.
Quiet ==
  /\ UNCHANGED sourceVars
  /\ settings' \in Settings
  /\ reporter' \in Reporter
  /\ todo' \subseteq Name
  /\ sourceOrder' \subseteq Name
  /\ newSources' = newSources \/ newSources' = [n \in {} |-> NotFound]
  /\ pass' \in 1..12
  /\ pc' \in {"idle", "pass", "compile"}
  /\ stackState' \in Empty..CompilationSuccessful
  /\ stackState' >= ParsingSuccessful => stackState >= ParsingSuccessful
  /\ PhaseInv'

\* A quiet step preserves ParseInv.
LEMMA QuietPreserves ==
  ASSUME ParseInv, Quiet PROVE ParseInv'
<1>1. Typed'
  BY DEF ParseInv, Quiet, Typed, sourceVars
<1>2. LoadingInv' /\ ParsingInv'
  BY DEF Quiet, LoadingInv, ParsingInv
<1>3. ASSUME NEW n PROVE Loaded(n)' <=> Loaded(n)
  BY DEF Quiet, sourceVars, Loaded
<1>4. ParsedStackIsClosed'
  BY <1>3 DEF ParseInv, ParsedStackIsClosed, Quiet, sourceVars
<1>5. QED
  BY <1>1, <1>2, <1>4 DEF ParseInv, Quiet

\* The settings, the getters and the refused calls are quiet.
LEMMA ClientQuiet ==
  ASSUME ParseInv,
         \/ SetOptimiserSettings \/ SetLibraries \/ SetRequestedContractNames
         \/ UseMetadataLiteralSources \/ SetRemappings \/ SetEVMVersion
         \/ SetEVMVersionTooLate
         \/ \E n \in Responses : AddSMTLib2Response(n)
         \/ \E n \in Name : SourceMapping(n)
         \/ \E m \in {"parse", "parseAndAnalyze", "compile"} : ParseRefused(m)
         \/ AnalyzeRefused
  PROVE  /\ Quiet
         /\ UNCHANGED <<stackState, reporter, sourceOrder>> /\ pc' = "idle"
<1>1. /\ settings' \in Settings
      /\ UNCHANGED <<stackState, sourceVars, reporter, sourceOrder>>
      /\ pc' = "idle"
      /\ \/ todo' = {} /\ newSources' = [n \in {} |-> NotFound] /\ pass' = 1
         \/ UNCHANGED <<todo, newSources, pass>>
  <2>1. ASSUME NEW new, ChangeSettings(new), new \in Settings
        PROVE  <1>1!:
    BY <2>1 DEF ChangeSettings, Leave
  <2>2. CASE SetOptimiserSettings
    <3>1. PICK b \in OptimizeArgs : ChangeSettings([settings EXCEPT !.optimize = b])
      BY <2>2 DEF SetOptimiserSettings
    <3>2. b \in BOOLEAN
      BY <3>1, StackAssumption
    <3>3. [settings EXCEPT !.optimize = b] \in Settings
      BY <3>2 DEF ParseInv, Typed, Settings
    <3>4. QED
      BY <2>1, <3>1, <3>3
  <2>3. CASE SetLibraries
    <3>1. PICK l \in Libraries : ChangeSettings([settings EXCEPT !.libraries = l])
      BY <2>3 DEF SetLibraries
    <3>2. [settings EXCEPT !.libraries = l] \in Settings
      BY DEF ParseInv, Typed, Settings
    <3>3. QED
      BY <2>1, <3>1, <3>2
  <2>4. CASE SetRequestedContractNames
    <3>1. PICK s \in RequestedSets : ChangeSettings([settings EXCEPT !.requested = s])
      BY <2>4 DEF SetRequestedContractNames
    <3>2. s \in SUBSET (Name \cup {NoSuchContract})
      BY <3>1, StackAssumption
    <3>3. [settings EXCEPT !.requested = s] \in Settings
      BY <3>2 DEF ParseInv, Typed, Settings
    <3>4. QED
      BY <2>1, <3>1, <3>3
  <2>5. CASE UseMetadataLiteralSources
    <3>1. PICK b \in LiteralArgs : ChangeSettings([settings EXCEPT !.literal = b])
      BY <2>5 DEF UseMetadataLiteralSources
    <3>2. b \in BOOLEAN
      BY <3>1, StackAssumption
    <3>3. [settings EXCEPT !.literal = b] \in Settings
      BY <3>2 DEF ParseInv, Typed, Settings
    <3>4. QED
      BY <2>1, <3>1, <3>3
  <2>6. CASE SetRemappings
    <3>1. PICK r \in Remappings : ChangeSettings([settings EXCEPT !.remapping = r])
      BY <2>6 DEF SetRemappings
    <3>2. [settings EXCEPT !.remapping = r] \in Settings
      BY DEF ParseInv, Typed, Settings
    <3>3. QED
      BY <2>1, <3>1, <3>2
  <2>7. CASE SetEVMVersion
    <3>1. PICK v \in EVMVersions : ChangeSettings([settings EXCEPT !.evmVersion = v])
      BY <2>7 DEF SetEVMVersion
    <3>2. [settings EXCEPT !.evmVersion = v] \in Settings
      BY DEF ParseInv, Typed, Settings
    <3>3. QED
      BY <2>1, <3>1, <3>2
  <2>8. CASE \/ SetEVMVersionTooLate \/ AnalyzeRefused
             \/ \E n \in Responses : AddSMTLib2Response(n)
             \/ \E m \in {"parse", "parseAndAnalyze", "compile"} : ParseRefused(m)
    BY <2>8 DEF SetEVMVersionTooLate, AnalyzeRefused, AddSMTLib2Response, ParseRefused,
                Leave, ParseInv, Typed
  <2>9. CASE \E n \in Name : SourceMapping(n)
    BY <2>9 DEF SourceMapping, ParseInv, Typed
  <2>10. QED
    BY <2>2, <2>3, <2>4, <2>5, <2>6, <2>7, <2>8, <2>9
<1>2. PhaseInv'
  BY <1>1 DEF PhaseInv
<1>3. QED
  BY <1>1, <1>2 DEF Quiet, ParseInv, Typed

-----------------------------------------------------------------------------
(* The steps of parse(). *)

\* Entering parse(): nothing is finished yet.
LEMMA StartParsePreserves ==
  ASSUME ParseInv, NEW m, StartParse(m) PROVE ParseInv'
<1>1. reporter' \in Reporter
  BY ReporterSteps DEF ParseInv, Typed, StartParse
<1>2. Typed'
  BY <1>1 DEF ParseInv, Typed, StartParse, sourceVars
<1>3. LoadingInv' /\ PhaseInv'
  BY DEF StartParse, LoadingInv, PhaseInv
<1>4. ParsingInv'
  BY DEF StartParse, ParsingInv, sourceVars
<1>5. ParsedStackIsClosed'
  BY DEF StartParse, ParsedStackIsClosed, SourcesSet, ParsingSuccessful
<1>6. QED
  BY <1>2, <1>3, <1>4, <1>5 DEF ParseInv

\* A parsed source: its tree is new, its imports are all still to be looked at.
LEMMA ParseSourcePreserves ==
  ASSUME ParseInv, NEW n \in Name, ParseSource(n) PROVE ParseInv'
<1>1. ParserReport(scanner[n]) \in Reporter
  BY ReporterSteps DEF ParseInv, Typed, ParserReport
<1>3. n \in sources /\ stackState = SourcesSet /\ todo \subseteq sources
  BY DEF ParseInv, ParsingInv, ParseSource
<1>4. /\ ast'[n] = [content |-> scanner[n], imports |-> [i \in {} |-> n]]
      /\ \A m \in Name \ {n} : ast'[m] = ast[m]
  BY DEF ParseInv, Typed, ParseSource
<1>5. ast'[n] \in AST
  <2>1. scanner[n] \in Contents
    BY DEF ParseInv, Typed
  <2>2. [i \in {} |-> n] \in PartialMap(Name, Name)
    <3>1. [i \in {} |-> n] \in [{} -> Name]
      OBVIOUS
    <3>2. QED
      BY <3>1 DEF PartialMap
  <2>3. QED
    BY <1>4, <2>1, <2>2 DEF AST
<1>2. Typed'
  <2>1. DOMAIN newSources' = {} /\ newSources' \in [DOMAIN newSources' -> Contents]
    BY DEF ParseSource
  <2>2. ast' \in [Name -> AST \cup {NoAST}]
    BY <1>5 DEF ParseInv, Typed, ParseSource
  <2>3. QED
    BY <1>1, <2>1, <2>2 DEF ParseInv, Typed, ParseSource
<1>6. LoadingInv'
  BY <1>3, <1>4, <1>5, StackAssumption DEF LoadingInv, ParseSource
<1>7. ASSUME NEW m \in Name \ {n} PROVE Loaded(m) => Loaded(m)'
  BY <1>4, <1>7 DEF Loaded, ParseSource
<1>8. ContainsOnlyWarnings(reporter') => ContainsOnlyWarnings(reporter)
  BY ReporterSteps DEF ParseInv, Typed, ParseSource, ParserReport
<1>9. ParsingInv'
  BY <1>3, <1>7, <1>8 DEF ParseInv, Typed, ParsingInv, ParseSource
<1>10. PhaseInv' /\ ParsedStackIsClosed'
  BY <1>3 DEF PhaseInv, ParsedStackIsClosed, ParseSource, SourcesSet, ParsingSuccessful
<1>11. QED
  BY <1>2, <1>6, <1>9, <1>10 DEF ParseInv

\* A source without a tree: an error is in the list, or parse() is left.
LEMMA GivesUpPreserves ==
  ASSUME ParseInv, NEW n \in Name, ParseSourceGivesUp(n) PROVE ParseInv'
<1>1. ParserReport(scanner[n]) \in Reporter
  BY ReporterSteps DEF ParseInv, Typed, ParserReport
<1>2. stackState = SourcesSet /\ stackState' = stackState /\ todo \subseteq sources
  BY DEF ParseInv, ParsingInv, ParseSourceGivesUp
<1>3. ParsedStackIsClosed'
  BY <1>2 DEF ParsedStackIsClosed, SourcesSet, ParsingSuccessful
<1>4. CASE Leave("InternalCompilerError")
  BY <1>1, <1>2, <1>3, <1>4, LeaveTyped
  DEF ParseInv, Typed, LoadingInv, ParsingInv, PhaseInv, ParseSourceGivesUp
<1>5. CASE /\ ~ContainsOnlyWarnings(ParserReport(scanner[n])) /\ todo' = todo \ {n}
           /\ UNCHANGED <<pc, current, pending, newSources, pass, noErrors, outcome>>
  BY <1>1, <1>2, <1>3, <1>5
  DEF ParseInv, Typed, LoadingInv, ParsingInv, PhaseInv, ParseSourceGivesUp
<1>6. QED
  BY <1>4, <1>5 DEF ParseSourceGivesUp

\* Annotating an import of the current source: its tree, and nothing else, gains it.
LEMMA AnnotateFacts ==
  ASSUME ParseInv, NEW i \in Name, AnnotateImport(i)
  PROVE  /\ pc = "load" /\ i \in pending
         /\ ast' \in [Name -> AST \cup {NoAST}]
         /\ \A m \in Name \ {current} : ast'[m] = ast[m]
         /\ ast'[current] # NoAST
         /\ ast'[current].content = scanner[current]
         /\ DOMAIN ast'[current].imports = DOMAIN ast[current].imports \cup {i}
         /\ ast'[current].imports[i] = settings.remapping[i]
         /\ \A j \in DOMAIN ast[current].imports \ {i} :
              ast'[current].imports[j] = ast[current].imports[j]
         /\ settings.remapping[i] \in Name
         /\ UNCHANGED <<stackState, sources, scanner, settings, sourceOrder>>
<1>1. pc = "load" /\ i \in pending
  BY DEF AnnotateImport
<1>2. current \in Name /\ ast[current] \in AST
  BY <1>1 DEF ParseInv, Typed, LoadingInv
<1>3. ast[current].imports \in PartialMap(Name, Name)
  BY <1>2 DEF AST
<1> DEFINE old == ast[current].imports
           new == [j \in DOMAIN old \cup {i} |-> IF j = i THEN settings.remapping[i] ELSE old[j]]
<1>4. ast' = [ast EXCEPT ![current] = [content |-> ast[current].content, imports |-> new]]
  <2>1. ast' = [ast EXCEPT ![current] = [ast[current] EXCEPT !.imports = new]]
    BY DEF AnnotateImport
  <2>2. [ast[current] EXCEPT !.imports = new]
          = [content |-> ast[current].content, imports |-> new]
    BY <1>2 DEF AST
  <2>3. QED
    BY <2>1, <2>2
<1>5. settings.remapping[i] \in Name
  BY StackAssumption DEF ParseInv, Typed, Settings
<1>6. new \in PartialMap(Name, Name)
  <2>1. PICK D \in SUBSET Name : old \in [D -> Name]
    BY <1>3 DEF PartialMap
  <2>2. new \in [D \cup {i} -> Name]
    BY <1>5, <2>1
  <2>3. QED
    BY <2>2 DEF PartialMap
<1>7. ast'[current] = [content |-> ast[current].content, imports |-> new]
  BY <1>2, <1>4 DEF ParseInv, Typed
<1>8. ast'[current] \in AST
  BY <1>2, <1>6, <1>7 DEF AST
<1>9. ast' \in [Name -> AST \cup {NoAST}] /\ \A m \in Name \ {current} : ast'[m] = ast[m]
  BY <1>2, <1>4, <1>7, <1>8 DEF ParseInv, Typed
<1>10. ast'[current] # NoAST /\ ast'[current].content = scanner[current]
  BY <1>1, <1>7, <1>8, StackAssumption DEF ParseInv, LoadingInv
<1>11. ast'[current].imports = new
  BY <1>7
<1>12. QED
  BY <1>1, <1>5, <1>9, <1>10, <1>11 DEF AnnotateImport

\* An import whose source is there.
LEMMA ImportKnownPreserves ==
  ASSUME ParseInv, NEW i \in Name, ImportKnown(i) PROVE ParseInv'
<1>1. AnnotateImport(i)
  BY DEF ImportKnown
<1> USE AnnotateFacts, <1>1
<1>2. Typed'
  BY DEF ParseInv, Typed, ImportKnown
<1>3. LoadingInv'
  BY DEF ParseInv, LoadingInv, ImportKnown
<1>4. ASSUME NEW m \in Name \ {current} PROVE Loaded(m) => Loaded(m)'
  BY <1>4 DEF Loaded, ImportKnown
<1>5. ParsingInv'
  BY <1>4 DEF ParseInv, Typed, ParsingInv, ImportKnown
<1>6. PhaseInv' /\ ParsedStackIsClosed'
  BY DEF ParseInv, ParsingInv, PhaseInv, ParsedStackIsClosed, ImportKnown, SourcesSet,
         ParsingSuccessful
<1>7. QED
  BY <1>2, <1>3, <1>5, <1>6 DEF ParseInv

\* An import whose source the callback supplies.
LEMMA ImportReadPreserves ==
  ASSUME ParseInv, NEW i \in Name, NEW answer \in ReadResults, ImportRead(i, answer)
  PROVE  ParseInv'
<1>1. AnnotateImport(i)
  BY DEF ImportRead
<1> USE AnnotateFacts, <1>1
<1>2. answer \in Contents
  BY StackAssumption DEF ImportRead
<1>3. DOMAIN newSources' = DOMAIN newSources \cup {settings.remapping[i]}
  BY DEF ImportRead
<1>4. newSources' \in [DOMAIN newSources' -> Contents]
  BY <1>2 DEF ImportRead, ParseInv, Typed
<1>5. Typed'
  BY <1>3, <1>4 DEF ParseInv, Typed, ImportRead
<1>6. LoadingInv'
  BY <1>3 DEF ParseInv, LoadingInv, ImportRead
<1>7. ASSUME NEW m \in Name \ {current} PROVE Loaded(m) => Loaded(m)'
  BY <1>7 DEF Loaded, ImportRead
<1>8. ParsingInv'
  BY <1>7 DEF ParseInv, Typed, ParsingInv, ImportRead
<1>9. PhaseInv' /\ ParsedStackIsClosed'
  BY DEF ParseInv, ParsingInv, PhaseInv, ParsedStackIsClosed, ImportRead, SourcesSet,
         ParsingSuccessful
<1>10. QED
  BY <1>5, <1>6, <1>8, <1>9 DEF ParseInv

\* An import that is not found: an error is listed, or parse() is left.
LEMMA ImportNotFoundPreserves ==
  ASSUME ParseInv, NEW i \in Name, ImportNotFound(i) PROVE ParseInv'
<1>1. AnnotateImport(i)
  BY DEF ImportNotFound
<1> USE AnnotateFacts, <1>1
<1>2. reporter' \in Reporter /\ reporter' = Error(reporter)
  BY ReporterSteps DEF ParseInv, Typed, ImportNotFound
<1>3. stackState = SourcesSet
  BY DEF ParseInv, ParsingInv
<1>4. CASE Leave("FatalError")
  BY <1>2, <1>3, <1>4, LeaveTyped
  DEF ParseInv, Typed, LoadingInv, ParsingInv, PhaseInv, ParsedStackIsClosed, SourcesSet,
      ParsingSuccessful
<1>5. CASE /\ ~ErrorThrows(reporter) /\ pending' = pending \ {i}
           /\ UNCHANGED <<pc, outcome, todo, newSources, current, pass, noErrors>>
  <2>1. ~ContainsOnlyWarnings(reporter')
    BY <1>2, <1>5 DEF Error, ContainsOnlyWarnings, ParseInv, Typed, Reporter, ErrorList
  <2>2. Typed' /\ PhaseInv' /\ ParsedStackIsClosed'
    BY <1>2, <1>3, <1>5
    DEF ParseInv, Typed, PhaseInv, ParsedStackIsClosed, SourcesSet, ParsingSuccessful
  <2>3. LoadingInv'
    BY <1>5, <2>1 DEF ParseInv, LoadingInv
  <2>4. ParsingInv'
    BY <1>3, <1>5, <2>1 DEF ParseInv, ParsingInv
  <2>5. QED
    BY <2>2, <2>3, <2>4 DEF ParseInv
<1>6. QED
  BY <1>4, <1>5 DEF ImportNotFound

\* Storing the new sources finishes the current one.
LEMMA StorePreserves ==
  ASSUME ParseInv, StoreNewSources PROVE ParseInv'
<1>1. /\ pc = "load" /\ pending = {} /\ stackState = SourcesSet
      /\ current \in sources \ todo /\ todo \subseteq sources
      /\ DOMAIN newSources \cap sources = {}
  BY DEF ParseInv, LoadingInv, ParsingInv, StoreNewSources
<1>2. /\ \A n \in sources : scanner'[n] = scanner[n]
      /\ scanner' \in [Name -> Contents]
  BY <1>1 DEF StoreNewSources, ParseInv, Typed
<1>3. Typed'
  <2>1. DOMAIN newSources' = {} /\ newSources' \in [DOMAIN newSources' -> Contents]
    BY DEF StoreNewSources
  <2>2. QED
    BY <1>2, <2>1 DEF ParseInv, Typed, StoreNewSources
<1>4. ASSUME NEW n \in sources, Loaded(n) PROVE Loaded(n)'
  BY <1>2, <1>4 DEF Loaded, StoreNewSources
<1>5. ContainsOnlyWarnings(reporter) => Loaded(current)'
  BY <1>1, <1>2 DEF ParseInv, LoadingInv, Loaded, StoreNewSources
<1>6. ParsingInv'
  BY <1>1, <1>4, <1>5 DEF ParseInv, ParsingInv, StoreNewSources
<1>7. LoadingInv' /\ PhaseInv' /\ ParsedStackIsClosed'
  BY <1>1 DEF LoadingInv, PhaseInv, ParsedStackIsClosed, StoreNewSources, SourcesSet,
              ParsingSuccessful
<1>8. QED
  BY <1>3, <1>6, <1>7 DEF ParseInv

\* parse() succeeds only if every source is loaded.
LEMMA EndParsePreserves ==
  ASSUME ParseInv, EndParse PROVE ParseInv'
<1>1. ASSUME NEW n PROVE Loaded(n)' <=> Loaded(n)
  BY DEF EndParse, sourceVars, Loaded
<1>2. ContainsOnlyWarnings(reporter) => \A n \in sources : Loaded(n)
  BY DEF ParseInv, ParsingInv, EndParse
<1>3. ParsedStackIsClosed'
  BY <1>1, <1>2
  DEF ParseInv, ParsingInv, EndParse, ParsedStackIsClosed, sourceVars, SourcesSet,
      ParsingSuccessful
<1>4. ImportClosure \subseteq Name
  BY DEF ImportClosure, Closure
<1>5. pc' \in {"idle", "pass"} /\ (pc' = "pass" => stackState' = ParsingSuccessful)
  BY DEF EndParse, Leave, BeginAnalyze
<1>6. LoadingInv' /\ ParsingInv' /\ PhaseInv'
  BY <1>5 DEF LoadingInv, ParsingInv, PhaseInv
<1>7. /\ todo' \subseteq Name /\ sourceOrder' \subseteq Name /\ pass' \in 1..12
      /\ newSources' = newSources \/ newSources' = [n \in {} |-> NotFound]
      /\ stackState' \in Empty..CompilationSuccessful
  BY <1>4
  DEF EndParse, Leave, BeginAnalyze, ParseInv, Typed, Empty, CompilationSuccessful,
      ParsingSuccessful
<1>8. Typed'
  BY <1>7 DEF Typed, ParseInv, EndParse, sourceVars
<1>9. QED
  BY <1>3, <1>6, <1>8 DEF ParseInv

-----------------------------------------------------------------------------
(* The steps of analyze() and compile() are quiet. *)

\* A check reports into a reporter.
LEMMA ReportAfterTyped ==
  ASSUME Typed, NEW n PROVE ReportAfter(n) \in Reporter
  BY ReporterSteps DEF Typed, ReportAfter

\* The steps of analyze() and compile().
LEMMA LaterStepsQuiet ==
  ASSUME ParseInv,
         \/ StartAnalyze \/ NextPass \/ EndAnalyze \/ StartCompile \/ EndCompile
         \/ \E n \in Name : CheckSource(n) \/ CheckSourceAborts(n)
         \/ \E n \in Name : CompileContract(n) \/ CodeGenerationFails(n) \/ AssemblyFails(n)
  PROVE  Quiet
<1>1. ImportClosure \subseteq Name /\ ToCompile \subseteq Name
  BY DEF ImportClosure, ToCompile, Closure
<1> USE DEF Empty, ParsingSuccessful, AnalysisSuccessful, CompilationSuccessful
<1>2. CASE StartAnalyze
  BY <1>1, <1>2 DEF StartAnalyze, BeginAnalyze, Quiet, PhaseInv, ParseInv, Typed
<1>3. CASE StartCompile
  BY <1>1, <1>3 DEF StartCompile, BeginCompile, Quiet, PhaseInv, ParseInv, Typed
<1>4. CASE NextPass
  <2>1. sourceOrder \subseteq Name
    BY DEF ParseInv, Typed
  <2>2. pass' \in 1..12
    BY <1>4 DEF NextPass, LastPass, Passes, ParseInv, Typed
  <2>3. QED
    BY <1>4, <2>1, <2>2 DEF NextPass, Quiet, PhaseInv, ParseInv, Typed
<1>5. CASE EndAnalyze
  BY <1>1, <1>5, LeaveTyped
  DEF EndAnalyze, Leave, BeginCompile, Quiet, PhaseInv, ParseInv, Typed
<1>6. CASE EndCompile
  <2>1. /\ UNCHANGED <<sourceVars, sourceOrder, settings, reporter>>
        /\ pc = "compile" /\ stackState' = CompilationSuccessful
        /\ pc' = "idle" /\ todo' = {} /\ pass' = 1 /\ newSources' = [n \in {} |-> NotFound]
    BY <1>6 DEF EndCompile, Leave
  <2>2. QED
    BY <2>1 DEF Quiet, PhaseInv, ParseInv, Typed
<1>7. CASE \E n \in Name : CheckSource(n) \/ CheckSourceAborts(n)
  <2>1. PICK n \in Name : CheckSource(n) \/ CheckSourceAborts(n)
    BY <1>7
  <2>2. /\ pc = "pass"
        /\ UNCHANGED <<stackState, sourceVars, sourceOrder, settings>>
        /\ reporter' = ReportAfter(n) \/ reporter' = Error(reporter)
        /\ \/ pc' = pc /\ todo' = todo \ {n} /\ UNCHANGED <<newSources, pass>>
           \/ /\ pc' = "idle" /\ todo' = {} /\ pass' = 1
              /\ newSources' = [m \in {} |-> NotFound]
    BY <2>1 DEF CheckSource, CheckSourceAborts, Leave
  <2>3. reporter' \in Reporter
    BY <2>2, ReportAfterTyped, ReporterSteps DEF ParseInv, Typed
  <2>4. QED
    BY <2>2, <2>3 DEF Quiet, PhaseInv, ParseInv, Typed
<1>8. CASE \E n \in Name : CompileContract(n) \/ CodeGenerationFails(n) \/ AssemblyFails(n)
  <2>1. PICK n \in Name : CompileContract(n) \/ CodeGenerationFails(n) \/ AssemblyFails(n)
    BY <1>8
  <2>2. CompilesNow(n)
    BY <2>1 DEF CompileContract, CodeGenerationFails, AssemblyFails
  <2>3. /\ UNCHANGED <<stackState, sourceVars, sourceOrder, settings, reporter>>
        /\ pc = "compile"
    BY <2>2 DEF CompilesNow
  <2>4. \/ pc' = pc /\ todo' = todo \ {n} /\ UNCHANGED <<newSources, pass>>
        \/ /\ pc' = "idle" /\ todo' = {} /\ pass' = 1
           /\ newSources' = [m \in {} |-> NotFound]
    BY <2>1 DEF CompileContract, CodeGenerationFails, AssemblyFails, Leave
  <2>5. QED
    BY <2>3, <2>4 DEF Quiet, PhaseInv, ParseInv, Typed
<1>9. QED
  BY <1>2, <1>3, <1>4, <1>5, <1>6, <1>7, <1>8

\* The invariant holds initially.
LEMMA ParseInvInit == Init => ParseInv
<1> SUFFICES ASSUME Init PROVE ParseInv
  OBVIOUS
<1>1. NewReporter \in Reporter
  BY DEF NewReporter, NoDiagnostics, Reporter, ErrorList
<1>2. DefaultSettings \in Settings
  BY StackAssumption DEF DefaultSettings, Settings
<1>3. Typed
  BY <1>1, <1>2, AnyTyped DEF Init, Typed, Empty, CompilationSuccessful
<1>4. LoadingInv /\ ParsingInv /\ PhaseInv /\ ParsedStackIsClosed
  BY DEF Init, LoadingInv, ParsingInv, PhaseInv, ParsedStackIsClosed, Empty,
         ParsingSuccessful
<1>5. QED
  BY <1>3, <1>4 DEF ParseInv

\* Every step preserves the invariant.
LEMMA ParseInvStep == ParseInv /\ [Next]_vars => ParseInv'
<1> SUFFICES ASSUME ParseInv, [Next]_vars PROVE ParseInv'
  OBVIOUS
<1>1. CASE \/ ResetKeepingSources \/ ResetDroppingSources
           \/ \E n \in Name, c \in Contents, lib \in IsLibraryArgs : AddSource(n, c, lib)
  BY <1>1, TypedReset
  DEF ParseInv, LoadingInv, ParsingInv, PhaseInv, ParsedStackIsClosed, Empty, SourcesSet,
      ParsingSuccessful
<1>2. CASE \/ SetOptimiserSettings \/ SetLibraries \/ SetRequestedContractNames
           \/ UseMetadataLiteralSources \/ SetRemappings \/ SetEVMVersion
           \/ SetEVMVersionTooLate
           \/ \E n \in Responses : AddSMTLib2Response(n)
           \/ \E n \in Name : SourceMapping(n)
           \/ \E m \in {"parse", "parseAndAnalyze", "compile"} : ParseRefused(m)
           \/ AnalyzeRefused
  BY <1>2, ClientQuiet, QuietPreserves
<1>3. CASE \E m \in {"parse", "parseAndAnalyze", "compile"} : StartParse(m)
  BY <1>3, StartParsePreserves
<1>4. CASE \E n \in Name : ParseSource(n) \/ ParseSourceGivesUp(n)
  BY <1>4, ParseSourcePreserves, GivesUpPreserves
<1>5. CASE \E i \in Name : ImportKnown(i) \/ ImportNotFound(i)
  BY <1>5, ImportKnownPreserves, ImportNotFoundPreserves
<1>6. CASE \E i \in Name, answer \in ReadResults : ImportRead(i, answer)
  BY <1>6, ImportReadPreserves
<1>7. CASE StoreNewSources \/ EndParse
  BY <1>7, StorePreserves, EndParsePreserves
<1>8. CASE \/ StartAnalyze \/ NextPass \/ EndAnalyze \/ StartCompile \/ EndCompile
           \/ \E n \in Name : CheckSource(n) \/ CheckSourceAborts(n)
           \/ \E n \in Name : CompileContract(n) \/ CodeGenerationFails(n) \/ AssemblyFails(n)
  BY <1>8, LaterStepsQuiet, QuietPreserves
<1>9. CASE UNCHANGED vars
  BY <1>9
  DEF vars, sourceVars, loopVars, ParseInv, Typed, LoadingInv, ParsingInv, PhaseInv,
      ParsedStackIsClosed, Loaded
<1>10. QED
  BY <1>1, <1>2, <1>3, <1>4, <1>5, <1>6, <1>7, <1>8, <1>9 DEF Next, ClientCall, MethodStep

\* Whatever the client does, a parsed stack is closed under imports and every tree is
\* that of the text the scanner holds: resolveImports never meets a missing source.
THEOREM ParsedStackClosed == Spec => []ParsedStackIsClosed
<1>1. ParseInv => ParsedStackIsClosed
  BY DEF ParseInv
<1>2. QED
  BY <1>1, ParseInvInit, ParseInvStep, PTL DEF Spec

-----------------------------------------------------------------------------
(* AnalysedIsClean. *)

\* The import closure is a function of the sources.
LEMMA ClosureOfSources ==
  ASSUME UNCHANGED sourceVars PROVE ImportClosure' = ImportClosure
  BY DEF sourceVars, ImportClosure, Closure, ImportedBy

\* A step that ends before the stack is parsed has nothing to show.
LEMMA UnparsedPreserves ==
  ASSUME stackState' < ParsingSuccessful, stackState' \in Nat, pc' # "pass"
  PROVE  AnalysisInv'
  BY DEF AnalysisInv, AnalysedIsClean, ParsingSuccessful, AnalysisSuccessful

\* The passes by number.
LEMMA PassNames ==
  /\ Len(Passes) = 12
  /\ Passes[8] = "postTypes" /\ Passes[9] = "controlFlow" /\ Passes[10] = "static"
  /\ Passes[11] = "viewPure" /\ Passes[12] = "smt"
  BY DEF Passes

\* The analysis visits sources that are there.
LEMMA ClosureInSources ==
  ASSUME ParseInv, stackState >= ParsingSuccessful PROVE ImportClosure \subseteq sources
<1>1. \A m \in sources : ImportedBy[m] \subseteq sources
  BY DEF ParseInv, Typed, ParsedStackIsClosed, Loaded, ImportedBy
<1>2. sources \in SUBSET Name
  BY DEF ParseInv, Typed
<1>3. QED
  BY <1>1, <1>2 DEF ImportClosure, Closure

\* A check that lets an error pass with noErrors still TRUE does so before
\* PostTypeChecker.
LEMMA LateChecksFail ==
  ASSUME ParseInv, NEW n \in sources, pc = "pass", pass >= PostTypes,
         pass = PostTypes \/ ContainsOnlyWarnings(reporter),
         ~ContainsOnlyWarnings(ReportAfter(n))
  PROVE  Fails(n)
<1>1. pass \in 8..12
  BY DEF ParseInv, Typed, PostTypes
<1>2. CASE pass \in 8..10
  BY <1>1, <1>2, PassNames DEF Fails, PassName
<1>3. CASE pass \in 11..12
  <2>1. ContainsOnlyWarnings(reporter) /\ PassName \in {"viewPure", "smt"}
    BY <1>3, PassNames DEF PassName, PostTypes
  <2>2. Finds(n)
    BY <2>1 DEF ReportAfter
  <2>3. ast[n].content \in Contents
    BY DEF ParseInv, Typed, ParsedStackIsClosed, PhaseInv, Loaded, ParsingSuccessful
  <2>4. PassName = "viewPure"
    BY <2>1, <2>2, <2>3, StackAssumption DEF Finds
  <2>5. QED
    BY <2>2, <2>4 DEF Fails
<1>4. QED
  BY <1>1, <1>2, <1>3

\* A checked source keeps the invariant.
LEMMA CheckSourceClean ==
  ASSUME ParseInv, AnalysisInv, NEW n \in Name, CheckSource(n) PROVE AnalysisInv'
<1>1. /\ pc = "pass" /\ pc' = "pass" /\ n \in todo /\ todo' = todo \ {n}
      /\ UNCHANGED <<stackState, sourceVars, sourceOrder, pass>>
      /\ reporter' = ReportAfter(n)
      /\ noErrors' = IF Fails(n) THEN FALSE ELSE noErrors
  BY DEF CheckSource
<1>2. stackState = ParsingSuccessful /\ ImportClosure' = ImportClosure
  BY <1>1, ClosureOfSources DEF ParseInv, PhaseInv
<1>3. n \in ImportClosure
  BY <1>1 DEF AnalysisInv
<1>4. ASSUME noErrors', ~ContainsOnlyWarnings(reporter') PROVE pass < PostTypes
  <2> SUFFICES ASSUME pass >= PostTypes PROVE FALSE
    BY DEF ParseInv, Typed, PostTypes
  <2>1. noErrors /\ ~Fails(n)
    <3>1. CASE Fails(n)
      BY <1>1, <1>4, <3>1
    <3>2. CASE ~Fails(n)
      <4>1. noErrors' = noErrors
        BY <1>1, <3>2
      <4>2. QED
        BY <1>4, <3>2, <4>1
    <3>3. QED
      BY <3>1, <3>2
  <2>2. pass = PostTypes \/ ContainsOnlyWarnings(reporter)
    BY <1>1, <2>1 DEF AnalysisInv, ParseInv, Typed, PostTypes
  <2>3. n \in sources
    BY <1>2, <1>3, ClosureInSources DEF ParsingSuccessful
  <2>4. QED
    BY <1>1, <1>4, <2>1, <2>2, <2>3, LateChecksFail
<1>5. QED
  BY <1>1, <1>2, <1>3, <1>4
  DEF AnalysisInv, AnalysedIsClean, ParsingSuccessful, AnalysisSuccessful

\* Going to the next pass keeps the invariant: PostTypeChecker cannot have finished
\* with noErrors TRUE and an error in the list, for it visited a source.
LEMMA NextPassClean ==
  ASSUME ParseInv, AnalysisInv, NextPass PROVE AnalysisInv'
<1>1. /\ pc = "pass" /\ todo = {} /\ pass' = pass + 1 /\ todo' = sourceOrder
      /\ UNCHANGED <<stackState, sourceVars, sourceOrder, reporter, noErrors, pc>>
  BY DEF NextPass
<1>2. stackState = ParsingSuccessful /\ ImportClosure' = ImportClosure
  BY <1>1, ClosureOfSources DEF ParseInv, PhaseInv
<1>3. noErrors' /\ ~ContainsOnlyWarnings(reporter') =>
        pass' < PostTypes \/ (pass' = PostTypes /\ todo' = sourceOrder')
  <2> SUFFICES ASSUME noErrors', ~ContainsOnlyWarnings(reporter')
               PROVE  pass' < PostTypes \/ (pass' = PostTypes /\ todo' = sourceOrder')
    OBVIOUS
  <2>1. noErrors' = noErrors /\ reporter' = reporter
    BY <1>1
  <2>2. noErrors /\ ~ContainsOnlyWarnings(reporter)
    BY <2>1
  <2>3. sourceOrder # {}
    BY <1>1, <1>2, <2>2 DEF AnalysisInv, ParsingSuccessful
  <2>4. pass < PostTypes
    BY <1>1, <2>2, <2>3 DEF AnalysisInv
  <2>5. QED
    BY <1>1, <2>4 DEF ParseInv, Typed, PostTypes
<1>4. QED
  BY <1>1, <1>2, <1>3
  DEF AnalysisInv, AnalysedIsClean, ParsingSuccessful, AnalysisSuccessful

\* An analysis that is left with an error had a source to find it in.
LEMMA AbortClean ==
  ASSUME ParseInv, AnalysisInv, NEW n \in Name, CheckSourceAborts(n) PROVE AnalysisInv'
<1>1. /\ pc = "pass" /\ pc' = "idle" /\ n \in todo
      /\ UNCHANGED <<stackState, sourceVars, sourceOrder>>
  BY DEF CheckSourceAborts, Leave
<1>2. stackState = ParsingSuccessful /\ ImportClosure' = ImportClosure
  BY <1>1, ClosureOfSources DEF ParseInv, PhaseInv
<1>3. n \in ImportClosure
  BY <1>1 DEF AnalysisInv
<1>4. QED
  BY <1>1, <1>2, <1>3
  DEF AnalysisInv, AnalysedIsClean, ParsingSuccessful, AnalysisSuccessful

\* The analysis succeeds only with a clean list.
LEMMA EndAnalyzeClean ==
  ASSUME ParseInv, AnalysisInv, EndAnalyze PROVE AnalysisInv'
<1>1. /\ pc = "pass" /\ todo = {} /\ LastPass /\ pc' # "pass"
      /\ UNCHANGED <<sourceVars, reporter>>
      /\ stackState' = stackState \/ (noErrors /\ stackState' = AnalysisSuccessful)
  BY DEF EndAnalyze, Leave, BeginCompile
<1>2. stackState = ParsingSuccessful /\ ImportClosure' = ImportClosure
  BY <1>1, ClosureOfSources DEF ParseInv, PhaseInv
<1>3. noErrors => ContainsOnlyWarnings(reporter)
  <2> SUFFICES ASSUME noErrors, ~ContainsOnlyWarnings(reporter) PROVE FALSE
    OBVIOUS
  <2>1. pass = 12
    BY <1>1, PassNames DEF LastPass
  <2>2. QED
    BY <1>1, <2>1 DEF AnalysisInv, PostTypes
<1>4. QED
  BY <1>1, <1>2, <1>3
  DEF AnalysisInv, AnalysedIsClean, ParsingSuccessful, AnalysisSuccessful

\* parse() hands a clean list to analyze().
LEMMA EndParseClean ==
  ASSUME ParseInv, AnalysisInv, EndParse PROVE AnalysisInv'
<1>1. ImportClosure' = ImportClosure /\ reporter' = reporter
  BY ClosureOfSources DEF EndParse
<1>2. pc = "parse" /\ stackState = SourcesSet
  BY DEF EndParse, ParseInv, ParsingInv
<1>3. CASE stackState' = stackState /\ pc' = "idle"
  BY <1>2, <1>3, UnparsedPreserves DEF SourcesSet, ParsingSuccessful
<1>4. CASE /\ ContainsOnlyWarnings(reporter) /\ stackState' = ParsingSuccessful
           /\ pc' = "pass" => sourceOrder' = ImportClosure /\ todo' = ImportClosure
  BY <1>1, <1>4 DEF AnalysisInv, AnalysedIsClean, ParsingSuccessful, AnalysisSuccessful
<1>5. QED
  BY <1>3, <1>4 DEF EndParse, Leave, BeginAnalyze

\* Every step keeps the invariant.
LEMMA AnalysisInvStep == ParseInv /\ ParseInv' /\ AnalysisInv /\ [Next]_vars => AnalysisInv'
<1> SUFFICES ASSUME ParseInv, ParseInv', AnalysisInv, [Next]_vars PROVE AnalysisInv'
  OBVIOUS
<1>1. CASE \/ ResetKeepingSources \/ ResetDroppingSources
           \/ \E n \in Name, c \in Contents, lib \in IsLibraryArgs : AddSource(n, c, lib)
  BY <1>1, TypedReset, UnparsedPreserves DEF ParseInv, Empty, SourcesSet, ParsingSuccessful
<1>2. CASE \/ SetOptimiserSettings \/ SetLibraries \/ SetRequestedContractNames
           \/ UseMetadataLiteralSources \/ SetRemappings \/ SetEVMVersion
           \/ SetEVMVersionTooLate
           \/ \E n \in Responses : AddSMTLib2Response(n)
           \/ \E n \in Name : SourceMapping(n)
           \/ \E m \in {"parse", "parseAndAnalyze", "compile"} : ParseRefused(m)
           \/ AnalyzeRefused
  <2>1. UNCHANGED <<stackState, reporter>> /\ UNCHANGED sourceVars /\ pc' = "idle"
    BY <1>2, ClientQuiet DEF Quiet
  <2>2. QED
    BY <2>1, ClosureOfSources DEF AnalysisInv, AnalysedIsClean
<1>3. CASE \/ \E m \in {"parse", "parseAndAnalyze", "compile"} : StartParse(m)
           \/ \E n \in Name : ParseSource(n) \/ ParseSourceGivesUp(n)
           \/ \E i \in Name : ImportKnown(i) \/ ImportNotFound(i)
           \/ \E i \in Name, answer \in ReadResults : ImportRead(i, answer)
           \/ StoreNewSources
  <2>1. stackState' = stackState /\ pc' # "pass" /\ stackState = SourcesSet
    BY <1>3
    DEF StartParse, ParseSource, ParseSourceGivesUp, Leave, ImportKnown, ImportNotFound,
        ImportRead, AnnotateImport, StoreNewSources, ParseInv, ParsingInv
  <2>2. QED
    BY <2>1, UnparsedPreserves DEF SourcesSet, ParsingSuccessful
<1>4. CASE EndParse
  BY <1>4, EndParseClean
<1>5. CASE StartAnalyze
  <2>1. /\ UNCHANGED <<stackState, sourceVars, reporter>>
        /\ stackState = ParsingSuccessful
        /\ sourceOrder' = ImportClosure /\ todo' = ImportClosure /\ pass' = 1
    BY <1>5 DEF StartAnalyze, BeginAnalyze
  <2>2. QED
    BY <2>1, ClosureOfSources
    DEF AnalysisInv, AnalysedIsClean, ParsingSuccessful, AnalysisSuccessful, PostTypes
<1>6. CASE \E n \in Name : CheckSource(n) \/ CheckSourceAborts(n)
  BY <1>6, CheckSourceClean, AbortClean
<1>7. CASE NextPass \/ EndAnalyze
  BY <1>7, NextPassClean, EndAnalyzeClean
<1>8. CASE \/ StartCompile \/ EndCompile
           \/ \E n \in Name : CompileContract(n) \/ CodeGenerationFails(n) \/ AssemblyFails(n)
  <2>1. CASE StartCompile
    BY <2>1, ClosureOfSources
    DEF StartCompile, BeginCompile, AnalysisInv, AnalysedIsClean
  <2>2. CASE EndCompile
    <3>1. UNCHANGED sourceVars /\ UNCHANGED reporter /\ pc = "compile" /\ pc' = "idle"
      BY <2>2 DEF EndCompile, Leave
    <3>2. stackState >= AnalysisSuccessful
      BY <3>1 DEF ParseInv, PhaseInv
    <3>3. QED
      BY <3>1, <3>2, ClosureOfSources
      DEF AnalysisInv, AnalysedIsClean, ParsingSuccessful, AnalysisSuccessful, ParseInv, Typed
  <2>3. CASE \E n \in Name : CompileContract(n) \/ CodeGenerationFails(n) \/ AssemblyFails(n)
    <3>1. PICK n \in Name : CompileContract(n) \/ CodeGenerationFails(n) \/ AssemblyFails(n)
      BY <2>3
    <3>2. CompilesNow(n)
      BY <3>1 DEF CompileContract, CodeGenerationFails, AssemblyFails
    <3>3. pc' \in {pc, "idle"}
      BY <3>1 DEF CompileContract, CodeGenerationFails, AssemblyFails, Leave
    <3>4. QED
      BY <3>2, <3>3, ClosureOfSources DEF CompilesNow, AnalysisInv, AnalysedIsClean
  <2>4. QED
    BY <1>8, <2>1, <2>2, <2>3
<1>9. CASE UNCHANGED vars
  <2>1. UNCHANGED sourceVars
        /\ UNCHANGED <<stackState, reporter, pc, sourceOrder, todo, pass, noErrors>>
    BY <1>9 DEF vars, loopVars
  <2>2. QED
    BY <2>1, ClosureOfSources DEF AnalysisInv, AnalysedIsClean
<1>10. QED
  BY <1>1, <1>2, <1>3, <1>4, <1>5, <1>6, <1>7, <1>8, <1>9 DEF Next, ClientCall, MethodStep

\* analyze() never succeeds with an error in the list, for every arrangement of errors
\* over sources and passes, every limit of the reporter and every history of the stack.
THEOREM AnalysisIsClean == Spec => []AnalysedIsClean
<1>1. Init => AnalysisInv
  BY DEF Init, AnalysisInv, AnalysedIsClean, Empty, ParsingSuccessful, AnalysisSuccessful
<1>2. AnalysisInv => AnalysedIsClean
  BY DEF AnalysisInv
<1>3. QED
  BY <1>1, <1>2, ParseInvInit, ParseInvStep, AnalysisInvStep, PTL DEF Spec

-----------------------------------------------------------------------------
(* ContractsComplete. *)

\* The contracts the analysis has to enter in m_contracts.
OrderedContracts == {n \in sourceOrder : HasContract(n)}

\* Nothing is entered before the analysis and only what belongs there during it, also
\* by an analysis that failed; from the name resolution loop on it is complete.
ContractsInv ==
  /\ contracts \in [DOMAIN contracts -> Contract]
  /\ stackState < ParsingSuccessful => DOMAIN contracts = {}
  /\ stackState = ParsingSuccessful =>
       DOMAIN contracts \subseteq {n \in ImportClosure : HasContract(n)}
  /\ pc = "pass" /\ pass = 5 => OrderedContracts \ todo \subseteq DOMAIN contracts
  /\ pc = "pass" /\ pass > 5 => OrderedContracts \subseteq DOMAIN contracts
  /\ stackState >= AnalysisSuccessful =>
       sourceOrder = ImportClosure /\ DOMAIN contracts = OrderedContracts
  /\ pc = "compile" => todo \subseteq ToCompile

\* What is derived from the sources does not change while they do not.
LEMMA SourceFacts ==
  ASSUME UNCHANGED sourceVars
  PROVE  /\ ImportClosure' = ImportClosure
         /\ DependsOn' = DependsOn
         /\ \A n : HasContract(n)' <=> HasContract(n)
         /\ \A n : Deployable(n)' <=> Deployable(n)
         /\ sourceOrder' = sourceOrder => OrderedContracts' = OrderedContracts
<1>1. \A n : HasContract(n)' <=> HasContract(n)
  BY DEF sourceVars, HasContract
<1>2. \A n : Deployable(n)' <=> Deployable(n)
  BY <1>1 DEF sourceVars, Deployable
<1>3. ImportClosure' = ImportClosure
  BY ClosureOfSources
<1>4. DependsOn' = DependsOn
  BY <1>1 DEF sourceVars, DependsOn
<1>5. sourceOrder' = sourceOrder => OrderedContracts' = OrderedContracts
  BY <1>1 DEF OrderedContracts
<1>6. QED
  BY <1>1, <1>2, <1>3, <1>4, <1>5

\* The closure is closed.
LEMMA ClosureClosed ==
  ASSUME NEW S, NEW next
  PROVE  /\ \A n \in Name : n \in S => n \in Closure(S, next)
         /\ \A n \in Closure(S, next), m \in Name : m \in next[n] => m \in Closure(S, next)
         /\ \A T \in SUBSET Name :
              S \subseteq T /\ (\A m \in T : next[m] \subseteq T) => Closure(S, next) \subseteq T
  BY DEF Closure

\* A contract creates contracts of sources its own source imports.
LEMMA CreatesImported ==
  ASSUME ParseInv, stackState >= ParsingSuccessful, NEW n \in Name
  PROVE  /\ DependsOn[n] \subseteq ImportedBy[n]
         /\ \A m \in DependsOn[n] : m \in Name /\ HasContract(m)
         /\ DependsOn[n] # {} => n \in sources /\ HasContract(n)
  BY DEF DependsOn, ImportedBy, HasContract, ParseInv, Typed

\* compileContract stays within m_sourceOrder and the contracts.
LEMMA CompiledAreOrdered ==
  ASSUME ParseInv, stackState >= ParsingSuccessful, sourceOrder = ImportClosure
  PROVE  ToCompile \subseteq OrderedContracts
<1> DEFINE roots == {m \in sourceOrder : Deployable(m) /\ IsRequestedContract(m)}
           created == [m \in Name |-> IF m \in sources /\ Deployable(m) THEN DependsOn[m] ELSE {}]
<1>1. sourceOrder \in SUBSET Name
  BY DEF ParseInv, Typed
<1>2. \A n \in ImportClosure : ImportedBy[n] \subseteq ImportClosure
  <2>1. \A n \in ImportClosure, m \in Name : m \in ImportedBy[n] => m \in ImportClosure
    BY ClosureClosed DEF ImportClosure
  <2>2. \A n \in Name : ImportedBy[n] \subseteq Name
    BY DEF ImportedBy, ParseInv, Typed, AST, PartialMap
  <2>3. QED
    BY <1>1, <2>1, <2>2
<1>3. \A m \in sourceOrder : created[m] \subseteq sourceOrder
  BY <1>1, <1>2, CreatesImported
<1>4. Closure(roots, created) \subseteq sourceOrder
  <2> HIDE DEF created
  <2>1. roots \subseteq sourceOrder
    OBVIOUS
  <2> HIDE DEF roots
  <2>2. QED
    BY <1>1, <1>3, <2>1, ClosureClosed
<1>5. \A n : Deployable(n) => HasContract(n)
  BY DEF Deployable
<1>6. QED
  BY <1>4, <1>5 DEF ToCompile, OrderedContracts

\* The contracts to compile follow from the sources, their order and the settings.
LEMMA ToCompileFacts ==
  ASSUME UNCHANGED <<sourceVars, sourceOrder, settings>>
  PROVE  ToCompile' = ToCompile /\ CurrentBuild' = CurrentBuild
<1>1. UNCHANGED sourceVars
  OBVIOUS
<1>2. DependsOn' = DependsOn /\ \A n : Deployable(n)' <=> Deployable(n)
  BY <1>1, SourceFacts
<1>3. QED
  BY <1>2 DEF ToCompile, Closure, IsRequestedContract, CurrentBuild, sourceVars

\* The passes that ContractsInv and OrderInv single out.
LEMMA NamedPasses ==
  ASSUME NEW k \in 1..12
  PROVE  /\ Passes[k] = "resolveNames" <=> k = 5
         /\ Passes[k] = "types" <=> k = 7
<1>1. /\ k = 1 \/ k = 2 \/ k = 3 \/ k = 4 \/ k = 5 \/ k = 6
         \/ k = 7 \/ k = 8 \/ k = 9 \/ k = 10 \/ k = 11 \/ k = 12
  OBVIOUS
<1>2. QED
  BY <1>1 DEF Passes

\* A step that ends before the stack is parsed.
LEMMA UnparsedContracts ==
  ASSUME stackState' \in Nat, stackState' < ParsingSuccessful, pc' \notin {"pass", "compile"},
         \/ contracts' = [n \in {} |-> NewContract]
         \/ ContractsInv /\ stackState < ParsingSuccessful /\ contracts' = contracts
  PROVE  ContractsInv'
<1>1. DOMAIN contracts' = {} /\ contracts' \in [DOMAIN contracts' -> Contract]
  BY DEF ContractsInv
<1>2. QED
  BY <1>1 DEF ContractsInv, ParsingSuccessful, AnalysisSuccessful

\* A step between two methods that leaves the contracts' names alone.
LEMMA IdleContracts ==
  ASSUME ContractsInv, UNCHANGED <<stackState, sourceVars, sourceOrder>>, pc' = "idle",
         contracts' \in [DOMAIN contracts -> Contract]
  PROVE  ContractsInv'
<1>1. UNCHANGED sourceVars /\ DOMAIN contracts' = DOMAIN contracts
  OBVIOUS
<1>2. /\ ImportClosure' = ImportClosure /\ OrderedContracts' = OrderedContracts
      /\ \A n : HasContract(n)' <=> HasContract(n)
  BY <1>1, SourceFacts
<1>3. QED
  BY <1>1, <1>2 DEF ContractsInv

\* The fields of a contract may be set, one by one.
LEMMA ContractFields ==
  ASSUME NEW c \in Contract, NEW b \in Build \cup {NoBuild}, NEW o \in Object \cup {NoBuild},
         NEW r \in Object \cup {NoBuild}
  PROVE  /\ [c EXCEPT !.sourceMapping = b] \in Contract
         /\ [c EXCEPT !.object = o, !.runtimeObject = r] \in Contract
         /\ [c EXCEPT !.compiler = b, !.metadata = b] \in Contract
         /\ [c EXCEPT !.compiler = b, !.metadata = b, !.object = o] \in Contract
         /\ [c EXCEPT !.compiler = b, !.metadata = b, !.object = o,
                      !.runtimeObject = r] \in Contract
         /\ c.compiler \in Build \cup {NoBuild} /\ c.sourceMapping \in Build \cup {NoBuild}
         /\ c.object \in Object \cup {NoBuild} /\ c.runtimeObject \in Object \cup {NoBuild}
  BY DEF Contract

\* The objects that are made are objects.
LEMMA ObjectsTyped ==
  ASSUME ParseInv
  PROVE  /\ CurrentBuild \in Build /\ AssembledObject \in Object
         /\ \A o \in Object \cup {NoBuild} : Link(o) \in Object \cup {NoBuild}
<1>1. CurrentBuild \in Build /\ settings.libraries \in Libraries
  BY DEF ParseInv, Typed, Settings, CurrentBuild, Build
<1>2. AssembledObject \in Object
  BY <1>1, StackAssumption DEF AssembledObject, Object
<1>3. \A o \in Object \cup {NoBuild} : Link(o) \in Object \cup {NoBuild}
  BY <1>1 DEF Link, Object
<1>4. QED
  BY <1>1, <1>2, <1>3

\* The source mapping of a contract is cached in it.
LEMMA SourceMappingContracts ==
  ASSUME ContractsInv, NEW n \in Name, SourceMapping(n)
  PROVE  contracts' \in [DOMAIN contracts -> Contract]
<1>1. n \in DOMAIN contracts /\ contracts[n] \in Contract
  BY DEF SourceMapping, ContractsInv
<1> DEFINE b == IF contracts[n].sourceMapping = NoBuild THEN contracts[n].compiler
                ELSE contracts[n].sourceMapping
<1>2. contracts' = [contracts EXCEPT ![n] = [contracts[n] EXCEPT !.sourceMapping = b]]
  BY <1>1 DEF SourceMapping, ContractsInv
<1>3. b \in Build \cup {NoBuild}
  BY <1>1, ContractFields
<1> HIDE DEF b
<1>4. [contracts[n] EXCEPT !.sourceMapping = b] \in Contract
  BY <1>1, <1>3, ContractFields
<1>5. QED
  BY <1>1, <1>2, <1>4 DEF ContractsInv

\* A checked source: from the name resolution loop its contract is entered.
LEMMA CheckSourceContracts ==
  ASSUME ParseInv, AnalysisInv, ContractsInv, NEW n \in Name, CheckSource(n)
  PROVE  ContractsInv'
<1>1. /\ pc = "pass" /\ pc' = "pass" /\ n \in todo /\ todo' = todo \ {n}
      /\ UNCHANGED <<stackState, sourceVars, sourceOrder, pass>>
      /\ contracts' = EnterContract(n)
  BY DEF CheckSource
<1>2. UNCHANGED sourceVars /\ sourceOrder' = sourceOrder
  BY <1>1
<1>3. /\ stackState = ParsingSuccessful /\ sourceOrder = ImportClosure /\ n \in sourceOrder
      /\ pass \in 1..12
  BY <1>1 DEF ParseInv, PhaseInv, AnalysisInv, Typed
<1>4. /\ ImportClosure' = ImportClosure /\ OrderedContracts' = OrderedContracts
      /\ \A m : HasContract(m)' <=> HasContract(m)
  BY <1>2, SourceFacts
<1>5. CASE pass = 5 /\ HasContract(n) /\ n \notin DOMAIN contracts
  <2>1. contracts' = [m \in DOMAIN contracts \cup {n} |->
                        IF m = n THEN NewContract ELSE contracts[m]]
    BY <1>1, <1>5, NamedPasses DEF EnterContract, PassName
  <2>2. NewContract \in Contract
    BY DEF NewContract, Contract
  <2>3. /\ DOMAIN contracts' = DOMAIN contracts \cup {n}
        /\ contracts' \in [DOMAIN contracts' -> Contract]
    BY <2>1, <2>2 DEF ContractsInv
  <2>4. OrderedContracts \ todo' \subseteq DOMAIN contracts'
    BY <1>1, <1>5, <2>3 DEF ContractsInv
  <2>5. DOMAIN contracts' \subseteq {m \in ImportClosure : HasContract(m)}
    BY <1>3, <1>5, <2>3 DEF ContractsInv
  <2>6. QED
    BY <1>1, <1>3, <1>4, <1>5, <2>3, <2>4, <2>5
    DEF ContractsInv, ParsingSuccessful, AnalysisSuccessful
<1>6. CASE ~(pass = 5 /\ HasContract(n) /\ n \notin DOMAIN contracts)
  <2>1. contracts' = contracts
    BY <1>1, <1>3, <1>6, NamedPasses DEF EnterContract, PassName
  <2>2. pass = 5 => OrderedContracts \ todo' \subseteq DOMAIN contracts
    BY <1>1, <1>6 DEF ContractsInv, OrderedContracts
  <2>3. QED
    BY <1>1, <1>3, <1>4, <2>1, <2>2 DEF ContractsInv, ParsingSuccessful, AnalysisSuccessful
<1>7. QED
  BY <1>5, <1>6

\* The next pass: the name resolution loop has entered the contracts it visited.
LEMMA NextPassContracts ==
  ASSUME ParseInv, ContractsInv, NextPass PROVE ContractsInv'
<1>1. /\ pc = "pass" /\ pc' = "pass" /\ todo = {} /\ pass' = pass + 1 /\ todo' = sourceOrder
      /\ UNCHANGED <<stackState, sourceVars, sourceOrder, contracts>>
  BY DEF NextPass
<1>2. UNCHANGED sourceVars /\ sourceOrder' = sourceOrder /\ pass \in 1..12
  BY <1>1 DEF ParseInv, Typed
<1>3. /\ ImportClosure' = ImportClosure /\ OrderedContracts' = OrderedContracts
      /\ \A n : HasContract(n)' <=> HasContract(n)
  BY <1>2, SourceFacts
<1>4. pass' = 5 => OrderedContracts \ todo' \subseteq DOMAIN contracts
  BY <1>1 DEF OrderedContracts
<1>5. pass' > 5 => OrderedContracts \subseteq DOMAIN contracts
  BY <1>1, <1>2 DEF ContractsInv
<1>6. QED
  BY <1>1, <1>2, <1>3, <1>4, <1>5 DEF ContractsInv

\* The end of the analysis: successful only after the last pass.
LEMMA EndAnalyzeContracts ==
  ASSUME ParseInv, AnalysisInv, ContractsInv, EndAnalyze PROVE ContractsInv'
<1>1. /\ pc = "pass" /\ todo = {} /\ LastPass
      /\ UNCHANGED <<sourceVars, sourceOrder, contracts, settings>>
      /\ \/ stackState' = stackState /\ pc' = "idle"
         \/ noErrors /\ stackState' = AnalysisSuccessful /\ pc' = "idle"
         \/ noErrors /\ stackState' = AnalysisSuccessful /\ pc' = "compile" /\ todo' = ToCompile
  BY DEF EndAnalyze, Leave, BeginCompile
<1>2. UNCHANGED sourceVars /\ sourceOrder' = sourceOrder /\ contracts' = contracts
  BY <1>1
<1>3. /\ ImportClosure' = ImportClosure /\ OrderedContracts' = OrderedContracts
      /\ \A n : HasContract(n)' <=> HasContract(n)
  BY <1>2, SourceFacts
<1>4. stackState = ParsingSuccessful /\ sourceOrder = ImportClosure
  BY <1>1 DEF ParseInv, PhaseInv, AnalysisInv
<1>5. noErrors => DOMAIN contracts = OrderedContracts
  <2>1. SUFFICES ASSUME noErrors PROVE DOMAIN contracts = OrderedContracts
    OBVIOUS
  <2>2. pass = 12
    BY <1>1, <2>1, PassNames DEF LastPass
  <2>3. OrderedContracts \subseteq DOMAIN contracts
    BY <1>1, <2>2 DEF ContractsInv
  <2>4. DOMAIN contracts \subseteq OrderedContracts
    BY <1>4 DEF ContractsInv, OrderedContracts
  <2>5. QED
    BY <2>3, <2>4
<1>6. ToCompile' = ToCompile
  BY <1>1, ToCompileFacts
<1>7. QED
  BY <1>1, <1>2, <1>3, <1>4, <1>5, <1>6
  DEF ContractsInv, ParsingSuccessful, AnalysisSuccessful

\* compile() works on the contracts that are there.
LEMMA CompileContracts ==
  ASSUME ParseInv, ContractsInv,
         \E n \in Name : CompileContract(n) \/ CodeGenerationFails(n) \/ AssemblyFails(n)
  PROVE  ContractsInv'
<1>1. PICK n \in Name : CompileContract(n) \/ CodeGenerationFails(n) \/ AssemblyFails(n)
  OBVIOUS
<1>2. /\ pc = "compile" /\ n \in todo
      /\ UNCHANGED <<stackState, sourceVars, sourceOrder, settings>>
  BY <1>1 DEF CompileContract, CodeGenerationFails, AssemblyFails, CompilesNow
<1>3. stackState >= AnalysisSuccessful /\ stackState \in Nat
  BY <1>2 DEF ParseInv, PhaseInv, Typed, Empty
<1>4. n \in DOMAIN contracts /\ contracts[n] \in Contract
  <2>1. n \in OrderedContracts
    BY <1>2, <1>3, CompiledAreOrdered
    DEF ContractsInv, ParsingSuccessful, AnalysisSuccessful
  <2>2. QED
    BY <1>3, <2>1 DEF ContractsInv
<1>5. PICK c \in Contract : contracts' = [contracts EXCEPT ![n] = c]
  <2>1. /\ CurrentBuild \in Build \cup {NoBuild}
        /\ AssembledObject \in Object \cup {NoBuild}
        /\ contracts[n].object \in Object \cup {NoBuild}
    BY <1>4, ContractFields, ObjectsTyped
  <2>2. CASE CompileContract(n)
    BY <1>4, <2>1, <2>2, ContractFields DEF CompileContract
  <2>3. CASE CodeGenerationFails(n)
    BY <1>4, <2>1, <2>3, ContractFields DEF CodeGenerationFails
  <2>4. CASE AssemblyFails(n)
    BY <1>4, <2>1, <2>4, ContractFields DEF AssemblyFails
  <2>5. QED
    BY <1>1, <2>2, <2>3, <2>4
<1>6. /\ DOMAIN contracts' = DOMAIN contracts
      /\ contracts' \in [DOMAIN contracts' -> Contract]
  BY <1>4, <1>5 DEF ContractsInv
<1>7. \/ pc' = "idle"
      \/ pc' = "compile" /\ todo' = todo \ {n}
  BY <1>1, <1>2 DEF CompileContract, CodeGenerationFails, AssemblyFails, Leave
<1>8. ToCompile' = ToCompile /\ UNCHANGED sourceVars /\ sourceOrder' = sourceOrder
  BY <1>2, ToCompileFacts
<1>9. /\ ImportClosure' = ImportClosure /\ OrderedContracts' = OrderedContracts
      /\ \A m : HasContract(m)' <=> HasContract(m)
  BY <1>8, SourceFacts
<1>10. QED
  BY <1>2, <1>3, <1>6, <1>7, <1>8, <1>9
  DEF ContractsInv, ParsingSuccessful, AnalysisSuccessful

\* compile() ends: the objects are linked.
LEMMA EndCompileContracts ==
  ASSUME ParseInv, ContractsInv, EndCompile PROVE ContractsInv'
<1>1. /\ pc = "compile" /\ pc' = "idle" /\ stackState' = CompilationSuccessful
      /\ UNCHANGED <<sourceVars, sourceOrder>>
      /\ contracts' = [n \in DOMAIN contracts |->
           [contracts[n] EXCEPT !.object = Link(contracts[n].object),
                                !.runtimeObject = Link(contracts[n].runtimeObject)]]
  BY DEF EndCompile, Leave
<1>2. stackState >= AnalysisSuccessful /\ UNCHANGED sourceVars /\ sourceOrder' = sourceOrder
  BY <1>1 DEF ParseInv, PhaseInv
<1>3. ImportClosure' = ImportClosure /\ OrderedContracts' = OrderedContracts
  BY <1>2, SourceFacts
<1>4. ASSUME NEW n \in DOMAIN contracts
      PROVE  [contracts[n] EXCEPT !.object = Link(contracts[n].object),
                                  !.runtimeObject = Link(contracts[n].runtimeObject)] \in Contract
  <2>1. contracts[n] \in Contract
    BY DEF ContractsInv
  <2>2. /\ Link(contracts[n].object) \in Object \cup {NoBuild}
        /\ Link(contracts[n].runtimeObject) \in Object \cup {NoBuild}
    BY <2>1, ContractFields, ObjectsTyped
  <2>3. QED
    BY ZenonT(30), <2>1, <2>2, ContractFields
<1>5. contracts' \in [DOMAIN contracts -> Contract] /\ DOMAIN contracts' = DOMAIN contracts
  BY <1>1, <1>4
<1>6. sourceOrder = ImportClosure /\ DOMAIN contracts = OrderedContracts
  BY <1>2 DEF ContractsInv
<1>7. contracts' \in [DOMAIN contracts' -> Contract]
  BY <1>5
<1>8. ~(stackState' < ParsingSuccessful) /\ stackState' # ParsingSuccessful
  <2>1. stackState' = CompilationSuccessful
    BY <1>1
  <2>2. QED
    BY <2>1 DEF CompilationSuccessful, ParsingSuccessful
<1>9. QED
  BY <1>1, <1>2, <1>3, <1>5, <1>6, <1>7, <1>8 DEF ContractsInv

\* Every step keeps the contracts in order.
LEMMA ContractsInvStep ==
  ParseInv /\ ParseInv' /\ AnalysisInv /\ ContractsInv /\ [Next]_vars => ContractsInv'
<1> SUFFICES ASSUME ParseInv, ParseInv', AnalysisInv, ContractsInv, [Next]_vars
             PROVE  ContractsInv'
  OBVIOUS
<1>1. stackState' \in Nat /\ stackState \in Nat
  BY DEF ParseInv, Typed, Empty
<1>2. CASE \/ ResetKeepingSources \/ ResetDroppingSources
           \/ \E n \in Name, c \in Contents, lib \in IsLibraryArgs : AddSource(n, c, lib)
  <2>1. contracts' = [n \in {} |-> NewContract]
    BY <1>2 DEF ResetKeepingSources, ResetDroppingSources, AddSource, ResetAllButSources
  <2>2. QED
    BY <1>1, <1>2, <2>1, TypedReset, UnparsedContracts
    DEF ParseInv, Empty, SourcesSet, ParsingSuccessful
<1>3. CASE \/ SetOptimiserSettings \/ SetLibraries \/ SetRequestedContractNames
           \/ UseMetadataLiteralSources \/ SetRemappings \/ SetEVMVersion
           \/ SetEVMVersionTooLate
           \/ \E n \in Responses : AddSMTLib2Response(n)
           \/ \E m \in {"parse", "parseAndAnalyze", "compile"} : ParseRefused(m)
           \/ AnalyzeRefused
  <2>1. UNCHANGED <<stackState, sourceVars, sourceOrder>> /\ pc' = "idle"
    BY <1>3, ClientQuiet DEF Quiet
  <2>2. contracts' = contracts
    BY <1>3
    DEF SetOptimiserSettings, SetLibraries, SetRequestedContractNames,
        UseMetadataLiteralSources, SetRemappings, SetEVMVersion, ChangeSettings,
        SetEVMVersionTooLate, AddSMTLib2Response, ParseRefused, AnalyzeRefused
  <2>3. contracts' \in [DOMAIN contracts -> Contract]
    BY <2>2 DEF ContractsInv
  <2>4. QED
    BY <2>1, <2>3, IdleContracts
<1>4. CASE \E n \in Name : SourceMapping(n)
  <2>1. UNCHANGED <<stackState, sourceVars, sourceOrder>> /\ pc' = "idle"
    BY <1>4 DEF SourceMapping
  <2>2. QED
    BY <1>4, <2>1, SourceMappingContracts, IdleContracts
<1>5. CASE \/ \E m \in {"parse", "parseAndAnalyze", "compile"} : StartParse(m)
           \/ \E n \in Name : ParseSource(n) \/ ParseSourceGivesUp(n)
           \/ \E i \in Name : ImportKnown(i) \/ ImportNotFound(i)
           \/ \E i \in Name, answer \in ReadResults : ImportRead(i, answer)
           \/ StoreNewSources
  <2>1. /\ stackState' = stackState /\ pc' \notin {"pass", "compile"}
        /\ stackState = SourcesSet /\ contracts' = contracts
    BY <1>5
    DEF StartParse, ParseSource, ParseSourceGivesUp, Leave, ImportKnown, ImportNotFound,
        ImportRead, AnnotateImport, StoreNewSources, ParseInv, ParsingInv
  <2>2. QED
    BY <1>1, <2>1, UnparsedContracts DEF SourcesSet, ParsingSuccessful
<1>6. CASE EndParse
  <2>1. /\ stackState = SourcesSet /\ contracts' = contracts
        /\ \/ stackState' = SourcesSet /\ pc' = "idle"
           \/ stackState' = ParsingSuccessful /\ pc' = "idle"
           \/ stackState' = ParsingSuccessful /\ pc' = "pass" /\ pass' = 1
    BY <1>6 DEF EndParse, Leave, BeginAnalyze, ParseInv, ParsingInv
  <2>2. QED
    BY <2>1 DEF ContractsInv, SourcesSet, ParsingSuccessful, AnalysisSuccessful
<1>7. CASE StartAnalyze
  <2>1. /\ UNCHANGED <<stackState, sourceVars>> /\ contracts' = contracts
        /\ stackState = ParsingSuccessful /\ pc' = "pass" /\ pass' = 1
    BY <1>7 DEF StartAnalyze, BeginAnalyze
  <2>2. /\ ImportClosure' = ImportClosure
        /\ \A n : HasContract(n)' <=> HasContract(n)
    BY <2>1, SourceFacts
  <2>3. QED
    BY <2>1, <2>2 DEF ContractsInv, ParsingSuccessful, AnalysisSuccessful
<1>8. CASE \E n \in Name : CheckSource(n)
  BY <1>8, CheckSourceContracts
<1>9. CASE \E n \in Name : CheckSourceAborts(n)
  <2>1. /\ UNCHANGED <<stackState, sourceVars, sourceOrder>> /\ pc' = "idle"
        /\ contracts' \in [DOMAIN contracts -> Contract]
    BY <1>9 DEF CheckSourceAborts, Leave, ContractsInv
  <2>2. QED
    BY <2>1, IdleContracts
<1>10. CASE NextPass \/ EndAnalyze
  BY <1>10, NextPassContracts, EndAnalyzeContracts
<1>11. CASE StartCompile
  <2>1. /\ UNCHANGED <<stackState, sourceVars, sourceOrder, settings>>
        /\ contracts' = contracts /\ stackState >= AnalysisSuccessful
        /\ pc' = "compile" /\ todo' = ToCompile
    BY <1>11 DEF StartCompile, BeginCompile
  <2>2. UNCHANGED sourceVars /\ sourceOrder' = sourceOrder /\ ToCompile' = ToCompile
    BY <2>1, ToCompileFacts
  <2>3. ImportClosure' = ImportClosure /\ OrderedContracts' = OrderedContracts
    BY <2>2, SourceFacts
  <2>4. QED
    BY <1>1, <2>1, <2>2, <2>3 DEF ContractsInv, ParsingSuccessful, AnalysisSuccessful
<1>12. CASE \E n \in Name : CompileContract(n) \/ CodeGenerationFails(n) \/ AssemblyFails(n)
  BY <1>12, CompileContracts
<1>13. CASE EndCompile
  BY <1>13, EndCompileContracts
<1>14. CASE UNCHANGED vars
  <2>1. /\ UNCHANGED sourceVars
        /\ UNCHANGED <<stackState, contracts, sourceOrder, settings, pc, todo, pass>>
    BY <1>14 DEF vars, loopVars
  <2>2. /\ ImportClosure' = ImportClosure /\ OrderedContracts' = OrderedContracts
        /\ \A n : HasContract(n)' <=> HasContract(n)
    BY <2>1, SourceFacts
  <2>3. ToCompile' = ToCompile
    BY <2>1, ToCompileFacts
  <2>4. QED
    BY <2>1, <2>2, <2>3 DEF ContractsInv
<1>15. QED
  BY <1>2, <1>3, <1>4, <1>5, <1>6, <1>7, <1>8, <1>9, <1>10, <1>11, <1>12, <1>13, <1>14
  DEF Next, ClientCall, MethodStep

\* The contracts are in order to begin with.
LEMMA ContractsInvInit == Init => ContractsInv
  BY DEF Init, ContractsInv, Empty, ParsingSuccessful, AnalysisSuccessful

\* After a successful analysis m_contracts holds the contracts of m_sourceOrder and no
\* others, whatever failed before, and compileContract finds every one it needs there.
THEOREM ContractsAreComplete == Spec => []ContractsComplete
<1>1. Init => AnalysisInv
  BY DEF Init, AnalysisInv, AnalysedIsClean, Empty, ParsingSuccessful, AnalysisSuccessful
<1>2. ParseInv /\ ContractsInv => ContractsComplete
  <2> SUFFICES ASSUME ParseInv, ContractsInv, stackState >= AnalysisSuccessful
               PROVE  /\ DOMAIN contracts = {n \in sourceOrder : HasContract(n)}
                      /\ pc = "compile" => todo \subseteq DOMAIN contracts
    BY DEF ContractsComplete
  <2>1. sourceOrder = ImportClosure /\ DOMAIN contracts = OrderedContracts
    BY DEF ContractsInv
  <2>2. stackState >= ParsingSuccessful
    BY DEF ParseInv, Typed, Empty, ParsingSuccessful, AnalysisSuccessful
  <2>3. ToCompile \subseteq OrderedContracts
    BY <2>1, <2>2, CompiledAreOrdered
  <2>4. QED
    BY <2>1, <2>3 DEF ContractsInv, OrderedContracts
<1>3. QED
  BY <1>1, <1>2, ContractsInvInit, ParseInvInit, ParseInvStep, AnalysisInvStep,
     ContractsInvStep, PTL DEF Spec

-----------------------------------------------------------------------------
(* CompileReturnsFreshObjects. *)

\* The contracts compile() is done with were built from the current settings.
FreshInv ==
  /\ pc = "compile" => \A n \in ToCompile \ todo :
       /\ contracts[n].compiler = CurrentBuild /\ contracts[n].metadata = CurrentBuild
       /\ contracts[n].object = AssembledObject
       /\ contracts[n].runtimeObject = AssembledObject
  /\ CompileReturnsFreshObjects

\* A step after which compile() is not running and has not just returned true.
LEMMA NotCompiling ==
  ASSUME pc' # "compile", ~(op' = "compile" /\ pc' = "idle" /\ outcome' = "true")
  PROVE  FreshInv'
  BY DEF FreshInv, CompileReturnsFreshObjects

\* compile() begins with everything still to do.
LEMMA BeginFresh ==
  ASSUME BeginCompile, UNCHANGED <<sourceVars, sourceOrder, settings>>
  PROVE  FreshInv'
<1>1. pc' = "compile" /\ todo' = ToCompile /\ ToCompile' = ToCompile
  BY ToCompileFacts DEF BeginCompile
<1>2. QED
  BY <1>1 DEF FreshInv, CompileReturnsFreshObjects

\* One contract is compiled.
LEMMA CompileFresh ==
  ASSUME ParseInv, ContractsInv, FreshInv, NEW n \in Name, CompileContract(n)
  PROVE  FreshInv'
<1>1. /\ pc = "compile" /\ pc' = "compile" /\ n \in todo /\ todo' = todo \ {n}
      /\ UNCHANGED <<sourceVars, sourceOrder, settings>>
  BY DEF CompileContract, CompilesNow
<1>2. stackState >= AnalysisSuccessful /\ stackState >= ParsingSuccessful
  BY <1>1
  DEF ParseInv, PhaseInv, Typed, Empty, ParsingSuccessful, AnalysisSuccessful
<1>3. sourceOrder = ImportClosure /\ DOMAIN contracts = OrderedContracts
  BY <1>2 DEF ContractsInv
<1>4. ToCompile \subseteq DOMAIN contracts /\ todo \subseteq ToCompile
  BY <1>1, <1>2, <1>3, CompiledAreOrdered DEF ContractsInv
<1>5. contracts[n] \in Contract /\ n \in DOMAIN contracts
  BY <1>1, <1>4 DEF ContractsInv
<1>6. ToCompile' = ToCompile /\ CurrentBuild' = CurrentBuild
      /\ AssembledObject' = AssembledObject
  BY <1>1, ToCompileFacts DEF AssembledObject
<1>7. /\ contracts'[n].compiler = CurrentBuild /\ contracts'[n].metadata = CurrentBuild
      /\ contracts'[n].object = AssembledObject
      /\ contracts'[n].runtimeObject = AssembledObject
  BY <1>5 DEF CompileContract, ContractsInv, Contract
<1>8. \A m \in DOMAIN contracts : m # n => contracts'[m] = contracts[m]
  BY DEF CompileContract, ContractsInv
<1>9. QED
  BY <1>1, <1>4, <1>6, <1>7, <1>8 DEF FreshInv, CompileReturnsFreshObjects

\* compile() returns: the fresh objects are linked with the current libraries.
LEMMA EndCompileFresh ==
  ASSUME ParseInv, ContractsInv, FreshInv, EndCompile
  PROVE  FreshInv'
<1>1. /\ pc = "compile" /\ pc' = "idle" /\ todo = {}
      /\ UNCHANGED <<sourceVars, sourceOrder, settings>>
      /\ contracts' = [n \in DOMAIN contracts |->
           [contracts[n] EXCEPT !.object = Link(contracts[n].object),
                                !.runtimeObject = Link(contracts[n].runtimeObject)]]
  BY DEF EndCompile, Leave
<1>2. stackState >= AnalysisSuccessful /\ stackState >= ParsingSuccessful
  <2>1. pc = "compile"
    BY <1>1
  <2>2. QED
    BY <2>1
    DEF ParseInv, PhaseInv, Typed, Empty, ParsingSuccessful, AnalysisSuccessful
<1>3. sourceOrder = ImportClosure /\ DOMAIN contracts = OrderedContracts
  BY <1>2 DEF ContractsInv
<1>4. ToCompile \subseteq DOMAIN contracts
  BY <1>2, <1>3, CompiledAreOrdered
<1>5. ToCompile' = ToCompile /\ CurrentBuild' = CurrentBuild /\ settings' = settings
  BY <1>1, ToCompileFacts
<1> DEFINE linked == [build |-> CurrentBuild, linked |-> settings.libraries]
<1>6. Link(AssembledObject) = linked
  <2>1. AssembledObject # NoBuild
    BY ObjectsTyped, StackAssumption
  <2>2. QED
    BY <2>1 DEF Link, AssembledObject
<1> HIDE DEF linked
<1>7. ASSUME NEW n \in ToCompile
      PROVE  /\ contracts'[n].compiler = CurrentBuild
             /\ contracts'[n].metadata = CurrentBuild
             /\ contracts'[n].object = linked
             /\ contracts'[n].runtimeObject = linked
  <2>1. n \in DOMAIN contracts /\ contracts[n] \in Contract
    BY <1>4 DEF ContractsInv
  <2>2. /\ contracts[n].compiler = CurrentBuild /\ contracts[n].metadata = CurrentBuild
        /\ contracts[n].object = AssembledObject
        /\ contracts[n].runtimeObject = AssembledObject
    BY <1>1 DEF FreshInv
  <2>3. contracts'[n] = [contracts[n] EXCEPT !.object = linked, !.runtimeObject = linked]
    BY <1>1, <1>6, <2>1, <2>2
  <2>4. QED
    BY <2>1, <2>2, <2>3 DEF Contract
<1>8. CompileReturnsFreshObjects'
  BY <1>5, <1>7 DEF CompileReturnsFreshObjects, linked
<1>9. QED
  BY <1>1, <1>8 DEF FreshInv

\* Every step keeps the compiled contracts fresh, or is no longer a return of compile().
LEMMA FreshInvStep ==
  ParseInv /\ ContractsInv /\ FreshInv /\ [Next]_vars => FreshInv'
<1> SUFFICES ASSUME ParseInv, ContractsInv, FreshInv, [Next]_vars PROVE FreshInv'
  OBVIOUS
<1>1. CASE \/ ResetKeepingSources \/ ResetDroppingSources
           \/ \E n \in Name, c \in Contents, lib \in IsLibraryArgs : AddSource(n, c, lib)
           \/ SetOptimiserSettings \/ SetLibraries \/ SetRequestedContractNames
           \/ UseMetadataLiteralSources \/ SetRemappings \/ SetEVMVersion
           \/ SetEVMVersionTooLate
           \/ \E n \in Responses : AddSMTLib2Response(n)
           \/ \E n \in Name : SourceMapping(n)
           \/ AnalyzeRefused
  <2>1. pc' = "idle" /\ op' # "compile"
    BY <1>1
    DEF ResetKeepingSources, ResetDroppingSources, AddSource, SetOptimiserSettings,
        SetLibraries, SetRequestedContractNames, UseMetadataLiteralSources, SetRemappings,
        SetEVMVersion, ChangeSettings, SetEVMVersionTooLate, AddSMTLib2Response,
        SourceMapping, AnalyzeRefused, CallReporting, Call, Leave
  <2>2. QED
    BY <2>1, NotCompiling
<1>2. CASE \/ \E m \in {"parse", "parseAndAnalyze", "compile"} : ParseRefused(m)
           \/ \E n \in Name : CheckSourceAborts(n)
           \/ \E n \in Name : CodeGenerationFails(n) \/ AssemblyFails(n)
  <2>1. pc' = "idle" /\ outcome' # "true"
    BY <1>2 DEF ParseRefused, CheckSourceAborts, CodeGenerationFails, AssemblyFails, Leave
  <2>2. QED
    BY <2>1, NotCompiling
<1>3. CASE \/ \E m \in {"parse", "parseAndAnalyze", "compile"} : StartParse(m)
           \/ StartAnalyze
           \/ \E n \in Name : ParseSource(n) \/ ParseSourceGivesUp(n)
           \/ \E i \in Name : ImportKnown(i) \/ ImportNotFound(i)
           \/ \E i \in Name, answer \in ReadResults : ImportRead(i, answer)
           \/ StoreNewSources \/ NextPass
           \/ \E n \in Name : CheckSource(n)
  <2>1. pc' # "compile" /\ (pc' = "idle" => outcome' # "true")
    BY <1>3
    DEF StartParse, StartAnalyze, BeginAnalyze, ParseSource, ParseSourceGivesUp, Leave,
        ImportKnown, ImportNotFound, ImportRead, AnnotateImport, StoreNewSources, NextPass,
        CheckSource
  <2>2. QED
    BY <2>1, NotCompiling
<1>4. CASE EndParse
  <2>1. pc' # "compile" /\ (pc' = "idle" /\ op' = "compile" => outcome' # "true")
    BY <1>4 DEF EndParse, BeginAnalyze, Leave
  <2>2. QED
    BY <2>1, NotCompiling
<1>5. CASE EndAnalyze
  <2>1. /\ UNCHANGED <<sourceVars, sourceOrder, settings>>
        /\ \/ pc' = "idle" /\ (op' = "compile" => outcome' # "true")
           \/ BeginCompile
    BY <1>5 DEF EndAnalyze, Leave
  <2>2. QED
    BY <2>1, NotCompiling, BeginFresh
<1>6. CASE StartCompile
  BY <1>6, BeginFresh DEF StartCompile
<1>7. CASE \E n \in Name : CompileContract(n)
  BY <1>7, CompileFresh
<1>8. CASE EndCompile
  BY <1>8, EndCompileFresh
<1>9. CASE UNCHANGED vars
  <2>1. UNCHANGED <<sourceVars, sourceOrder, settings, contracts, pc, todo, op, outcome>>
    BY <1>9 DEF vars, loopVars
  <2>2. ToCompile' = ToCompile /\ CurrentBuild' = CurrentBuild
    BY <2>1, ToCompileFacts
  <2>3. QED
    BY <2>1, <2>2 DEF FreshInv, CompileReturnsFreshObjects, AssembledObject
<1>10. QED
  BY <1>1, <1>2, <1>3, <1>4, <1>5, <1>6, <1>7, <1>8, <1>9 DEF Next, ClientCall, MethodStep

\* When compile() returns true, everything it was asked for is built from the current
\* settings and linked with the current libraries, whatever the stack held before.
THEOREM CompiledObjectsAreFresh == Spec => []CompileReturnsFreshObjects
<1>1. Init => AnalysisInv /\ FreshInv
  BY DEF Init, AnalysisInv, AnalysedIsClean, Empty, ParsingSuccessful, AnalysisSuccessful,
         FreshInv, CompileReturnsFreshObjects
<1>2. FreshInv => CompileReturnsFreshObjects
  BY DEF FreshInv
<1>3. QED
  BY <1>1, <1>2, ContractsInvInit, ParseInvInit, ParseInvStep, AnalysisInvStep,
     ContractsInvStep, FreshInvStep, PTL DEF Spec

-----------------------------------------------------------------------------
(* CreationOrderExists. *)

\* The dependencies known while the contracts of t are not checked yet.
Known(t) == [m \in Name |-> IF m \in t THEN {} ELSE DependsOn[m]]

\* No known chain of creations that starts at a contract of the analysis returns to it.
Acyclic(t) == \A m \in sourceOrder : m \notin Closure(Known(t)[m], Known(t))

\* While the type checker has let every source through without an error, the contracts
\* it has checked create one another without a cycle; after it all of them do.
OrderInv ==
  /\ pc = "pass" /\ ContainsOnlyWarnings(reporter) =>
       /\ pass = 7 => Acyclic(todo)
       /\ pass > 7 => Acyclic({})
  /\ stackState >= AnalysisSuccessful => Acyclic({})

\* One more checked contract: no cycle through it, hence none at all.
LEMMA OneMoreChecked ==
  ASSUME NEW n \in Name, NEW t \in SUBSET Name, n \in t, Acyclic(t),
         sourceOrder \subseteq Name,
         \A m \in Name : DependsOn[m] \subseteq Name,
         \A m \in Closure({n}, Known(t \ {n})) :
           m \notin Closure(Known(t \ {n})[m], Known(t \ {n}))
  PROVE  Acyclic(t \ {n})
<1> SUFFICES ASSUME NEW m \in sourceOrder, m \notin Closure({n}, Known(t \ {n}))
             PROVE  m \notin Closure(Known(t \ {n})[m], Known(t \ {n}))
  BY DEF Acyclic
<1> DEFINE old == Known(t)
           new == Known(t \ {n})
<1>1. /\ \A x \in Name : x # n => new[x] = old[x]
      /\ \A x \in Name : new[x] \subseteq Name /\ old[x] \subseteq Name
  BY DEF Known
<1>2. m \notin Closure(old[m], old)
  BY DEF Acyclic
<1> HIDE DEF old, new
<1> DEFINE T == Closure(old[m], old) \cup Closure({n}, new)
<1>3. T \in SUBSET Name /\ n \in T
  BY DEF Closure
<1>4. m # n
  BY <1>3 DEF Closure, new
<1>5. new[m] \subseteq T
  BY <1>1, <1>4, ClosureClosed
<1>6. ASSUME NEW x \in T PROVE new[x] \subseteq T
  <2>1. CASE x \in Closure({n}, new)
    BY <1>1, <1>3, <2>1, ClosureClosed
  <2>2. CASE x \in Closure(old[m], old) /\ x # n
    BY <1>1, <1>3, <2>2, ClosureClosed
  <2>3. n \in Closure({n}, new)
    BY ClosureClosed
  <2>4. QED
    BY <2>1, <2>2, <2>3
<1>7. Closure(new[m], new) \subseteq T
  <2> HIDE DEF T
  <2>1. QED
    BY <1>3, <1>5, <1>6, ClosureClosed
<1>8. QED
  BY <1>2, <1>7 DEF new

\* Nothing is known to create anything before the type checker starts.
LEMMA NothingChecked == Acyclic(sourceOrder)
  BY DEF Acyclic, Known, Closure

\* Acyclicity is a matter of the sources and their order.
LEMMA AcyclicStays ==
  ASSUME UNCHANGED <<sourceVars, sourceOrder>>, NEW t, Acyclic(t)
  PROVE  /\ todo' = t => Acyclic(todo)'
         /\ t = {} => Acyclic({})'
<1>1. DependsOn' = DependsOn /\ sourceOrder' = sourceOrder
  BY SourceFacts
<1>2. /\ todo' = t => Known(todo)' = Known(t)
      /\ t = {} => Known({})' = Known(t)
  BY <1>1 DEF Known
<1>3. QED
  BY <1>1, <1>2 DEF Acyclic, Closure

\* Past the limit apart, an error is in the list.
LEMMA ErrorIsListed ==
  ASSUME NEW r \in Reporter, ~ErrorThrows(r)
  PROVE  ~ContainsOnlyWarnings(Error(r))
  BY DEF Reporter, ErrorList, Error, ContainsOnlyWarnings

\* A contract the type checker accepts closes no chain of creations.
LEMMA CheckSourceOrder ==
  ASSUME ParseInv, AnalysisInv, OrderInv, NEW n \in Name, CheckSource(n)
  PROVE  OrderInv'
<1>1. /\ pc = "pass" /\ pc' = "pass" /\ n \in todo /\ todo' = todo \ {n}
      /\ UNCHANGED <<stackState, sourceVars, sourceOrder, pass>>
      /\ reporter' = ReportAfter(n) /\ ~Aborts(n)
  BY DEF CheckSource
<1>2. /\ stackState = ParsingSuccessful /\ pass \in 1..12 /\ reporter \in Reporter
      /\ todo \in SUBSET Name /\ sourceOrder \subseteq Name
  BY <1>1 DEF ParseInv, PhaseInv, Typed
<1>3. ContainsOnlyWarnings(reporter') => ContainsOnlyWarnings(reporter) /\ ~Finds(n)
  BY <1>1, <1>2, ReporterSteps, ErrorIsListed DEF ReportAfter, Aborts
<1>4. ASSUME pass = 7, ContainsOnlyWarnings(reporter') PROVE Acyclic(todo)'
  <2>1. Acyclic(todo) /\ ~Finds(n)
    BY <1>1, <1>3, <1>4 DEF OrderInv
  <2>2. HasContract(n) => ~DependenciesAreCyclic(n)
    BY <1>4, <2>1, NamedPasses DEF Finds, PassName
  <2>3. Known(todo \ {n}) = KnownWhenAt(n)
    BY DEF Known, KnownWhenAt
  <2>4. \A m \in Name : DependsOn[m] \subseteq Name
    BY <1>2, CreatesImported DEF ParsingSuccessful
  <2>5. Acyclic(todo \ {n})
    <3>1. CASE HasContract(n)
      BY <1>1, <1>2, <2>1, <2>2, <2>3, <2>4, <3>1, OneMoreChecked DEF DependenciesAreCyclic
    <3>2. CASE ~HasContract(n)
      <4>1. DependsOn[n] = {}
        BY <3>2 DEF DependsOn
      <4>2. Known(todo \ {n}) = Known(todo)
        BY <4>1 DEF Known
      <4>3. QED
        BY <2>1, <4>2 DEF Acyclic
    <3>3. QED
      BY <3>1, <3>2
  <2>6. QED
    BY <1>1, <2>5, AcyclicStays
<1>5. ASSUME pass > 7, ContainsOnlyWarnings(reporter') PROVE Acyclic({})'
  <2>1. Acyclic({})
    BY <1>1, <1>3, <1>5 DEF OrderInv
  <2>2. QED
    BY <1>1, <2>1, AcyclicStays
<1>6. ~(stackState' >= AnalysisSuccessful) /\ pass' = pass
  BY <1>1, <1>2 DEF ParsingSuccessful, AnalysisSuccessful
<1>7. QED
  BY <1>1, <1>4, <1>5, <1>6 DEF OrderInv

\* The type checker starts with nothing known and ends with everything checked.
LEMMA NextPassOrder ==
  ASSUME ParseInv, OrderInv, NextPass PROVE OrderInv'
<1>1. /\ pc = "pass" /\ todo = {} /\ pass' = pass + 1 /\ todo' = sourceOrder
      /\ UNCHANGED <<stackState, sourceVars, sourceOrder, reporter>>
  BY DEF NextPass
<1>2. stackState = ParsingSuccessful /\ pass \in 1..12
  BY <1>1 DEF ParseInv, PhaseInv, Typed
<1>3. Acyclic(todo)'
  BY <1>1, NothingChecked, AcyclicStays
<1>4. ASSUME pass' > 7, ContainsOnlyWarnings(reporter) PROVE Acyclic({})'
  <2>1. Acyclic({})
    BY <1>1, <1>2, <1>4 DEF OrderInv
  <2>2. QED
    BY <1>1, <2>1, AcyclicStays
<1>5. ~(stackState' >= AnalysisSuccessful) /\ reporter' = reporter
  BY <1>1, <1>2 DEF ParsingSuccessful, AnalysisSuccessful
<1>6. QED
  BY <1>3, <1>4, <1>5 DEF OrderInv

\* The analysis succeeds with a clean list, after the last pass.
LEMMA EndAnalyzeOrder ==
  ASSUME ParseInv, AnalysisInv, AnalysisInv', OrderInv, EndAnalyze PROVE OrderInv'
<1>1. /\ pc = "pass" /\ pc' # "pass" /\ LastPass
      /\ UNCHANGED <<sourceVars, sourceOrder, reporter>>
      /\ \/ stackState' = stackState
         \/ noErrors /\ stackState' = AnalysisSuccessful
  BY DEF EndAnalyze, Leave, BeginCompile
<1>2. stackState = ParsingSuccessful
  BY <1>1 DEF ParseInv, PhaseInv
<1>3. CASE stackState' = stackState
  BY <1>1, <1>2, <1>3 DEF OrderInv, ParsingSuccessful, AnalysisSuccessful
<1>4. CASE noErrors /\ stackState' = AnalysisSuccessful
  <2>1. pass = 12
    BY <1>1, <1>4, PassNames DEF LastPass
  <2>2. ContainsOnlyWarnings(reporter)
    BY <1>1, <1>4 DEF AnalysisInv, AnalysedIsClean, AnalysisSuccessful
  <2>3. Acyclic({})
    BY <1>1, <2>1, <2>2 DEF OrderInv
  <2>4. Acyclic({})'
    BY <1>1, <2>3, AcyclicStays
  <2>5. QED
    BY <1>1, <2>4 DEF OrderInv
<1>5. QED
  BY <1>1, <1>3, <1>4

\* Every step keeps it.
LEMMA OrderInvStep ==
  ParseInv /\ ParseInv' /\ AnalysisInv /\ AnalysisInv' /\ OrderInv /\ [Next]_vars => OrderInv'
<1> SUFFICES ASSUME ParseInv, ParseInv', AnalysisInv, AnalysisInv', OrderInv, [Next]_vars
             PROVE  OrderInv'
  OBVIOUS
<1>1. stackState' \in Nat /\ stackState \in Nat
  BY DEF ParseInv, Typed, Empty
<1>2. ASSUME stackState' < AnalysisSuccessful, pc' # "pass" \/ pass' = 1 PROVE OrderInv'
  BY <1>1, <1>2 DEF OrderInv, AnalysisSuccessful
<1>3. ASSUME UNCHANGED <<sourceVars, sourceOrder>>, pc' # "pass",
             stackState' = stackState \/ stackState >= AnalysisSuccessful
      PROVE  OrderInv'
  <2>1. stackState' >= AnalysisSuccessful => Acyclic({})
    BY <1>3 DEF OrderInv
  <2>2. stackState' >= AnalysisSuccessful => Acyclic({})'
    BY <1>3, <2>1, AcyclicStays
  <2>3. QED
    BY <1>3, <2>2 DEF OrderInv
<1>4. CASE \/ ResetKeepingSources \/ ResetDroppingSources
           \/ \E n \in Name, c \in Contents, lib \in IsLibraryArgs : AddSource(n, c, lib)
  BY <1>2, <1>4, TypedReset DEF ParseInv, Empty, SourcesSet, AnalysisSuccessful
<1>5. CASE \/ SetOptimiserSettings \/ SetLibraries \/ SetRequestedContractNames
           \/ UseMetadataLiteralSources \/ SetRemappings \/ SetEVMVersion
           \/ SetEVMVersionTooLate
           \/ \E n \in Responses : AddSMTLib2Response(n)
           \/ \E m \in {"parse", "parseAndAnalyze", "compile"} : ParseRefused(m)
           \/ AnalyzeRefused
  <2>1. UNCHANGED <<stackState, sourceVars, sourceOrder>> /\ pc' = "idle"
    BY <1>5, ClientQuiet DEF Quiet
  <2>2. QED
    BY <1>3, <2>1
<1>6. CASE \/ \E n \in Name : SourceMapping(n) \/ CheckSourceAborts(n)
           \/ StartCompile
           \/ \E n \in Name : CompileContract(n) \/ CodeGenerationFails(n) \/ AssemblyFails(n)
  <2>1. UNCHANGED <<stackState, sourceVars, sourceOrder>> /\ pc' # "pass"
    BY <1>6
    DEF SourceMapping, CheckSourceAborts, StartCompile, BeginCompile, CompileContract,
        CodeGenerationFails, AssemblyFails, CompilesNow, Leave
  <2>2. QED
    BY <1>3, <2>1
<1>7. CASE \/ \E m \in {"parse", "parseAndAnalyze", "compile"} : StartParse(m)
           \/ \E n \in Name : ParseSource(n) \/ ParseSourceGivesUp(n)
           \/ \E i \in Name : ImportKnown(i) \/ ImportNotFound(i)
           \/ \E i \in Name, answer \in ReadResults : ImportRead(i, answer)
           \/ StoreNewSources
  <2>1. stackState' = SourcesSet /\ pc' # "pass"
    BY <1>7
    DEF StartParse, ParseSource, ParseSourceGivesUp, Leave, ImportKnown, ImportNotFound,
        ImportRead, AnnotateImport, StoreNewSources, ParseInv, ParsingInv
  <2>2. QED
    BY <1>2, <2>1 DEF SourcesSet, AnalysisSuccessful
<1>8. CASE EndParse
  <2>1. stackState' \in {SourcesSet, ParsingSuccessful} /\ (pc' # "pass" \/ pass' = 1)
    BY <1>8 DEF EndParse, Leave, BeginAnalyze, ParseInv, ParsingInv
  <2>2. QED
    BY <1>2, <2>1 DEF SourcesSet, ParsingSuccessful, AnalysisSuccessful
<1>9. CASE StartAnalyze
  <2>1. stackState' = ParsingSuccessful /\ pass' = 1
    BY <1>9 DEF StartAnalyze, BeginAnalyze
  <2>2. QED
    BY <1>2, <2>1 DEF ParsingSuccessful, AnalysisSuccessful
<1>10. CASE \E n \in Name : CheckSource(n)
  BY <1>10, CheckSourceOrder
<1>11. CASE NextPass \/ EndAnalyze
  BY <1>11, NextPassOrder, EndAnalyzeOrder
<1>12. CASE EndCompile
  <2>1. UNCHANGED <<sourceVars, sourceOrder>> /\ pc' = "idle" /\ pc = "compile"
    BY <1>12 DEF EndCompile, Leave
  <2>2. stackState >= AnalysisSuccessful
    BY <2>1 DEF ParseInv, PhaseInv
  <2>3. QED
    BY <1>3, <2>1, <2>2
<1>13. CASE UNCHANGED vars
  <2>1. UNCHANGED <<sourceVars, sourceOrder, stackState, reporter, pc, todo, pass>>
    BY <1>13 DEF vars, loopVars
  <2>2. DependsOn' = DependsOn
    BY <2>1, SourceFacts
  <2>3. QED
    BY <2>1, <2>2 DEF OrderInv, Acyclic, Known, Closure
<1>14. QED
  BY <1>4, <1>5, <1>6, <1>7, <1>8, <1>9, <1>10, <1>11, <1>12, <1>13
  DEF Next, ClientCall, MethodStep

\* Without a cycle, some member of a set depends on no other member: one from which the
\* fewest can be reached.
LEMMA SomeReady ==
  ASSUME Acyclic({}), sourceOrder \subseteq Name,
         \A m \in Name : DependsOn[m] \subseteq Name,
         NEW t \in SUBSET sourceOrder, t # {}
  PROVE  \E n \in t : DependsOn[n] \cap t = {}
<1> DEFINE reach == [n \in Name |-> Closure(DependsOn[n], DependsOn)]
           T == {reach[n] : n \in t}
<1>1. Known({}) = DependsOn
  BY DEF Known, DependsOn
<1>2. \A n \in Name : reach[n] \subseteq Name
  BY DEF Closure
<1>3. \A n \in t : n \notin reach[n]
  BY <1>1 DEF Acyclic
<1>4. ASSUME NEW n \in Name, NEW m \in DependsOn[n] PROVE m \in reach[n] /\ reach[m] \subseteq reach[n]
  <2>1. m \in Name /\ m \in reach[n]
    BY <1>4, ClosureClosed
  <2>2. DependsOn[m] \subseteq reach[n]
    BY <2>1, ClosureClosed
  <2>3. \A x \in reach[n] : DependsOn[x] \subseteq reach[n]
    BY <1>2, ClosureClosed
  <2>4. QED
    BY <1>2, <2>1, <2>2, <2>3, ClosureClosed
<1> HIDE DEF reach
<1>5. T \subseteq SUBSET Name /\ T # {}
  BY <1>2
<1>6. IsWellFoundedOn(StrictSubsetOrdering(Name), SUBSET Name)
  <2>1. FiniteSubsetsOf(Name) = SUBSET Name
    BY FS_FiniteSubsetsOfFinite, StackAssumption
  <2>2. IsWellFoundedOn(StrictSubsetOrdering(Name), FiniteSubsetsOf(Name))
    BY FS_StrictSubsetOrderingWellFounded
  <2>3. QED
    BY <2>1, <2>2
<1> HIDE DEF T
<1>7. PICK r \in T : \A q \in T : <<q, r>> \notin StrictSubsetOrdering(Name)
  BY <1>5, <1>6, WFMin
<1>8. PICK n \in t : r = reach[n]
  BY <1>7 DEF T
<1>9. ASSUME NEW m \in DependsOn[n] \cap t PROVE FALSE
  <2>1. m \in reach[n] /\ reach[m] \subseteq reach[n] /\ m \notin reach[m]
    BY <1>3, <1>4, <1>9
  <2>2. reach[m] \in T /\ reach[m] # reach[n]
    BY <1>9, <2>1 DEF T
  <2>3. <<reach[m], r>> \in StrictSubsetOrdering(Name)
    BY <1>2, <1>8, <1>9, <2>1, <2>2 DEF StrictSubsetOrdering
  <2>4. QED
    BY <1>7, <2>2, <2>3
<1>10. QED
  BY <1>9

\* While contracts are left to compile, one of them creates no other that is left: the
\* recursion of compileContract ends, for every graph of creations the analysis accepts.
THEOREM CompilationHasAnOrder == Spec => []CreationOrderExists
<1>1. Init => AnalysisInv /\ OrderInv
  BY DEF Init, AnalysisInv, AnalysedIsClean, Empty, ParsingSuccessful, AnalysisSuccessful,
         OrderInv
<1>2. ParseInv /\ ContractsInv /\ OrderInv => CreationOrderExists
  <2> SUFFICES ASSUME ParseInv, ContractsInv, OrderInv, pc = "compile", todo # {}
               PROVE  \E n \in todo : DependsOn[n] \cap todo = {}
    BY DEF CreationOrderExists
  <2>1. stackState >= AnalysisSuccessful /\ stackState >= ParsingSuccessful
    BY DEF ParseInv, PhaseInv, Typed, Empty, ParsingSuccessful, AnalysisSuccessful
  <2>2. todo \subseteq sourceOrder
    BY <2>1, CompiledAreOrdered DEF ContractsInv, OrderedContracts
  <2>3. sourceOrder \subseteq Name /\ Acyclic({})
    BY <2>1 DEF ParseInv, Typed, OrderInv
  <2>4. \A m \in Name : DependsOn[m] \subseteq Name
    BY <2>1, CreatesImported
  <2>5. QED
    BY <2>2, <2>3, <2>4, SomeReady
<1>3. QED
  BY <1>1, <1>2, ContractsInvInit, ParseInvInit, ParseInvStep, AnalysisInvStep,
     ContractsInvStep, OrderInvStep, PTL DEF Spec

-----------------------------------------------------------------------------
(* Every method ends. *)

\* The sources parse() may still have to read: what is queued and what is not there.
Unread == (Name \ sources) \cup todo

\* An upper bound for the steps the method has still to make.  A source costs a step,
\* one for each import and one to store what they lead to; a pass one step for each
\* source and one to go on; code generation one for each contract and one to link.
StepsLeft ==
  LET n == Cardinality(Name)
  IN  CASE pc = "idle" -> 0
        [] pc = "compile" -> Cardinality(todo) + 1
        [] pc = "pass" -> (13 - pass) * (n + 1) + Cardinality(todo) + 1
        [] pc = "parse" -> 13 * (n + 1) + Cardinality(Unread) * (n + 2) + 1
        [] pc = "load" -> 13 * (n + 1) + Cardinality(Unread) * (n + 2)
                            + Cardinality(pending) + 2

\* What no call exceeds: every name is read, and seen by each pass and by the compiler.
MostSteps == LET n == Cardinality(Name) IN 13 * (n + 1) + n * (n + 2) + 1

\* A step of a method always leaves fewer to do, so that every method that can go on
\* returns.
MethodsEnd ==
  /\ [](StepsLeft \in 0..MostSteps)
  /\ [][MethodStep => StepsLeft' < StepsLeft]_vars

\* The sets that are counted are finite and no larger than Name.
LEMMA SomeNames ==
  ASSUME NEW S \in SUBSET Name
  PROVE  /\ IsFiniteSet(S) /\ Cardinality(S) \in Nat /\ Cardinality(Name) \in Nat
         /\ Cardinality(S) <= Cardinality(Name)
         /\ Cardinality(S) = 0 <=> S = {}
         /\ \A n \in S : Cardinality(S \ {n}) = Cardinality(S) - 1
<1>1. IsFiniteSet(Name) /\ IsFiniteSet(S) /\ Cardinality(S) <= Cardinality(Name)
  BY StackAssumption, FS_Subset
<1>2. Cardinality(S) \in Nat /\ Cardinality(Name) \in Nat
  BY <1>1, FS_CardinalityType
<1>3. Cardinality(S) = 0 <=> S = {}
  BY <1>1, FS_EmptySet
<1>4. ASSUME NEW n \in S PROVE Cardinality(S \ {n}) = Cardinality(S) - 1
  BY <1>1, FS_RemoveElement
<1>5. QED
  BY <1>1, <1>2, <1>3, <1>4

\* Products of what is counted, as far as the bound uses them.
LEMMA Products ==
  ASSUME NEW c \in Nat
  PROVE  /\ \A u \in 0..c : /\ u * (c + 2) \in Nat /\ u * (c + 2) <= c * (c + 2)
                            /\ (u - 1) * (c + 2) = u * (c + 2) - (c + 2)
         /\ \A p \in 1..12 : /\ (13 - p) * (c + 1) \in Nat
                             /\ c + 1 <= (13 - p) * (c + 1) /\ (13 - p) * (c + 1) <= 12 * (c + 1)
                             /\ (13 - (p + 1)) * (c + 1) = (13 - p) * (c + 1) - (c + 1)
  OBVIOUS

\* pc is in a phase of a method, or no method runs.
InPhase == pc \in {"idle", "parse", "load", "pass", "compile"}

\* What is counted is a number of names; the source whose imports are loaded is none of
\* those unread.
Counts ==
  /\ Cardinality(Name) \in Nat
  /\ Cardinality(todo) \in 0..Cardinality(Name)
  /\ Cardinality(Unread) \in 0..Cardinality(Name)
  /\ pc = "load" => /\ Cardinality(pending) \in 0..Cardinality(Name)
                    /\ Cardinality(Unread) <= Cardinality(Name) - 1

LEMMA CountsHold == ParseInv => Counts
<1> SUFFICES ASSUME ParseInv PROVE Counts
  OBVIOUS
<1>1. todo \in SUBSET Name /\ Unread \in SUBSET Name /\ sources \subseteq Name
  BY DEF ParseInv, Typed, Unread
<1>2. ASSUME pc = "load"
      PROVE  Cardinality(pending) \in 0..Cardinality(Name)
  <2>1. pending \in SUBSET Name
    BY <1>2, StackAssumption DEF ParseInv, Typed, LoadingInv
  <2>2. QED
    BY <2>1, SomeNames
<1>3. ASSUME pc = "load"
      PROVE  Cardinality(Unread) <= Cardinality(Name) - 1
  <2>1. current \in Name /\ current \notin Unread
    BY <1>1, <1>3 DEF ParseInv, LoadingInv, Unread
  <2>2. Cardinality(Name \ {current}) = Cardinality(Name) - 1
    BY <2>1, SomeNames
  <2>3. IsFiniteSet(Name \ {current}) /\ Unread \in SUBSET (Name \ {current})
    BY <1>1, <2>1, SomeNames
  <2>4. QED
    BY <2>2, <2>3, FS_Subset
<1>4. QED
  BY <1>1, <1>2, <1>3, SomeNames DEF Counts

\* The bound, phase by phase.
StepsBound ==
  /\ StepsLeft \in 0..MostSteps /\ MostSteps \in Nat
  /\ StepsLeft = 0 <=> pc = "idle"
  /\ pc = "compile" => StepsLeft <= Cardinality(Name) + 1
  /\ pc = "pass" => StepsLeft > Cardinality(Name) + 1
  /\ pc = "pass" => StepsLeft <= 13 * (Cardinality(Name) + 1)
  /\ pc = "parse" => StepsLeft > 13 * (Cardinality(Name) + 1)

LEMMA StepsBounded == ParseInv /\ InPhase => StepsBound
<1> SUFFICES ASSUME ParseInv, InPhase PROVE StepsBound
  OBVIOUS
<1> DEFINE c == Cardinality(Name)
<1>1. /\ c \in Nat /\ Cardinality(todo) \in 0..c /\ Cardinality(Unread) \in 0..c
      /\ pc = "load" => Cardinality(pending) \in 0..c /\ Cardinality(Unread) <= c - 1
  BY CountsHold DEF Counts
<1>2. /\ Cardinality(Unread) * (c + 2) \in Nat /\ Cardinality(Unread) * (c + 2) <= c * (c + 2)
      /\ c * (c + 2) \in Nat /\ (c - 1) * (c + 2) = c * (c + 2) - (c + 2)
  BY <1>1, Products
<1>3. pass \in 1..12
  BY DEF ParseInv, Typed
<1>4. /\ (13 - pass) * (c + 1) \in Nat
      /\ c + 1 <= (13 - pass) * (c + 1) /\ (13 - pass) * (c + 1) <= 12 * (c + 1)
  BY <1>1, <1>3, Products
<1>5. CASE pc \in {"idle", "compile", "parse"}
  BY <1>1, <1>2, <1>5 DEF StepsLeft, MostSteps, StepsBound
<1>6. CASE pc = "pass"
  BY <1>1, <1>2, <1>3, <1>4, <1>6 DEF StepsLeft, MostSteps, StepsBound
<1>7. CASE pc = "load"
  <2>1. Cardinality(Unread) * (c + 2) <= c * (c + 2) - (c + 2)
    BY <1>1, <1>2, <1>7
  <2>2. QED
    BY <1>1, <1>2, <1>7, <2>1 DEF StepsLeft, MostSteps, StepsBound
<1>8. QED
  BY <1>5, <1>6, <1>7 DEF InPhase

\* The same of the state a step leads to.
LEMMA CountsNext == ParseInv' => Counts'
  BY CountsHold, PTL

LEMMA StepsNext == ParseInv' /\ InPhase' => StepsBound'
  BY StepsBounded, PTL

\* pc has no other value.
LEMMA PhaseStep ==
  ASSUME InPhase, [Next]_vars
  PROVE  InPhase'
<1>1. CASE ClientCall
  BY <1>1
  DEF ClientCall, ResetKeepingSources, ResetDroppingSources, AddSource, SetOptimiserSettings,
      SetLibraries, SetRequestedContractNames, UseMetadataLiteralSources, SetRemappings,
      SetEVMVersion, SetEVMVersionTooLate, ChangeSettings, AddSMTLib2Response, SourceMapping,
      ParseRefused, StartParse, AnalyzeRefused, StartAnalyze, StartCompile, BeginAnalyze,
      BeginCompile, Leave, InPhase
<1>2. CASE MethodStep
  BY <1>2
  DEF MethodStep, ParseSource, ParseSourceGivesUp, ImportKnown, ImportNotFound, ImportRead,
      StoreNewSources, EndParse, CheckSource, CheckSourceAborts, NextPass, EndAnalyze,
      CompileContract, CodeGenerationFails, AssemblyFails, EndCompile, BeginAnalyze,
      BeginCompile, Leave, InPhase
<1>3. CASE UNCHANGED vars
  BY <1>3 DEF vars, InPhase
<1>4. QED
  BY <1>1, <1>2, <1>3 DEF Next

\* Leaving the method ends it.
LEMMA LeavingEnds ==
  ASSUME ParseInv, InPhase, pc # "idle", pc' = "idle"
  PROVE  StepsLeft' < StepsLeft
<1>1. StepsLeft \in 0..MostSteps /\ StepsLeft # 0
  BY StepsBounded DEF StepsBound
<1>2. StepsLeft' = 0
  BY DEF StepsLeft
<1>3. MostSteps \in Nat
  BY StepsBounded DEF StepsBound
<1>4. QED
  BY <1>1, <1>2, <1>3

\* A source that is parsed is not read again.
LEMMA ParsingEnds ==
  ASSUME ParseInv, ParseInv', NEW n \in Name, ParseSource(n) \/ ParseSourceGivesUp(n)
  PROVE  StepsLeft' < StepsLeft
<1> DEFINE c == Cardinality(Name)
<1>1. pc = "parse" /\ n \in todo /\ n \in sources
  BY DEF ParseSource, ParseSourceGivesUp, ParseInv, ParsingInv
<1>2. CASE pc' = "idle"
  BY <1>1, <1>2, LeavingEnds DEF InPhase
<1>3. CASE pc' # "idle"
  <2>1. todo' = todo \ {n} /\ sources' = sources /\ pc' \in {"parse", "load"}
    BY <1>1, <1>3 DEF ParseSource, ParseSourceGivesUp, Leave
  <2>2. Unread' = Unread \ {n} /\ n \in Unread /\ Unread \in SUBSET Name
    BY <1>1, <2>1 DEF Unread, ParseInv, Typed
  <2>3. Cardinality(Unread') = Cardinality(Unread) - 1
    BY <2>2, SomeNames
  <2>4. /\ c \in Nat /\ Cardinality(Unread) \in 0..c
        /\ pc' = "load" => Cardinality(pending') \in 0..c
    BY CountsHold, CountsNext DEF Counts
  <2>5. /\ Cardinality(Unread) * (c + 2) \in Nat
        /\ (Cardinality(Unread) - 1) * (c + 2) = Cardinality(Unread) * (c + 2) - (c + 2)
    BY <2>4, Products
  <2>6. StepsLeft = 13 * (c + 1) + Cardinality(Unread) * (c + 2) + 1
    BY <1>1 DEF StepsLeft
  <2>7. CASE pc' = "parse"
    <3>1. StepsLeft' = 13 * (c + 1) + Cardinality(Unread') * (c + 2) + 1
      BY <2>7 DEF StepsLeft
    <3>2. QED
      BY <2>3, <2>4, <2>5, <2>6, <3>1
  <2>8. CASE pc' = "load"
    <3>1. StepsLeft' = 13 * (c + 1) + Cardinality(Unread') * (c + 2) + Cardinality(pending') + 2
      BY <2>8 DEF StepsLeft
    <3>2. QED
      BY <2>3, <2>4, <2>5, <2>6, <2>8, <3>1
  <2>9. QED
    BY <2>1, <2>7, <2>8
<1>4. QED
  BY <1>2, <1>3

\* An import is looked at once; what it leads to was unread and stays so.
LEMMA LoadingEnds ==
  ASSUME ParseInv, ParseInv',
         \/ \E i \in Name : ImportKnown(i) \/ ImportNotFound(i)
         \/ \E i \in Name, answer \in ReadResults : ImportRead(i, answer)
         \/ StoreNewSources
  PROVE  StepsLeft' < StepsLeft
<1> DEFINE c == Cardinality(Name)
<1>1. pc = "load"
  BY DEF ImportKnown, ImportNotFound, ImportRead, AnnotateImport, StoreNewSources
<1>2. StepsLeft = 13 * (c + 1) + Cardinality(Unread) * (c + 2) + Cardinality(pending) + 2
  BY <1>1 DEF StepsLeft
<1>3. /\ c \in Nat /\ Cardinality(Unread) \in 0..c /\ Cardinality(pending) \in 0..c
      /\ Cardinality(Unread) * (c + 2) \in Nat
  BY <1>1, CountsHold, Products DEF Counts
<1>4. CASE pc' = "idle"
  BY <1>1, <1>4, LeavingEnds DEF InPhase
<1>5. CASE StoreNewSources
  <2>1. Unread' = Unread /\ pc' = "parse"
    BY <1>1, <1>5 DEF StoreNewSources, Unread, ParseInv, LoadingInv, Typed
  <2>2. StepsLeft' = 13 * (c + 1) + Cardinality(Unread) * (c + 2) + 1
    BY <2>1 DEF StepsLeft
  <2>3. QED
    BY <1>2, <1>3, <2>2
<1>6. CASE pc' # "idle" /\ ~StoreNewSources
  <2>1. PICK i \in pending : pending' = pending \ {i}
    BY <1>6 DEF ImportKnown, ImportNotFound, ImportRead, AnnotateImport, Leave
  <2>2. pc' = "load" /\ todo' = todo /\ sources' = sources
    BY <1>1, <1>6 DEF ImportKnown, ImportNotFound, ImportRead, AnnotateImport, Leave
  <2>3. Cardinality(pending') = Cardinality(pending) - 1
    <3>1. pending \in SUBSET Name
      BY <1>1, StackAssumption DEF ParseInv, Typed, LoadingInv
    <3>2. QED
      BY <2>1, <3>1, SomeNames
  <2>4. StepsLeft' = 13 * (c + 1) + Cardinality(Unread) * (c + 2) + Cardinality(pending') + 2
    BY <2>2 DEF StepsLeft, Unread
  <2>5. QED
    BY <1>2, <1>3, <2>3, <2>4
<1>7. QED
  BY <1>4, <1>5, <1>6

\* Analysis follows parsing, code generation analysis; a pass ends for each source.
LEMMA AnalysisEnds ==
  ASSUME ParseInv, ParseInv',
         \/ EndParse \/ NextPass \/ EndAnalyze
         \/ \E n \in Name : CheckSource(n) \/ CheckSourceAborts(n)
  PROVE  StepsLeft' < StepsLeft
<1> DEFINE c == Cardinality(Name)
<1>1. pc \in {"parse", "pass"}
  BY DEF EndParse, NextPass, EndAnalyze, CheckSource, CheckSourceAborts
<1>2. InPhase'
  BY <1>1
  DEF EndParse, NextPass, EndAnalyze, CheckSource, CheckSourceAborts, BeginAnalyze,
      BeginCompile, Leave, InPhase
<1>3. CASE pc' = "idle"
  BY <1>1, <1>3, LeavingEnds DEF InPhase
<1>4. c \in Nat /\ StepsLeft \in Int /\ StepsLeft' \in Int
  <2>1. c \in Nat
    BY CountsHold, CountsNext DEF Counts
  <2>2. MostSteps \in Nat
    BY <2>1, Products DEF MostSteps
  <2>3. StepsLeft \in 0..MostSteps /\ StepsLeft' \in 0..MostSteps
    BY <1>1, <1>2, StepsBounded, StepsNext DEF InPhase, StepsBound
  <2>4. QED
    BY <2>1, <2>2, <2>3
<1>5. CASE EndParse /\ pc' # "idle"
  <2>1. pc = "parse" /\ pc' = "pass"
    BY <1>5 DEF EndParse, BeginAnalyze, Leave
  <2>2. StepsLeft > 13 * (c + 1) /\ StepsLeft' <= 13 * (c + 1)
    BY <2>1, StepsBounded, StepsNext DEF InPhase, StepsBound
  <2>3. QED
    BY <1>4, <2>2
<1>6. CASE EndAnalyze /\ pc' # "idle"
  <2>1. pc = "pass" /\ pc' = "compile"
    BY <1>6 DEF EndAnalyze, BeginCompile, Leave
  <2>2. StepsLeft > c + 1 /\ StepsLeft' <= c + 1
    BY <2>1, StepsBounded, StepsNext DEF InPhase, StepsBound
  <2>3. QED
    BY <1>4, <2>2
<1>7. CASE NextPass
  <2>1. /\ pc = "pass" /\ pc' = "pass" /\ todo = {} /\ pass' = pass + 1
        /\ pass \in 1..12 /\ pass' \in 1..12
    BY <1>7 DEF NextPass, ParseInv, Typed
  <2>2. StepsLeft = (13 - pass) * (c + 1) + 1
    <3>1. Cardinality(todo) = 0 /\ (13 - pass) * (c + 1) \in Nat
      BY <1>4, <2>1, FS_EmptySet, Products
    <3>2. StepsLeft = (13 - pass) * (c + 1) + Cardinality(todo) + 1
      BY <2>1 DEF StepsLeft
    <3>3. QED
      BY <3>1, <3>2
  <2>3. StepsLeft' = (13 - (pass + 1)) * (c + 1) + Cardinality(todo') + 1
    BY <2>1 DEF StepsLeft
  <2>4. Cardinality(todo') \in 0..c
    BY CountsHold, CountsNext DEF Counts
  <2>5. /\ (13 - pass) * (c + 1) \in Nat
        /\ (13 - (pass + 1)) * (c + 1) = (13 - pass) * (c + 1) - (c + 1)
    BY <1>4, <2>1, Products
  <2>6. QED
    BY <1>4, <2>2, <2>3, <2>4, <2>5
<1>8. CASE \E n \in Name : CheckSource(n)
  <2>1. PICK n \in todo : todo' = todo \ {n}
    BY <1>8 DEF CheckSource
  <2>2. pc = "pass" /\ pc' = "pass" /\ pass' = pass /\ pass \in 1..12
    BY <1>8 DEF CheckSource, ParseInv, Typed
  <2>3. Cardinality(todo') = Cardinality(todo) - 1 /\ Cardinality(todo) \in Nat
    <3>1. todo \in SUBSET Name
      BY DEF ParseInv, Typed
    <3>2. QED
      BY <2>1, <3>1, SomeNames
  <2>4. (13 - pass) * (c + 1) \in Nat
    BY <1>4, <2>2, Products
  <2>5. /\ StepsLeft = (13 - pass) * (c + 1) + Cardinality(todo) + 1
        /\ StepsLeft' = (13 - pass) * (c + 1) + Cardinality(todo') + 1
    BY <2>2 DEF StepsLeft
  <2>6. QED
    BY <2>3, <2>4, <2>5
<1>9. CASE \E n \in Name : CheckSourceAborts(n)
  BY <1>3, <1>9 DEF CheckSourceAborts, Leave
<1>10. QED
  BY <1>3, <1>5, <1>6, <1>7, <1>8, <1>9

\* Code generation takes each contract once.
LEMMA CompilationEnds ==
  ASSUME ParseInv, ParseInv',
         \/ EndCompile
         \/ \E n \in Name : CompileContract(n) \/ CodeGenerationFails(n) \/ AssemblyFails(n)
  PROVE  StepsLeft' < StepsLeft
<1>1. pc = "compile"
  BY DEF EndCompile, CompileContract, CodeGenerationFails, AssemblyFails, CompilesNow
<1>2. CASE pc' = "idle"
  BY <1>1, <1>2, LeavingEnds DEF InPhase
<1>3. CASE \E n \in Name : CompileContract(n)
  <2>1. PICK n \in todo : todo' = todo \ {n}
    BY <1>3 DEF CompileContract, CompilesNow
  <2>2. pc' = "compile"
    BY <1>1, <1>3 DEF CompileContract
  <2>3. Cardinality(todo') = Cardinality(todo) - 1 /\ Cardinality(todo) \in Nat
    <3>1. todo \in SUBSET Name
      BY DEF ParseInv, Typed
    <3>2. QED
      BY <2>1, <3>1, SomeNames
  <2>4. QED
    BY <1>1, <2>2, <2>3 DEF StepsLeft
<1>4. QED
  BY <1>2, <1>3 DEF EndCompile, CodeGenerationFails, AssemblyFails, Leave

\* Every step of a method is one less.
LEMMA MethodStepEnds == ParseInv /\ ParseInv' /\ MethodStep => StepsLeft' < StepsLeft
  BY ParsingEnds, LoadingEnds, AnalysisEnds, CompilationEnds DEF MethodStep

\* No method runs for ever, whatever the texts import, the callback answers and the
\* contracts create: each step of a method leaves fewer to do, and no call has more than
\* MostSteps.  (The imports a source leads to are queued once, if they were not there.)
THEOREM EveryMethodEnds == Spec => MethodsEnd
<1>1. Init => InPhase
  BY DEF Init, InPhase
<1>2. InPhase /\ [Next]_vars => InPhase'
  BY PhaseStep
<1>3. ParseInv /\ InPhase => StepsLeft \in 0..MostSteps
  BY StepsBounded DEF StepsBound
<1>4. ParseInv /\ ParseInv' => [MethodStep => StepsLeft' < StepsLeft]_vars
  BY MethodStepEnds
<1>5. QED
  BY <1>1, <1>2, <1>3, <1>4, ParseInvInit, ParseInvStep, PTL DEF Spec, MethodsEnd

=============================================================================
