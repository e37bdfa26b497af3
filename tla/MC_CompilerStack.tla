-------------------------- MODULE MC_CompilerStack --------------------------
(***************************************************************************)
(* Instances of CompilerStack for TLC.  Each cfg picks the texts that make *)
(* one part of the life of a stack interesting.                            *)
(***************************************************************************)
EXTENDS CompilerStack

CONSTANTS a, b

Plain == [parse |-> "ok", imports |-> {}, defect |-> NoDefect, fatal |-> FALSE,
          warns |-> FALSE, contract |-> FALSE, deployable |-> FALSE, deps |-> {},
          query |-> FALSE]

Deploys == [Plain EXCEPT !.contract = TRUE, !.deployable = TRUE]

\* Texts for parse(): imports in both directions, a text with each parser outcome.
ParseTexts ==
  { [Plain EXCEPT !.imports = {a, b}],
    [Plain EXCEPT !.parse = "error", !.imports = {b}], [Plain EXCEPT !.parse = "fatal"] }

\* Texts for analyze(): an error in each kind of pass.
AnalysisTexts ==
  { [Deploys EXCEPT !.imports = {b}, !.warns = TRUE, !.query = TRUE],
    [Plain EXCEPT !.defect = "registerDeclarations"],
    [Deploys EXCEPT !.defect = "resolveNames"] }

\* Texts for compile(): contracts that create each other.
CompileTexts ==
  { Deploys, [Deploys EXCEPT !.imports = {a, b}, !.deps = {b}],
    [Deploys EXCEPT !.imports = {a}, !.deps = {a}] }

Identity == [n \in Name |-> n]
ToB == [n \in Name |-> b]

AllTexts == ParseTexts \cup AnalysisTexts \cup CompileTexts
ReadAnything == {NotFound} \cup AllTexts
BothRemappings == {Identity, ToB}
Requests == {{}, {a}}

-----------------------------------------------------------------------------
\* The life of a stack is explored in three parts, each with the texts, the answers of
\* the read callback, the settings and the methods that matter in it.
VARIABLE part

Parts == {"parse", "analyze", "compile"}

TextsOf == [p \in Parts |-> CASE p = "parse" -> ParseTexts
                              [] p = "analyze" -> AnalysisTexts
                              [] p = "compile" -> CompileTexts]

ReadsOf == [p \in Parts |-> IF p = "parse" THEN {[Plain EXCEPT !.imports = {a, b}]} ELSE {}]

\* The client and the callback stay within the part.
Within ==
  /\ \A n \in DOMAIN newSources' : newSources'[n] \in ReadsOf[part]
  /\ \A n \in sources' : scanner'[n] \in TextsOf[part] \cup ReadsOf[part]
  /\ part # "parse" => /\ settings'.remapping = DefaultRemapping
                       /\ settings'.evmVersion = DefaultEVMVersion
  /\ part # "analyze" => /\ smt'.responses = {}
                         /\ \A n \in sources' : ~isLibrary'[n]
  /\ part = "analyze" => ~isLibrary'[a] /\ op' # "compile"
  /\ part # "compile" => settings'.libraries = NoLibraries /\ settings'.requested = {}
  /\ part = "compile" => /\ \A n \in sources' : n \notin scanner'[n].deps
                         /\ op' \notin {"parse", "analyze", "parseAndAnalyze"}
  /\ \A n \in DOMAIN contracts' : contracts'[n].sourceMapping # NoBuild => n = a

PartsInit == Init /\ part \in Parts
PartsNext == Next /\ Within /\ UNCHANGED part
PartsSpec == PartsInit /\ [][PartsNext]_<<vars, part>>

=============================================================================
