---------------------------- MODULE ImportOrder ----------------------------
(***************************************************************************)
(* CompilerStack::resolveImports (libsolidity/interface/CompilerStack.cpp):*)
(* the depth first search that orders the sources for the analysis passes, *)
(* "cutting potential cycles".  The recursion of the toposort lambda is an *)
(* explicit stack of frames; the order of std::map keys and of the import  *)
(* directives in a source is left open.  CompilerStack!ImportClosure is    *)
(* the set that ClosureComputed shows this search to produce.              *)
(***************************************************************************)
EXTENDS Naturals, Sequences, FiniteSets

CONSTANT Source

ASSUME SourceAssumption == IsFiniteSet(Source)

VARIABLES imports,      \* the sources each source imports
          isLibrary,
          roots,        \* the sources the outer loop has still to visit
          frames,       \* the active toposort calls, the innermost last
          seen,         \* sourcesSeen
          sourceOrder   \* the result

vars == <<imports, isLibrary, roots, frames, seen, sourceOrder>>

Frame == [source : Source, todo : SUBSET Source]

Init ==
  /\ imports \in [Source -> SUBSET Source]
  /\ isLibrary \in [Source -> BOOLEAN]
  /\ roots = Source
  /\ frames = << >>
  /\ seen = {}
  /\ sourceOrder = << >>

\* toposort(s) marks s ...
Mark(s) == seen \cup {s}

\* ... and goes into it unless it was seen before.
Enter(stack, s) ==
  IF s \in seen THEN stack ELSE Append(stack, [source |-> s, todo |-> imports[s]])

\* The outer loop starts at every source.
VisitRoot(s) ==
  /\ frames = << >>
  /\ s \in roots /\ ~isLibrary[s]
  /\ roots' = roots \ {s}
  /\ frames' = Enter(frames, s)
  /\ seen' = Mark(s)
  /\ UNCHANGED <<imports, isLibrary, sourceOrder>>

\* Mutant: the outer loop starts at a library too.
VisitLibrary(s) ==
  /\ frames = << >>
  /\ s \in roots /\ isLibrary[s]
  /\ roots' = roots \ {s}
  /\ frames' = Enter(frames, s)
  /\ seen' = Mark(s)
  /\ UNCHANGED <<imports, isLibrary, sourceOrder>>

\* ... except libraries.
SkipLibrary(s) ==
  /\ frames = << >>
  /\ s \in roots /\ isLibrary[s]
  /\ roots' = roots \ {s}
  /\ UNCHANGED <<imports, isLibrary, frames, seen, sourceOrder>>

Top == frames[Len(frames)]

\* The next import directive of the innermost call.
VisitImport(s) ==
  /\ frames # << >>
  /\ s \in Top.todo
  /\ frames' = Enter([frames EXCEPT ![Len(frames)] =
                        [source |-> Top.source, todo |-> Top.todo \ {s}]], s)
  /\ seen' = Mark(s)
  /\ UNCHANGED <<imports, isLibrary, roots, sourceOrder>>

\* Mutant: a source is put in front of what it imports.
FinishInFront ==
  /\ frames # << >>
  /\ Top.todo = {}
  /\ sourceOrder' = <<Top.source>> \o sourceOrder
  /\ frames' = SubSeq(frames, 1, Len(frames) - 1)
  /\ UNCHANGED <<imports, isLibrary, roots, seen>>

\* All imports are visited: the source is appended and the call returns.
Finish ==
  /\ frames # << >>
  /\ Top.todo = {}
  /\ sourceOrder' = Append(sourceOrder, Top.source)
  /\ frames' = SubSeq(frames, 1, Len(frames) - 1)
  /\ UNCHANGED <<imports, isLibrary, roots, seen>>

Done == roots = {} /\ frames = << >>

Next ==
  \/ \E s \in Source : VisitRoot(s) \/ SkipLibrary(s) \/ VisitImport(s)
  \/ Finish

Spec == Init /\ [][Next]_vars

-----------------------------------------------------------------------------
Ordered == {sourceOrder[i] : i \in 1..Len(sourceOrder)}
Active == {frames[i].source : i \in 1..Len(frames)}

TypeOK ==
  /\ imports \in [Source -> SUBSET Source]
  /\ isLibrary \in [Source -> BOOLEAN]
  /\ roots \subseteq Source
  /\ frames \in Seq(Frame)
  /\ seen \subseteq Source
  /\ sourceOrder \in Seq(Source)

\* A source is seen exactly if it is ordered or being visited, and it is only one of
\* them, once: no source is analysed twice and none is lost, cyclic imports or not.
SeenOnce ==
  /\ seen = Ordered \cup Active
  /\ Ordered \cap Active = {}
  /\ \A i, j \in 1..Len(sourceOrder) : sourceOrder[i] = sourceOrder[j] => i = j
  /\ \A i, j \in 1..Len(frames) : frames[i].source = frames[j].source => i = j

\* T contains every source that is no library and is closed under imports.
ClosedUnderImports(T) ==
  /\ \A s \in Source : ~isLibrary[s] => s \in T
  /\ \A s \in T : imports[s] \subseteq T

\* The result is the least such set: exactly what the user's sources reach.
ClosureComputed ==
  Done => /\ ClosedUnderImports(Ordered)
          /\ \A T \in SUBSET Source : ClosedUnderImports(T) => Ordered \subseteq T

Reaches(s, t) ==
  \A T \in SUBSET Source : s \in T /\ (\A u \in T : imports[u] \subseteq T) => t \in T

\* The order is topological where that is possible: a source comes after each source it
\* imports, unless the two import each other.
TopologicalUpToCycles ==
  \A j \in 1..Len(sourceOrder) : \A s \in imports[sourceOrder[j]] :
     \/ \E i \in 1..(j - 1) : sourceOrder[i] = s
     \/ Reaches(s, sourceOrder[j])

=============================================================================
