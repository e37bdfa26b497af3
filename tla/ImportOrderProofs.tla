------------------------- MODULE ImportOrderProofs -------------------------
(***************************************************************************)
(* SeenOnce, ClosureComputed and TopologicalUpToCycles for every import    *)
(* graph, and that the search ends: every step leaves one less to do.      *)
(***************************************************************************)
EXTENDS ImportOrder, SequenceTheorems, FiniteSetTheorems, TLAPS

\* What a frame has passed is seen; what it has still to visit are imports of its source.
FramesInv ==
  \A i \in 1..Len(frames) :
    /\ frames[i].todo \subseteq imports[frames[i].source]
    /\ imports[frames[i].source] \ frames[i].todo \subseteq seen

\* The imports of an ordered source are seen, and so is every root that was passed.
OrderInv ==
  /\ \A s \in Ordered : imports[s] \subseteq seen
  /\ \A s \in Source \ roots : ~isLibrary[s] => s \in seen

\* Nothing is seen that the roots do not reach.
LeastInv == \A T \in SUBSET Source : ClosedUnderImports(T) => seen \subseteq T

\* The inductive invariant.
Inv == TypeOK /\ SeenOnce /\ FramesInv /\ OrderInv /\ LeastInv

\* The invariant holds initially.
LEMMA InvInit == Init => Inv
  BY DEF Init, Inv, TypeOK, SeenOnce, Ordered, Active, FramesInv, OrderInv, LeastInv

\* Pushing a frame for a source that was not seen.
LEMMA PushFacts ==
  ASSUME TypeOK, NEW stack \in Seq(Frame), NEW s \in Source,
         \A i \in 1..Len(frames) : stack[i].source = frames[i].source,
         Len(stack) = Len(frames)
  PROVE  /\ Enter(stack, s) \in Seq(Frame)
         /\ s \in seen => Enter(stack, s) = stack
         /\ s \notin seen =>
              /\ Len(Enter(stack, s)) = Len(stack) + 1
              /\ Enter(stack, s)[Len(stack) + 1] = [source |-> s, todo |-> imports[s]]
              /\ \A i \in 1..Len(stack) : Enter(stack, s)[i] = stack[i]
<1>1. CASE s \in seen
  BY <1>1 DEF Enter
<1>2. CASE s \notin seen
  <2> DEFINE f == [source |-> s, todo |-> imports[s]]
  <2>1. f \in Frame
    BY DEF TypeOK, Frame
  <2>2. Enter(stack, s) = Append(stack, f)
    BY <1>2 DEF Enter
  <2> HIDE DEF f
  <2>3. /\ Append(stack, f) \in Seq(Frame)
        /\ Len(Append(stack, f)) = Len(stack) + 1
        /\ Append(stack, f)[Len(stack) + 1] = f
        /\ \A i \in 1..Len(stack) : Append(stack, f)[i] = stack[i]
    BY <2>1
  <2>4. QED
    BY <1>2, <2>2, <2>3 DEF f
<1>3. QED
  BY <1>1, <1>2

\* Entering s, from the outer loop or from an import, keeps SeenOnce.
LEMMA EnterSeenOnce ==
  ASSUME TypeOK, SeenOnce, NEW stack \in Seq(Frame), NEW s \in Source,
         \A i \in 1..Len(frames) : stack[i].source = frames[i].source,
         Len(stack) = Len(frames),
         frames' = Enter(stack, s), seen' = Mark(s), sourceOrder' = sourceOrder
  PROVE  SeenOnce'
<1>1. Ordered' = Ordered
  BY DEF Ordered
<1>2. CASE s \in seen
  <2>1. frames' = stack /\ seen' = seen
    BY <1>2, PushFacts DEF Mark
  <2>2. Len(frames') = Len(frames) /\ \A i \in 1..Len(frames) : frames'[i].source = frames[i].source
    BY <2>1
  <2>3. Active' = Active
    BY <2>2 DEF Active
  <2>4. /\ seen' = Ordered' \cup Active' /\ Ordered' \cap Active' = {}
        /\ \A i, j \in 1..Len(sourceOrder') : sourceOrder'[i] = sourceOrder'[j] => i = j
    BY <1>1, <2>1, <2>3 DEF SeenOnce
  <2>5. \A i, j \in 1..Len(frames') : frames'[i].source = frames'[j].source => i = j
    BY <2>2 DEF SeenOnce
  <2>6. QED
    BY <2>4, <2>5 DEF SeenOnce
<1>3. CASE s \notin seen
  <2>1. /\ Len(frames') = Len(frames) + 1
        /\ frames'[Len(frames) + 1].source = s
        /\ \A i \in 1..Len(frames) : frames'[i].source = frames[i].source
    <3>1. /\ Len(frames') = Len(stack) + 1
          /\ frames'[Len(stack) + 1] = [source |-> s, todo |-> imports[s]]
          /\ \A i \in 1..Len(stack) : frames'[i] = stack[i]
      BY <1>3, PushFacts, Zenon
    <3>2. QED
      BY <3>1
  <2>2. Len(frames) \in Nat
    BY DEF TypeOK
  <2>3. Active' = Active \cup {s}
    BY <2>1, <2>2 DEF Active
  <2>4. s \notin Active /\ s \notin Ordered
    BY <1>3 DEF SeenOnce
  <2>5. \A i \in 1..Len(frames) : frames'[i].source # s
    BY <2>1, <2>4 DEF Active
  <2>6. \A i, j \in 1..Len(frames') : frames'[i].source = frames'[j].source => i = j
    BY <2>1, <2>2, <2>5 DEF SeenOnce
  <2>7. seen' = Ordered' \cup Active' /\ Ordered' \cap Active' = {}
    BY <1>1, <2>3, <2>4 DEF SeenOnce, Mark
  <2>8. QED
    BY <2>6, <2>7 DEF SeenOnce
<1>4. QED
  BY <1>2, <1>3

\* The outer loop visits a source.
LEMMA VisitRootInv ==
  ASSUME Inv, NEW s \in Source, VisitRoot(s) PROVE Inv'
<1>1. frames \in Seq(Frame) /\ frames' = Enter(frames, s) /\ seen' = seen \cup {s}
  BY DEF Inv, TypeOK, VisitRoot, Mark
<1>2. TypeOK'
  BY <1>1, PushFacts DEF Inv, TypeOK, VisitRoot
<1>3. SeenOnce'
  BY <1>1, EnterSeenOnce DEF Inv, VisitRoot, Mark
<1>4. FramesInv'
  <2>1. frames = << >> /\ UNCHANGED imports
    BY DEF VisitRoot
  <2>2. frames' = << >> \/ frames' = <<[source |-> s, todo |-> imports[s]]>>
    BY <1>1, <2>1 DEF Enter
  <2>3. QED
    BY <2>1, <2>2 DEF FramesInv
<1>5. OrderInv'
  BY <1>1 DEF Inv, OrderInv, VisitRoot, Ordered
<1>6. LeastInv'
  BY <1>1 DEF Inv, LeastInv, VisitRoot, ClosedUnderImports
<1>7. QED
  BY <1>2, <1>3, <1>4, <1>5, <1>6 DEF Inv

\* The outer loop passes over a library.
LEMMA SkipLibraryInv ==
  ASSUME Inv, NEW s \in Source, SkipLibrary(s) PROVE Inv'
<1>1. UNCHANGED <<imports, isLibrary, frames, seen, sourceOrder>> /\ roots' = roots \ {s}
      /\ isLibrary[s]
  BY DEF SkipLibrary
<1>2. TypeOK'
  BY <1>1 DEF Inv, TypeOK
<1>3. Ordered' = Ordered /\ Active' = Active
  BY <1>1 DEF Ordered, Active
<1>4. SeenOnce'
  BY <1>1, <1>3 DEF Inv, SeenOnce
<1>5. FramesInv'
  BY <1>1 DEF Inv, FramesInv
<1>6. OrderInv'
  BY <1>1, <1>3 DEF Inv, OrderInv
<1>7. LeastInv'
  BY <1>1 DEF Inv, LeastInv, ClosedUnderImports
<1>8. QED
  BY <1>2, <1>4, <1>5, <1>6, <1>7 DEF Inv

\* The stack before s is entered: the innermost call has one import less to visit.
LEMMA ImportStack ==
  ASSUME TypeOK, NEW s \in Source, VisitImport(s), NEW stack,
         stack = [frames EXCEPT ![Len(frames)] =
                    [source |-> Top.source, todo |-> Top.todo \ {s}]]
  PROVE  /\ Len(frames) \in 1..Len(frames) /\ Top \in Frame /\ s \in Top.todo
         /\ stack \in Seq(Frame) /\ Len(stack) = Len(frames)
         /\ stack[Len(frames)] = [source |-> Top.source, todo |-> Top.todo \ {s}]
         /\ \A i \in 1..Len(frames) : i # Len(frames) => stack[i] = frames[i]
         /\ \A i \in 1..Len(frames) : stack[i].source = frames[i].source
         /\ frames' = Enter(stack, s)
<1> DEFINE n == Len(frames)
           top == [source |-> Top.source, todo |-> Top.todo \ {s}]
<1>1. frames \in Seq(Frame) /\ n \in 1..n /\ Top \in Frame /\ s \in Top.todo
  BY DEF TypeOK, VisitImport, Top
<1>2. top \in Frame
  BY <1>1 DEF Frame
<1>3. /\ stack \in Seq(Frame) /\ Len(stack) = n
      /\ stack[n] = top /\ \A i \in 1..n : i # n => stack[i] = frames[i]
  BY <1>1, <1>2
<1>4. \A i \in 1..n : stack[i].source = frames[i].source
  BY <1>1, <1>3 DEF Top
<1>5. frames' = Enter(stack, s)
  BY DEF VisitImport
<1>6. QED
  BY <1>1, <1>3, <1>4, <1>5

\* An import is visited.
LEMMA VisitImportInv ==
  ASSUME Inv, NEW s \in Source, VisitImport(s) PROVE Inv'
<1> DEFINE n == Len(frames)
           top == [source |-> Top.source, todo |-> Top.todo \ {s}]
           stack == [frames EXCEPT ![n] = top]
<1>1. frames \in Seq(Frame) /\ n \in 1..n /\ Top \in Frame /\ s \in Top.todo
  BY ImportStack DEF Inv, TypeOK
<1>3. /\ stack \in Seq(Frame) /\ Len(stack) = n
      /\ stack[n] = top /\ \A i \in 1..n : i # n => stack[i] = frames[i]
  BY ImportStack DEF Inv
<1>4. \A i \in 1..n : stack[i].source = frames[i].source
  BY ImportStack DEF Inv
<1>5. /\ frames' = Enter(stack, s) /\ seen' = seen \cup {s}
      /\ UNCHANGED <<imports, isLibrary, roots, sourceOrder>>
  BY DEF VisitImport, Mark
<1>6. TypeOK'
  BY <1>3, <1>4, <1>5, PushFacts DEF Inv, TypeOK
<1>7. SeenOnce'
  BY <1>3, <1>4, <1>5, EnterSeenOnce DEF Inv, Mark
<1>8. \A i \in 1..n : /\ stack[i].todo \subseteq imports[stack[i].source]
                      /\ imports[stack[i].source] \ stack[i].todo \subseteq seen'
  <2>1. TAKE i \in 1..n
  <2>2. CASE i = n
    BY <1>1, <1>3, <1>5, <2>2 DEF Inv, FramesInv, Top
  <2>3. CASE i # n
    BY <1>3, <1>5, <2>3 DEF Inv, FramesInv
  <2>4. QED
    BY <2>2, <2>3
<1>9. FramesInv'
  <2>1. CASE s \in seen
    <3>1. frames' = stack
      <4> HIDE DEF n, stack
      <4>1. QED
        BY <1>5, <2>1 DEF Enter
    <3>2. Len(frames') = n
      BY <1>3, <3>1
    <3>3. \A i \in 1..n : /\ frames'[i].todo \subseteq imports[frames'[i].source]
                          /\ imports[frames'[i].source] \ frames'[i].todo \subseteq seen'
      <4> HIDE DEF n, stack
      <4>1. QED
        BY <1>8, <3>1
    <3>4. QED
      BY <1>5, <3>2, <3>3 DEF FramesInv
  <2>2. CASE s \notin seen
    <3>1. /\ Len(frames') = n + 1 /\ frames'[n + 1] = [source |-> s, todo |-> imports[s]]
          /\ \A i \in 1..n : frames'[i] = stack[i]
      <4> HIDE DEF stack
      <4>1. TypeOK
        BY DEF Inv
      <4>2. /\ Len(frames') = Len(stack) + 1
            /\ frames'[Len(stack) + 1] = [source |-> s, todo |-> imports[s]]
            /\ \A i \in 1..Len(stack) : frames'[i] = stack[i]
        BY <1>3, <1>4, <1>5, <2>2, <4>1, PushFacts, ZenonT(30)
      <4>3. QED
        BY <1>3, <4>2
    <3>2. SUFFICES ASSUME NEW i \in 1..(n + 1)
                   PROVE  /\ frames'[i].todo \subseteq imports[frames'[i].source]
                          /\ imports[frames'[i].source] \ frames'[i].todo \subseteq seen'
      BY <1>5, <3>1 DEF FramesInv
    <3>3. CASE i \in 1..n
      BY <1>8, <3>1, <3>3
    <3>4. CASE i = n + 1
      BY <3>1, <3>4
    <3>5. QED
      BY <1>1, <3>3, <3>4
  <2>3. QED
    BY <2>1, <2>2
<1>10. OrderInv'
  BY <1>5 DEF Inv, OrderInv, Ordered
<1>11. s \in imports[Top.source] /\ Top.source \in seen
  <2>1. s \in imports[Top.source]
    BY <1>1 DEF Inv, FramesInv, Top
  <2>2. Top.source \in Active
    BY <1>1 DEF Active, Top
  <2>3. QED
    BY <2>1, <2>2 DEF Inv, SeenOnce
<1>12. LeastInv'
  BY <1>5, <1>11 DEF Inv, LeastInv, ClosedUnderImports
<1>13. QED
  BY <1>6, <1>7, <1>9, <1>10, <1>12 DEF Inv

\* Finish takes the innermost frame off the stack.
LEMMA FinishFrames ==
  ASSUME TypeOK, Finish
  PROVE  /\ frames' \in Seq(Frame) /\ Len(frames') = Len(frames) - 1
         /\ \A i \in 1..(Len(frames) - 1) : frames'[i] = frames[i]
<1> DEFINE n == Len(frames)
<1>1. frames \in Seq(Frame) /\ n \in Nat /\ n >= 1
  BY DEF TypeOK, Finish
<1>2. /\ frames' \in Seq(Frame) /\ Len(frames') = n - 1
      /\ \A i \in 1..(n - 1) : frames'[i] = frames[i]
  <2> DEFINE front == SubSeq(frames, 1, n - 1)
  <2>1. frames' = front
    BY DEF Finish
  <2>2. \A i \in 1..(n - 1) : frames[i] \in Frame
    BY <1>1
  <2>3. 1 \in Int /\ n - 1 \in Int
    BY <1>1
  <2>4. /\ front \in Seq(Frame)
        /\ Len(front) = IF 1 <= n - 1 THEN (n - 1) - 1 + 1 ELSE 0
        /\ \A i \in 1..((n - 1) - 1 + 1) : front[i] = frames[1 + i - 1]
    BY <2>2, <2>3, SubSeqProperties
  <2> HIDE DEF front
  <2> HIDE DEF n
  <2>5. Len(front) = n - 1
    BY <1>1, <2>4
  <2>6. \A i \in 1..(n - 1) : front[i] = frames[i]
    <3>1. TAKE i \in 1..(n - 1)
    <3>2. i \in 1..((n - 1) - 1 + 1) /\ 1 + i - 1 = i
      BY <1>1
    <3>3. front[i] = frames[1 + i - 1]
      BY <2>4, <3>2
    <3>4. QED
      BY <3>2, <3>3
  <2>7. QED
    BY <2>1, <2>4, <2>5, <2>6 DEF n
<1>3. QED
  BY <1>2

\* Finish puts its source at the end of the order.
LEMMA OrderedGrows ==
  ASSUME TypeOK, Finish
  PROVE  Ordered' = Ordered \cup {Top.source}
<1> DEFINE m == Len(sourceOrder)
<1>1. sourceOrder \in Seq(Source) /\ m \in Nat /\ Top \in Frame
  BY DEF TypeOK, Finish, Top
<1>2. /\ Len(sourceOrder') = m + 1 /\ sourceOrder'[m + 1] = Top.source
      /\ \A i \in 1..m : sourceOrder'[i] = sourceOrder[i]
  BY <1>1 DEF Finish, Frame
<1> HIDE DEF m
<1>3. 1..(m + 1) = 1..m \cup {m + 1}
  BY <1>1
<1>4. Ordered' = {sourceOrder'[i] : i \in 1..(m + 1)}
  BY <1>2 DEF Ordered
<1>5. Ordered = {sourceOrder[i] : i \in 1..m}
  BY DEF Ordered, m
<1>6. {sourceOrder'[i] : i \in 1..(m + 1)} = {sourceOrder'[i] : i \in 1..m} \cup {sourceOrder'[m + 1]}
  BY <1>3
<1>7. {sourceOrder'[i] : i \in 1..m} = {sourceOrder[i] : i \in 1..m}
  BY <1>2
<1>8. QED
  BY <1>2, <1>4, <1>5, <1>6, <1>7

\* A source is finished.
LEMMA FinishInv ==
  ASSUME Inv, Finish PROVE Inv'
<1> DEFINE n == Len(frames)
           m == Len(sourceOrder)
<1>1. /\ frames \in Seq(Frame) /\ n \in Nat /\ n >= 1 /\ sourceOrder \in Seq(Source) /\ m \in Nat
      /\ Top = frames[n] /\ Top \in Frame
  BY DEF Inv, TypeOK, Finish, Top
<1>2. /\ sourceOrder' \in Seq(Source) /\ Len(sourceOrder') = m + 1
      /\ sourceOrder'[m + 1] = Top.source
      /\ \A i \in 1..m : sourceOrder'[i] = sourceOrder[i]
  BY <1>1 DEF Finish, Frame
<1>3. /\ frames' \in Seq(Frame) /\ Len(frames') = n - 1
      /\ \A i \in 1..(n - 1) : frames'[i] = frames[i]
  BY FinishFrames DEF Inv
<1>4. UNCHANGED <<imports, isLibrary, roots, seen>> /\ Top.todo = {}
  BY DEF Finish
<1>5. TypeOK'
  BY <1>2, <1>3, <1>4 DEF Inv, TypeOK
<1>6. Top.source \in Active /\ Top.source \notin Ordered
  <2>1. Top.source \in Active
    BY <1>1 DEF Active
  <2>2. QED
    BY <2>1 DEF Inv, SeenOnce
<1>7. Ordered' = Ordered \cup {Top.source}
  BY OrderedGrows DEF Inv
<1>8. Active' = Active \ {Top.source}
  <2>1. \A i \in 1..(n - 1) : frames[i].source # Top.source
    BY <1>1 DEF Inv, SeenOnce
  <2>2. QED
    BY SMTT(30), <1>1, <1>3, <2>1 DEF Active
<1>9. SeenOnce'
  <2>1. \A i, j \in 1..(m + 1) : sourceOrder'[i] = sourceOrder'[j] => i = j
    <3>1. \A i \in 1..m : sourceOrder'[i] # Top.source
      BY <1>2, <1>6 DEF Ordered
    <3>2. \A i, j \in 1..m : sourceOrder[i] = sourceOrder[j] => i = j
      BY DEF Inv, SeenOnce
    <3>3. QED
      BY <1>1, <1>2, <3>1, <3>2
  <2>2. \A i, j \in 1..(n - 1) : frames'[i].source = frames'[j].source => i = j
    <3>1. \A i, j \in 1..n : frames[i].source = frames[j].source => i = j
      BY DEF Inv, SeenOnce
    <3>2. \A i \in 1..(n - 1) : i \in 1..n /\ frames'[i] = frames[i]
      BY <1>1, <1>3
    <3>3. QED
      BY <3>1, <3>2
  <2>3. QED
    BY <1>2, <1>3, <1>4, <1>6, <1>7, <1>8, <2>1, <2>2 DEF Inv, SeenOnce
<1>10. FramesInv'
  <2>1. SUFFICES ASSUME NEW i \in 1..(n - 1)
                 PROVE  /\ frames'[i].todo \subseteq imports[frames'[i].source]
                        /\ imports[frames'[i].source] \ frames'[i].todo \subseteq seen
    BY <1>3, <1>4 DEF FramesInv
  <2>2. frames'[i] = frames[i] /\ i \in 1..n
    BY <1>1, <1>3
  <2>3. QED
    BY <2>2 DEF Inv, FramesInv
<1>11. imports[Top.source] \subseteq seen
  BY <1>1, <1>4 DEF Inv, FramesInv
<1>12. OrderInv'
  BY <1>4, <1>7, <1>11 DEF Inv, OrderInv
<1>13. LeastInv'
  BY <1>4 DEF Inv, LeastInv, ClosedUnderImports
<1>14. QED
  BY <1>5, <1>9, <1>10, <1>12, <1>13 DEF Inv

\* The inductive invariant holds in every reachable state.
THEOREM InvHolds == Spec => []Inv
<1>1. Inv /\ [Next]_vars => Inv'
  <2> SUFFICES ASSUME Inv, [Next]_vars PROVE Inv'
    OBVIOUS
  <2>1. CASE \E s \in Source : VisitRoot(s) \/ SkipLibrary(s) \/ VisitImport(s)
    BY <2>1, VisitRootInv, SkipLibraryInv, VisitImportInv
  <2>2. CASE Finish
    BY <2>2, FinishInv
  <2>3. CASE UNCHANGED vars
    <3>1. TypeOK'
      BY <2>3 DEF vars, Inv, TypeOK
    <3>2. Ordered' = Ordered /\ Active' = Active
      BY <2>3 DEF vars, Ordered, Active
    <3>3. SeenOnce' /\ FramesInv'
      BY <2>3, <3>2 DEF vars, Inv, SeenOnce, FramesInv
    <3>4. OrderInv' /\ LeastInv'
      BY <2>3, <3>2 DEF vars, Inv, OrderInv, LeastInv, ClosedUnderImports
    <3>5. QED
      BY <3>1, <3>3, <3>4 DEF Inv
  <2>4. QED
    BY <2>1, <2>2, <2>3 DEF Next
<1>2. QED
  BY <1>1, InvInit, PTL DEF Spec

\* Every source that was seen is ordered or being visited, never both, never twice.
THEOREM EachSourceOnce == Spec => []SeenOnce
<1>1. Inv => SeenOnce
  BY DEF Inv
<1>2. QED
  BY <1>1, InvHolds, PTL

\* The search computes the import closure of the sources that are no libraries.
THEOREM SearchComputesClosure == Spec => []ClosureComputed
<1>1. Inv => ClosureComputed
  <2> SUFFICES ASSUME Inv, Done PROVE /\ ClosedUnderImports(Ordered)
                                      /\ \A T \in SUBSET Source :
                                           ClosedUnderImports(T) => Ordered \subseteq T
    BY DEF ClosureComputed
  <2>1. seen = Ordered
    BY DEF Inv, SeenOnce, Active, Done
  <2>2. ClosedUnderImports(Ordered)
    BY <2>1 DEF Inv, OrderInv, Done, ClosedUnderImports
  <2>3. QED
    BY <2>1, <2>2 DEF Inv, LeastInv
<1>2. QED
  BY <1>1, InvHolds, PTL

-----------------------------------------------------------------------------
(* The order. *)

\* Of two active calls the outer one reaches the inner one.
ChainInv ==
  \A i, k \in 1..Len(frames) : i <= k => Reaches(frames[i].source, frames[k].source)

\* TopologicalUpToCycles made inductive, on top of Inv.
TopoInv == ChainInv /\ TopologicalUpToCycles

\* A source reaches itself, and what is imported by what it reaches.
LEMMA ReachesSteps ==
  ASSUME NEW s, NEW t \in Source, NEW u \in imports[t], Reaches(s, t)
  PROVE  Reaches(s, u) /\ Reaches(u, u)
  BY DEF Reaches

\* Reachability does not change.
LEMMA ReachesConstant ==
  ASSUME UNCHANGED imports, NEW s, NEW t PROVE Reaches(s, t)' <=> Reaches(s, t)
  BY DEF Reaches

\* A step that leaves the order and the sources of the frames alone.
LEMMA SameFramesTopo ==
  ASSUME TopoInv, UNCHANGED <<imports, sourceOrder>>, Len(frames') = Len(frames),
         \A i \in 1..Len(frames) : frames'[i].source = frames[i].source
  PROVE  TopoInv'
<1>1. ChainInv'
  BY ReachesConstant DEF TopoInv, ChainInv
<1>2. TopologicalUpToCycles'
  BY ReachesConstant DEF TopoInv, TopologicalUpToCycles
<1>3. QED
  BY <1>1, <1>2 DEF TopoInv

\* A new innermost call, for an import of the innermost one if there is one.
LEMMA PushTopo ==
  ASSUME Inv, TopoInv, UNCHANGED <<imports, sourceOrder>>, NEW s \in Source,
         Len(frames') = Len(frames) + 1, frames'[Len(frames) + 1].source = s,
         \A i \in 1..Len(frames) : frames'[i].source = frames[i].source,
         frames # << >> => s \in imports[frames[Len(frames)].source]
  PROVE  TopoInv'
<1> DEFINE n == Len(frames)
<1>1. n \in Nat /\ \A i \in 1..n : frames[i].source \in Source
  <2>1. frames \in Seq(Frame)
    BY DEF Inv, TypeOK
  <2>2. n \in Nat /\ \A i \in 1..n : frames[i] \in Frame
    BY <2>1
  <2>3. QED
    BY <2>2 DEF Frame
<1>2. ASSUME NEW i \in 1..n PROVE Reaches(frames[i].source, s)
  <2>1. frames # << >> /\ n \in 1..n /\ i <= n
    BY <1>1, <1>2 DEF Inv, TypeOK
  <2>2. Reaches(frames[i].source, frames[n].source)
    BY <2>1 DEF TopoInv, ChainInv
  <2>3. QED
    BY <1>1, <2>1, <2>2, ReachesSteps
<1>3. Reaches(s, s)
  BY DEF Reaches
<1>4. ASSUME NEW i \in 1..(n + 1), NEW k \in 1..(n + 1), i <= k
      PROVE  Reaches(frames'[i].source, frames'[k].source)
  <2>1. CASE k \in 1..n
    BY <1>1, <1>4, <2>1 DEF TopoInv, ChainInv
  <2>2. CASE k = n + 1 /\ i \in 1..n
    BY <1>2, <2>2
  <2>3. CASE k = n + 1 /\ i = n + 1
    BY <1>3, <2>3
  <2>4. QED
    BY <1>1, <1>4, <2>1, <2>2, <2>3
<1>5. ChainInv'
  BY <1>4, ReachesConstant DEF ChainInv
<1>6. TopologicalUpToCycles'
  BY ReachesConstant DEF TopoInv, TopologicalUpToCycles
<1>7. QED
  BY <1>5, <1>6 DEF TopoInv

\* What is imported by the source that is finished comes before it, or is still being
\* visited: then it reaches that source.
LEMMA FinishTopo ==
  ASSUME Inv, TopoInv, Finish PROVE TopoInv'
<1> DEFINE n == Len(frames)
           m == Len(sourceOrder)
<1>1. /\ n \in Nat /\ n >= 1 /\ m \in Nat /\ Top = frames[n] /\ Top \in Frame /\ Top.todo = {}
      /\ imports' = imports
  BY DEF Inv, TypeOK, Finish, Top
<1>2. /\ Len(sourceOrder') = m + 1 /\ sourceOrder'[m + 1] = Top.source
      /\ \A i \in 1..m : sourceOrder'[i] = sourceOrder[i]
  BY <1>1 DEF Finish, Frame, Inv, TypeOK
<1>3. Len(frames') = n - 1 /\ \A i \in 1..(n - 1) : frames'[i] = frames[i]
  BY FinishFrames DEF Inv
<1>4. ChainInv'
  BY <1>1, <1>3, ReachesConstant DEF TopoInv, ChainInv
<1>5. ASSUME NEW s \in imports[Top.source]
      PROVE  (\E i \in 1..m : sourceOrder[i] = s) \/ Reaches(s, Top.source)
  <2>1. s \in Ordered \/ s \in Active
    BY <1>1, <1>5 DEF Inv, FramesInv, SeenOnce
  <2>2. CASE s \in Ordered
    BY <2>2 DEF Ordered
  <2>3. CASE s \in Active
    <3>1. PICK i \in 1..n : frames[i].source = s
      BY <2>3 DEF Active
    <3>2. QED
      BY <1>1, <3>1 DEF TopoInv, ChainInv
  <2>4. QED
    BY <2>1, <2>2, <2>3
<1>6. ASSUME NEW j \in 1..(m + 1), NEW s \in imports[sourceOrder'[j]]
      PROVE  (\E i \in 1..(j - 1) : sourceOrder'[i] = s) \/ Reaches(s, sourceOrder'[j])
  <2>1. CASE j \in 1..m
    <3>1. (\E i \in 1..(j - 1) : sourceOrder[i] = s) \/ Reaches(s, sourceOrder[j])
      BY <1>2, <1>6, <2>1 DEF TopoInv, TopologicalUpToCycles
    <3>2. \A i \in 1..(j - 1) : i \in 1..m
      BY <1>1, <2>1
    <3>3. QED
      BY <1>2, <2>1, <3>1, <3>2
  <2>2. CASE j = m + 1
    BY <1>1, <1>2, <1>5, <1>6, <2>2
  <2>3. QED
    BY <1>1, <2>1, <2>2
<1>7. TopologicalUpToCycles'
  BY <1>1, <1>2, <1>6, ReachesConstant DEF TopologicalUpToCycles
<1>8. QED
  BY <1>4, <1>7 DEF TopoInv

\* Every step keeps the order topological up to cycles.
LEMMA TopoStep == Inv /\ TopoInv /\ [Next]_vars => TopoInv'
<1> SUFFICES ASSUME Inv, TopoInv, [Next]_vars PROVE TopoInv'
  OBVIOUS
<1>1. ASSUME NEW s \in Source, VisitRoot(s) PROVE TopoInv'
  <2>1. /\ frames = << >> /\ frames' = Enter(frames, s) /\ UNCHANGED <<imports, sourceOrder>>
    BY <1>1 DEF VisitRoot
  <2>2. CASE s \in seen
    BY <2>1, <2>2, SameFramesTopo DEF Enter
  <2>3. CASE s \notin seen
    BY <2>1, <2>3, PushTopo DEF Enter
  <2>4. QED
    BY <2>2, <2>3
<1>2. ASSUME NEW s \in Source, SkipLibrary(s) PROVE TopoInv'
  BY <1>2, SameFramesTopo DEF SkipLibrary
<1>3. ASSUME NEW s \in Source, VisitImport(s) PROVE TopoInv'
  <2> DEFINE n == Len(frames)
  <2>1. PICK stack :
          stack = [frames EXCEPT ![n] = [source |-> Top.source, todo |-> Top.todo \ {s}]]
    OBVIOUS
  <2>2. TypeOK
    BY DEF Inv
  <2>3. /\ stack \in Seq(Frame) /\ Len(stack) = n /\ s \in Top.todo /\ n \in 1..n
        /\ \A i \in 1..n : stack[i].source = frames[i].source
        /\ frames' = Enter(stack, s)
    BY <1>3, <2>1, <2>2, ImportStack
  <2>4. UNCHANGED <<imports, sourceOrder>>
    BY <1>3 DEF VisitImport
  <2>5. s \in imports[frames[n].source] /\ frames # << >>
    BY <1>3, <2>3 DEF Inv, FramesInv, Top, VisitImport
  <2>6. CASE s \in seen
    <3>1. frames' = stack
      BY <2>3, <2>6 DEF Enter
    <3>2. QED
      BY <2>3, <2>4, <3>1, SameFramesTopo
  <2>7. CASE s \notin seen
    <3>1. /\ Len(frames') = Len(stack) + 1
          /\ frames'[Len(stack) + 1] = [source |-> s, todo |-> imports[s]]
          /\ \A i \in 1..Len(stack) : frames'[i] = stack[i]
      BY <2>2, <2>3, <2>7, PushFacts, Zenon
    <3>2. /\ Len(frames') = n + 1 /\ frames'[n + 1].source = s
          /\ \A i \in 1..n : frames'[i].source = frames[i].source
      BY <2>3, <3>1
    <3>3. QED
      BY <2>4, <2>5, <3>2, PushTopo
  <2>8. QED
    BY <2>6, <2>7
<1>4. CASE UNCHANGED vars
  BY <1>4, SameFramesTopo DEF vars
<1>5. QED
  BY <1>1, <1>2, <1>3, <1>4, FinishTopo DEF Next

\* A source comes after what it imports wherever the two do not import each other.
THEOREM OrderIsTopological == Spec => []TopologicalUpToCycles
<1>1. Init => TopoInv
  BY DEF Init, TopoInv, ChainInv, TopologicalUpToCycles
<1>2. TopoInv => TopologicalUpToCycles
  BY DEF TopoInv
<1>3. QED
  BY <1>1, <1>2, InvInit, InvHolds, TopoStep, PTL DEF Spec

-----------------------------------------------------------------------------
(* The search ends. *)

\* The import directives not looked at yet: those of a source that was not seen, and
\* those a call has still to visit.
Open ==
  {e \in Source \X Source :
     /\ e[2] \in imports[e[1]]
     /\ e[1] \in seen => \E i \in 1..Len(frames) : frames[i].source = e[1] /\ e[2] \in frames[i].todo}

\* Each root, each directive and each source that is ordered costs one step.
StepsLeft == Cardinality(roots) + Cardinality(Open) + Cardinality(Source \ Ordered)

\* Cyclic imports or not, every step is one less: no directive is looked at twice.
OrderEnds ==
  /\ [](StepsLeft \in Nat)
  /\ [][StepsLeft' = StepsLeft - 1]_vars

\* What is counted is finite.
Counted ==
  /\ IsFiniteSet(roots) /\ IsFiniteSet(Open) /\ IsFiniteSet(Source \ Ordered)
  /\ Cardinality(roots) \in Nat /\ Cardinality(Open) \in Nat
  /\ Cardinality(Source \ Ordered) \in Nat

LEMMA CountedHolds == Inv => Counted
<1> SUFFICES ASSUME Inv PROVE Counted
  OBVIOUS
<1>1. IsFiniteSet(Source \X Source)
  BY SourceAssumption, FS_Product
<1>2. roots \in SUBSET Source /\ Source \ Ordered \in SUBSET Source
      /\ Open \in SUBSET (Source \X Source)
  BY DEF Inv, TypeOK, Open
<1>3. IsFiniteSet(roots) /\ IsFiniteSet(Open) /\ IsFiniteSet(Source \ Ordered)
  BY <1>1, <1>2, SourceAssumption, FS_Subset
<1>4. QED
  BY <1>3, FS_CardinalityType DEF Counted

\* One element less in one of the sets.
LEMMA OneLess ==
  ASSUME Counted,
         \/ /\ \E s \in roots : roots' = roots \ {s}
            /\ Open' = Open /\ Ordered' = Ordered
         \/ /\ \E e \in Open : Open' = Open \ {e}
            /\ roots' = roots /\ Ordered' = Ordered
         \/ /\ \E s \in Source \ Ordered : Ordered' = Ordered \cup {s}
            /\ roots' = roots /\ Open' = Open
  PROVE  StepsLeft' = StepsLeft - 1
<1>1. CASE /\ \E s \in roots : roots' = roots \ {s}
           /\ Open' = Open /\ Ordered' = Ordered
  <2>1. Cardinality(roots') = Cardinality(roots) - 1
    BY <1>1, FS_RemoveElement DEF Counted
  <2>2. QED
    BY <1>1, <2>1 DEF StepsLeft, Counted
<1>2. CASE /\ \E e \in Open : Open' = Open \ {e}
           /\ roots' = roots /\ Ordered' = Ordered
  <2>1. Cardinality(Open') = Cardinality(Open) - 1
    BY <1>2, FS_RemoveElement DEF Counted
  <2>2. QED
    BY <1>2, <2>1 DEF StepsLeft, Counted
<1>3. CASE /\ \E s \in Source \ Ordered : Ordered' = Ordered \cup {s}
           /\ roots' = roots /\ Open' = Open
  <2>1. PICK s \in Source \ Ordered : Ordered' = Ordered \cup {s}
    BY <1>3
  <2>2. Source \ Ordered' = (Source \ Ordered) \ {s}
    BY <2>1
  <2>3. Cardinality((Source \ Ordered) \ {s}) = Cardinality(Source \ Ordered) - 1
    BY <2>1, FS_RemoveElement DEF Counted
  <2>4. QED
    BY <1>3, <2>2, <2>3 DEF StepsLeft, Counted
<1>4. QED
  BY <1>1, <1>2, <1>3

\* The outer loop has one root less; the directives of a source it goes into stay open.
LEMMA RootOpen ==
  ASSUME Inv, NEW s \in Source, VisitRoot(s)
  PROVE  Open' = Open
<1>1. /\ frames = << >> /\ Len(frames) = 0 /\ imports' = imports
      /\ frames' = Enter(frames, s) /\ seen' = seen \cup {s}
  BY DEF VisitRoot, Mark
<1>2. CASE s \in seen
  <2>1. frames' = frames /\ seen' = seen
    BY <1>1, <1>2 DEF Enter
  <2>2. QED
    BY <1>1, <2>1 DEF Open
<1>3. CASE s \notin seen
  <2>1. /\ Len(frames') = 1 /\ frames'[1].source = s /\ frames'[1].todo = imports[s]
    BY <1>1, <1>3 DEF Enter
  <2>2. ASSUME NEW e \in Source \X Source, e[2] \in imports[e[1]]
        PROVE  (e[1] \in seen' => \E i \in 1..Len(frames') :
                                     frames'[i].source = e[1] /\ e[2] \in frames'[i].todo)
               <=> (e[1] \in seen => \E i \in 1..Len(frames) :
                                     frames[i].source = e[1] /\ e[2] \in frames[i].todo)
    BY <1>1, <1>3, <2>1, <2>2
  <2>3. QED
    BY <1>1, <2>2 DEF Open
<1>4. QED
  BY <1>2, <1>3

\* A directive that is visited is open no more.
LEMMA ImportOpen ==
  ASSUME Inv, NEW s \in Source, VisitImport(s)
  PROVE  <<Top.source, s>> \in Open /\ Open' = Open \ {<<Top.source, s>>}
<1> DEFINE n == Len(frames)
           u == Top.source
           stack == [frames EXCEPT ![n] = [source |-> u, todo |-> Top.todo \ {s}]]
<1>1. frames \in Seq(Frame) /\ n \in 1..n /\ Top \in Frame /\ s \in Top.todo
  BY ImportStack DEF Inv, TypeOK
<1>2. /\ stack \in Seq(Frame) /\ Len(stack) = n
      /\ stack[n] = [source |-> u, todo |-> Top.todo \ {s}]
      /\ \A i \in 1..n : i # n => stack[i] = frames[i]
  BY ImportStack DEF Inv
<1>3. \A i \in 1..n : stack[i].source = frames[i].source
  BY ImportStack DEF Inv
<1>4. frames' = Enter(stack, s)
  BY DEF VisitImport
<1> HIDE DEF stack
<1>5. /\ n \in Nat /\ n \in 1..n /\ Top \in Frame /\ s \in Top.todo /\ Top = frames[n]
      /\ stack \in Seq(Frame) /\ Len(stack) = n
      /\ stack[n] = [source |-> u, todo |-> Top.todo \ {s}]
      /\ \A i \in 1..n : i # n => stack[i] = frames[i]
      /\ \A i \in 1..n : stack[i].source = frames[i].source
      /\ frames' = Enter(stack, s)
  BY <1>1, <1>2, <1>3, <1>4 DEF Top
<1> HIDE DEF n
<1>6. imports' = imports /\ seen' = seen \cup {s}
  BY DEF VisitImport, Mark
<1>7. u \in seen /\ u \in Source /\ \A i \in 1..n : frames[i].source = u => i = n
  BY <1>5 DEF Inv, SeenOnce, Active, Frame, n
<1>8. s \in imports[u]
  BY <1>5 DEF Inv, FramesInv, n
<1>9. <<u, s>> \in Open
  BY <1>5, <1>7, <1>8 DEF Open, n
<1>10. /\ s \in seen => frames' = stack
       /\ s \notin seen => /\ Len(frames') = n + 1
                           /\ frames'[n + 1] = [source |-> s, todo |-> imports[s]]
                           /\ \A i \in 1..n : frames'[i] = stack[i]
  BY <1>5, PushFacts DEF Inv, n
<1>11. ASSUME NEW e \in Source \X Source, e[2] \in imports[e[1]]
      PROVE  (e[1] \in seen' => \E i \in 1..Len(frames') :
                                   frames'[i].source = e[1] /\ e[2] \in frames'[i].todo)
             <=> /\ e # <<u, s>>
                 /\ e[1] \in seen => \E i \in 1..n :
                                       frames[i].source = e[1] /\ e[2] \in frames[i].todo
  <2>1. CASE e[1] \notin seen
    <3>1. e # <<u, s>>
      BY <1>7, <2>1
    <3>2. CASE e[1] # s
      BY <1>6, <2>1, <3>1, <3>2
    <3>3. CASE e[1] = s
      <4>1. frames'[n + 1].source = e[1] /\ e[2] \in frames'[n + 1].todo /\ n + 1 \in 1..Len(frames')
        BY <1>5, <1>10, <1>11, <2>1, <3>3
      <4>2. QED
        BY <2>1, <3>1, <4>1
    <3>4. QED
      BY <3>2, <3>3
  <2>2. CASE e[1] \in seen
    <3>1. /\ \A i \in 1..Len(frames') : frames'[i].source = e[1] => i \in 1..n
          /\ \A i \in 1..n : i \in 1..Len(frames') /\ frames'[i] = stack[i]
      <4>1. CASE s \in seen
        <5>1. frames' = stack
          BY <1>10, <4>1
        <5>2. Len(stack) = n
          BY <1>5
        <5>3. QED
          BY <5>1, <5>2
      <4>2. CASE s \notin seen
        <5>1. /\ Len(frames') = n + 1 /\ frames'[n + 1].source = s
              /\ \A i \in 1..n : frames'[i] = stack[i]
          BY <1>10, <4>2
        <5>2. \A i \in 1..(n + 1) : i \in 1..n \/ i = n + 1
          BY <1>5
        <5>3. \A i \in 1..n : i \in 1..(n + 1)
          BY <1>5
        <5>4. QED
          BY <2>2, <4>2, <5>1, <5>2, <5>3
      <4>3. QED
        BY <4>1, <4>2
    <3>2. ASSUME NEW i \in 1..n
          PROVE  (stack[i].source = e[1] /\ e[2] \in stack[i].todo)
                 <=> (e # <<u, s>> /\ frames[i].source = e[1] /\ e[2] \in frames[i].todo)
      <4>1. CASE i = n
        <5>1. stack[i].source = u /\ stack[i].todo = Top.todo \ {s} /\ frames[i] = Top
          BY <1>5, <4>1
        <5>2. e = <<u, s>> <=> e[1] = u /\ e[2] = s
          OBVIOUS
        <5>3. QED
          BY <5>1, <5>2
      <4>2. CASE i # n
        <5>1. stack[i] = frames[i] /\ frames[i].source # u
          BY <1>5, <1>7, <4>2
        <5>2. QED
          BY <5>1
      <4>3. QED
        BY <4>1, <4>2
    <3>3. QED
      BY <1>6, <2>2, <3>1, <3>2
  <2>3. QED
    BY <2>1, <2>2
<1>12. QED
  BY <1>6, <1>9, <1>11 DEF Open, n

\* A source that is finished has no open directive, and is ordered from then on.
LEMMA FinishOpen ==
  ASSUME Inv, Finish
  PROVE  /\ Open' = Open
         /\ Top.source \in Source \ Ordered /\ Ordered' = Ordered \cup {Top.source}
<1> DEFINE n == Len(frames)
           m == Len(sourceOrder)
<1>1. /\ frames \in Seq(Frame) /\ n \in Nat /\ n >= 1 /\ sourceOrder \in Seq(Source) /\ m \in Nat
      /\ Top = frames[n] /\ Top \in Frame
  BY DEF Inv, TypeOK, Finish, Top
<1>2. Len(frames') = n - 1 /\ \A i \in 1..(n - 1) : frames'[i] = frames[i]
  BY FinishFrames DEF Inv
<1>3. Top.todo = {} /\ UNCHANGED <<imports, seen>>
  BY DEF Finish
<1>4. Open' = Open
  <2>1. ASSUME NEW e \in Source \X Source
        PROVE  (\E i \in 1..(n - 1) : frames[i].source = e[1] /\ e[2] \in frames[i].todo)
               <=> (\E i \in 1..n : frames[i].source = e[1] /\ e[2] \in frames[i].todo)
    BY <1>1, <1>3
  <2>2. ASSUME NEW e \in Source \X Source
        PROVE  (\E i \in 1..Len(frames') : frames'[i].source = e[1] /\ e[2] \in frames'[i].todo)
               <=> (\E i \in 1..n : frames[i].source = e[1] /\ e[2] \in frames[i].todo)
    BY <1>2, <2>1
  <2>3. QED
    BY <1>3, <2>2 DEF Open
<1>5. Top.source \in Active /\ Top.source \in Source
  BY <1>1 DEF Active, Frame
<1>6. Top.source \notin Ordered
  BY <1>5 DEF Inv, SeenOnce
<1>7. Ordered' = Ordered \cup {Top.source}
  BY OrderedGrows DEF Inv
<1>8. QED
  BY <1>4, <1>5, <1>6, <1>7

\* resolveImports ends for every finite graph of imports.
THEOREM ResolvingEnds == Spec => OrderEnds
<1>1. Inv => StepsLeft \in Nat
  BY CountedHolds DEF Counted, StepsLeft
<1>2. Inv /\ [Next]_vars => [StepsLeft' = StepsLeft - 1]_vars
  <2> SUFFICES ASSUME Inv, Next PROVE StepsLeft' = StepsLeft - 1
    OBVIOUS
  <2>1. CASE \E s \in Source : VisitRoot(s)
    <3>1. PICK s \in Source : VisitRoot(s)
      BY <2>1
    <3>2. s \in roots /\ roots' = roots \ {s} /\ Ordered' = Ordered
      BY <3>1 DEF VisitRoot, Ordered
    <3>3. Open' = Open
      BY <3>1, RootOpen
    <3>4. QED
      BY <3>2, <3>3, CountedHolds, OneLess
  <2>2. CASE \E s \in Source : SkipLibrary(s)
    <3>1. PICK s \in Source : SkipLibrary(s)
      BY <2>2
    <3>2. s \in roots /\ roots' = roots \ {s} /\ Ordered' = Ordered /\ Open' = Open
      BY <3>1 DEF SkipLibrary, Ordered, Open
    <3>3. QED
      BY <3>2, CountedHolds, OneLess
  <2>3. CASE \E s \in Source : VisitImport(s)
    <3>1. PICK s \in Source : VisitImport(s)
      BY <2>3
    <3>2. roots' = roots /\ Ordered' = Ordered
      BY <3>1 DEF VisitImport, Ordered
    <3>3. <<Top.source, s>> \in Open /\ Open' = Open \ {<<Top.source, s>>}
      BY <3>1, ImportOpen
    <3>4. QED
      BY <3>2, <3>3, CountedHolds, OneLess
  <2>4. CASE Finish
    <3>1. roots' = roots
      BY <2>4 DEF Finish
    <3>2. QED
      BY <2>4, <3>1, FinishOpen, CountedHolds, OneLess
  <2>5. QED
    BY <2>1, <2>2, <2>3, <2>4 DEF Next
<1>3. QED
  BY <1>1, <1>2, InvHolds, PTL DEF Spec, OrderEnds

=============================================================================
