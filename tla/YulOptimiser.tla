--------------------------- MODULE YulOptimiser ---------------------------
(***************************************************************************)
(* The steps of the Yul optimiser (libyul/optimiser).  Each is an operator *)
(* on the block of the program; the ones that make new names thread a      *)
(* counter that stands for the NameDispenser: names at or above it are     *)
(* free.  An operator that walks a block with a state folds over the       *)
(* statements a record w whose field out collects what it emits.           *)
(*                                                                         *)
(* YulStrings are ordered by a hash; here names are numbers and their      *)
(* order is the one of the numbers.                                        *)
(*                                                                         *)
(* The second half has the steps that follow values and references, and    *)
(* OptimiserSuite::run (Suite.cpp) as a machine that applies one step of   *)
(* the suite at a time to one program.                                     *)
(*                                                                         *)
(* An assertion of a step (assertThrow) that fails sets the field thrown   *)
(* of its record, or makes the expression it visits Aborted, and the suite  *)
(* ends.                                                                   *)
(***************************************************************************)
EXTENDS YulCode, RuleList

CONSTANTS InlineSize,          \* FullInliner: 10 in the code
          InlineSizeConstArg   \* FullInliner: 50 in the code

ASSUME InlineAssumption == InlineSize \in Nat /\ InlineSizeConstArg \in Nat

Emit(w, statements) == [w EXCEPT !.out = @ \o statements]
WithBodies(s, bodies) == [s EXCEPT !.bs = bodies]
Without(f, S) == [x \in DOMAIN f \ S |-> f[x]]

AssertThrow(w, condition) == [w EXCEPT !.thrown = @ \/ ~condition]
Aborted == Expr("failed", 0, "", << >>)

\* removeEmptyBlocks
EmptyBlock == Block(<< >>)
RemoveEmptyBlocks(b) == SelectSeq(b, LAMBDA s : s # EmptyBlock)

----------------------------------------------------------------------------
\* Collectors

RECURSIVE References(_), ReferencesIn(_), Assigned(_), AllNames(_), CodeSizeOf(_), CodeSize(_)

\* ReferencesCounter: the names referenced, once for every reference
References(e) ==
  (IF e.k \in {"id", "call"} THEN <<e.n>> ELSE << >>) \o Concat([k \in 1..Len(e.args) |-> References(e.args[k])])
ReferencesIn(b) ==
  Concat([k \in 1..Len(b) |->
    (IF b[k].k = "assign" THEN b[k].xs ELSE << >>) \o References(b[k].e)
    \o Concat([j \in 1..Len(b[k].bs) |-> ReferencesIn(b[k].bs[j])])])
Count(x, seq) == Len(SelectSeq(seq, LAMBDA y : y = x))

\* Assignments
Assigned(b) ==
  UNION {(IF s.k = "assign" THEN Names(s) ELSE {}) \cup UNION {Assigned(s.bs[j]) : j \in 1..Len(s.bs)} : s \in ToSet(b)}

\* NameCollector
AllNames(b) ==
  UNION {(CASE s.k = "let" -> Names(s)
            [] s.k = "fun" -> Names(s) \cup ToSet(Rets(s)) \cup {FunName(s)}
            [] OTHER -> {}) \cup UNION {AllNames(s.bs[j]) : j \in 1..Len(s.bs)} : s \in ToSet(b)}

\* CodeSize: every statement and expression counts one
CodeSizeOf(e) == (IF e.k = "none" THEN 0 ELSE 1) + SumSeq([k \in 1..Len(e.args) |-> CodeSizeOf(e.args[k])])
CodeSize(b) ==
  SumSeq([k \in 1..Len(b) |-> 1 + CodeSizeOf(b[k].e) + SumSeq([j \in 1..Len(b[k].bs) |-> CodeSize(b[k].bs[j])])])

\* MovableChecker, and the variables it sees
RECURSIVE IsMovable(_), VariablesSeen(_), Mentions(_, _)
IsMovable(e) == e.k # "call" /\ (e.k = "op" => e.f \in Movable) /\ \A k \in 1..Len(e.args) : IsMovable(e.args[k])
VariablesSeen(e) ==
  IF e.k = "id" THEN {e.n}
  ELSE IF e.k = "op" /\ e.f \in Movable THEN UNION {VariablesSeen(e.args[k]) : k \in 1..Len(e.args)}
  ELSE {}
Mentions(e, names) == \E x \in names : Count(x, References(e)) > 0

\* Substitution: identifiers replaced by expressions
RECURSIVE Substitute(_, _)
Substitute(e, by) ==
  IF e.k = "id" /\ e.n \in DOMAIN by THEN by[e.n]
  ELSE [e EXCEPT !.args = [k \in 1..Len(e.args) |-> Substitute(e.args[k], by)]]

----------------------------------------------------------------------------
\* Disambiguator.  w.used is what its own dispenser has given.  Names are chosen when a scope
\* is entered, not at their first use: that only decides which of two equal names is kept.

NewName(hint, used) == IF hint \notin used THEN hint ELSE Max(used) + 1

Rename(w, names) ==
  Walk(LAMBDA v, x : LET new == NewName(x, v.used)
                         IN  [v EXCEPT !.used = @ \cup {new}, !.to = (x :> Id(new)) @@ @], w, names)

RECURSIVE DisambiguateBlock(_, _), RenameCalls(_, _)
RenameCalls(e, to) ==
  [e EXCEPT !.n = IF e.k = "call" THEN to[e.n].n ELSE @,
            !.args = [k \in 1..Len(e.args) |-> RenameCalls(e.args[k], to)]]

DeclaredIn(b) ==
  Concat([k \in 1..Len(b) |-> CASE b[k].k = "let" -> b[k].xs
                                    [] b[k].k = "fun" -> <<FunName(b[k])>>
                                    [] OTHER -> << >>])

DisambiguateStatement(s, w) ==
  LET pre == IF s.k = "for" THEN Rename(w, DeclaredIn(s.bs[1]))
             ELSE IF s.k = "fun" THEN Rename(w, s.xs \o Rets(s)) ELSE w
      inner == WalkDomain(
                 LAMBDA v, k : LET r == DisambiguateBlock(s.bs[k], [v EXCEPT !.renamed = s.k = "for" /\ k = 1])
                               IN  [v EXCEPT !.used = r.used, !.bs = Append(@, r.out)],
                 [pre EXCEPT !.bs = << >>], s.bs)
      name(x) == inner.to[x].n
      names(xs) == [k \in 1..Len(xs) |-> name(xs[k])]
      new == [s EXCEPT !.xs = names(@), !.e = Substitute(RenameCalls(@, inner.to), inner.to), !.bs = inner.bs,
                       !.ds = IF s.k = "fun" THEN <<name(FunName(s)), names(Rets(s))>> ELSE @]
  IN  [Emit(w, <<new>>) EXCEPT !.used = inner.used]

DisambiguateBlock(b, w) ==
  Walk(LAMBDA v, s : DisambiguateStatement(s, v),
           [(IF w.renamed THEN w ELSE Rename(w, DeclaredIn(b))) EXCEPT !.out = << >>], b)

Disambiguator(b) ==
  DisambiguateBlock(b, [out |-> << >>, bs |-> << >>, used |-> {}, to |-> << >>, renamed |-> FALSE]).out

----------------------------------------------------------------------------
\* FunctionHoister: [out, funs] of a block

RECURSIVE Hoist(_)
Hoist(b) ==
  LET visited(s) == [k \in 1..Len(s.bs) |-> Hoist(s.bs[k])]
      step(w, s) ==
        LET v == visited(s)
            new == WithBodies(s, [k \in 1..Len(v) |-> v[k].out])
            funs == w.funs \o Concat([k \in 1..Len(v) |-> v[k].funs])
        IN  IF s.k = "fun" THEN [w EXCEPT !.funs = Append(funs, new)]
            ELSE [Emit(w, <<new>>) EXCEPT !.funs = funs]
      all == Walk(step, [out |-> << >>, funs |-> << >>], b)
  IN  [all EXCEPT !.out = RemoveEmptyBlocks(@)]
FunctionHoister(b) == Hoist(b).out \o Hoist(b).funs

FunctionGrouper(b) ==
  <<Block(SelectSeq(b, LAMBDA s : s.k # "fun"))>> \o SelectSeq(b, LAMBDA s : s.k = "fun")

\* It overrides the visit of a block and does not descend.
ForLoopInitRewriter(b) ==
  Concat([k \in 1..Len(b) |-> IF b[k].k = "for" THEN b[k].bs[1] \o <<[b[k] EXCEPT !.bs[1] = << >>]>>
                                  ELSE <<b[k]>>])

\* BlockFlattener
RECURSIVE BlockFlattener(_)
BlockFlattener(b) ==
  Concat([k \in 1..Len(b) |->
    LET new == WithBodies(b[k], [j \in 1..Len(b[k].bs) |-> BlockFlattener(b[k].bs[j])])
    IN  IF new.k = "block" THEN new.bs[1] ELSE <<new>>])

----------------------------------------------------------------------------
\* ExpressionSplitter.  For an expression: [e, pre, n].

RECURSIVE SplitExpression(_, _), SplitBlock(_, _)
Outline(e, n) ==
  IF e.k = "id" THEN [e |-> e, pre |-> << >>, n |-> n]
  ELSE LET r == SplitExpression(e, n)
       IN  [e |-> Id(r.n), pre |-> Append(r.pre, VariableDeclaration(<<r.n>>, r.e)), n |-> r.n + 1]

SplitExpression(e, n) ==
  WalkBack(LAMBDA arg, r : LET o == Outline(arg, r.n)
                            IN  [e |-> [r.e EXCEPT !.args = <<o.e>> \o @], pre |-> r.pre \o o.pre, n |-> o.n],
            e.args, [e |-> [e EXCEPT !.args = << >>], pre |-> << >>, n |-> n])

SplitStatement(s, w) ==
  LET value == CASE s.k \in {"if", "switch"} -> Outline(s.e, w.n)
                 [] s.k = "for" \/ ~HasValue(s) -> [e |-> s.e, pre |-> << >>, n |-> w.n]
                 [] OTHER -> SplitExpression(s.e, w.n)
      inner == Walk(LAMBDA v, b : LET r == SplitBlock(b, v.n) IN [bs |-> Append(v.bs, r.out), n |-> r.n],
                        [bs |-> << >>, n |-> value.n], s.bs)
  IN  [Emit(w, Append(value.pre, [s EXCEPT !.e = value.e, !.bs = inner.bs])) EXCEPT !.n = inner.n]

SplitBlock(b, n) == Walk(LAMBDA w, s : SplitStatement(s, w), [out |-> << >>, n |-> n], b)
ExpressionSplitter(b, n) == SplitBlock(b, n)

----------------------------------------------------------------------------
\* SSATransform.  w.cur maps a variable to the one that holds its current value.

RECURSIVE SSABlock(_, _, _)

ReplaceByNew(w, s, e) ==
  [Emit(w, <<VariableDeclaration(<<w.n>>, e), [s EXCEPT !.e = Id(w.n)]>>)
     EXCEPT !.n = @ + 1, !.cur = (s.xs[1] :> Id(w.n)) @@ @, !.clear = @ \cup {s.xs[1]}]

SSAStatement(s, w, replace) ==
  LET e == Substitute(s.e, w.cur)
      visit(v, k) == LET r == SSABlock(s.bs[k], v, replace)
                     IN  [r EXCEPT !.out = v.out, !.bs = (k :> r.out) @@ v.bs]
      done(v, new) == [Emit(v, <<WithBodies(new, [k \in 1..Len(s.bs) |-> v.bs[k]])>>) EXCEPT !.bs = << >>]
  IN  CASE s.k \in {"let", "assign"} ->
             IF Len(s.xs) = 1 /\ (s.k = "let" => s.xs[1] \in replace)
             THEN AssertThrow(ReplaceByNew(w, s, e), s.xs[1] \in replace)
             ELSE Emit(w, <<[s EXCEPT !.e = e]>>)
        [] s.k = "for" ->
             LET pre == visit(w, 1)
                 cleared == [pre EXCEPT !.cur = Without(@, Assigned(s.bs[2]) \cup Assigned(s.bs[3]))]
             IN  done(visit(visit(cleared, 3), 2), [s EXCEPT !.e = Substitute(s.e, cleared.cur)])
        [] OTHER -> done(WalkDomain(visit, w, s.bs), [s EXCEPT !.e = e])

SSABlock(b, w, replace) ==
  LET r == Walk(LAMBDA v, s : SSAStatement(s, v, replace), [w EXCEPT !.out = << >>, !.clear = {}, !.bs = << >>], b)
  IN  [r EXCEPT !.cur = Without(@, r.clear), !.clear = w.clear, !.bs = w.bs]

SSATransform(b, n) ==
  SSABlock(b, [out |-> << >>, n |-> n, cur |-> << >>, clear |-> {}, bs |-> << >>, thrown |-> FALSE], Assigned(b))

----------------------------------------------------------------------------
\* RedundantAssignEliminator.  An assignment is known by its path in the program.  r.asg maps
\* <<variable, path, movable>> to Unused, Undecided or Used.

Unused == 0
Undecided == 1
Used == 2

ChangeUndecidedTo(r, xs, state) ==
  [r EXCEPT !.asg = [a \in DOMAIN @ |-> IF a[1] \in xs /\ @[a] = Undecided THEN state ELSE @[a]]]
Finalize(r, xs) ==
  LET ended == {a \in DOMAIN r.asg : a[1] \in xs}
  IN  AssertThrow([r EXCEPT !.asg = Without(@, ended),
                            !.remove = @ \cup {a[2] : a \in {c \in ended : r.asg[c] = Unused /\ c[3]}}],
                  \A a \in ended : r.asg[a] # Undecided)
\* Mutant of Join: an assignment used in one branch only counts as unused
JoinSmaller(r, o) ==
  LET state(q, a) == IF a \in DOMAIN q.asg THEN q.asg[a] ELSE Unused
      smaller(a) == IF state(r, a) < state(o, a) THEN state(r, a) ELSE state(o, a)
  IN  [r EXCEPT !.remove = @ \cup o.remove, !.thrown = @ \/ o.thrown,
                !.asg = [a \in DOMAIN r.asg \cup DOMAIN o.asg |-> smaller(a)]]

Join(r, o) ==
  LET state(q, a) == IF a \in DOMAIN q.asg THEN q.asg[a] ELSE Unused
      larger(a) == IF state(r, a) > state(o, a) THEN state(r, a) ELSE state(o, a)
  IN  [r EXCEPT !.remove = @ \cup o.remove, !.thrown = @ \/ o.thrown,
                !.asg = [a \in DOMAIN r.asg \cup DOMAIN o.asg |-> larger(a)]]

UseAll(r, e) == ChangeUndecidedTo(r, ToSet(References(e)), Used)
\* ~BlockScope
CloseScope(r, outer) ==
  [Finalize(ChangeUndecidedTo(r, r.declared, Unused), r.declared) EXCEPT !.declared = outer]

RECURSIVE RAEBlock(_, _, _), RAEStatements(_, _, _)

RAEStatement(s, path, r0) ==
  LET r == IF s.k = "for" THEN r0 ELSE UseAll(r0, s.e)
      block(v, k) == RAEBlock(s.bs[k], Append(path, k), v)
  IN  CASE s.k = "let" -> [r EXCEPT !.declared = @ \cup Names(s)]
        [] s.k = "assign" ->
             LET v == ChangeUndecidedTo(r, Names(s), Unused)
             IN  IF Len(s.xs) # 1 THEN v
                 ELSE [v EXCEPT !.asg = @ @@ (<<s.xs[1], path, IsMovable(s.e)>> :> Undecided)]
        [] s.k = "if" -> Join(r, block(r, 1))
        [] s.k = "switch" ->
             LET branches == [k \in 1..Len(s.bs) |-> block(r, k)]
                 default == \E k \in 1..Len(s.ds) : s.ds[k] = None
             IN  IF default THEN Walk(Join, Last(branches), Front(branches)) ELSE Walk(Join, r, branches)
        [] s.k = "fun" ->
             LET body == block(r, 1)
                 end(v, xs, state) == Finalize(ChangeUndecidedTo(v, xs, state), xs)
             IN  end(end(body, Names(s), Unused), ToSet(Rets(s)), Used)
        [] s.k = "for" ->
             LET pre == UseAll(RAEStatements(s.bs[1], Append(path, 1), [r EXCEPT !.declared = {}]), s.e)
                 turn(v) == UseAll(block(block(v, 3), 2), s.e)
                 one == turn(pre)
             IN  CloseScope(Join(Join(turn(one), one), pre), r.declared)
        [] s.k = "block" -> block(r, 1)
        [] OTHER -> r

RAEStatements(b, path, r) == WalkDomain(LAMBDA v, k : RAEStatement(b[k], Append(path, k), v), r, b)
RAEBlock(b, path, r) == CloseScope(RAEStatements(b, path, [r EXCEPT !.declared = {}]), r.declared)

\* AssignmentRemover
RECURSIVE RemoveAssignments(_, _, _)
RemoveAssignments(b, path, remove) ==
  Concat([k \in 1..Len(b) |->
    IF Append(path, k) \in remove THEN << >>
    ELSE <<WithBodies(b[k], [j \in 1..Len(b[k].bs) |-> RemoveAssignments(b[k].bs[j], path \o <<k, j>>, remove)])>>])

RedundantAssignEliminator(b) ==
  LET rae == RAEBlock(b, << >>, [asg |-> << >>, declared |-> {}, remove |-> {}, thrown |-> FALSE])
  IN  [out |-> RemoveAssignments(b, << >>, rae.remove), thrown |-> rae.thrown]

-----------------------------------------------------------------------------
----------------------------------------------------------------------------
\* VarDeclPropagator.  w.empty and w.lazy are the variables of the current block without a
\* value, and those whose first value comes from an assignment.

RECURSIVE PropagateBlock(_)

PropagateVisit(s, w) ==
  LET used == [w EXCEPT !.empty = @ \ ToSet(References(s.e))]
      new == WithBodies(s, [k \in 1..Len(s.bs) |-> PropagateBlock(s.bs[k])])
      v == Emit(used, <<new>>)
  IN  CASE s.k = "let" /\ ~HasValue(s) -> [v EXCEPT !.empty = @ \cup Names(s)]
        [] s.k = "assign" -> [v EXCEPT !.lazy = IF Names(s) \subseteq v.empty THEN @ \cup Names(s) ELSE @,
                                       !.empty = @ \ Names(s)]
        [] OTHER -> v

\* Mutant of PropagateReplace: the old declaration stays
PropagateReplaceTwice(s, w) ==
  IF s.k = "assign" /\ Names(s) \subseteq w.lazy
  THEN [Emit(w, <<VariableDeclaration(s.xs, s.e)>>) EXCEPT !.lazy = @ \ Names(s)] ELSE Emit(w, <<s>>)

PropagateReplace(s, w) ==
  CASE s.k = "let" -> LET kept == SelectSeq(s.xs, LAMBDA x : x \notin w.lazy)
                      IN  IF kept = << >> THEN w ELSE Emit(w, <<[s EXCEPT !.xs = kept]>>)
    [] s.k = "assign" /\ Names(s) \subseteq w.lazy ->
         [Emit(w, <<VariableDeclaration(s.xs, s.e)>>) EXCEPT !.lazy = @ \ Names(s)]
    [] OTHER -> Emit(w, <<s>>)

PropagateBlock(b) ==
  LET walked == Walk(LAMBDA w, s : PropagateVisit(s, w), [out |-> << >>, empty |-> {}, lazy |-> {}], b)
  IN  Walk(LAMBDA w, s : PropagateReplace(s, w), [walked EXCEPT !.out = << >>], walked.out).out

VarDeclPropagator(b) == PropagateBlock(b)

----------------------------------------------------------------------------
\* UnusedPruner.  w.refs counts the references of every name.

RECURSIVE PruneBlock(_, _)

SubtractReferences(w, refs) ==
  AssertThrow([w EXCEPT !.refs = [x \in DOMAIN @ |-> @[x] - Count(x, refs)], !.again = @ \/ refs # << >>],
              \A x \in ToSet(refs) : x \in DOMAIN w.refs /\ w.refs[x] >= Count(x, refs))
IsUsed(w, x) == x \in DOMAIN w.refs /\ w.refs[x] > 0

PruneStatement(s, w) ==
  CASE s.k = "fun" /\ ~IsUsed(w, FunName(s)) -> SubtractReferences(w, ReferencesIn(s.bs[1]))
    [] s.k = "let" /\ \A x \in Names(s) : ~IsUsed(w, x) ->
         IF ~HasValue(s) THEN w
         ELSE IF IsMovable(s.e) THEN SubtractReferences(w, References(s.e))
         ELSE IF Len(s.xs) = 1 THEN Emit(w, <<ExpressionStatement(FunctionalInstruction("POP", <<s.e>>))>>)
         ELSE Emit(w, <<s>>)
    [] s.k = "expr" /\ IsMovable(s.e) -> SubtractReferences(w, References(s.e))
    [] OTHER -> Emit(w, <<s>>)

PruneBodies(s, w) ==
  LET r == Walk(LAMBDA v, b : LET q == PruneBlock(b, v) IN [q EXCEPT !.bs = Append(v.bs, q.out)],
                    [w EXCEPT !.bs = << >>], s.bs)
  IN  [r EXCEPT !.out = Append(w.out, WithBodies(s, r.bs)), !.bs = w.bs]

PruneBlock(b, w) ==
  LET pruned == Walk(LAMBDA v, s : PruneStatement(s, v), [w EXCEPT !.out = << >>], b)
  IN  Walk(LAMBDA v, s : PruneBodies(s, v), [pruned EXCEPT !.out = << >>], RemoveEmptyBlocks(pruned.out))

\* runUntilStabilised
RECURSIVE UnusedPruner(_)
UnusedPruner(b) ==
  LET refs == ReferencesIn(b)
      r == PruneBlock(b, [out |-> << >>, bs |-> << >>, again |-> FALSE, thrown |-> FALSE,
                          refs |-> [x \in ToSet(refs) |-> Count(x, refs)]])
  IN  IF r.again /\ ~r.thrown THEN UnusedPruner(r.out) ELSE r

----------------------------------------------------------------------------
\* DataFlowAnalyzer.  w.val holds the known values, w.refs the variables each value refers to;
\* m_referencedBy is the inverse of w.refs.

\* clearValues inserts into the set it iterates over, in ascending order.
RECURSIVE WithReferring(_, _, _)
WithReferring(names, refs, from) ==
  LET rest == {x \in names : x >= from}
      x == Min(rest)
  IN  IF rest = {} THEN names
      ELSE WithReferring(names \cup {y \in DOMAIN refs : x \in refs[y]}, refs, x + 1)

ClearValues(w, names) ==
  LET all == WithReferring(names, w.refs, 0)
  IN  [w EXCEPT !.val = Without(@, all), !.refs = Without(@, all)]

HandleAssignment(w, xs, e) ==
  LET v == ClearValues(w, ToSet(xs))
      seen == VariablesSeen(e)
      known == Len(xs) = 1 /\ e.k # "none" /\ IsMovable(e) /\ xs[1] \notin seen
  IN  [v EXCEPT !.val = IF known THEN (xs[1] :> e) @@ @ ELSE @, !.refs = [x \in ToSet(xs) |-> seen] @@ @]

\* The two optimiser steps built on it differ in how they visit an expression.
RECURSIVE CSEVisit(_, _), RematerialiserVisit(_, _)

\* CommonSubexpressionEliminator::visit.  It looks at the known values up to the first that is
\* the expression.
CSEVisit(e0, w) ==
  LET e == [e0 EXCEPT !.args = [k \in 1..Len(@) |-> CSEVisit(@[k], w)]]
      value == w.val[e.n]
      same == {x \in DOMAIN w.val : w.val[x] = e}
      seen == IF same = {} THEN DOMAIN w.val ELSE {x \in DOMAIN w.val : x <= Min(same)}
  IN  CASE Aborted \in ToSet(e.args) -> Aborted
        [] e.k = "none" \/ (e.k = "id" /\ e.n \notin DOMAIN w.val) -> e
        [] e.k = "id" /\ e.n \in DOMAIN w.val ->
             IF value = None \/ (value.k = "id" /\ value.n \notin w.scope) THEN Aborted
             ELSE IF value.k = "id" THEN value ELSE e
        [] OTHER -> IF \E x \in seen : w.val[x] = None \/ x \notin w.scope THEN Aborted
                    ELSE IF same # {} THEN Id(Min(same)) ELSE e

\* Rematerialiser::visit
RematerialiserVisit(e0, w) ==
  LET known == e0.k = "id" /\ e0.n \in DOMAIN w.val
      e == IF known /\ CodeSizeOf(w.val[e0.n]) <= 7 THEN w.val[e0.n] ELSE e0
      args == [k \in 1..Len(e.args) |-> RematerialiserVisit(e.args[k], w)]
      fails == known /\ (w.val[e0.n] = None \/ ~(w.refs[e0.n] \subseteq w.scope))
  IN  IF fails \/ Aborted \in ToSet(args) THEN Aborted ELSE [e EXCEPT !.args = args]

VisitWith(w, e) == IF w.step = "cse" THEN CSEVisit(e, w) ELSE RematerialiserVisit(e, w)

RECURSIVE FlowBlock(_, _), FlowStatements(_, _)

\* w.scope are the variables for which inScope() holds: those of the open blocks, up to the
\* innermost function.
FlowStatement(s, w0) ==
  LET w1 == IF s.k = "let" THEN [w0 EXCEPT !.scope = @ \cup Names(s)] ELSE w0
      e == VisitWith(w1, s.e)
      w == AssertThrow(w1, e # Aborted /\ (s.k = "assign" => HasValue(s)))
      into(v, k) == LET r == FlowBlock(s.bs[k], v) IN [r EXCEPT !.out = v.out, !.bs = (k :> r.out) @@ v.bs]
      done(v, new) == [Emit(v, <<WithBodies(new, [k \in 1..Len(s.bs) |-> v.bs[k]])>>)
                         EXCEPT !.bs = << >>, !.scope = w0.scope]
      bodies == [k \in 1..Len(s.bs) |-> Assigned(s.bs[k])]
  IN  CASE s.k \in {"let", "assign"} -> Emit(HandleAssignment(w, s.xs, e), <<[s EXCEPT !.e = e]>>)
        [] s.k = "if" -> done(ClearValues(into(w, 1), bodies[1]), [s EXCEPT !.e = e])
        [] s.k = "switch" ->
             LET all == WalkDomain(LAMBDA v, k : ClearValues(into(v, k), bodies[k]), w, s.bs)
             IN  done(ClearValues(all, UnionSeq(bodies)), [s EXCEPT !.e = e])
        [] s.k = "fun" ->
             LET r == into([w EXCEPT !.val = << >>, !.refs = << >>, !.scope = Names(s) \cup ToSet(Rets(s))], 1)
             IN  done([r EXCEPT !.val = w.val, !.refs = w.refs], s)
        [] s.k = "for" ->
             LET pre == FlowStatements(s.bs[1], w0)
                 changed == bodies[2] \cup bodies[3]
                 start == ClearValues([pre EXCEPT !.out = w0.out, !.bs = (1 :> pre.out) @@ w0.bs], changed)
                 condition == VisitWith(start, s.e)
                 end == ClearValues(into(into(AssertThrow(start, condition # Aborted), 3), 2), changed)
             IN  done(ClearValues(end, ScopeOfBlock(s.bs[1]).vars), [s EXCEPT !.e = condition])
        [] s.k = "block" -> done(into(w, 1), s)
        [] OTHER -> Emit(w, <<[s EXCEPT !.e = e]>>)

FlowStatements(b, w) == Walk(LAMBDA v, s : FlowStatement(s, v), [w EXCEPT !.out = << >>, !.bs = << >>], b)

\* Mutant of FlowBlock: the values of variables that go out of scope stay known
FlowBlockKeepingValues(b, w) == [FlowStatements(b, w) EXCEPT !.bs = w.bs, !.scope = w.scope]

FlowBlock(b, w) == [ClearValues(FlowStatements(b, w), ScopeOfBlock(b).vars) EXCEPT !.bs = w.bs, !.scope = w.scope]

DataFlow(b, step) ==
  FlowBlock(b, [out |-> << >>, bs |-> << >>, val |-> << >>, refs |-> << >>, scope |-> {}, thrown |-> FALSE, step |-> step])
CommonSubexpressionEliminator(b) == DataFlow(b, "cse")
Rematerialiser(b) == DataFlow(b, "rematerialise")

----------------------------------------------------------------------------
\* SSAValueTracker: the values of variables that are never assigned to; None for one that is
\* declared without a value or together with others

RECURSIVE TrackValues(_, _)

SetValue(w, x, e) == AssertThrow([w EXCEPT !.values = (x :> e) @@ @], x \notin DOMAIN w.values)

TrackStatement(s, w) ==
  LET own == CASE s.k = "let" -> Walk(LAMBDA v, x : SetValue(v, x, IF Len(s.xs) = 1 THEN s.e ELSE None), w, s.xs)
               [] s.k = "assign" -> [w EXCEPT !.values = Without(@, Names(s))]
               [] OTHER -> w
  IN  Walk(LAMBDA v, b : TrackValues(b, v), own, s.bs)
TrackValues(b, w) == Walk(LAMBDA v, s : TrackStatement(s, v), w, b)

SSAValueTracker(b) == TrackValues(b, [values |-> << >>, thrown |-> FALSE])

----------------------------------------------------------------------------
\* SimplificationRules of libyul: Pattern::matches.  The result is [is, groups]; is "failed" when the
\* value of a variable that has none was asked for or a group of a constant comes twice (the
\* assertions).

Match(is, groups) == [is |-> is, groups |-> groups]

RECURSIVE Matches(_, _, _, _), ToExpression(_, _), FirstMatch(_, _, _), Simplify(_, _)

Matches(p, e0, values, groups) ==
  LET e == IF p.k # "any" /\ e0.k = "id" /\ e0.n \in DOMAIN values THEN values[e0.n] ELSE e0
      constant == p.k \in {"lit", "const"}
      arguments == WalkDomain(LAMBDA m, j : IF m.is = "yes" THEN Matches(p.args[j], e.args[j], values, m.groups) ELSE m,
                                  Match("yes", groups), p.args)
  IN  CASE e.k = "none" -> Match("failed", groups)
        [] e.k # "none" /\ ((constant /\ e.k # "lit") \/ (p.k = "lit" /\ p.n # e.n)) -> Match("no", groups)
        [] e.k # "none" /\ p.k = "op" -> IF e.k = "op" /\ e.f = p.f THEN arguments ELSE Match("no", groups)
        [] p.k = "any" /\ p.f \in DOMAIN groups ->
             Match(IF groups[p.f] = e0 /\ IsMovable(e0) THEN "yes" ELSE "no", groups)
        [] e.k = "lit" /\ p.k = "const" /\ p.f \in DOMAIN groups -> Match("failed", groups)
        [] OTHER -> Match("yes", IF p.k = "lit" THEN groups ELSE (p.f :> (IF p.k = "any" THEN e0 ELSE e)) @@ groups)

\* Pattern::toExpression; what the action computes from constants is a literal
ToExpression(p, groups) ==
  CASE p.k \in {"const", "any"} -> groups[p.f]
    [] p.k = "val" -> Lit(ConstantArithmetic(p.f, [j \in 1..Len(p.args) |-> ToExpression(p.args[j], groups).n]))
    [] OTHER -> [p EXCEPT !.args = [j \in 1..Len(@) |-> ToExpression(@[j], groups)]]

\* findFirstMatch: the number of the rule and the groups
FirstMatch(e, values, k) ==
  IF k > Len(SimplificationRules) THEN [rule |-> 0, is |-> "no", groups |-> << >>]
  ELSE IF SimplificationRules[k].pattern.f # e.f THEN FirstMatch(e, values, k + 1)
  ELSE LET m == Matches(SimplificationRules[k].pattern, e, values, << >>)
       IN  IF m.is = "no" THEN FirstMatch(e, values, k + 1)
           ELSE [rule |-> k, is |-> m.is, groups |-> m.groups]

\* The loop in ExpressionSimplifier::visit on an expression whose arguments are done.
Simplify(e, values) ==
  LET m == IF e.k = "op" THEN FirstMatch(e, values, 1) ELSE [rule |-> 0, is |-> "no", groups |-> << >>]
      rule == SimplificationRules[m.rule]
  IN  IF m.is = "failed" THEN Aborted
      ELSE IF m.is = "no" \/ (rule.removes /\ ~IsMovable(e)) THEN e
      ELSE Simplify(ToExpression(rule.action, m.groups), values)

RECURSIVE SimplifyExpression(_, _), SimplifyBlock(_, _)
SimplifyExpression(e, values) ==
  LET args == [k \in 1..Len(e.args) |-> SimplifyExpression(e.args[k], values)]
  IN  IF Aborted \in ToSet(args) THEN Aborted ELSE Simplify([e EXCEPT !.args = args], values)

\* The tracked values are references into the program and change with it.
SimplifyStatement(s, w) ==
  LET e == IF s.k = "for" THEN s.e ELSE SimplifyExpression(s.e, w.values)
      inner == Walk(LAMBDA v, b : LET r == SimplifyBlock(b, v) IN [r EXCEPT !.out = v.out, !.bs = Append(v.bs, r.out)],
                        [w EXCEPT !.bs = << >>], s.bs)
      last == IF s.k = "for" THEN SimplifyExpression(s.e, inner.values) ELSE e
      values == IF s.k = "let" /\ Len(s.xs) = 1 /\ s.xs[1] \in DOMAIN w.values
                THEN [inner.values EXCEPT ![s.xs[1]] = e] ELSE inner.values
  IN  [Emit(w, <<[s EXCEPT !.e = last, !.bs = inner.bs]>>)
         EXCEPT !.values = values, !.thrown = inner.thrown \/ last = Aborted]

SimplifyBlock(b, w) == Walk(LAMBDA v, s : SimplifyStatement(s, v), [w EXCEPT !.out = << >>, !.bs = << >>], b)
ExpressionSimplifier(b) ==
  LET tracked == SSAValueTracker(b)
  IN  SimplifyBlock(b, [out |-> << >>, bs |-> << >>, thrown |-> tracked.thrown, values |-> tracked.values])

----------------------------------------------------------------------------
\* ExpressionJoiner.  w.out is the part of the block before the current statement, w.at the
\* statement the pointer m_latestStatementInBlock is at (0: none).

RECURSIVE JoinExpression(_, _, _), JoinBlock(_, _)

Joinable(w, x, refs) ==
  /\ w.at > 0
  /\ LET s == w.out[w.at] IN s.k = "let" /\ s.xs = <<x>> /\ HasValue(s) /\ Count(x, refs) = 1

JoinExpression(e, w, refs) ==
  IF e.k = "id" /\ Joinable(w, e.n, refs)
  THEN [e |-> w.out[w.at].e, w |-> [w EXCEPT !.out[w.at] = EmptyBlock, !.at = @ - 1]]
  ELSE LET compound == {k \in 1..Len(e.args) : e.args[k].k \notin {"id", "lit"}}
           first == IF compound = {} THEN 1 ELSE Max(compound)
           step(v, k) == LET r == JoinExpression(e.args[k], v.w, refs) IN [e |-> [v.e EXCEPT !.args[k] = r.e], w |-> r.w]
       IN  Walk(step, [e |-> e, w |-> w], [k \in 1..(Len(e.args) + 1 - first) |-> first + k - 1])

JoinStatement(s, w, refs) ==
  LET r == IF s.k = "for" THEN [e |-> s.e, w |-> w] ELSE JoinExpression(s.e, w, refs)
      new == [s EXCEPT !.e = r.e, !.bs = [k \in 1..Len(s.bs) |-> JoinBlock(s.bs[k], refs)]]
  IN  [out |-> Append(r.w.out, new), at |-> Len(r.w.out) + 1]

JoinBlock(b, refs) ==
  RemoveEmptyBlocks(Walk(LAMBDA w, s : JoinStatement(s, w, refs), [out |-> << >>, at |-> 0], b).out)
ExpressionJoiner(b) == JoinBlock(b, ReferencesIn(b))

----------------------------------------------------------------------------
\* ExpressionInliner.  w.inlinable maps a function to its parameters and its expression.

\* InlinableExpressionFunctionFinder
InlinableExpression(s) ==
  /\ s.k = "fun" /\ Len(Rets(s)) = 1 /\ Len(s.bs[1]) = 1
  /\ s.bs[1][1].k = "assign" /\ s.bs[1][1].xs = Rets(s)
  /\ ~Mentions(s.bs[1][1].e, {Rets(s)[1], FunName(s)})

RECURSIVE InlineInExpression(_, _), InlineInBlock(_, _)
InlineInExpression(e0, inlinable) ==
  LET e == [e0 EXCEPT !.args = [k \in 1..Len(@) |-> InlineInExpression(@[k], inlinable)]]
  IN  IF e.k = "call" /\ e.n \in DOMAIN inlinable /\ \A k \in 1..Len(e.args) : IsMovable(e.args[k])
      THEN LET s == inlinable[e.n] IN Substitute(s.bs[1][1].e, [x \in Names(s) |-> e.args[IndexOf(s.xs, x)]])
      ELSE e
InlineInBlock(b, inlinable) ==
  [k \in 1..Len(b) |-> [b[k] EXCEPT !.e = InlineInExpression(@, inlinable),
                                    !.bs = [j \in 1..Len(@) |-> InlineInBlock(@[j], inlinable)]]]

\* Functions are at the top level.  A function that was visited is inlined as it is then.
ExpressionInliner(b) ==
  LET finder == [f \in {FunName(s) : s \in {t \in ToSet(b) : InlinableExpression(t)}} |->
                   CHOOSE s \in ToSet(b) : s.k = "fun" /\ FunName(s) = f]
      step(w, s) == LET new == InlineInBlock(<<s>>, w.inlinable)[1]
                    IN  [out |-> Append(w.out, new),
                         inlinable |-> IF s.k = "fun" /\ FunName(s) \in DOMAIN w.inlinable
                                       THEN [w.inlinable EXCEPT ![FunName(s)] = new] ELSE w.inlinable]
  IN  Walk(step, [out |-> << >>, inlinable |-> finder], b).out

----------------------------------------------------------------------------
\* FullInliner.  w.funs maps a function to its definition as it is now, w.size to the size it
\* had when it was last determined.

RECURSIVE CopyBody(_, _), InlineBlock(_, _, _)

\* BodyCopier: w.to maps the variables of the function to their copies
CopyStatement(s, w) ==
  LET fresh == IF s.k = "let"
               THEN Walk(LAMBDA v, x : [v EXCEPT !.to = (x :> Id(v.n)) @@ @, !.n = @ + 1], w, s.xs) ELSE w
      inner == Walk(LAMBDA v, b : LET r == CopyBody(b, v) IN [r EXCEPT !.out = v.out, !.bs = Append(v.bs, r.out)],
                        [fresh EXCEPT !.bs = << >>], s.bs)
      name(x) == IF x \in DOMAIN inner.to THEN inner.to[x].n ELSE x
      new == [s EXCEPT !.xs = [k \in 1..Len(@) |-> name(@[k])], !.e = Substitute(@, inner.to), !.bs = inner.bs]
  IN  AssertThrow(Emit([inner EXCEPT !.bs = w.bs], <<new>>), s.k # "fun")
CopyBody(b, w) == Walk(LAMBDA v, s : CopyStatement(s, v), [w EXCEPT !.out = << >>], b)

\* InlineModifier::performInline
PerformInline(s, w) ==
  LET f == w.funs[s.e.n]
      vars == f.xs \o Rets(f)
      copies == [k \in 1..Len(vars) |-> w.n + k - 1]
      to == [x \in ToSet(vars) |-> Id(copies[IndexOf(vars, x)])]
      declarations == [k \in 1..Len(vars) |->
                         VariableDeclaration(<<copies[k]>>, IF k <= Len(f.xs) THEN s.e.args[k] ELSE None)]
      body == CopyBody(f.bs[1], [out |-> << >>, bs |-> << >>, n |-> w.n + Len(vars), to |-> to, thrown |-> w.thrown])
      results == [k \in 1..Len(s.xs) |-> [s EXCEPT !.xs = <<s.xs[k]>>, !.e = to[Rets(f)[k]]]]
  IN  [Emit(w, declarations \o body.out \o results) EXCEPT !.n = body.n, !.thrown = body.thrown]

\* FullInliner::shallInline
ShallInline(call, site, w) ==
  /\ call.n # site
  /\ \/ call.n \in w.always
     \/ w.size[call.n] < InlineSize
     \/ /\ w.size[call.n] < InlineSizeConstArg
        /\ \E k \in 1..Len(call.args) : \/ call.args[k].k = "lit"
                                        \/ /\ call.args[k].k = "id"
                                           /\ call.args[k].n \in w.constants

InlineStatement(s, w, site) ==
  LET inner == Walk(LAMBDA v, b : LET r == InlineBlock(b, v, site) IN [r EXCEPT !.out = v.out, !.bs = Append(v.bs, r.out)],
                        [w EXCEPT !.bs = << >>], s.bs)
      new == WithBodies(s, inner.bs)
      v == [inner EXCEPT !.bs = w.bs]
  IN  IF s.k \in {"expr", "assign", "let"} /\ s.e.k = "call" /\ ShallInline(s.e, site, v)
      THEN PerformInline(new, v) ELSE Emit(v, <<new>>)
InlineBlock(b, w, site) == Walk(LAMBDA v, s : InlineStatement(s, v, site), [w EXCEPT !.out = << >>], b)

NoSite == -1

FullInliner(b, n) ==
  LET names == {FunName(s) : s \in Functions(b)}
      refs == ReferencesIn(b)
      tracked == SSAValueTracker(b)
      start == [out |-> << >>, bs |-> << >>, n |-> n, thrown |-> tracked.thrown,
                funs |-> [f \in names |-> CHOOSE s \in Functions(b) : FunName(s) = f],
                size |-> [f \in names |-> CodeSize((CHOOSE s \in Functions(b) : FunName(s) = f).bs[1])],
                always |-> {f \in names : Count(f, refs) = 1},
                constants |-> {x \in DOMAIN tracked.values : tracked.values[x].k = "lit"}]
      main == Walk(LAMBDA w, s : LET r == InlineBlock(s.bs[1], w, NoSite)
                                     IN  [r EXCEPT !.out = Append(w.out, Block(r.out))],
                       start, SelectSeq(b, LAMBDA s : s.k = "block"))
      handle(w, f) == LET r == InlineBlock(w.funs[f].bs[1], w, f)
                      IN  [r EXCEPT !.out = w.out, !.funs[f].bs[1] = r.out, !.size[f] = CodeSize(r.out)]
      ordered == [k \in 1..Cardinality(names) |-> CHOOSE f \in names : Cardinality({g \in names : g < f}) = k - 1]
      done == Walk(handle, main, ordered)
      functions == SelectSeq(b, LAMBDA s : s.k = "fun")
  IN  [out |-> main.out \o [k \in 1..Len(functions) |-> done.funs[FunName(functions[k])]],
       n |-> done.n, thrown |-> done.thrown]

----------------------------------------------------------------------------
\* OptimiserSuite::run

CONSTANTS YulPrograms,   \* the programs given to the optimiser
          Inputs,        \* the input words they are run with
          Rounds         \* turns of the loop in run(), 4 in the code

ASSUME RoundsAssumption == Rounds \in Nat

Preparation == <<"Disambiguator", "FunctionHoister", "FunctionGrouper", "ForLoopInitRewriter">>

SSARound == <<"SSATransform", "RedundantAssignEliminator", "RedundantAssignEliminator">>
SSAPropagateRound == <<"SSATransform", "RedundantAssignEliminator", "VarDeclPropagator", "RedundantAssignEliminator">>

Round ==
  <<"ExpressionSplitter">> \o SSAPropagateRound
  \o <<"CommonSubexpressionEliminator", "ExpressionSimplifier">> \o SSARound
  \o <<"UnusedPruner", "CommonSubexpressionEliminator", "UnusedPruner">> \o SSARound
  \o <<"ExpressionJoiner", "ExpressionJoiner", "ExpressionInliner", "UnusedPruner", "ExpressionSplitter">> \o SSARound
  \o <<"CommonSubexpressionEliminator", "FullInliner", "VarDeclPropagator">> \o SSAPropagateRound
  \o <<"ExpressionSimplifier", "CommonSubexpressionEliminator">> \o SSAPropagateRound \o <<"UnusedPruner">>

Cleanup ==
  <<"ExpressionJoiner", "VarDeclPropagator", "UnusedPruner", "ExpressionJoiner", "UnusedPruner",
    "ExpressionJoiner", "VarDeclPropagator", "UnusedPruner", "ExpressionJoiner", "UnusedPruner">>

Suite == Preparation \o Concat([k \in 1..Rounds |-> Round]) \o Cleanup

VARIABLES program,   \* the program as given
          ast,       \* the program as it is now
          names,     \* NameDispenser: this name and the ones above are free
          position,  \* steps of the suite done
          thrown,    \* an assertion failed
          code,      \* the result of CodeTransform, NoCode before
          tried      \* a rule of the simplifier that is looked at, 0 for a behaviour of the suite

vars == <<program, ast, names, position, thrown, code, tried>>

NoCode == [failed |-> "", items |-> << >>]

\* The result of a step; of a step that asserts nothing
Result(r, n) == [out |-> r.out, n |-> n, thrown |-> r.thrown]
Plain(block, n) == [out |-> block, n |-> n, thrown |-> FALSE]

ApplyStep(step, block, n) ==
  CASE step = "Disambiguator" -> Plain(Disambiguator(block), n)
    [] step = "FunctionHoister" -> Plain(FunctionHoister(block), n)
    [] step = "FunctionGrouper" -> Plain(FunctionGrouper(block), n)
    [] step = "ForLoopInitRewriter" -> Plain(ForLoopInitRewriter(block), n)
    [] step = "ExpressionSplitter" -> LET r == ExpressionSplitter(block, n) IN Plain(r.out, r.n)
    [] step = "SSATransform" -> SSATransform(block, n)
    [] step = "RedundantAssignEliminator" -> Result(RedundantAssignEliminator(block), n)
    [] step = "VarDeclPropagator" -> Plain(VarDeclPropagator(block), n)
    [] step = "CommonSubexpressionEliminator" -> Result(CommonSubexpressionEliminator(block), n)
    [] step = "ExpressionSimplifier" -> Result(ExpressionSimplifier(block), n)
    [] step = "UnusedPruner" -> Result(UnusedPruner(block), n)
    [] step = "ExpressionJoiner" -> Plain(ExpressionJoiner(block), n)
    [] step = "ExpressionInliner" -> Plain(ExpressionInliner(block), n)
    [] step = "FullInliner" -> FullInliner(block, n)

SuiteInit ==
  /\ program \in {given \in YulPrograms : Analyze(given)} /\ ast = program
  /\ names = 0 /\ position = 0 /\ thrown = FALSE /\ code = NoCode

\* The exception of a failed assertion leaves the program of the caller as it was.
Becomes(r) ==
  /\ thrown' = r.thrown
  /\ ast' = IF r.thrown THEN ast ELSE r.out

\* The NameDispenser of the suite is made after the first four steps.
\* (The steps are parameters of the actions: TLC explores a definition before it evaluates
\* it, but not its parameters.)
StepBy(apply(_, _, _)) ==
  /\ position < Len(Suite) /\ ~thrown /\ code = NoCode
  /\ LET r == apply(Suite[position + 1], ast, names)
     IN  /\ Becomes(r)
         /\ names' = IF position + 1 = Len(Preparation) THEN Max(AllNames(r.out) \cup {0}) + 1 ELSE r.n
  /\ position' = position + 1
  /\ UNCHANGED <<program, code, tried>>

SuiteStep == StepBy(ApplyStep)

\* Steps that are used on their own, after the Disambiguator (YulOptimizerTest.cpp), and tried
\* once the suite is done.
ExtraBy(rematerialise(_), flatten(_)) ==
  /\ position \in {1, Len(Suite)} /\ ~thrown /\ code = NoCode
  /\ \E r \in {Result(rematerialise(ast), names), Plain(flatten(ast), names)} : Becomes(r)
  /\ position' = Len(Suite) + 1
  /\ UNCHANGED <<program, names, code, tried>>

SuiteExtra == ExtraBy(Rematerialiser, BlockFlattener)

\* AssemblyStack::assemble, with and without optimize() before.  Both follow an analysis that
\* succeeded.
AssembleBy(transform(_)) ==
  /\ position \in {0, Len(Suite)} /\ ~thrown /\ code = NoCode
  /\ Analyze(ast)
  /\ LET t == transform(ast) IN code' = [failed |-> t.failed, items |-> t.items]
  /\ UNCHANGED <<program, ast, names, position, thrown, tried>>

SuiteAssemble == AssembleBy(CodeTransform)

\* The rules of the simplifier, one per behaviour, next to the programs
Init ==
  \/ SuiteInit /\ tried = 0
  \/ /\ tried \in 1..Len(SimplificationRules)
     /\ program = << >> /\ ast = << >> /\ names = 0 /\ position = Len(Suite) + 1 /\ thrown = FALSE /\ code = NoCode

Next == SuiteStep \/ SuiteExtra \/ SuiteAssemble

----------------------------------------------------------------------------
\* Properties

\* What AssemblyStack::optimize asserts ("Invalid source code after optimization."), after every
\* step of the suite: names stay unique and declared before use, arities fit.
OptimisedIsValid == Analyze(ast)

\* No assertion fails that a step of the optimiser makes about the program earlier steps left, or
\* about what it keeps while it walks: the variables whose values are known or that a value refers
\* to are in scope (CommonSubexpressionEliminator.cpp:48-63, Rematerialiser.cpp:41), no reference
\* is subtracted that was not counted (UnusedPruner.cpp:123), every variable is declared once
\* (SSAValueTracker.cpp:47), no assignment is undecided at the end (RedundantAssignEliminator.cpp
\* :213), assigned variables are known as such (SSATransform.cpp:105), functions are hoisted
\* (FullInliner.cpp:212), a value is there to match (SimplificationRules.cpp:119).  Nor does one of
\* the code transform: the stack height the analysis recorded for every element is the one the
\* code transform has there, and the frame of a function can be reshuffled.
NoAssertionFails == ~thrown /\ code.failed # "assertion"

\* After every step of the suite the program makes the stores the given program makes, in their
\* order, and ends as it does.
BehaviourKept ==
  Analyze(ast) => \A input \in Inputs : LET o == Outcome(program, input) IN o.status = "fuel" \/ Outcome(ast, input) = o

\* The assembly, of the program as given or as optimised, does what the given program does and
\* leaves an empty stack.
CodeBehaves ==
  code # NoCode /\ code.failed = "" =>
    \A input \in Inputs :
      LET o == Outcome(program, input)
          c == OutcomeOfItems(code.items, input, Fuel)
      IN  o.status = "fuel" \/ (c.status = o.status /\ c.stores = o.stores /\ c.left = << >>)

\* A rule of RuleList.h computes the value of its pattern for all words, and keeps the order in
\* which the parts are evaluated unless it says it removes one (RuleList.h:43, Rules.cpp).
RulesSound == tried # 0 => RuleIsSound(tried)

=============================================================================
