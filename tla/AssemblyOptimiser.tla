------------------------- MODULE AssemblyOptimiser -------------------------
(***************************************************************************)
(* Assembly::optimiseInternal (libevmasm/Assembly.cpp) with the passes it  *)
(* repeats until none finds anything: JumpdestRemover, PeepholeOptimiser,  *)
(* BlockDeduplicator and the CommonSubexpressionEliminator.  The assembly  *)
(* is a sub-assembly: its parent pushes some of its tags (the runtime tags *)
(* of function pointers in creation code), and renames them afterwards by  *)
(* the replacements optimiseInternal returned.  No outside tags gives the  *)
(* case of an assembly without a parent.  (The constant optimiser, which   *)
(* runs once at the end, is in ConstantOptimiser.)                         *)
(***************************************************************************)
EXTENDS Peephole, CommonSubexpressionEliminator

CONSTANTS Tasks,        \* [code, outside, enabled]: what is optimised and how
          MaxCount,     \* so many changes in a round are taken for a loop: 64000
          Stacks        \* the stacks executions start with

ASSUME OptimiserAssumption == MaxCount \in Nat \ {0}

VARIABLES original,     \* history: m_items as they were given
          outside,      \* _tagsReferencedFromOutside
          enabled,      \* runDeduplicate and runCSE: the optimiser is on
          items,        \* m_items
          pass,         \* what runs next
          count,        \* how many changes the passes of this round made
          replacedTags, \* BlockDeduplicator::m_replacedTags
          iterated,     \* deduplicate()'s iterations > 0
          tagReplacements,
          entry         \* the tag the parent pushes in place of each outside tag

vars == <<original, outside, enabled, items, pass, count, replacedTags, iterated,
          tagReplacements, entry>>

NoReplacement == [t \in {} |-> 0]

Init ==
  /\ \E task \in Tasks : original = task.code /\ outside = task.outside /\ enabled = task.enabled
  /\ items = original
  /\ pass = "jumpdest" /\ count = 0
  /\ replacedTags = NoReplacement /\ iterated = FALSE
  /\ tagReplacements = NoReplacement
  /\ entry = [t \in outside |-> t]

-----------------------------------------------------------------------------
\* JumpdestRemover keeps a tag that is referenced here or from outside.
KeepsItem(item) ==
  item.type = "Tag" => item.data \in ReferencedTags(items, Local) \cup outside

RemoveJumpdests ==
  /\ pass = "jumpdest"
  /\ items' = SelectSeq(items, KeepsItem)
  /\ count' = IF items' # items THEN 1 ELSE 0
  /\ pass' = "peephole"
  /\ UNCHANGED <<original, outside, enabled, replacedTags, iterated, tagReplacements, entry>>

PeepholeImproves ==
  /\ pass = "peephole"
  /\ \E new \in {OptimisedItems(items)} : Improves(new, items) /\ items' = new
  /\ count' = count + 1
  /\ pass' = IF count' < MaxCount THEN pass ELSE "thrown"
  /\ UNCHANGED <<original, outside, enabled, replacedTags, iterated, tagReplacements, entry>>

PeepholeEnds ==
  /\ pass = "peephole"
  /\ \E new \in {OptimisedItems(items)} : ~Improves(new, items)
  /\ pass' = IF enabled THEN "dedup" ELSE "round"
  /\ replacedTags' = NoReplacement /\ iterated' = FALSE
  /\ UNCHANGED <<original, outside, enabled, items, count, tagReplacements, entry>>

-----------------------------------------------------------------------------
(* BlockDeduplicator *)

TagIndices == {i \in 1..Len(items) : items[i].type = "Tag"}

IsNoTag(item) == item.type # "Tag"

Self == -4

\* Mutant: a block is compared up to the next tag only.
BlockUpToTag(i) ==
  LET ends == {e \in (i + 1)..Len(items) : items[e].type = "Tag"}
      last == IF ends = {} THEN Len(items) ELSE (CHOOSE e \in ends : \A f \in ends : e <= f) - 1
  IN  SubSeq(items, i + 1, last)

\* What the BlockIterator of the tag at i runs through: up to the first item that
\* leaves the block, tags ignored, the block's own tag replaced.
Block(i) ==
  LET ends == {e \in (i + 1)..Len(items) : AltersControlFlow(items[e]) /\ items[e] # Op("JUMPI")}
      last == IF ends = {} THEN Len(items) ELSE CHOOSE e \in ends : \A f \in ends : e <= f
      own == PushTag(Local, items[i].data)
      code == SelectSeq(SubSeq(items, i + 1, last), IsNoTag)
  IN  [k \in 1..Len(code) |-> IF code[k] = own THEN PushTag(Local, Self) ELSE code[k]]

\* One more iteration's m_replacedTags: each tag is replaced by the first tag with the
\* same block, unless it is that tag.
NowReplaced ==
  CHOOSE replaced \in
    {LET first(i) == CHOOSE j \in TagIndices :
                       blocks[j] = blocks[i] /\ \A l \in TagIndices : blocks[l] = blocks[i] => j <= l
         index(t) == CHOOSE i \in TagIndices : items[i].data = t
         new == {items[i].data : i \in {j \in TagIndices : first(j) # j}}
     IN  [t \in DOMAIN replacedTags \cup new |->
            IF t \in new THEN items[first(index(t))].data ELSE replacedTags[t]]
     : blocks \in {[i \in TagIndices |-> Block(i)]}} : TRUE

\* applyTagReplacement
ApplyTagReplacement(replacements, sub) ==
  [k \in 1..Len(items) |->
     IF /\ items[k].type = "PushTag" /\ items[k].sub = sub
        /\ items[k].data \in DOMAIN replacements
     THEN PushTag(sub, replacements[items[k].data]) ELSE items[k]]

\* applyTagReplacement returns true: some reference was replaced.
ReplacesReference(replacements) ==
  ReferencedTags(items, Local) \cap DOMAIN replacements # {}

DeduplicateIteration ==
  /\ pass = "dedup"
  /\ \E replacements \in {NowReplaced} :
       /\ ReplacesReference(replacements)
       /\ replacedTags' = replacements
       /\ items' = ApplyTagReplacement(replacements, Local)
  /\ iterated' = TRUE
  /\ UNCHANGED <<original, outside, enabled, pass, count, tagReplacements, entry>>

\* map::insert: a replacement that is there already stays as it is.
Insert(old, new) ==
  [t \in DOMAIN old \cup DOMAIN new |-> IF t \in DOMAIN old THEN old[t] ELSE new[t]]

DeduplicateEnds ==
  /\ pass = "dedup"
  /\ \E replacements \in {NowReplaced} :
       /\ ~ReplacesReference(replacements)
       /\ replacedTags' = replacements
       /\ tagReplacements' =
            IF iterated THEN Insert(tagReplacements, replacements) ELSE tagReplacements
  /\ count' = IF iterated THEN count + 1 ELSE count
  /\ pass' = "cse"
  /\ UNCHANGED <<original, outside, enabled, items, iterated, entry>>

-----------------------------------------------------------------------------
(* The common subexpression eliminator and the end of a round. *)

\* Each chunk is replaced by what the eliminator makes of it if that is shorter and it did
\* not give up (StackTooDeepException, ItemNotAvailableException).
\* (The eliminator is a parameter: TLC explores a definition before it evaluates it, but
\* not its parameters.)
Eliminate(optimized(_, _)) ==
  LET usesMSize == \E k \in 1..Len(items) : items[k] = Op("MSIZE")
      chunks == Chunks(items, usesMSize)
      result(n) == optimized(chunks[n], usesMSize)
      replaces(n, made) == made[n].thrown = "" /\ Len(made[n].items) < Len(chunks[n])
      joined(made) == Concat([n \in 1..Len(chunks) |-> IF replaces(n, made) THEN made[n].items ELSE chunks[n]])
  IN  /\ pass = "cse"
      /\ \E made \in {[n \in 1..Len(chunks) |-> result(n)]} :
           /\ pass' = IF \E n \in 1..Len(chunks) : made[n].thrown = OptimizerException THEN "thrown" ELSE "round"
           /\ items' = joined(made)
           /\ count' = LET n == Cardinality({k \in 1..Len(chunks) : replaces(k, made)})
                       IN  IF n > 0 THEN count + n + 1 ELSE count
      /\ UNCHANGED <<original, outside, enabled, replacedTags, iterated, tagReplacements, entry>>

EliminateCommonSubexpressions == Eliminate(OptimizedChunk)

NextRound ==
  /\ pass = "round" /\ count > 0
  /\ pass' = "jumpdest"
  /\ UNCHANGED <<original, outside, enabled, items, count, replacedTags, iterated,
                 tagReplacements, entry>>

\* Nothing changed: the replacements are returned and the parent applies them.
Return ==
  /\ pass = "round" /\ count = 0
  /\ pass' = "returned"
  /\ entry' = [t \in outside |->
                 IF t \in DOMAIN tagReplacements THEN tagReplacements[t] ELSE t]
  /\ UNCHANGED <<original, outside, enabled, items, count, replacedTags, iterated,
                 tagReplacements>>

Next ==
  \/ RemoveJumpdests \/ PeepholeImproves \/ PeepholeEnds
  \/ DeduplicateIteration \/ DeduplicateEnds
  \/ EliminateCommonSubexpressions \/ NextRound \/ Return

\* WF_vars(Next), the optimiser runs on: a step is enabled until it has returned or thrown.
Fairness == []<>(pass \in {"returned", "thrown"}) \/ []<><<TRUE>>_vars

Spec == Init /\ [][Next]_vars /\ Fairness

-----------------------------------------------------------------------------
PositionOf(seq, tag) == CHOOSE k \in 1..Len(seq) : seq[k] = Tag(tag)

SameFrom(i, j) == (items = original /\ i = j) \/ \A s \in Stacks : Implements(items, i, original, j, s)

\* The code does what it did, from its start and from each tag the parent knows.
CodePreserved ==
  /\ SameFrom(1, 1)
  /\ \A t \in outside : t \in TagsIn(items) /\ SameFrom(PositionOf(items, t), PositionOf(original, t))

\* A tag that the parent pushes in place of another leads to the same code, if it is there.
ReplacementsSound ==
  pass = "returned" => \A t \in outside : entry[t] \in TagsIn(items) =>
    SameFrom(PositionOf(items, entry[t]), PositionOf(original, t))

\* The passes do not undo each other for ever ("Peephole optimizer seems to be stuck." is
\* never reached), and none ends with an OptimizerException.
Terminates == <>(pass = "returned")

=============================================================================
