--------------------------- MODULE AssembleProofs ---------------------------
(***************************************************************************)
(* What assemble() promises of its layout, for every assembly.  The first  *)
(* part is about widths: the estimate is kept as its sequence of sums      *)
(* (running), so that the code written up to an item can be compared with  *)
(* what was counted up to it.  The second part is about the gaps: where    *)
(* they are, when each is filled, and that what is appended later has the  *)
(* room that was counted for it, so that no place is cut when written.     *)
(* The third part is about the end: every step leaves fewer to do.         *)
(***************************************************************************)
EXTENDS Assemble, WellFoundedInduction, FiniteSetTheorems, TLAPS

\* The bytes counted in front of item j, and one more.
CountedBefore(j) == running[Len(asm.data) + j]

Types ==
  /\ asm \in Assemblies
  /\ running \in Seq(Nat) /\ Len(running) >= 1
  /\ tagSize \in Nat /\ size \in Nat /\ k \in Nat \ {0}
  /\ bytesPerTag \in Nat /\ bytesPerDataRef \in Nat

\* No position of a tag in a subassembly exceeds the width tried.
SubTagsBelow == \A p \in SubTagPositions : p <= tagSize

\* running holds the sums up to each part; they never decrease.
SumsCounted ==
  /\ Len(running) <= Parts + 1
  /\ \A j \in 1..Len(running) : running[j] >= 1 /\ running[j] <= ret
  /\ \A j \in 1..Len(running) : j + 1 <= Len(running) => running[j + 1] = running[j] + Needed(j)

\* Once the widths are chosen the sums are complete and the widths follow from them.
WidthsChosen ==
  phase # "estimate" =>
    /\ Len(running) = Parts + 1
    /\ bytesPerTag = Width(ret) /\ bytesPerTag <= tagSize
    /\ bytesPerDataRef <= 4

\* The items written are no longer than what was counted for them.
WrittenWithinCount ==
  phase = "items" =>
    /\ k \in 1..(Len(asm.items) + 1)
    /\ Undercounted \/ size + 1 <= CountedBefore(k)

NothingYet == phase = "estimate" => refs = {} /\ tagPositions = [t \in {} |-> 0] /\ size = 0

\* References to tags are counted with the width tried, tags have positions below the count.
TagsWithinCount ==
  /\ \A r \in refs : r.sub \in Nat /\ (r.type = "PushTag" => tagSize <= ret)
  /\ Undercounted \/ \A t \in DOMAIN tagPositions : tagPositions[t] \in Nat /\ tagPositions[t] <= ret

LayoutInv ==
  /\ Types /\ SubTagsBelow /\ SumsCounted /\ WidthsChosen /\ WrittenWithinCount
  /\ NothingYet /\ TagsWithinCount /\ TagsFit

-----------------------------------------------------------------------------
\* dev::bytesRequired is monotone.
LEMMA WidthMonotone ==
  ASSUME NEW m \in Nat, NEW n \in Nat, m <= n
  PROVE  Width(m) <= Width(n) /\ Width(m) \in Nat /\ Width(n) \in Nat
  BY DEF Width

LEMMA ItemOfAssembly ==
  ASSUME asm \in Assemblies, NEW j \in 1..Len(asm.items)
  PROVE  /\ asm.items[j] \in Item
         /\ asm.items[j].type = "PushSubSize" => asm.subs[asm.items[j].n].size \in Nat
  <1>1. asm.items \in Seq(Item)
    BY AssembliesAssumption
  <1>2. asm.items[j].type = "PushSubSize" => asm.items[j].n \in 1..Len(asm.subs)
    BY AssembliesAssumption
  <1>3. \A i \in 1..Len(asm.subs) : asm.subs[i].size \in Nat
    BY AssembliesAssumption DEF IsSub
  <1> QED
    BY <1>1, <1>2, <1>3

\* What AssemblyItem::bytesRequired counts is a number.
LEMMA CountIsNat ==
  ASSUME NEW i \in Item, NEW w \in Nat
  PROVE  BytesRequired(i, w) \in Nat
  <1>1. i.n \in Nat /\ AtLeastOne(i.n) \in Nat
    BY DEF Item, AtLeastOne
  <1> QED
    BY <1>1 DEF Item, BytesRequired

LEMMA PartsIsNat ==
  ASSUME asm \in Assemblies
  PROVE  Parts \in Nat
  <1>1. asm.data \in Seq(Nat) /\ asm.items \in Seq(Item)
    BY AssembliesAssumption
  <1>2. Len(asm.data) \in Nat /\ Len(asm.items) \in Nat
    BY <1>1
  <1> DEFINE d == Len(asm.data)
             n == Len(asm.items)
  <1>3. d \in Nat /\ n \in Nat
    BY <1>2
  <1> HIDE DEF d, n
  <1>4. d + n \in Nat
    BY <1>3
  <1> QED
    BY <1>4 DEF Parts, d, n

LEMMA NeededIsNat ==
  ASSUME asm \in Assemblies, tagSize \in Nat, NEW j \in 1..Parts
  PROVE  Needed(j) \in Nat
  <1>1. asm.data \in Seq(Nat) /\ asm.items \in Seq(Item)
    BY AssembliesAssumption
  <1>2. CASE j <= Len(asm.data)
    BY <1>1, <1>2 DEF Needed, Parts
  <1>3. CASE j > Len(asm.data)
    <2>0. Len(asm.data) \in Nat /\ Len(asm.items) \in Nat
      BY <1>1
    <2>1. j - Len(asm.data) \in 1..Len(asm.items)
      <3> DEFINE d == Len(asm.data)
                 n == Len(asm.items)
      <3>1. j \in 1..(d + n) /\ j > d /\ d \in Nat /\ n \in Nat
        BY <2>0, <1>3 DEF Parts
      <3> HIDE DEF d, n
      <3>2. j - d \in 1..n
        BY <3>1
      <3> QED
        BY <3>2 DEF d, n
    <2>2. asm.items[j - Len(asm.data)] \in Item
      BY <1>1, <2>1
    <2>3. BytesRequired(asm.items[j - Len(asm.data)], tagSize) \in Nat
      BY <2>2, CountIsNat
    <2> QED
      BY <1>1, <1>3, <2>3 DEF Needed
  <1> QED
    BY <1>1, <1>2, <1>3 DEF Parts

\* assemble() writes no more bytes for an item than were counted for it.
LEMMA WrittenAtMostCounted ==
  ASSUME asm \in Assemblies, NEW j \in 1..Len(asm.items), tagSize \in Nat,
         bytesPerTag \in Nat, bytesPerDataRef \in Nat,
         bytesPerTag <= tagSize, bytesPerDataRef <= 4,
         asm.items[j].type \in {"PushData", "PushSub"} => bytesPerDataRef <= tagSize
  PROVE  /\ Written(asm.items[j]) \in Nat
         /\ Written(asm.items[j]) <= BytesRequired(asm.items[j], tagSize)
  <1> DEFINE i == asm.items[j]
  <1>1. i \in Item /\ (i.type = "PushSubSize" => asm.subs[i.n].size \in Nat)
    BY ItemOfAssembly
  <1>2. i.n \in Nat /\ AtLeastOne(i.n) \in Nat
    BY <1>1 DEF Item, AtLeastOne
  <1>3. i.type = "PushSubSize" =>
          /\ AtLeastOne(Width(asm.subs[i.n].size)) \in Nat
          /\ AtLeastOne(Width(asm.subs[i.n].size)) <= 4
    BY <1>1 DEF AtLeastOne, Width
  <1>4. CASE i.type = "PushSubSize"
    BY <1>3, <1>4 DEF Written, BytesRequired
  <1>5. CASE i.type \in {"PushData", "PushSub"}
    BY <1>5 DEF Written, BytesRequired
  <1>6. CASE i.type = "PushTag"
    BY <1>6 DEF Written, BytesRequired
  <1>7. CASE i.type = "PushProgramSize"
    BY <1>7 DEF Written, BytesRequired
  <1>8. CASE i.type = "Operation"
    BY <1>2, <1>8 DEF Written, BytesRequired
  <1>9. CASE i.type = "Push"
    BY <1>2, <1>9 DEF Written, BytesRequired
  <1>10. CASE i.type \in {"PushString", "Tag"}
    BY <1>10 DEF Written, BytesRequired
  <1>11. CASE i.type \in {"PushLibraryAddress", "PushDeployTimeAddress"}
    BY <1>11 DEF Written, BytesRequired
  <1> QED
    BY <1>1, <1>4, <1>5, <1>6, <1>7, <1>8, <1>9, <1>10, <1>11 DEF Item

LEMMA WrittenIsNat ==
  ASSUME asm \in Assemblies, NEW j \in 1..Len(asm.items),
         bytesPerTag \in Nat, bytesPerDataRef \in Nat
  PROVE  Written(asm.items[j]) \in Nat
  <1> DEFINE i == asm.items[j]
  <1>1. i \in Item /\ (i.type = "PushSubSize" => asm.subs[i.n].size \in Nat)
    BY ItemOfAssembly
  <1>2. i.n \in Nat /\ AtLeastOne(i.n) \in Nat
    BY <1>1 DEF Item, AtLeastOne
  <1>3. CASE i.type = "PushSubSize"
    <2>1. AtLeastOne(Width(asm.subs[i.n].size)) \in Nat
      BY <1>1, <1>3 DEF AtLeastOne, Width
    <2> QED
      BY <2>1, <1>3 DEF Written
  <1>4. CASE i.type \in {"PushData", "PushSub", "PushProgramSize", "PushTag"}
    BY <1>4 DEF Written
  <1>5. CASE i.type \in {"Operation", "Push"}
    BY <1>2, <1>5 DEF Written
  <1>6. CASE i.type \in {"PushString", "Tag", "PushLibraryAddress", "PushDeployTimeAddress"}
    BY <1>6 DEF Written
  <1> QED
    BY <1>1, <1>3, <1>4, <1>5, <1>6 DEF Item

-----------------------------------------------------------------------------
\* The sum behind an item is the sum in front of it and what was counted for it.
LEMMA SumOfItem ==
  ASSUME LayoutInv, phase = "items", k <= Len(asm.items)
  PROVE  /\ CountedBefore(k) \in Nat /\ CountedBefore(k) >= 1 /\ CountedBefore(k) <= ret
         /\ CountedBefore(k + 1) = CountedBefore(k) + BytesRequired(asm.items[k], tagSize)
         /\ CountedBefore(k + 1) <= ret /\ ret \in Nat
         /\ BytesRequired(asm.items[k], tagSize) \in Nat
  <1> DEFINE d == Len(asm.data)
             n == Len(asm.items)
  <1>1. asm \in Assemblies /\ asm.data \in Seq(Nat) /\ asm.items \in Seq(Item)
    BY AssembliesAssumption DEF LayoutInv, Types
  <1>2. d \in Nat /\ n \in Nat /\ k \in 1..n
    BY <1>1 DEF LayoutInv, WrittenWithinCount
  <1>3. Len(running) = d + n + 1 /\ running \in Seq(Nat)
    BY DEF LayoutInv, WidthsChosen, Parts, Types
  <1> HIDE DEF d, n
  <1>4. d + k \in 1..Len(running) /\ (d + k) + 1 \in 1..Len(running) /\ (d + k) + 1 <= Len(running)
    BY <1>2, <1>3
  <1>5. running[(d + k) + 1] = running[d + k] + Needed(d + k)
    BY <1>4 DEF LayoutInv, SumsCounted
  <1>6. Needed(d + k) = BytesRequired(asm.items[k], tagSize)
    <2>1. ~(d + k <= d) /\ (d + k) - d = k
      BY <1>2
    <2> QED
      BY <2>1 DEF Needed, d
  <1>7. running[d + k] >= 1 /\ running[d + k] <= ret /\ running[(d + k) + 1] <= ret
    BY <1>4 DEF LayoutInv, SumsCounted
  <1>8. running[d + k] \in Nat /\ ret \in Nat
    BY <1>3, <1>4, <1>2 DEF ret
  <1>9. BytesRequired(asm.items[k], tagSize) \in Nat
    <2>1. asm.items[k] \in Item
      BY <1>1, <1>2, ItemOfAssembly DEF n
    <2> QED
      BY <2>1, CountIsNat DEF LayoutInv, Types
  <1>10. d + (k + 1) = (d + k) + 1
    BY <1>2
  <1> QED
    BY <1>5, <1>6, <1>7, <1>8, <1>9, <1>10 DEF CountedBefore, d

\* What the loop over the items left behind is not changed later.
LEMMA LaterSteps ==
  ASSUME LayoutInv, asm' = asm, UNCHANGED <<sizing, tagPositions, refs>>,
         k' \in Nat \ {0}, size' \in Nat,
         phase # "estimate", phase' \notin {"estimate", "items"},
         phase' = "tagTooLarge" => Undercounted
  PROVE  LayoutInv'
  <1>1. Types'
    BY DEF LayoutInv, Types, sizing
  <1>2. SubTagsBelow'
    <2>1. tagSize' = tagSize
      BY DEF sizing
    <2>2. SubTagPositions' = SubTagPositions
      BY DEF SubTagPositions
    <2> QED
      BY <2>1, <2>2 DEF LayoutInv, SubTagsBelow
  <1>3. SumsCounted'
    BY DEF LayoutInv, SumsCounted, Parts, ret, Needed, sizing
  <1>4. WidthsChosen'
    BY DEF LayoutInv, WidthsChosen, Parts, ret, sizing
  <1>5. WrittenWithinCount' /\ NothingYet'
    BY DEF WrittenWithinCount, NothingYet
  <1>6. TagsWithinCount'
    BY DEF LayoutInv, TagsWithinCount, ret, Undercounted, sizing
  <1>7. TagsFit'
    BY DEF TagsFit, Undercounted, sizing
  <1> QED
    BY <1>1, <1>2, <1>3, <1>4, <1>5, <1>6, <1>7 DEF LayoutInv

LEMMA CountPartInv ==
  ASSUME LayoutInv, CountPart
  PROVE  LayoutInv'
  <1> USE DEF CountPart
  <1>0. Parts \in Nat /\ Parts' = Parts
    BY PartsIsNat DEF LayoutInv, Types, Parts
  <1>1. ret \in Nat /\ Len(running) \in Nat /\ running \in Seq(Nat) /\ Len(running) \in 1..Parts
    <2>1. running \in Seq(Nat) /\ Len(running) >= 1 /\ Len(running) <= Parts
      BY DEF LayoutInv, Types
    <2> QED
      BY <2>1, <1>0 DEF ret
  <1>2. Needed(Len(running)) \in Nat
    BY <1>1, NeededIsNat DEF LayoutInv, Types
  <1> DEFINE x == ret + Needed(Len(running))
  <1>3. x \in Nat /\ x >= ret
    BY <1>1, <1>2
  <1>4. running' = Append(running, x)
    OBVIOUS
  <1> HIDE DEF x
  <1>5. /\ running' \in Seq(Nat) /\ Len(running') = Len(running) + 1
        /\ \A j \in 1..Len(running) : running'[j] = running[j]
        /\ running'[Len(running) + 1] = x
    BY <1>1, <1>3, <1>4
  <1>6. ret' = x
    BY <1>5 DEF ret
  <1>7. Types'
    BY <1>5, <1>1 DEF LayoutInv, Types
  <1>8. SubTagsBelow'
    BY DEF LayoutInv, SubTagsBelow, SubTagPositions
  <1>9. SumsCounted'
    <2>1. Len(running') <= Parts' + 1
      BY <1>0, <1>1, <1>5
    <2>2. ASSUME NEW j \in 1..Len(running') PROVE running'[j] >= 1 /\ running'[j] <= ret'
      <3>1. CASE j <= Len(running)
        <4>1. j \in 1..Len(running) /\ running[j] \in Nat
          BY <1>1, <1>5, <3>1
        <4> QED
          BY <4>1, <1>1, <1>3, <1>5, <1>6 DEF LayoutInv, SumsCounted
      <3>2. CASE j = Len(running) + 1
        <4>1. ret >= 1
          BY <1>1 DEF LayoutInv, SumsCounted, ret
        <4> QED
          BY <4>1, <3>2, <1>1, <1>3, <1>5, <1>6
      <3> QED
        BY <3>1, <3>2, <1>1, <1>5
    <2>3. ASSUME NEW j \in 1..Len(running'), j + 1 <= Len(running')
          PROVE  running'[j + 1] = running'[j] + Needed(j)'
      <3>1. Needed(j)' = Needed(j)
        BY DEF Needed
      <3>2. j \in 1..Len(running)
        BY <2>3, <1>1, <1>5
      <3>3. CASE j = Len(running)
        BY <3>1, <3>2, <3>3, <1>5 DEF x, ret
      <3>4. CASE j # Len(running)
        <4>1. j + 1 \in 1..Len(running) /\ j + 1 <= Len(running)
          BY <3>2, <3>4, <1>1
        <4> QED
          BY <4>1, <3>1, <3>2, <1>5 DEF LayoutInv, SumsCounted
      <3> QED
        BY <3>3, <3>4
    <2> QED
      BY <2>1, <2>2, <2>3 DEF SumsCounted
  <1>10. WidthsChosen' /\ WrittenWithinCount' /\ TagsFit'
    BY DEF WidthsChosen, WrittenWithinCount, TagsFit
  <1>11. NothingYet' /\ TagsWithinCount'
    BY DEF LayoutInv, NothingYet, TagsWithinCount
  <1> QED
    BY <1>7, <1>8, <1>9, <1>10, <1>11 DEF LayoutInv

LEMMA TryWiderInv ==
  ASSUME LayoutInv, TryWider
  PROVE  LayoutInv'
  <1> USE DEF TryWider
  <1>1. running' = <<1>> /\ ret' = 1 /\ Len(running') = 1 /\ tagSize' = tagSize + 1 /\ tagSize \in Nat
    BY DEF LayoutInv, Types, ret
  <1>2. Parts' \in Nat
    BY PartsIsNat DEF LayoutInv, Types, Parts
  <1>3. Types'
    BY <1>1 DEF LayoutInv, Types
  <1>4. SubTagsBelow'
    <2>1. SubTagPositions' = SubTagPositions
      BY DEF SubTagPositions
    <2>2. ASSUME NEW p \in SubTagPositions PROVE p \in Nat
      BY AssembliesAssumption DEF SubTagPositions, TagPositionsOf, IsSub, LayoutInv, Types
    <2> QED
      BY <2>1, <2>2, <1>1 DEF LayoutInv, SubTagsBelow
  <1>5. SumsCounted'
    <2>1. \A j \in 1..Len(running') : running'[j] >= 1 /\ running'[j] <= ret'
      BY <1>1
    <2>2. \A j \in 1..Len(running') : ~(j + 1 <= Len(running'))
      BY <1>1
    <2>3. Len(running') <= Parts' + 1
      <3> DEFINE l == Len(running')
                 m == Parts'
      <3>1. l = 1 /\ m \in Nat
        BY <1>1, <1>2
      <3> HIDE DEF l, m
      <3>2. l <= m + 1
        BY <3>1
      <3> QED
        BY <3>2 DEF l, m
    <2> QED
      BY <1>2, <2>1, <2>2, <2>3 DEF SumsCounted
  <1>6. WidthsChosen' /\ WrittenWithinCount' /\ TagsFit'
    BY DEF WidthsChosen, WrittenWithinCount, TagsFit
  <1>7. NothingYet' /\ TagsWithinCount'
    BY DEF LayoutInv, NothingYet, TagsWithinCount
  <1> QED
    BY <1>3, <1>4, <1>5, <1>6, <1>7 DEF LayoutInv

LEMMA EstimatedInv ==
  ASSUME LayoutInv, Estimated
  PROVE  LayoutInv'
  <1> USE DEF Estimated
  <1> DEFINE all == BytesRequiredIncludingData(ret)
  <1>1. ret \in Nat /\ ret' = ret /\ Parts' = Parts
    BY DEF LayoutInv, Types, ret, Parts
  <1>2. Width(ret) \in Nat /\ Width(all) \in Nat /\ Width(all) <= 4
    BY <1>1 DEF Width
  <1>3. bytesPerTag' = Width(ret) /\ bytesPerDataRef' = Width(all)
    OBVIOUS
  <1> HIDE DEF all
  <1>4. Types'
    BY <1>2, <1>3 DEF LayoutInv, Types
  <1>5. SubTagsBelow' /\ SumsCounted'
    <2>1. SubTagPositions' = SubTagPositions
      BY DEF SubTagPositions
    <2>2. SumsCounted'
      BY <1>1 DEF LayoutInv, SumsCounted, Needed
    <2> QED
      BY <2>1, <2>2 DEF LayoutInv, SubTagsBelow
  <1>6. WidthsChosen'
    <2>1. Len(running) = Parts + 1
      BY PartsIsNat DEF LayoutInv, Types, SumsCounted
    <2> QED
      BY <2>1, <1>1, <1>2, <1>3 DEF LayoutInv, Types, WidthsChosen
  <1>7. WrittenWithinCount'
    <2>1. asm.data \in Seq(Nat) /\ asm.items \in Seq(Item)
      BY AssembliesAssumption DEF LayoutInv, Types
    <2>2. Len(asm.data) \in Nat /\ Len(asm.items) \in Nat
      BY <2>1
    <2>3. Len(asm.data) + 1 \in 1..Len(running)
      <3> DEFINE d == Len(asm.data)
                 n == Len(asm.items)
                 l == Len(running)
      <3>1. l \in Nat /\ l > d + n /\ d \in Nat /\ n \in Nat
        <4>1. running \in Seq(Nat) /\ Len(running) > Len(asm.data) + Len(asm.items)
          BY DEF LayoutInv, Types, Parts
        <4>2. Len(running) \in Nat
          BY <4>1
        <4> QED
          BY <4>1, <4>2, <2>2
      <3> HIDE DEF d, n, l
      <3>2. d + 1 \in 1..l
        BY <3>1
      <3> QED
        BY <3>2 DEF d, l
    <2>4. running[Len(asm.data) + 1] >= 1 /\ running[Len(asm.data) + 1] \in Nat
      BY <2>3 DEF LayoutInv, SumsCounted, Types
    <2>5. size = 0
      BY DEF LayoutInv, NothingYet
    <2> QED
      BY <2>2, <2>4, <2>5 DEF WrittenWithinCount, CountedBefore
  <1>8. TagsWithinCount'
    <2>1. refs' = {} /\ DOMAIN tagPositions' = {}
      BY DEF LayoutInv, NothingYet
    <2> QED
      BY <2>1 DEF TagsWithinCount
  <1>9. NothingYet' /\ TagsFit'
    BY DEF NothingYet, TagsFit
  <1> QED
    BY <1>4, <1>5, <1>6, <1>7, <1>8, <1>9 DEF LayoutInv

\* Writing an item: the size stays below the sums, and a reference to a tag was counted.
LEMMA ItemsInv ==
  ASSUME LayoutInv, AtItem, asm' = asm, UNCHANGED sizing, phase' = phase, k' = k + 1,
         size' = size + Written(This),
         NEW t0 \in {0} \cup {This.n},
         tagPositions' = tagPositions \/ tagPositions' = With(tagPositions, t0, size),
         refs' = refs \/ refs' = refs \cup {[at |-> size + 1, type |-> This.type,
                                             n |-> This.n, sub |-> This.sub]},
         This.type \in {"PushTag", "PushData", "PushSub", "PushProgramSize"} =>
           refs' = refs \cup {[at |-> size + 1, type |-> This.type, n |-> This.n, sub |-> This.sub]}
  PROVE  LayoutInv'
  <1> DEFINE new == [at |-> size + 1, type |-> This.type, n |-> This.n, sub |-> This.sub]
  <1>1. /\ asm \in Assemblies /\ k \in 1..Len(asm.items) /\ phase = "items" /\ k <= Len(asm.items)
        /\ tagSize \in Nat /\ size \in Nat /\ bytesPerTag \in Nat /\ bytesPerDataRef \in Nat
        /\ bytesPerTag <= tagSize /\ bytesPerDataRef <= 4
    <2>1. asm.items \in Seq(Item)
      BY AssembliesAssumption DEF LayoutInv, Types
    <2> QED
      BY <2>1 DEF AtItem, LayoutInv, Types, WidthsChosen, WrittenWithinCount
  <1>2. This = asm.items[k] /\ This \in Item
    BY <1>1, ItemOfAssembly DEF This
  <1>3. /\ tagSize' = tagSize /\ running' = running /\ bytesPerTag' = bytesPerTag
        /\ bytesPerDataRef' = bytesPerDataRef /\ ret' = ret /\ Parts' = Parts
    BY DEF sizing, ret, Parts
  <1>4. /\ CountedBefore(k) \in Nat /\ CountedBefore(k) <= ret /\ ret \in Nat
        /\ CountedBefore(k + 1) = CountedBefore(k) + BytesRequired(This, tagSize)
        /\ CountedBefore(k + 1) <= ret /\ BytesRequired(This, tagSize) \in Nat
        /\ CountedBefore(k) >= 1
    BY <1>1, <1>2, SumOfItem
  <1>5. Written(This) \in Nat
    BY <1>1, <1>2, WrittenIsNat
  <1>6. refs \subseteq refs' /\ refs' \subseteq refs \cup {new}
    OBVIOUS
  <1>7. Undercounted => Undercounted'
    BY <1>3, <1>6 DEF Undercounted
  <1>8. Types'
    BY <1>1, <1>3, <1>5 DEF LayoutInv, Types
  <1>9. SubTagsBelow' /\ SumsCounted' /\ WidthsChosen' /\ NothingYet' /\ TagsFit'
    <2>1. SubTagPositions' = SubTagPositions
      BY DEF SubTagPositions
    <2>2. SubTagsBelow'
      BY <2>1, <1>3 DEF LayoutInv, SubTagsBelow
    <2>3. SumsCounted'
      BY <1>3 DEF LayoutInv, SumsCounted, Needed
    <2>4. WidthsChosen'
      BY <1>1, <1>3 DEF LayoutInv, WidthsChosen
    <2>5. NothingYet' /\ TagsFit'
      BY <1>1 DEF NothingYet, TagsFit
    <2> QED
      BY <2>2, <2>3, <2>4, <2>5
  <1>10. WrittenWithinCount'
    <2>1. k' \in 1..(Len(asm.items) + 1)
      <3>1. asm.items \in Seq(Item)
        BY <1>1, AssembliesAssumption
      <3>2. Len(asm.items) \in Nat
        BY <3>1
      <3> QED
        BY <3>2, <1>1
    <2>2. CountedBefore(k)' = CountedBefore(k + 1)
      BY <1>3 DEF CountedBefore
    <2>3. CASE Undercounted
      BY <1>7, <2>1, <2>3 DEF WrittenWithinCount
    <2>4. CASE ~Undercounted /\ This.type \in {"PushData", "PushSub"} /\ bytesPerDataRef > tagSize
      <3>1. new \in refs' /\ new.type = This.type
        BY <2>4
      <3>2. Undercounted'
        BY <3>1, <2>4, <1>3 DEF Undercounted
      <3> QED
        BY <3>2, <2>1 DEF WrittenWithinCount
    <2>5. CASE ~Undercounted /\ ~(This.type \in {"PushData", "PushSub"} /\ bytesPerDataRef > tagSize)
      <3>1. Written(This) <= BytesRequired(This, tagSize)
        <4>1. asm.items[k].type \in {"PushData", "PushSub"} => bytesPerDataRef <= tagSize
          BY <1>1, <1>2, <2>5
        <4> QED
          BY <4>1, <1>1, <1>2, WrittenAtMostCounted
      <3>2. size + 1 <= CountedBefore(k)
        BY <1>1, <2>5 DEF LayoutInv, WrittenWithinCount
      <3>3. size' + 1 <= CountedBefore(k + 1)
        BY <3>1, <3>2, <1>1, <1>4, <1>5
      <3> QED
        BY <3>3, <2>1, <2>2 DEF WrittenWithinCount
    <2> QED
      BY <2>3, <2>4, <2>5
  <1>11. TagsWithinCount'
    <2>1. ASSUME NEW r \in refs' PROVE r.sub \in Nat /\ (r.type = "PushTag" => tagSize' <= ret')
      <3>1. CASE r \in refs
        BY <3>1, <1>3 DEF LayoutInv, TagsWithinCount
      <3>2. CASE r = new
        <4>1. r.sub = This.sub /\ r.type = This.type /\ This.sub \in Nat
          BY <3>2, <1>2 DEF Item
        <4>2. ASSUME This.type = "PushTag" PROVE tagSize <= ret
          <5>1. BytesRequired(This, tagSize) = 1 + tagSize
            BY <4>2 DEF BytesRequired
          <5> QED
            BY <5>1, <1>4, <1>1
        <4> QED
          BY <4>1, <4>2, <1>3
      <3> QED
        BY <3>1, <3>2, <1>6
    <2>2. CASE Undercounted
      BY <2>1, <2>2, <1>7 DEF TagsWithinCount
    <2>3. CASE ~Undercounted
      <3>1. size + 1 <= CountedBefore(k)
        BY <1>1, <2>3 DEF LayoutInv, WrittenWithinCount
      <3>2. size \in Nat /\ size <= ret
        BY <3>1, <1>1, <1>4
      <3>3. \A t \in DOMAIN tagPositions : tagPositions[t] \in Nat /\ tagPositions[t] <= ret
        BY <2>3 DEF LayoutInv, TagsWithinCount
      <3>4. \A t \in DOMAIN tagPositions' : tagPositions'[t] \in Nat /\ tagPositions'[t] <= ret
        <4>1. CASE tagPositions' = tagPositions
          BY <4>1, <3>3
        <4>2. CASE tagPositions' = With(tagPositions, t0, size)
          BY <4>2, <3>2, <3>3 DEF With
        <4> QED
          BY <4>1, <4>2
      <3> QED
        BY <3>4, <2>1, <1>3 DEF TagsWithinCount
    <2> QED
      BY <2>2, <2>3
  <1> QED
    BY <1>8, <1>9, <1>10, <1>11 DEF LayoutInv

LEMMA WriteItemInv ==
  ASSUME LayoutInv, WriteItem \/ WriteTag
  PROVE  LayoutInv'
  <1>1. CASE WriteItem
    <2>1. AtItem /\ asm' = asm /\ UNCHANGED sizing /\ phase' = phase /\ k' = k + 1
          /\ size' = size + Written(This)
      BY <1>1 DEF WriteItem
    <2>2. tagPositions' = tagPositions \/ tagPositions' = With(tagPositions, 0, size)
      BY <1>1 DEF WriteItem
    <2>3. /\ refs' = refs \/ refs' = refs \cup {[at |-> size + 1, type |-> This.type,
                                                 n |-> This.n, sub |-> This.sub]}
          /\ This.type \in {"PushTag", "PushData", "PushSub", "PushProgramSize"} =>
               refs' = refs \cup {[at |-> size + 1, type |-> This.type,
                                   n |-> This.n, sub |-> This.sub]}
      BY <1>1 DEF WriteItem
    <2>4. 0 \in {0} \cup {This.n}
      OBVIOUS
    <2> QED
      BY <2>1, <2>2, <2>3, <2>4, ItemsInv
  <1>2. CASE WriteTag
    <2>1. AtItem /\ asm' = asm /\ UNCHANGED sizing /\ phase' = phase /\ k' = k + 1 /\ refs' = refs
      BY <1>2 DEF WriteTag
    <2>2. Written(This) = 1 /\ This.type = "Tag"
      BY <1>2 DEF WriteTag, Written
    <2>3. size' = size + Written(This) /\ tagPositions' = With(tagPositions, This.n, size)
      BY <1>2, <2>2 DEF WriteTag
    <2>4. This.n \in {0} \cup {This.n}
      OBVIOUS
    <2>5. ~(This.type \in {"PushTag", "PushData", "PushSub", "PushProgramSize"})
      BY <2>2
    <2> QED
      BY <2>1, <2>3, <2>4, <2>5, ItemsInv
  <1> QED
    BY <1>1, <1>2

\* The position of a tag is below the estimate unless references were undercounted.
LEMMA PositionCounted ==
  ASSUME LayoutInv, NEW r \in refs, r.type = "PushTag", HasPosition(r), ~Undercounted
  PROVE  PositionsFor(r)[r.n] \in Nat /\ PositionsFor(r)[r.n] <= ret
  <1> DEFINE pos == PositionsFor(r)[r.n]
  <1>1. r.sub \in Nat /\ tagSize <= ret /\ tagSize \in Nat /\ ret \in Nat
    <2>1. \A q \in refs : q.sub \in Nat /\ (q.type = "PushTag" => tagSize <= ret)
      BY DEF LayoutInv, TagsWithinCount
    <2>2. tagSize \in Nat /\ ret \in Nat
      BY DEF LayoutInv, Types, ret
    <2> QED
      BY <2>1, <2>2
  <1>2. CASE r.sub = 0
    BY <1>2 DEF PositionsFor, HasPosition, LayoutInv, TagsWithinCount
  <1>3. CASE r.sub # 0
    <2>1. r.sub \in 1..Len(asm.subs) /\ r.n \in DOMAIN asm.subs[r.sub].tags
      <3>1. Len(asm.subs) \in Nat
        BY AssembliesAssumption DEF LayoutInv, Types
      <3>2. r.sub <= Len(asm.subs) /\ r.n \in DOMAIN asm.subs[r.sub].tags
        BY <1>3 DEF HasPosition, PositionsFor
      <3> DEFINE b == r.sub
                 l == Len(asm.subs)
      <3>3. b \in Nat /\ l \in Nat /\ b # 0 /\ b <= l
        BY <1>1, <1>3, <3>1, <3>2
      <3> HIDE DEF b, l
      <3>4. b \in 1..l
        BY <3>3
      <3> QED
        BY <3>2, <3>4 DEF b, l
    <2>2. asm.subs[r.sub].tags[r.n] \in Nat
      BY <2>1, AssembliesAssumption DEF LayoutInv, Types, IsSub
    <2>3. asm.subs[r.sub].tags[r.n] \in SubTagPositions
      BY <2>1 DEF SubTagPositions, TagPositionsOf
    <2>4. asm.subs[r.sub].tags[r.n] <= tagSize
      BY <2>3 DEF LayoutInv, SubTagsBelow
    <2>5. pos = asm.subs[r.sub].tags[r.n]
      BY <1>3 DEF PositionsFor
    <2> HIDE DEF pos
    <2>6. pos \in Nat /\ pos <= tagSize
      BY <2>2, <2>4, <2>5
    <2>7. pos \in Nat /\ pos <= ret
      BY <1>1, <2>6
    <2> QED
      BY <2>7 DEF pos
  <1> QED
    BY <1>2, <1>3

\* A tag whose position is wider than reserved: only where references were undercounted.
LEMMA RejectReferenceInv ==
  ASSUME LayoutInv, NEW r, RejectReference(r)
  PROVE  LayoutInv'
  <1>1. asm' = asm /\ UNCHANGED <<sizing, tagPositions, refs>> /\ k' \in Nat \ {0} /\ size' \in Nat
        /\ phase # "estimate" /\ phase' \in {"noSuchTag", "tagTooLarge"}
    BY DEF LayoutInv, Types, RejectReference
  <1>2. r \in refs /\ r.type = "PushTag"
    BY DEF RejectReference, NextReference, UnresolvedTags
  <1> DEFINE pos == PositionsFor(r)[r.n]
  <1>3. ASSUME phase' = "tagTooLarge", ~Undercounted PROVE FALSE
    <2>1. HasPosition(r) /\ Width(pos) > bytesPerTag
      BY <1>3 DEF RejectReference
    <2>2. ret \in Nat
      BY DEF LayoutInv, Types, ret
    <2>3. pos \in Nat /\ pos <= ret
      BY <1>2, <1>3, <2>1, PositionCounted
    <2> HIDE DEF pos
    <2>4. Width(pos) <= Width(ret) /\ Width(pos) \in Nat /\ Width(ret) \in Nat
      BY <2>2, <2>3, WidthMonotone
    <2>5. bytesPerTag = Width(ret)
      BY <1>1 DEF LayoutInv, WidthsChosen
    <2> QED
      BY <2>1, <2>4, <2>5
  <1>4. phase' = "tagTooLarge" => Undercounted
    BY <1>3
  <1>5. phase' \notin {"estimate", "items"}
    BY <1>1
  <1> QED
    BY <1>1, <1>4, <1>5, LaterSteps

\* The steps behind the loop over the items, and the rejection of a tag.
LEMMA GapsInv ==
  ASSUME LayoutInv,
         \/ RejectTag \/ EndItems \/ AppendSub \/ EndSubs \/ EndTags \/ AppendData \/ Finish
         \/ \E r \in UnresolvedTags : ResolveTag(r)
  PROVE  LayoutInv'
  <1>0. /\ k \in Nat \ {0} /\ size \in Nat /\ asm \in Assemblies
    BY DEF LayoutInv, Types
  <1>1. /\ asm.aux \in Nat
        /\ \A i \in 1..Len(asm.subs) : asm.subs[i].size \in Nat
        /\ Len(asm.subs) \in Nat /\ asm.data \in Seq(Nat)
    BY <1>0, AssembliesAssumption DEF IsSub
  <1>2. /\ asm' = asm /\ UNCHANGED <<sizing, tagPositions, refs>>
        /\ phase # "estimate" /\ phase' \notin {"estimate", "items", "tagTooLarge"}
    BY DEF RejectTag, AtItem, EndItems, AppendSub, EndSubs, EndTags, AppendData, Finish, ResolveTag
  <1>3. k' \in Nat \ {0}
    <2>1. k' = k \/ k' = 1 \/ k' = k + 1
      BY DEF RejectTag, EndItems, AppendSub, EndSubs, EndTags, AppendData, Finish, ResolveTag
    <2> QED
      BY <1>0, <2>1
  <1>4. size' \in Nat
    <2>1. CASE AppendSub
      <3>1. k <= Len(asm.subs) /\ k \in Nat /\ (size' = size \/ size' = size + asm.subs[k].size)
        BY <2>1, <1>0 DEF AppendSub
      <3>2. k \in 1..Len(asm.subs)
        BY <3>1, <1>0, <1>1
      <3> QED
        BY <3>1, <3>2, <1>0, <1>1
    <2>2. CASE AppendData
      <3>1. k <= Len(asm.data) /\ k \in Nat /\ (size' = size \/ size' = size + asm.data[k])
        BY <2>2, <1>0 DEF AppendData
      <3> QED
        BY <3>1, <1>0, <1>1
    <2>3. CASE EndItems \/ Finish
      BY <2>3, <1>0, <1>1 DEF EndItems, Finish
    <2>4. CASE RejectTag \/ EndSubs \/ EndTags \/ \E r \in UnresolvedTags : ResolveTag(r)
      BY <2>4, <1>0 DEF RejectTag, EndSubs, EndTags, ResolveTag
    <2> QED
      BY <2>1, <2>2, <2>3, <2>4
  <1> QED
    BY <1>2, <1>3, <1>4, LaterSteps

LEMMA InitInv ==
  ASSUME AsmInit
  PROVE  LayoutInv
  <1> USE DEF AsmInit
  <1>1. running = <<1>> /\ ret = 1 /\ Len(running) = 1 /\ running \in Seq(Nat)
    BY DEF ret
  <1>2. \A p \in SubTagPositions : p \in Nat
    BY AssembliesAssumption DEF SubTagPositions, TagPositionsOf, IsSub
  <1>3. Types
    BY <1>1, <1>2 DEF Types
  <1>4. SubTagsBelow
    BY DEF SubTagsBelow
  <1>5. SumsCounted
    <2>1. Parts \in Nat
      BY PartsIsNat
    <2>2. 1 <= Parts + 1
      BY <2>1
    <2>3. \A j \in 1..Len(running) : running[j] >= 1 /\ running[j] <= ret
      BY <1>1
    <2>4. \A j \in 1..Len(running) : ~(j + 1 <= Len(running))
      BY <1>1
    <2> QED
      BY <1>1, <2>2, <2>3, <2>4 DEF SumsCounted
  <1>6. WidthsChosen /\ WrittenWithinCount /\ TagsFit
    BY DEF WidthsChosen, WrittenWithinCount, TagsFit
  <1>7. NothingYet
    BY DEF NothingYet
  <1>8. TagsWithinCount
    <2>1. refs = {} /\ DOMAIN tagPositions = {}
      OBVIOUS
    <2> QED
      BY <2>1 DEF TagsWithinCount
  <1> QED
    BY <1>3, <1>4, <1>5, <1>6, <1>7, <1>8 DEF LayoutInv

\* Inductive invariant of assemble(): sums, widths and positions agree as above.
LEMMA LayoutInvariant == AsmSpec => []LayoutInv
  <1>1. AsmInit => LayoutInv
    BY InitInv
  <1>2. ASSUME LayoutInv, [AsmNext]_asmVars PROVE LayoutInv'
    <2>1. CASE CountPart
      BY <1>2, <2>1, CountPartInv
    <2>2. CASE TryWider
      BY <1>2, <2>2, TryWiderInv
    <2>3. CASE Estimated
      BY <1>2, <2>3, EstimatedInv
    <2>4. CASE WriteItem \/ WriteTag
      BY <1>2, <2>4, WriteItemInv
    <2>5. CASE \/ RejectTag \/ EndItems \/ AppendSub \/ EndSubs \/ EndTags \/ AppendData \/ Finish
               \/ \E r \in UnresolvedTags : ResolveTag(r)
      BY <1>2, <2>5, GapsInv
    <2>6. ASSUME NEW r \in UnresolvedTags, RejectReference(r) PROVE LayoutInv'
      BY <1>2, <2>6, RejectReferenceInv
    <2>7. CASE UNCHANGED asmVars
      <3>1. /\ asm' = asm /\ phase' = phase /\ k' = k /\ UNCHANGED sizing /\ size' = size
            /\ tagPositions' = tagPositions /\ refs' = refs
        BY <2>7 DEF asmVars
      <3>2. Types' /\ SumsCounted' /\ WidthsChosen'
        BY <1>2, <3>1 DEF LayoutInv, Types, SumsCounted, WidthsChosen, Parts, ret, Needed, sizing
      <3>3. SubTagPositions' = SubTagPositions /\ tagSize' = tagSize
        BY <3>1 DEF SubTagPositions, sizing
      <3>4. SubTagsBelow'
        BY <1>2, <3>3 DEF LayoutInv, SubTagsBelow
      <3>5. WrittenWithinCount' /\ NothingYet' /\ TagsWithinCount' /\ TagsFit'
        BY <1>2, <3>1 DEF LayoutInv, WrittenWithinCount, NothingYet, TagsWithinCount, TagsFit,
                          CountedBefore, Undercounted, ret, sizing
      <3> QED
        BY <3>2, <3>4, <3>5 DEF LayoutInv
    <2> QED
      BY <1>2, <2>1, <2>2, <2>3, <2>4, <2>5, <2>6, <2>7 DEF AsmNext
  <1> QED
    BY <1>1, <1>2, PTL DEF AsmSpec

\* For every assembly: assemble() fails with "Tag too large for reserved space." only
\* where references to data or subassemblies are wider than they were counted.
THEOREM TagsFitReservedSpace == AsmSpec => []TagsFit
  <1>1. LayoutInv => TagsFit
    BY DEF LayoutInv
  <1> QED
    BY <1>1, LayoutInvariant, PTL

-----------------------------------------------------------------------------
(* What is put into the gaps. *)

\* The code computes sizes as 32 bit numbers and would count beyond them from 0 again.
SizesAre32Bit == BytesRequiredIncludingData(ret) < 16777216 * 256

\* One more than the bytes of all data.
DataCounted == CountedBefore(1)

\* The sums start with one byte and never decrease; the width of references to data comes
\* from all that may be appended.
SumsGrow ==
  /\ running[1] = 1
  /\ \A i, j \in 1..Len(running) : i <= j => running[i] <= running[j]
  /\ phase # "estimate" => bytesPerDataRef = Width(BytesRequiredIncludingData(ret))

\* The loops over subassemblies and data do not pass their ends.
LoopsWithin ==
  /\ phase = "subs" => k \in 1..(Len(asm.subs) + 1)
  /\ phase = "data" => k \in 1..(Len(asm.data) + 1)

\* What was written and the data that is still to come are no more than was counted.
RoomLeft ==
  \/ Undercounted
  \/ /\ phase = "items" => size + DataCounted <= CountedBefore(k)
     /\ phase = "subs" => size + DataCounted <= ret + 1 + SubTotals[k - 1]
     /\ phase = "tags" => size + DataCounted <= ret + 1 + SizeOfSubs
     /\ phase = "data" => size + DataCounted <= ret + SizeOfSubs + running[k]

\* Gaps are apart and in the code of the items; what they refer to is there.
GapsApart ==
  /\ \A r \in refs :
       /\ r.at \in Nat /\ r.at <= size
       /\ r.type \in {"PushTag", "PushData", "PushSub", "PushProgramSize"}
       /\ r.type = "PushData" => r.n \in 1..Len(asm.data)
       /\ r.type = "PushSub" => r.n \in 1..Len(asm.subs)
  /\ \A r, q \in refs : r.at = q.at => r = q
  /\ phase \notin {"estimate", "items", "invalidTag"} /\ (asm.subs # << >> \/ asm.data # << >>) =>
       \A r \in refs : r.at < size

\* Which gaps are filled in which phase.
FilledInTurn ==
  /\ DOMAIN filled \subseteq {r.at : r \in refs}
  /\ phase \in {"estimate", "items"} => DOMAIN filled = {}
  /\ \A r \in refs :
       /\ r.type = "PushSub" /\ ((phase = "subs" /\ r.n < k) \/ phase \in {"tags", "data", "done"}) =>
            r.at \in DOMAIN filled
       /\ r.type = "PushTag" /\ phase \in {"data", "done"} => r.at \in DOMAIN filled
       /\ r.type = "PushData" /\ ((phase = "data" /\ r.n < k) \/ phase = "done") => r.at \in DOMAIN filled
       /\ r.type = "PushProgramSize" => (r.at \in DOMAIN filled <=> phase = "done")

\* What is behind the subassemblies and the data.
Behind == IF phase = "done" THEN asm.aux ELSE 0

\* A gap for data or a subassembly holds a place in the code that is behind all gaps, is
\* not the place of another one, and has its link references there.
PlaceHeld(r) ==
  /\ filled[r.at] \in Nat /\ filled[r.at] + TargetSize(r) + Behind <= size
  /\ \A q \in refs : q.at < filled[r.at]
  /\ \A q \in refs : q.type \in {"PushData", "PushSub"} /\ q.at \in DOMAIN filled =>
       \/ filled[r.at] + TargetSize(r) <= filled[q.at]
       \/ filled[q.at] + TargetSize(q) <= filled[r.at]
       \/ q.type = r.type /\ q.n = r.n
  /\ r.type = "PushSub" => {filled[r.at] + p : p \in asm.subs[r.n].links} \subseteq links

Held(r) ==
  /\ r.type = "PushTag" => filled[r.at] = PositionsFor(r)[r.n]
  /\ r.type = "PushProgramSize" => filled[r.at] = size
  /\ r.type \in {"PushData", "PushSub"} => PlaceHeld(r)

FilledRight ==
  SizesAre32Bit /\ ~Undercounted => \A r \in refs : r.at \in DOMAIN filled => Held(r)

\* Link references are in the code and apart from each other and from the gaps.
LinksApart ==
  /\ \A p \in links : p \in Nat /\ p + 20 <= size
  /\ \A p, q \in links : p # q => p + 20 <= q \/ q + 20 <= p
  /\ \A p \in links : \A r \in refs : p + 20 <= r.at \/ r.at < p

GapsKept ==
  /\ SumsGrow /\ LoopsWithin /\ RoomLeft /\ GapsApart /\ FilledInTurn /\ FilledRight /\ LinksApart

-----------------------------------------------------------------------------
\* Induction over the numbers, as a fact about a set.
LEMMA SetInduction ==
  ASSUME NEW T, 0 \in T, \A m \in Nat : m \in T => m + 1 \in T
  PROVE  Nat \subseteq T
  <1> DEFINE C == Nat \ T
  <1>1. SUFFICES ASSUME C # {} PROVE FALSE
    OBVIOUS
  <1>2. C \subseteq Nat
    OBVIOUS
  <1>3. PICK x \in C : \A y \in C : <<y, x>> \notin OpToRel(<, Nat)
    <2> HIDE DEF C
    <2> QED
      BY <1>1, <1>2, NatLessThanWellFounded, WFMin
  <1>4. x \in Nat /\ x # 0 /\ x \notin T
    BY <1>2, <1>3
  <1>5. x - 1 \in Nat /\ x - 1 < x /\ (x - 1) + 1 = x
    BY <1>4
  <1>6. x - 1 \in C
    BY <1>4, <1>5
  <1>7. <<x - 1, x>> \in OpToRel(<, Nat)
    BY <1>4, <1>5 DEF OpToRel
  <1> QED
    BY <1>3, <1>6, <1>7

\* The recursion over the subassemblies computes their sums, which never decrease.
LEMMA TotalsOfSubs ==
  ASSUME asm \in Assemblies
  PROVE  LET n == Len(asm.subs) IN
         /\ n \in Nat /\ SubTotals[0] = 0
         /\ \A j \in 0..n : SubTotals[j] \in Nat /\ SubTotals[j] <= SizeOfSubs
         /\ \A j \in 1..n : SubTotals[j] = SubTotals[j - 1] + asm.subs[j].size
  <1> DEFINE n == Len(asm.subs)
             sz(j) == asm.subs[j].size
             Sums(f, m) == /\ f \in [0..m -> Nat] /\ f[0] = 0
                           /\ \A j \in 1..m : f[j] = f[j - 1] + sz(j)
             T == {m \in Nat : m <= n => \E f : Sums(f, m)}
  <1>1. n \in Nat /\ \A j \in 1..n : sz(j) \in Nat
    BY AssembliesAssumption DEF IsSub
  <1> HIDE DEF n, sz
  <1>2. 0 \in T
    <2>1. Sums([j \in 0..0 |-> 0], 0)
      OBVIOUS
    <2> QED
      BY <2>1
  <1>3. ASSUME NEW m \in Nat, m \in T, m + 1 <= n PROVE \E f : Sums(f, m + 1)
    <2>1. m <= n /\ m + 1 \in 1..n
      BY <1>1, <1>3
    <2>2. PICK f : Sums(f, m)
      BY <1>3, <2>1
    <2> DEFINE g == [j \in 0..(m + 1) |-> IF j = m + 1 THEN f[m] + sz(m + 1) ELSE f[j]]
    <2>3. f[m] + sz(m + 1) \in Nat
      BY <1>1, <2>1, <2>2
    <2>4. g \in [0..(m + 1) -> Nat]
      BY <2>2, <2>3
    <2>5. g[0] = 0
      BY <2>2
    <2>6. ASSUME NEW j \in 1..(m + 1) PROVE g[j] = g[j - 1] + sz(j)
      <3>1. j - 1 \in 0..m /\ j - 1 # m + 1 /\ j \in 0..(m + 1) /\ j - 1 \in 0..(m + 1)
        OBVIOUS
      <3>2. g[j - 1] = f[j - 1]
        BY <3>1
      <3>3. CASE j = m + 1
        BY <3>1, <3>2, <3>3
      <3>4. CASE j # m + 1
        <4>1. j \in 1..m
          BY <3>4
        <4>2. f[j] = f[j - 1] + sz(j)
          BY <4>1, <2>2
        <4> QED
          BY <3>1, <3>2, <3>4, <4>2
      <3> QED
        BY <3>3, <3>4
    <2> HIDE DEF g
    <2> QED
      BY <2>4, <2>5, <2>6
  <1>4. Nat \subseteq T
    <2>1. \A m \in Nat : m \in T => m + 1 \in T
      BY <1>3
    <2> HIDE DEF T
    <2> QED
      BY <1>2, <2>1, SetInduction
  <1>5. PICK f : Sums(f, n)
    <2>1. n \in T
      <3> HIDE DEF T
      <3> QED
        BY <1>1, <1>4
    <2>2. n <= n
      BY <1>1
    <2> HIDE DEF Sums
    <2> QED
      BY <2>1, <2>2
  <1>6. f = [j \in 0..n |-> IF j = 0 THEN 0 ELSE f[j - 1] + sz(j)]
    <2>1. \A j \in 0..n : f[j] = IF j = 0 THEN 0 ELSE f[j - 1] + sz(j)
      <3>1. \A j \in 0..n : j # 0 => j \in 1..n
        BY <1>1
      <3> QED
        BY <1>5, <3>1
    <2> QED
      BY <1>5, <2>1
  <1>7. SubTotals = [j \in 0..n |-> IF j = 0 THEN 0 ELSE SubTotals[j - 1] + sz(j)]
    <2>1. SubTotals = CHOOSE g : g = [j \in 0..n |-> IF j = 0 THEN 0 ELSE g[j - 1] + sz(j)]
      BY DEF SubTotals, n, sz
    <2> QED
      BY <1>6, <2>1
  <1> DEFINE S == SubTotals
  <1> HIDE DEF S
  <1>8. S[0] = 0 /\ \A j \in 1..n : S[j] = S[j - 1] + sz(j)
    <2>1. 0 \in 0..n /\ \A j \in 1..n : j \in 0..n /\ j # 0
      BY <1>1
    <2> QED
      BY <1>7, <2>1 DEF S
  <1> DEFINE U == {m \in Nat : m <= n => \A i \in 0..m : S[i] \in Nat /\ S[i] <= S[m]}
  <1>9. Nat \subseteq U
    <2>1. 0 \in U
      BY <1>8
    <2>2. ASSUME NEW m \in Nat, m \in U, m + 1 <= n
          PROVE  \A i \in 0..(m + 1) : S[i] \in Nat /\ S[i] <= S[m + 1]
      <3>1. m <= n /\ m \in 0..m /\ m + 1 \in 1..n /\ (m + 1) - 1 = m
        BY <1>1, <2>2
      <3>2. \A i \in 0..m : S[i] \in Nat /\ S[i] <= S[m]
        BY <2>2, <3>1
      <3>3. S[m + 1] = S[m] + sz(m + 1) /\ sz(m + 1) \in Nat
        BY <1>1, <1>8, <3>1
      <3>4. S[m + 1] \in Nat /\ S[m] <= S[m + 1] /\ S[m] \in Nat
        BY <3>1, <3>2, <3>3
      <3>5. ASSUME NEW i \in 0..(m + 1), i # m + 1 PROVE S[i] \in Nat /\ S[i] <= S[m + 1]
        <4>1. i \in 0..m
          BY <3>5
        <4>2. S[i] \in Nat /\ S[i] <= S[m]
          BY <4>1, <3>2
        <4> QED
          BY <4>2, <3>4
      <3> QED
        BY <3>4, <3>5
    <2>3. \A m \in Nat : m \in U => m + 1 \in U
      BY <2>2
    <2> HIDE DEF U
    <2> QED
      BY <2>1, <2>3, SetInduction
  <1>10. \A j \in 0..n : S[j] \in Nat /\ S[j] <= S[n]
    <2>1. \A j \in 0..n : j \in U
      BY <1>1, <1>9
    <2>2. n \in U /\ n <= n
      BY <1>1, <1>9
    <2> QED
      BY <1>1, <2>1, <2>2
  <1> QED
    BY <1>1, <1>8, <1>10 DEF S, n, sz, SizeOfSubs

\* A number that fits the width of a gap is not cut.
LEMMA NotCut ==
  ASSUME NEW v \in Nat, NEW w \in Nat, Width(v) <= w, v < 16777216 * 256
  PROVE  ToBigEndian(v, w) = v
  <1>1. Capacity(w) \in Nat /\ v < Capacity(w)
    BY DEF Width, Capacity
  <1> QED
    BY <1>1 DEF ToBigEndian


LEMMA Numbers ==
  ASSUME LayoutInv
  PROVE  /\ asm \in Assemblies /\ asm.aux \in Nat /\ asm.data \in Seq(Nat) /\ asm.items \in Seq(Item)
         /\ Len(asm.data) \in Nat /\ Len(asm.items) \in Nat /\ Len(asm.subs) \in Nat
         /\ \A i \in 1..Len(asm.subs) : IsSub(asm.subs[i])
         /\ ret \in Nat /\ size \in Nat /\ k \in Nat /\ k # 0 /\ SizeOfSubs \in Nat
         /\ bytesPerDataRef \in Nat /\ bytesPerTag \in Nat /\ tagSize \in Nat
         /\ running \in Seq(Nat) /\ Len(running) \in Nat /\ Len(running) >= 1
  <1>1. asm \in Assemblies /\ running \in Seq(Nat) /\ Len(running) >= 1 /\ size \in Nat
        /\ k \in Nat /\ k # 0 /\ bytesPerDataRef \in Nat /\ bytesPerTag \in Nat /\ tagSize \in Nat
    BY DEF LayoutInv, Types
  <1>2. /\ asm.aux \in Nat /\ asm.data \in Seq(Nat) /\ asm.items \in Seq(Item)
        /\ Len(asm.subs) \in Nat /\ \A i \in 1..Len(asm.subs) : IsSub(asm.subs[i])
    BY <1>1, AssembliesAssumption
  <1>3. Len(asm.data) \in Nat /\ Len(asm.items) \in Nat /\ Len(running) \in Nat
    BY <1>1, <1>2
  <1>4. ret \in Nat
    BY <1>1, <1>3 DEF ret
  <1>5. SizeOfSubs \in Nat
    <2>1. /\ \A j \in 0..Len(asm.subs) : SubTotals[j] \in Nat
      BY <1>1, TotalsOfSubs
    <2>2. Len(asm.subs) \in 0..Len(asm.subs)
      BY <1>2
    <2> QED
      BY <2>1, <2>2 DEF SizeOfSubs
  <1> QED
    BY <1>1, <1>2, <1>3, <1>4, <1>5

\* What the widths were chosen from is a number, and so are all sums up to it.
LEMMA SumsAreNumbers ==
  ASSUME LayoutInv, SumsGrow, phase # "estimate"
  PROVE  /\ \A j \in 1..(Len(asm.data) + 1) : running[j] \in Nat /\ running[j] >= 1
                                                /\ running[j] <= DataCounted
         /\ DataCounted \in Nat /\ DataCounted >= 1
         /\ BytesRequiredIncludingData(ret) \in Nat
         /\ bytesPerDataRef = Width(BytesRequiredIncludingData(ret))
  <1> DEFINE d == Len(asm.data)
             n == Len(asm.items)
             l == Len(running)
  <1>1. d \in Nat /\ n \in Nat /\ l = (d + n) + 1 /\ running \in Seq(Nat)
    BY Numbers DEF LayoutInv, WidthsChosen, Parts
  <1> HIDE DEF d, n, l
  <1>2. \A j \in 1..(d + 1) : j \in 1..l /\ d + 1 \in 1..l /\ j <= d + 1
    BY <1>1
  <1>3. \A j \in 1..l : running[j] \in Nat /\ running[j] >= 1
    <2>1. \A j \in 1..l : running[j] \in Nat
      BY <1>1 DEF l
    <2>2. \A j \in 1..l : running[j] >= 1
      BY DEF LayoutInv, SumsCounted, l
    <2> QED
      BY <2>1, <2>2
  <1>4. \A j \in 1..(d + 1) : running[j] <= running[d + 1]
    BY <1>2 DEF SumsGrow, l
  <1>5. d + 1 \in 1..(d + 1)
    BY <1>1
  <1>6. DataCounted = running[d + 1]
    BY DEF DataCounted, CountedBefore, d
  <1>7. BytesRequiredIncludingData(ret) \in Nat
    <2>1. ret \in Nat /\ asm.aux \in Nat /\ SizeOfSubs \in Nat
      BY Numbers
    <2> HIDE DEF ret, SizeOfSubs
    <2> QED
      BY <2>1 DEF BytesRequiredIncludingData
  <1> QED
    BY <1>2, <1>3, <1>4, <1>5, <1>6, <1>7 DEF SumsGrow, d

\* Filling gaps changes these gaps only.
LEMMA FillFacts ==
  ASSUME GapsApart, NEW here \in SUBSET refs, NEW w, NEW v, filled' = Fill(here, w, v)
  PROVE  /\ DOMAIN filled' = DOMAIN filled \cup {r.at : r \in here}
         /\ \A r \in here : filled'[r.at] = ToBigEndian(v, w)
         /\ \A r \in refs \ here : /\ r.at \in DOMAIN filled' <=> r.at \in DOMAIN filled
                                   /\ r.at \in DOMAIN filled => filled'[r.at] = filled[r.at]
  <1>1. filled' = [p \in DOMAIN filled \cup {r.at : r \in here} |->
                     IF \E r \in here : r.at = p THEN ToBigEndian(v, w) ELSE filled[p]]
    BY DEF Fill
  <1>2. ASSUME NEW r \in refs \ here PROVE ~\E q \in here : q.at = r.at
    BY DEF GapsApart
  <1> QED
    BY <1>1, <1>2

\* Behind the loop over the items nothing that the positions depend on changes.
LEMMA LaterFacts ==
  ASSUME asm' = asm, UNCHANGED <<sizing, tagPositions, refs>>
  PROVE  /\ ret' = ret /\ (Undercounted' <=> Undercounted) /\ (SizesAre32Bit' <=> SizesAre32Bit)
         /\ SubTotals' = SubTotals /\ SizeOfSubs' = SizeOfSubs /\ DataCounted' = DataCounted
         /\ running' = running /\ bytesPerDataRef' = bytesPerDataRef
         /\ \A r : TargetSize(r)' = TargetSize(r) /\ PositionsFor(r)' = PositionsFor(r)
  <1>1. ret' = ret /\ running' = running /\ bytesPerDataRef' = bytesPerDataRef /\ tagSize' = tagSize
    BY DEF ret, sizing
  <1>2. Undercounted' <=> Undercounted
    BY <1>1 DEF Undercounted
  <1>3. SubTotals' = SubTotals
    BY DEF SubTotals
  <1>4. SizeOfSubs' = SizeOfSubs
    BY <1>3 DEF SizeOfSubs
  <1>5. SizesAre32Bit' <=> SizesAre32Bit
    BY <1>1, <1>4 DEF SizesAre32Bit, BytesRequiredIncludingData
  <1>6. DataCounted' = DataCounted
    BY <1>1 DEF DataCounted, CountedBefore
  <1>7. \A r : TargetSize(r)' = TargetSize(r) /\ PositionsFor(r)' = PositionsFor(r)
    BY DEF TargetSize, PositionsFor
  <1> QED
    BY <1>1, <1>2, <1>3, <1>4, <1>5, <1>6, <1>7

\* A place within the estimate fits the gaps for data and subassemblies.
LEMMA PlaceFits ==
  ASSUME LayoutInv, SumsGrow, phase # "estimate", SizesAre32Bit,
         NEW v \in Nat, v <= BytesRequiredIncludingData(ret)
  PROVE  ToBigEndian(v, bytesPerDataRef) = v
  <1> DEFINE all == BytesRequiredIncludingData(ret)
  <1>1. all \in Nat /\ bytesPerDataRef = Width(all) /\ all < 16777216 * 256 /\ v <= all
    BY SumsAreNumbers DEF SizesAre32Bit
  <1> HIDE DEF all
  <1>2. Width(v) <= Width(all) /\ Width(v) \in Nat /\ Width(all) \in Nat
    BY <1>1, WidthMonotone
  <1> QED
    BY <1>1, <1>2, NotCut

\* What gaps refer to has a size.
LEMMA TargetIsNat ==
  ASSUME LayoutInv, GapsApart, NEW q \in refs, q.type \in {"PushData", "PushSub"}
  PROVE  TargetSize(q) \in Nat
  <1>1. CASE q.type = "PushData"
    <2>1. q.n \in 1..Len(asm.data)
      BY <1>1 DEF GapsApart
    <2>2. asm.data \in Seq(Nat)
      BY Numbers
    <2>3. asm.data[q.n] \in Nat
      BY <2>1, <2>2
    <2> QED
      BY <1>1, <2>3 DEF TargetSize
  <1>2. CASE q.type = "PushSub"
    <2>1. q.n \in 1..Len(asm.subs) /\ IsSub(asm.subs[q.n])
      BY <1>2, Numbers DEF GapsApart
    <2> QED
      BY <1>2, <2>1 DEF TargetSize, IsSub
  <1> QED
    BY <1>1, <1>2

\* Appending data or a subassembly where its gaps say.
LEMMA Placing ==
  ASSUME LayoutInv, SumsGrow, GapsApart, FilledInTurn, FilledRight,
         phase \in {"subs", "data"}, phase' = phase,
         asm' = asm, UNCHANGED <<sizing, tagPositions, refs>>,
         asm.subs # << >> \/ asm.data # << >>,
         NEW type \in {"PushSub", "PushData"}, NEW here \in SUBSET refs,
         \A r \in here : r.type = type /\ r.n = k,
         filled' = Fill(here, bytesPerDataRef, size),
         ~Undercounted => size <= BytesRequiredIncludingData(ret),
         NEW t \in Nat, \A r \in here : TargetSize(r) = t, size' = size + t,
         links \subseteq links',
         type = "PushSub" => \A p \in asm.subs[k].links : p + size \in links' /\ p \in Nat
  PROVE  FilledRight'
  <1>1. size \in Nat
    BY Numbers
  <1>2. here \in SUBSET refs /\ \A r \in here : r.type = type /\ r.n = k
    OBVIOUS
  <1>3. SUFFICES ASSUME SizesAre32Bit', ~Undercounted', NEW r \in refs', r.at \in DOMAIN filled'
                 PROVE  Held(r)'
    BY DEF FilledRight
  <1>4. SizesAre32Bit /\ ~Undercounted /\ refs' = refs
    BY <1>3, LaterFacts
  <1>5. \A q : TargetSize(q)' = TargetSize(q) /\ PositionsFor(q)' = PositionsFor(q)
    BY LaterFacts
  <1>6. ToBigEndian(size, bytesPerDataRef) = size
    BY <1>1, <1>4, PlaceFits
  <1>7. /\ \A q \in here : q.at \in DOMAIN filled' /\ filled'[q.at] = size
        /\ \A q \in refs \ here : /\ q.at \in DOMAIN filled' <=> q.at \in DOMAIN filled
                                  /\ q.at \in DOMAIN filled => filled'[q.at] = filled[q.at]
    <2>1. /\ DOMAIN filled' = DOMAIN filled \cup {q.at : q \in here}
          /\ \A q \in here : filled'[q.at] = ToBigEndian(size, bytesPerDataRef)
          /\ \A q \in refs \ here : /\ q.at \in DOMAIN filled' <=> q.at \in DOMAIN filled
                                    /\ q.at \in DOMAIN filled => filled'[q.at] = filled[q.at]
      BY FillFacts
    <2> QED
      BY <1>6, <2>1
  <1>8. Behind' = 0 /\ Behind = 0
    BY DEF Behind
  <1>9. \A q \in refs : q.at < size
    BY DEF GapsApart
  <1>10. \A q \in refs : q.at \in DOMAIN filled => Held(q)
    BY <1>4 DEF FilledRight
  <1>11. \A q \in refs : q.type \in {"PushData", "PushSub"} => TargetSize(q) \in Nat
    BY TargetIsNat
  <1>12. \A q \in refs \ here : q.type \in {"PushData", "PushSub"} /\ q.at \in DOMAIN filled =>
           /\ filled[q.at] \in Nat /\ filled[q.at] + TargetSize(q) <= size
           /\ TargetSize(q) \in Nat
    BY <1>8, <1>1, <1>10, <1>11 DEF Held, PlaceHeld
  <1>13. CASE r \in here
    <2>1. r.type = type /\ r.n = k /\ filled'[r.at] = size /\ TargetSize(r) = t
      BY <1>2, <1>7, <1>13
    <2>2. filled'[r.at] \in Nat /\ filled'[r.at] + TargetSize(r)' + Behind' <= size'
      BY <1>1, <1>5, <1>8, <2>1
    <2>3. \A q \in refs : q.at < filled'[r.at]
      BY <1>9, <2>1
    <2>4. ASSUME NEW q \in refs, q.type \in {"PushData", "PushSub"}, q.at \in DOMAIN filled'
          PROVE  \/ filled'[r.at] + TargetSize(r)' <= filled'[q.at]
                 \/ filled'[q.at] + TargetSize(q)' <= filled'[r.at]
                 \/ q.type = r.type /\ q.n = r.n
      <3>1. CASE q \in here
        BY <1>2, <2>1, <3>1
      <3>2. CASE q \notin here
        BY <1>5, <1>7, <1>12, <2>1, <2>4, <3>2
      <3> QED
        BY <3>1, <3>2
    <2>5. ASSUME r.type = "PushSub"
          PROVE  {filled'[r.at] + p : p \in asm.subs[r.n].links} \subseteq links'
      BY <1>1, <2>1, <2>5
    <2>6. PlaceHeld(r)'
      BY <1>4, <2>2, <2>3, <2>4, <2>5 DEF PlaceHeld
    <2> QED
      BY <2>1, <2>6 DEF Held
  <1>14. CASE r \notin here
    <2>1. r \in refs /\ r.at \in DOMAIN filled /\ filled'[r.at] = filled[r.at] /\ Held(r)
      BY <1>3, <1>4, <1>7, <1>10, <1>14
    <2>2. r.type = "PushTag" => filled'[r.at] = PositionsFor(r)'[r.n]
      BY <1>5, <2>1 DEF Held
    <2>3. r.type # "PushProgramSize"
      BY <2>1 DEF FilledInTurn
    <2>4. ASSUME r.type \in {"PushData", "PushSub"} PROVE PlaceHeld(r)'
      <3>1. PlaceHeld(r)
        BY <2>1, <2>4 DEF Held
      <3>2. filled[r.at] \in Nat /\ filled[r.at] + TargetSize(r) <= size /\ TargetSize(r) \in Nat
        BY <1>12, <1>14, <2>1, <2>4
      <3>3. filled'[r.at] \in Nat /\ filled'[r.at] + TargetSize(r)' + Behind' <= size'
        BY <1>1, <1>5, <1>8, <2>1, <3>2
      <3>4. \A q \in refs : q.at < filled'[r.at]
        BY <2>1, <3>1 DEF PlaceHeld
      <3>5. ASSUME NEW q \in refs, q.type \in {"PushData", "PushSub"}, q.at \in DOMAIN filled'
            PROVE  \/ filled'[r.at] + TargetSize(r)' <= filled'[q.at]
                   \/ filled'[q.at] + TargetSize(q)' <= filled'[r.at]
                   \/ q.type = r.type /\ q.n = r.n
        <4>1. CASE q \in here
          BY <1>5, <1>7, <2>1, <3>2, <4>1
        <4>2. CASE q \notin here
          <5>1. q.at \in DOMAIN filled /\ filled'[q.at] = filled[q.at]
            BY <1>7, <3>5, <4>2
          <5> QED
            BY <1>5, <2>1, <3>1, <3>5, <5>1 DEF PlaceHeld
        <4> QED
          BY <4>1, <4>2
      <3>6. ASSUME r.type = "PushSub"
            PROVE  {filled'[r.at] + p : p \in asm.subs[r.n].links} \subseteq links'
        BY <2>1, <3>1, <3>6 DEF PlaceHeld
      <3> QED
        BY <1>4, <3>3, <3>4, <3>5, <3>6 DEF PlaceHeld
    <2> QED
      BY <2>2, <2>3, <2>4 DEF Held
  <1> QED
    BY <1>13, <1>14


\* What an item needs in the code: room for the gap and for a library's address.
LEMMA ItemSizes ==
  ASSUME LayoutInv, AtItem
  PROVE  /\ k \in 1..Len(asm.items) /\ This \in Item /\ Written(This) \in Nat
         /\ This.type \in {"PushTag", "PushData", "PushSub", "PushProgramSize"} => Written(This) >= 1
         /\ This.type = "PushLibraryAddress" => Written(This) = 21
         /\ This.type = "PushData" => This.n \in 1..Len(asm.data)
         /\ This.type = "PushSub" => This.n \in 1..Len(asm.subs)
  <1>1. k \in 1..Len(asm.items) /\ bytesPerTag \in Nat /\ bytesPerDataRef \in Nat
    BY Numbers DEF AtItem
  <1>2. This \in Item
    BY <1>1, Numbers, ItemOfAssembly DEF This
  <1>3. Written(This) \in Nat
    BY <1>1, Numbers, WrittenIsNat DEF This
  <1>4. /\ This.type = "PushData" => This.n \in 1..Len(asm.data)
        /\ This.type = "PushSub" => This.n \in 1..Len(asm.subs)
    <2>1. asm \in Assemblies
      BY Numbers
    <2> QED
      BY <1>1, <2>1, AssembliesAssumption DEF This
  <1>5. This.type \in {"PushTag", "PushData", "PushSub", "PushProgramSize"} => Written(This) >= 1
    BY <1>1 DEF Written
  <1>6. This.type = "PushLibraryAddress" => Written(This) = 21
    BY DEF Written
  <1> QED
    BY <1>1, <1>2, <1>3, <1>4, <1>5, <1>6

\* The loop over the items writes gaps and link references one behind the other.
LEMMA GapsWritten ==
  ASSUME LayoutInv, GapsApart, LinksApart, phase' = "items", asm' = asm,
         NEW w \in Nat, size' = size + w,
         \/ refs' = refs /\ links' = links
         \/ refs' = refs /\ links' = links \cup {size + 1} /\ w = 21
         \/ /\ links' = links /\ w >= 1
            /\ \E new : /\ refs' = refs \cup {new} /\ new.at = size + 1
                        /\ new.type \in {"PushTag", "PushData", "PushSub", "PushProgramSize"}
                        /\ new.type = "PushData" => new.n \in 1..Len(asm.data)
                        /\ new.type = "PushSub" => new.n \in 1..Len(asm.subs)
  PROVE  GapsApart' /\ LinksApart'
  <1>1. size \in Nat
    BY Numbers
  <1>2. \A r \in refs : r.at \in Nat /\ r.at <= size
    BY DEF GapsApart
  <1>3. \A p \in links : p \in Nat /\ p + 20 <= size
    BY DEF LinksApart
  <1>4. CASE refs' = refs /\ links' = links
    <2>1. GapsApart'
      <3>1. \A r \in refs : r.at \in Nat /\ r.at <= size'
        BY <1>1, <1>2
      <3>2. asm' = asm /\ phase' = "items" /\ refs' = refs
        BY <1>4
      <3> QED
        BY <3>1, <3>2 DEF GapsApart
    <2>2. LinksApart'
      BY <1>1, <1>3, <1>4 DEF LinksApart
    <2> QED
      BY <2>1, <2>2
  <1>5. CASE refs' = refs /\ links' = links \cup {size + 1} /\ w = 21
    <2>1. GapsApart'
      <3>1. \A r \in refs : r.at \in Nat /\ r.at <= size'
        BY <1>1, <1>2
      <3>2. asm' = asm /\ phase' = "items" /\ refs' = refs
        BY <1>5
      <3> QED
        BY <3>1, <3>2 DEF GapsApart
    <2>2. \A p \in links' : p \in Nat /\ p + 20 <= size'
      BY <1>1, <1>3, <1>5
    <2>3. \A p, q \in links' : p # q => p + 20 <= q \/ q + 20 <= p
      <3>1. \A p, q \in links : p # q => p + 20 <= q \/ q + 20 <= p
        BY DEF LinksApart
      <3>2. \A p \in links : p + 20 <= size + 1
        BY <1>1, <1>3
      <3> QED
        BY <1>5, <3>1, <3>2
    <2>4. \A p \in links' : \A r \in refs : p + 20 <= r.at \/ r.at < p
      <3>1. \A p \in links : \A r \in refs : p + 20 <= r.at \/ r.at < p
        BY DEF LinksApart
      <3>2. \A r \in refs : r.at < size + 1
        BY <1>1, <1>2
      <3> QED
        BY <1>5, <3>1, <3>2
    <2> QED
      BY <1>5, <2>1, <2>2, <2>3, <2>4 DEF LinksApart
  <1>6. ASSUME NEW new, links' = links, w >= 1, refs' = refs \cup {new}, new.at = size + 1,
               new.type \in {"PushTag", "PushData", "PushSub", "PushProgramSize"},
               new.type = "PushData" => new.n \in 1..Len(asm.data),
               new.type = "PushSub" => new.n \in 1..Len(asm.subs)
        PROVE  GapsApart' /\ LinksApart'
    <2>1. size + 1 \in Nat /\ size + 1 <= size' /\ size <= size' /\ size' \in Nat
      BY <1>1, <1>6
    <2>2. \A r \in refs' : r.at \in Nat /\ r.at <= size'
      BY <1>1, <1>2, <1>6, <2>1
    <2>3. \A r \in refs : r.at # new.at
      BY <1>1, <1>2, <1>6
    <2>4. \A r, q \in refs' : r.at = q.at => r = q
      BY <1>6, <2>3 DEF GapsApart
    <2>5. \A r \in refs' : /\ r.type \in {"PushTag", "PushData", "PushSub", "PushProgramSize"}
                           /\ r.type = "PushData" => r.n \in 1..Len(asm.data)
                           /\ r.type = "PushSub" => r.n \in 1..Len(asm.subs)
      BY <1>6 DEF GapsApart
    <2>6. GapsApart'
      BY <2>2, <2>4, <2>5 DEF GapsApart
    <2>7. \A p \in links' : p \in Nat /\ p + 20 <= size'
      BY <1>1, <1>3, <1>6, <2>1
    <2>8. \A p \in links' : \A r \in refs' : p + 20 <= r.at \/ r.at < p
      <3>1. \A p \in links : \A r \in refs : p + 20 <= r.at \/ r.at < p
        BY DEF LinksApart
      <3>2. \A p \in links : p + 20 <= size + 1
        BY <1>1, <1>3
      <3> QED
        BY <1>6, <3>1, <3>2
    <2>9. \A p, q \in links' : p # q => p + 20 <= q \/ q + 20 <= p
      BY <1>6 DEF LinksApart
    <2> QED
      BY <2>6, <2>7, <2>8, <2>9 DEF LinksApart
  <1> QED
    BY <1>4, <1>5, <1>6

\* As long as no reference is undercounted an item takes no more room than was counted.
LEMMA ItemsRoom ==
  ASSUME LayoutInv, SumsGrow, RoomLeft, AtItem, asm' = asm, UNCHANGED sizing,
         phase' = "items", k' = k + 1, size' = size + Written(This), refs \subseteq refs',
         This.type \in {"PushData", "PushSub"} => \E r \in refs' : r.type = This.type
  PROVE  RoomLeft'
  <1>1. SUFFICES ASSUME ~Undercounted' PROVE size' + DataCounted' <= CountedBefore(k)'
    BY DEF RoomLeft
  <1>2. running' = running /\ bytesPerDataRef' = bytesPerDataRef /\ tagSize' = tagSize
    BY DEF sizing
  <1>3. ~Undercounted
    BY <1>1, <1>2 DEF Undercounted
  <1>4. phase = "items" /\ k \in 1..Len(asm.items) /\ asm.items[k] = This
    BY ItemSizes DEF AtItem, This
  <1>5. bytesPerTag <= tagSize /\ bytesPerDataRef <= 4 /\ bytesPerTag \in Nat
        /\ tagSize \in Nat /\ bytesPerDataRef \in Nat
    BY <1>4 DEF LayoutInv, WidthsChosen, Types
  <1>6. asm.items[k].type \in {"PushData", "PushSub"} => bytesPerDataRef <= tagSize
    BY <1>1, <1>2, <1>4, <1>5 DEF Undercounted
  <1>7. Written(This) \in Nat /\ Written(This) <= BytesRequired(This, tagSize)
    BY <1>4, <1>5, <1>6, Numbers, WrittenAtMostCounted
  <1>8. /\ CountedBefore(k) \in Nat /\ BytesRequired(This, tagSize) \in Nat
        /\ CountedBefore(k + 1) = CountedBefore(k) + BytesRequired(This, tagSize)
    BY <1>4, SumOfItem DEF AtItem
  <1>9. size + DataCounted <= CountedBefore(k)
    BY <1>3, <1>4 DEF RoomLeft
  <1>10. size \in Nat /\ DataCounted \in Nat
    BY <1>4, Numbers, SumsAreNumbers
  <1>11. CountedBefore(k)' = CountedBefore(k + 1) /\ DataCounted' = DataCounted
    BY <1>2 DEF CountedBefore, DataCounted
  <1>12. (size + Written(This)) + DataCounted <= CountedBefore(k + 1)
    BY <1>7, <1>8, <1>9, <1>10
  <1> QED
    BY <1>11, <1>12

LEMMA ItemsGaps ==
  ASSUME LayoutInv, GapsKept, WriteItem \/ WriteTag
  PROVE  GapsKept'
  <1> DEFINE new == [at |-> size + 1, type |-> This.type, n |-> This.n, sub |-> This.sub]
  <1>1. /\ AtItem /\ asm' = asm /\ UNCHANGED sizing /\ phase' = phase /\ phase = "items"
        /\ k' = k + 1 /\ filled' = filled
    BY DEF WriteItem, WriteTag, AtItem
  <1>2. size' = size + Written(This)
    BY DEF WriteItem, WriteTag, Written
  <1>3. refs \subseteq refs'
        /\ (This.type \in {"PushData", "PushSub"} => \E r \in refs' : r.type = This.type)
    <2>1. refs' = refs \/ refs' = refs \cup {new}
      BY DEF WriteItem, WriteTag
    <2>2. This.type \in {"PushData", "PushSub"} => refs' = refs \cup {new}
      BY DEF WriteItem, WriteTag
    <2>3. new.type = This.type
      OBVIOUS
    <2> HIDE DEF new
    <2> QED
      BY <2>1, <2>2, <2>3
  <1>4. RoomLeft'
    BY <1>1, <1>2, <1>3, ItemsRoom DEF GapsKept
  <1>5. GapsApart' /\ LinksApart'
    <2>1. \/ refs' = refs /\ links' = links
          \/ refs' = refs /\ links' = links \cup {size + 1} /\ Written(This) = 21
          \/ /\ links' = links /\ Written(This) >= 1
             /\ refs' = refs \cup {new} /\ new.at = size + 1
             /\ new.type \in {"PushTag", "PushData", "PushSub", "PushProgramSize"}
             /\ new.type = "PushData" => new.n \in 1..Len(asm.data)
             /\ new.type = "PushSub" => new.n \in 1..Len(asm.subs)
      <3>1. CASE WriteTag
        BY <3>1 DEF WriteTag
      <3>2. CASE WriteItem /\ This.type \in {"PushTag", "PushData", "PushSub", "PushProgramSize"}
        <4>1. refs' = refs \cup {new} /\ links' = links
          BY <3>2 DEF WriteItem
        <4> QED
          BY <1>1, <3>2, <4>1, ItemSizes
      <3>3. CASE WriteItem /\ This.type = "PushLibraryAddress"
        <4>1. refs' = refs /\ links' = links \cup {size + 1}
          BY <3>3 DEF WriteItem
        <4> QED
          BY <1>1, <3>3, <4>1, ItemSizes
      <3>4. CASE WriteItem /\ ~(This.type \in {"PushTag", "PushData", "PushSub", "PushProgramSize",
                                                "PushLibraryAddress"})
        BY <3>4 DEF WriteItem
      <3> QED
        BY <3>1, <3>2, <3>3, <3>4
    <2>2. Written(This) \in Nat /\ phase' = "items"
      BY <1>1, ItemSizes
    <2> HIDE DEF new
    <2> QED
      BY <1>1, <1>2, <2>1, <2>2, GapsWritten DEF GapsKept
  <1>6. SumsGrow' /\ LoopsWithin'
    <2>1. running' = running /\ ret' = ret /\ bytesPerDataRef' = bytesPerDataRef
      BY <1>1 DEF sizing, ret
    <2>2. BytesRequiredIncludingData(ret)' = BytesRequiredIncludingData(ret)
      BY <1>1, <2>1 DEF BytesRequiredIncludingData, SizeOfSubs, SubTotals
    <2> QED
      BY <1>1, <2>1, <2>2 DEF GapsKept, SumsGrow, LoopsWithin
  <1>7. FilledInTurn' /\ FilledRight'
    BY <1>1 DEF GapsKept, FilledInTurn, FilledRight
  <1> QED
    BY <1>4, <1>5, <1>6, <1>7 DEF GapsKept


LEMMA CountingGaps ==
  ASSUME LayoutInv, GapsKept, CountPart \/ TryWider
  PROVE  GapsKept'
  <1>1. /\ asm' = asm /\ phase = "estimate" /\ phase' = "estimate" /\ k' = k /\ size' = size
        /\ refs' = refs /\ filled' = filled /\ links' = links
    BY DEF CountPart, TryWider
  <1>2. SumsGrow'
    <2>1. CASE CountPart
      <3>1. Len(running) \in 1..Parts
        <4>1. Len(running) <= Parts /\ Parts \in Nat
          BY <2>1, Numbers, PartsIsNat DEF CountPart
        <4>2. Len(running) \in Nat /\ Len(running) >= 1
          BY Numbers
        <4> QED
          BY <4>1, <4>2
      <3>2. Needed(Len(running)) \in Nat
        BY <3>1, Numbers, NeededIsNat
      <3> DEFINE x == ret + Needed(Len(running))
                 l == Len(running)
      <3>3. x \in Nat /\ ret <= x
        BY SMTT(30), <3>2, Numbers
      <3>4. running' = Append(running, x)
        BY <2>1 DEF CountPart
      <3> HIDE DEF x
      <3>5. running \in Seq(Nat) /\ l \in Nat /\ l >= 1
        BY Numbers
      <3>6. /\ Len(running') = l + 1 /\ running'[l + 1] = x
            /\ \A j \in 1..l : running'[j] = running[j]
        BY <3>3, <3>4, <3>5
      <3>7. \A j \in 1..l : running[j] \in Nat
        BY <3>5
      <3>8. \A j \in 1..l : running[j] <= ret
        BY DEF LayoutInv, SumsCounted
      <3>9. ret \in Nat
        BY Numbers
      <3>10. \A j \in 1..l : running'[j] <= x
        BY <3>3, <3>6, <3>7, <3>8, <3>9
      <3>11. running'[1] = 1
        <4>1. 1 \in 1..l
          BY <3>5
        <4> QED
          BY <3>6, <4>1 DEF GapsKept, SumsGrow
      <3>12. \A i, j \in 1..l : i <= j => running'[i] <= running'[j]
        <4>1. \A i, j \in 1..l : i <= j => running[i] <= running[j]
          BY DEF GapsKept, SumsGrow
        <4> QED
          BY <3>6, <4>1
      <3> HIDE DEF l
      <3>13. ASSUME NEW i \in 1..(l + 1), NEW j \in 1..(l + 1), i <= j
             PROVE  running'[i] <= running'[j]
        <4>1. CASE j \in 1..l
          <5>1. i \in 1..l
            BY <3>5, <3>13, <4>1
          <5> QED
            BY <3>12, <3>13, <4>1, <5>1
        <4>2. CASE j = l + 1 /\ i \in 1..l
          BY <3>6, <3>10, <4>2
        <4>3. CASE j = l + 1 /\ i = l + 1
          BY <3>3, <3>6, <4>3
        <4> QED
          BY <3>5, <4>1, <4>2, <4>3
      <3> QED
        BY <1>1, <3>6, <3>11, <3>13 DEF SumsGrow
    <2>2. CASE TryWider
      <3>1. running' = <<1>>
        BY <2>2 DEF TryWider
      <3>2. Len(running') = 1 /\ running'[1] = 1
        BY <3>1
      <3>3. \A i, j \in 1..1 : running'[i] <= running'[j]
        BY <3>2
      <3> QED
        BY <1>1, <3>2, <3>3 DEF SumsGrow
    <2> QED
      BY <2>1, <2>2
  <1>3. LoopsWithin' /\ RoomLeft'
    BY <1>1 DEF LoopsWithin, RoomLeft
  <1>4. GapsApart' /\ FilledInTurn' /\ LinksApart'
    BY <1>1 DEF GapsKept, GapsApart, FilledInTurn, LinksApart
  <1>5. FilledRight'
    BY <1>1 DEF GapsKept, FilledRight, FilledInTurn
  <1> QED
    BY <1>2, <1>3, <1>4, <1>5 DEF GapsKept

LEMMA EstimatedGaps ==
  ASSUME LayoutInv, LayoutInv', GapsKept, Estimated
  PROVE  GapsKept'
  <1>1. /\ asm' = asm /\ phase = "estimate" /\ phase' = "items" /\ k' = 1 /\ size' = size
        /\ refs' = refs /\ filled' = filled /\ links' = links /\ running' = running
        /\ bytesPerDataRef' = Width(BytesRequiredIncludingData(ret))
    BY DEF Estimated
  <1>2. SumsGrow'
    <2>1. BytesRequiredIncludingData(ret)' = BytesRequiredIncludingData(ret)
      BY <1>1 DEF BytesRequiredIncludingData, SizeOfSubs, SubTotals, ret
    <2> QED
      BY <1>1, <2>1 DEF GapsKept, SumsGrow
  <1>3. RoomLeft'
    <2>1. size' = 0
      BY <1>1 DEF LayoutInv, NothingYet
    <2>2. DataCounted' \in Nat
      <3>1. Len(running') = Parts' + 1 /\ Parts' = Parts
        BY <1>1 DEF LayoutInv, WidthsChosen, Parts
      <3>2. Len(running) = Parts + 1 /\ running \in Seq(Nat)
        BY <1>1, <3>1, Numbers
      <3> DEFINE d == Len(asm.data)
                 n == Len(asm.items)
      <3>3. d \in Nat /\ n \in Nat /\ Len(running) = (d + n) + 1
        BY <3>2, Numbers DEF Parts
      <3> HIDE DEF d, n
      <3>4. d + 1 \in 1..Len(running)
        BY <3>3
      <3>5. running[d + 1] \in Nat
        BY <3>2, <3>4
      <3> QED
        BY <1>1, <3>5 DEF DataCounted, CountedBefore, d
    <2>3. CountedBefore(k)' = DataCounted'
      BY <1>1 DEF CountedBefore, DataCounted
    <2>4. size' + DataCounted' <= CountedBefore(k)'
      <3> DEFINE D == DataCounted'
      <3>1. D \in Nat
        BY <2>2
      <3> HIDE DEF D
      <3>2. 0 + D <= D
        BY <3>1
      <3> QED
        BY <2>1, <2>3, <3>2 DEF D
    <2> QED
      BY <1>1, <2>4 DEF RoomLeft
  <1>4. LoopsWithin'
    BY <1>1 DEF LoopsWithin
  <1>5. GapsApart' /\ FilledInTurn' /\ LinksApart'
    BY <1>1 DEF GapsKept, GapsApart, FilledInTurn, LinksApart
  <1>6. FilledRight'
    BY <1>1 DEF GapsKept, FilledRight, FilledInTurn
  <1> QED
    BY <1>2, <1>3, <1>4, <1>5, <1>6 DEF GapsKept

LEMMA InitGaps ==
  ASSUME AsmInit
  PROVE  GapsKept
  <1>1. /\ phase = "estimate" /\ running = <<1>> /\ size = 0 /\ refs = {} /\ links = {}
        /\ DOMAIN filled = {}
    BY DEF AsmInit
  <1>2. SumsGrow
    <2>1. Len(running) = 1 /\ running[1] = 1
      BY <1>1
    <2>2. \A i, j \in 1..1 : running[i] <= running[j]
      BY <2>1
    <2> QED
      BY <1>1, <2>1, <2>2 DEF SumsGrow
  <1> QED
    BY <1>1, <1>2 DEF GapsKept, LoopsWithin, RoomLeft, GapsApart, FilledInTurn, FilledRight, LinksApart

\* Steps behind the loop over the items keep what sums and gaps say.
LEMMA LaterSums ==
  ASSUME LayoutInv, GapsKept, asm' = asm, UNCHANGED <<sizing, tagPositions, refs>>,
         phase # "estimate", phase' # "estimate"
  PROVE  SumsGrow'
  <1>1. ret' = ret /\ running' = running /\ bytesPerDataRef' = bytesPerDataRef /\ SizeOfSubs' = SizeOfSubs
    BY LaterFacts
  <1>2. BytesRequiredIncludingData(ret)' = BytesRequiredIncludingData(ret)
    BY <1>1 DEF BytesRequiredIncludingData
  <1> QED
    BY <1>1, <1>2 DEF GapsKept, SumsGrow

LEMMA LaterGaps ==
  ASSUME LayoutInv, GapsKept, asm' = asm, refs' = refs,
         NEW t \in Nat, size' = size + t,
         \/ phase \notin {"estimate", "items", "invalidTag"}
         \/ phase' = "invalidTag"
         \/ asm.subs # << >> \/ asm.data # << >> => t >= 1
  PROVE  GapsApart'
  <1>1. size \in Nat
    BY Numbers
  <1>2. size \in Nat /\ \A r \in refs : r.at \in Nat /\ r.at <= size
    BY <1>1 DEF GapsKept, GapsApart
  <1> DEFINE s == size
             u == size'
  <1>3. s \in Nat /\ u \in Nat /\ s <= u /\ (t >= 1 => s < u)
    BY <1>1
  <1> HIDE DEF s, u
  <1>4. \A r \in refs : r.at \in Nat /\ r.at <= s
    BY <1>2 DEF s
  <1>5. \A r \in refs : r.at <= u
    BY <1>3, <1>4
  <1>6. ASSUME phase' \notin {"estimate", "items", "invalidTag"}, asm.subs # << >> \/ asm.data # << >>
        PROVE  \A r \in refs : r.at < u
    <2>1. CASE phase \notin {"estimate", "items", "invalidTag"}
      <3>1. \A r \in refs : r.at < s
        BY <1>6, <2>1 DEF GapsKept, GapsApart, s
      <3> QED
        BY <1>3, <1>4, <3>1
    <2>2. CASE t >= 1
      BY <1>3, <1>4, <2>2
    <2> QED
      BY <1>6, <2>1, <2>2
  <1>7. asm' = asm /\ refs' = refs /\ size' = u
    BY DEF u
  <1> QED
    BY <1>4, <1>5, <1>6, <1>7 DEF GapsKept, GapsApart

LEMMA EndItemsGaps ==
  ASSUME LayoutInv, GapsKept, EndItems
  PROVE  GapsKept'
  <1>1. /\ asm' = asm /\ phase = "items" /\ phase' = "subs" /\ k' = 1 /\ k > Len(asm.items)
        /\ UNCHANGED <<sizing, tagPositions, refs>> /\ filled' = filled /\ links' = links
        /\ refs' = refs
    BY DEF EndItems
  <1> DEFINE t == IF asm.subs # << >> \/ asm.data # << >> \/ asm.aux > 0 THEN 1 ELSE 0
  <1>2. t \in Nat /\ t <= 1 /\ (asm.subs # << >> \/ asm.data # << >> => t >= 1)
    OBVIOUS
  <1>3. size' = size + t
    BY Numbers DEF EndItems
  <1> HIDE DEF t
  <1>4. GapsApart'
    BY <1>1, <1>2, <1>3, LaterGaps
  <1>5. SumsGrow'
    BY <1>1, LaterSums
  <1>6. LoopsWithin'
    BY <1>1, Numbers DEF LoopsWithin
  <1>7. RoomLeft'
    <2>1. SUFFICES ASSUME ~Undercounted' PROVE size' + DataCounted' <= ret' + 1 + SubTotals'[k' - 1]
      BY <1>1 DEF RoomLeft
    <2>2. /\ ~Undercounted /\ ret' = ret /\ SubTotals' = SubTotals /\ DataCounted' = DataCounted
      BY <1>1, <2>1, LaterFacts
    <2>3. k = Len(asm.items) + 1
      <3>1. k \in 1..(Len(asm.items) + 1) /\ Len(asm.items) \in Nat
        BY <1>1, Numbers DEF LayoutInv, WrittenWithinCount
      <3> QED
        BY <1>1, <3>1
    <2>4. CountedBefore(k) = ret
      <3>1. Len(running) = Len(asm.data) + Len(asm.items) + 1
        BY <1>1 DEF LayoutInv, WidthsChosen, Parts
      <3> DEFINE d == Len(asm.data)
                 n == Len(asm.items)
      <3>2. d \in Nat /\ n \in Nat /\ k = n + 1 /\ Len(running) = d + n + 1
        BY <2>3, <3>1, Numbers
      <3> HIDE DEF d, n
      <3>3. d + k = Len(running)
        BY <3>2
      <3> QED
        BY <3>3 DEF CountedBefore, ret, d
    <2>5. size + DataCounted <= ret
      BY <1>1, <2>2, <2>4 DEF GapsKept, RoomLeft
    <2>6. SubTotals[0] = 0 /\ k' - 1 = 0
      BY <1>1, Numbers, TotalsOfSubs
    <2>7. size \in Nat /\ ret \in Nat /\ DataCounted \in Nat
      BY <1>1, Numbers, SumsAreNumbers DEF GapsKept
    <2>8. (size + t) + DataCounted <= ret + 1 + 0
      BY <1>2, <2>5, <2>7
    <2> QED
      BY <1>3, <2>2, <2>6, <2>8
  <1>8. FilledInTurn'
    <2>1. \A r \in refs : r.type = "PushSub" => ~(r.n < 1)
      <3>1. \A r \in refs : r.type = "PushSub" => r.n \in 1..Len(asm.subs)
        BY DEF GapsKept, GapsApart
      <3> QED
        BY <3>1, Numbers
    <2> QED
      BY <1>1, <2>1 DEF GapsKept, FilledInTurn
  <1>9. FilledRight'
    BY <1>1 DEF GapsKept, FilledRight, FilledInTurn
  <1>10. LinksApart'
    <2>1. \A p \in links : p \in Nat /\ p + 20 <= size'
      BY <1>2, <1>3, Numbers DEF GapsKept, LinksApart
    <2> QED
      BY <1>1, <2>1 DEF GapsKept, LinksApart
  <1> QED
    BY <1>4, <1>5, <1>6, <1>7, <1>8, <1>9, <1>10 DEF GapsKept


\* A subassembly is appended where the gaps for it say.
LEMMA AppendSubGaps ==
  ASSUME LayoutInv, GapsKept, AppendSub
  PROVE  GapsKept'
  <1>1. /\ asm' = asm /\ phase = "subs" /\ phase' = "subs" /\ k <= Len(asm.subs) /\ k' = k + 1
        /\ UNCHANGED <<sizing, tagPositions, refs>> /\ refs' = refs
    BY DEF AppendSub
  <1>2. k \in 1..Len(asm.subs) /\ Len(asm.subs) \in Nat
    BY SMTT(30), <1>1, Numbers
  <1>3. /\ asm.subs[k].size \in Nat /\ asm.subs[k].links \subseteq Nat
        /\ \A p \in asm.subs[k].links : p + 20 <= asm.subs[k].size
        /\ \A p, q \in asm.subs[k].links : p # q => p + 20 <= q \/ q + 20 <= p
    BY <1>2, Numbers DEF IsSub
  <1>4. asm.subs # << >>
    BY <1>2
  <1> DEFINE here == RefsTo("PushSub", k)
             t == IF here = {} THEN 0 ELSE asm.subs[k].size
  <1>5. t \in Nat /\ t <= asm.subs[k].size
    BY <1>3
  <1>6. size' = size + t
    BY SMTT(30), Numbers DEF AppendSub
  <1>7. here \in SUBSET refs /\ (\A r \in here : r.type = "PushSub" /\ r.n = k)
        /\ (\A r \in refs : r.type = "PushSub" /\ r.n = k => r \in here)
    BY DEF RefsTo
  <1>8. /\ here = {} => filled' = filled /\ links' = links
        /\ here # {} => /\ filled' = Fill(here, bytesPerDataRef, size)
                        /\ links' = links \cup {p + size : p \in asm.subs[k].links}
                        /\ t = asm.subs[k].size
    BY DEF AppendSub
  <1> HIDE DEF here, t
  <1>9. SumsGrow'
    BY <1>1, LaterSums
  <1>10. LoopsWithin'
    BY <1>1, <1>2 DEF LoopsWithin
  <1>11. ~Undercounted => /\ size + DataCounted <= ret + 1 + SubTotals[k - 1]
                          /\ size <= ret + SizeOfSubs
                          /\ size + t + DataCounted <= ret + 1 + SubTotals[k]
    <2>1. ASSUME ~Undercounted PROVE size + DataCounted <= ret + 1 + SubTotals[k - 1]
      BY <1>1, <2>1 DEF GapsKept, RoomLeft
    <2>2. /\ k \in 0..Len(asm.subs) /\ k - 1 \in 0..Len(asm.subs)
      BY <1>2
    <2>3. /\ SubTotals[k] = SubTotals[k - 1] + asm.subs[k].size
          /\ SubTotals[k - 1] \in Nat /\ SubTotals[k - 1] <= SizeOfSubs /\ SubTotals[k] \in Nat
      BY <1>2, <2>2, Numbers, TotalsOfSubs
    <2>4. size \in Nat /\ ret \in Nat /\ SizeOfSubs \in Nat /\ DataCounted \in Nat /\ DataCounted >= 1
      BY <1>1, Numbers, SumsAreNumbers DEF GapsKept
    <2> QED
      BY <1>3, <1>5, <2>1, <2>3, <2>4
  <1>12. RoomLeft'
    <2>1. SUFFICES ASSUME ~Undercounted'
                   PROVE size' + DataCounted' <= ret' + 1 + SubTotals'[k' - 1]
      BY <1>1 DEF RoomLeft
    <2>2. /\ ~Undercounted /\ ret' = ret /\ SubTotals' = SubTotals /\ DataCounted' = DataCounted
      BY <1>1, <2>1, LaterFacts
    <2>3. k' - 1 = k
      BY <1>1, <1>2
    <2> QED
      BY <1>6, <1>11, <2>2, <2>3
  <1>13. GapsApart'
    BY <1>1, <1>5, <1>6, LaterGaps
  <1>14. FilledInTurn'
    <2>1. CASE here = {}
      <3>1. \A r \in refs : r.type = "PushSub" /\ r.n < k + 1 => r.n < k
        <4>1. \A r \in refs : r.type = "PushSub" => r.n \in 1..Len(asm.subs) /\ r.n # k
          BY <1>7, <2>1 DEF GapsKept, GapsApart
        <4> QED
          BY <1>2, <4>1
      <3>2. filled' = filled
        BY <1>8, <2>1
      <3> QED
        BY <1>1, <3>1, <3>2 DEF GapsKept, FilledInTurn
    <2>2. CASE here # {}
      <3>1. /\ DOMAIN filled' = DOMAIN filled \cup {r.at : r \in here}
            /\ \A r \in refs \ here : r.at \in DOMAIN filled' <=> r.at \in DOMAIN filled
        BY <1>7, <1>8, <2>2, FillFacts DEF GapsKept
      <3>2. \A r \in refs : r.type = "PushSub" /\ r.n < k + 1 /\ r \notin here => r.n < k
        <4>1. \A r \in refs : r.type = "PushSub" => r.n \in 1..Len(asm.subs)
          BY DEF GapsKept, GapsApart
        <4> QED
          BY <1>2, <1>7, <4>1
      <3>3. DOMAIN filled' \subseteq {r.at : r \in refs}
        BY <1>7, <3>1 DEF GapsKept, FilledInTurn
      <3>4. ASSUME NEW r \in refs PROVE
              /\ r.type = "PushSub" /\ r.n < k + 1 => r.at \in DOMAIN filled'
              /\ r.type = "PushProgramSize" => r.at \notin DOMAIN filled'
        <4>1. CASE r \in here
          BY <1>7, <3>1, <4>1
        <4>2. CASE r \notin here
          BY <1>1, <3>1, <3>2, <4>2 DEF GapsKept, FilledInTurn
        <4> QED
          BY <4>1, <4>2
      <3> QED
        BY <1>1, <3>3, <3>4 DEF FilledInTurn
    <2> QED
      BY <2>1, <2>2
  <1>15. FilledRight'
    <2>1. CASE here = {}
      <3>1. size' = size /\ filled' = filled /\ links' = links
        BY <1>6, <1>8, <2>1, Numbers DEF t
      <3>2. FilledRight' <=> FilledRight
        <4>1. (SizesAre32Bit' <=> SizesAre32Bit) /\ (Undercounted' <=> Undercounted)
              /\ \A r : TargetSize(r)' = TargetSize(r) /\ PositionsFor(r)' = PositionsFor(r)
          BY <1>1, LaterFacts
        <4> QED
          BY <1>1, <3>1, <4>1 DEF FilledRight, Held, PlaceHeld, Behind
      <3> QED
        BY <3>2 DEF GapsKept
    <2>2. CASE here # {}
      <3>1. \A r \in here : TargetSize(r) = t
        BY <1>7, <1>8, <2>2 DEF TargetSize
      <3>2. ~Undercounted => size <= BytesRequiredIncludingData(ret)
        <4>1. ret \in Nat /\ SizeOfSubs \in Nat /\ asm.aux \in Nat /\ size \in Nat
          BY Numbers
        <4>2. ret + SizeOfSubs <= BytesRequiredIncludingData(ret)
          BY <4>1 DEF BytesRequiredIncludingData
        <4>3. BytesRequiredIncludingData(ret) \in Nat
          BY <4>1 DEF BytesRequiredIncludingData
        <4> QED
          BY <1>11, <4>1, <4>2, <4>3
      <3>3. \A p \in asm.subs[k].links : p + size \in links' /\ p \in Nat
        BY <1>3, <1>8, <2>2
      <3>4. links \subseteq links' /\ phase \in {"subs", "data"} /\ phase' = phase
        BY <1>1, <1>8, <2>2
      <3>5. filled' = Fill(here, bytesPerDataRef, size) /\ "PushSub" \in {"PushSub", "PushData"}
        BY <1>8, <2>2
      <3> QED
        BY <1>1, <1>4, <1>5, <1>6, <1>7, <3>1, <3>2, <3>3, <3>4, <3>5, Placing DEF GapsKept
    <2> QED
      BY <2>1, <2>2
  <1>16. LinksApart'
    <2> DEFINE s == size
               new == {p + s : p \in asm.subs[k].links}
    <2>1. s \in Nat /\ \A p \in links : p \in Nat /\ p + 20 <= s
      BY Numbers DEF GapsKept, LinksApart
    <2>2. \A r \in refs : r.at \in Nat /\ r.at < s
      BY <1>1, <1>4 DEF GapsKept, GapsApart
    <2>3. /\ \A p, q \in links : p # q => p + 20 <= q \/ q + 20 <= p
          /\ \A p \in links : \A r \in refs : p + 20 <= r.at \/ r.at < p
      BY DEF GapsKept, LinksApart
    <2>4. CASE here = {}
      <3>1. links' = links /\ size' = s + 0
        BY <1>6, <1>8, <2>4 DEF t
      <3> HIDE DEF s
      <3>2. s + 0 = s
        BY <2>1
      <3> QED
        BY <1>1, <2>1, <2>3, <3>1, <3>2 DEF LinksApart
    <2>5. CASE here # {}
      <3>1. links' = links \cup new /\ size' = s + asm.subs[k].size
        BY <1>6, <1>8, <2>5
      <3> HIDE DEF s
      <3>2. \A p \in new : p \in Nat /\ s <= p /\ p + 20 <= s + asm.subs[k].size
        BY <1>3, <2>1
      <3>3. \A p, q \in new : p # q => p + 20 <= q \/ q + 20 <= p
        <4>1. ASSUME NEW i \in asm.subs[k].links, NEW j \in asm.subs[k].links, i + s # j + s
              PROVE  (i + s) + 20 <= j + s \/ (j + s) + 20 <= i + s
          <5>1. i \in Nat /\ j \in Nat
            BY <1>3
          <5>2. i # j
            BY <4>1
          <5>3. i + 20 <= j \/ j + 20 <= i
            BY <1>3, <5>2
          <5> QED
            BY <2>1, <5>1, <5>3
        <4> QED
          BY <4>1
      <3> HIDE DEF new
      <3>4. \A p \in links' : p \in Nat /\ p + 20 <= size'
        <4>1. \A p \in links : p + 20 <= s + asm.subs[k].size
          BY <1>3, <2>1
        <4> QED
          BY <2>1, <3>1, <3>2, <4>1
      <3>5. \A p, q \in links' : p # q => p + 20 <= q \/ q + 20 <= p
        <4>1. \A p \in links : \A q \in new : p + 20 <= q
          BY <2>1, <3>2
        <4> QED
          BY <2>3, <3>1, <3>3, <4>1
      <3>6. \A p \in links' : \A r \in refs : p + 20 <= r.at \/ r.at < p
        <4>1. \A p \in new : \A r \in refs : r.at < p
          BY <2>1, <2>2, <3>2
        <4> QED
          BY <2>3, <3>1, <4>1
      <3> QED
        BY <1>1, <3>4, <3>5, <3>6 DEF LinksApart
    <2> QED
      BY <2>4, <2>5
  <1> QED
    BY <1>9, <1>10, <1>12, <1>13, <1>14, <1>15, <1>16 DEF GapsKept


\* Steps that only change the phase, or the position of a loop.
LEMMA QuietSteps ==
  ASSUME LayoutInv, GapsKept, asm' = asm, UNCHANGED <<sizing, tagPositions, refs>>,
         size' = size, filled' = filled, links' = links,
         phase \notin {"estimate", "done"}, phase' \notin {"estimate", "items", "done"},
         phase \notin {"items", "invalidTag"} \/ phase' = "invalidTag",
         LoopsWithin', RoomLeft', FilledInTurn'
  PROVE  GapsKept'
  <1>1. refs' = refs
    OBVIOUS
  <1>2. SumsGrow'
    BY LaterSums
  <1>3. GapsApart'
    <2>1. size' = size + 0 /\ 0 \in Nat
      BY Numbers
    <2> QED
      BY <1>1, <2>1, LaterGaps
  <1>4. FilledRight'
    <2>1. (SizesAre32Bit' <=> SizesAre32Bit) /\ (Undercounted' <=> Undercounted)
          /\ \A r : TargetSize(r)' = TargetSize(r) /\ PositionsFor(r)' = PositionsFor(r)
      BY LaterFacts
    <2>2. Behind' = Behind
      BY DEF Behind
    <2>3. FilledRight
      BY DEF GapsKept
    <2> QED
      BY <1>1, <2>1, <2>2, <2>3 DEF FilledRight, Held, PlaceHeld
  <1>5. LinksApart'
    BY <1>1 DEF GapsKept, LinksApart
  <1> QED
    BY <1>2, <1>3, <1>4, <1>5 DEF GapsKept

LEMMA EndSubsGaps ==
  ASSUME LayoutInv, GapsKept, EndSubs
  PROVE  GapsKept'
  <1>1. /\ asm' = asm /\ phase = "subs" /\ phase' = "tags" /\ k > Len(asm.subs)
        /\ UNCHANGED <<sizing, tagPositions, refs>> /\ refs' = refs
        /\ size' = size /\ filled' = filled /\ links' = links
    BY DEF EndSubs
  <1>2. k = Len(asm.subs) + 1 /\ Len(asm.subs) \in Nat
    BY SMTT(30), <1>1, Numbers DEF GapsKept, LoopsWithin
  <1>3. RoomLeft'
    <2>1. k - 1 = Len(asm.subs)
      BY <1>2
    <2>2. SubTotals[k - 1] = SizeOfSubs
      BY <2>1 DEF SizeOfSubs
    <2>3. /\ Undercounted' <=> Undercounted
          /\ ret' = ret /\ SizeOfSubs' = SizeOfSubs /\ DataCounted' = DataCounted
      BY <1>1, LaterFacts
    <2> QED
      BY <1>1, <2>2, <2>3 DEF GapsKept, RoomLeft
  <1>4. FilledInTurn'
    <2>1. \A r \in refs : r.type = "PushSub" => r.n < k
      <3>1. \A r \in refs : r.type = "PushSub" => r.n \in 1..Len(asm.subs)
        BY DEF GapsKept, GapsApart
      <3> QED
        BY <1>2, <3>1
    <2> QED
      BY <1>1, <2>1 DEF GapsKept, FilledInTurn
  <1>5. LoopsWithin'
    BY <1>1 DEF LoopsWithin
  <1> QED
    BY <1>1, <1>3, <1>4, <1>5, QuietSteps

LEMMA EndTagsGaps ==
  ASSUME LayoutInv, GapsKept, EndTags
  PROVE  GapsKept'
  <1>1. /\ asm' = asm /\ phase = "tags" /\ phase' = "data" /\ k' = 1 /\ UnresolvedTags = {}
        /\ UNCHANGED <<sizing, tagPositions, refs>> /\ refs' = refs
        /\ size' = size /\ filled' = filled /\ links' = links
    BY DEF EndTags
  <1>2. RoomLeft'
    <2>1. /\ Undercounted' <=> Undercounted
          /\ ret' = ret /\ SizeOfSubs' = SizeOfSubs /\ DataCounted' = DataCounted /\ running' = running
      BY <1>1, LaterFacts
    <2>2. running[1] = 1
      BY DEF GapsKept, SumsGrow
    <2>3. ret \in Nat /\ SizeOfSubs \in Nat
      BY Numbers
    <2>4. ret + 1 + SizeOfSubs = ret + SizeOfSubs + 1
      BY <2>3
    <2>5. ~Undercounted => size + DataCounted <= ret + SizeOfSubs + 1
      BY <1>1, <2>4 DEF GapsKept, RoomLeft
    <2>6. running'[k'] = 1
      BY <1>1, <2>1, <2>2
    <2> QED
      BY <1>1, <2>1, <2>5, <2>6 DEF RoomLeft
  <1>3. FilledInTurn'
    <2>1. \A r \in refs : r.type = "PushTag" => r.at \in DOMAIN filled
      BY <1>1 DEF UnresolvedTags
    <2>2. \A r \in refs : r.type = "PushData" => ~(r.n < 1)
      <3>1. \A r \in refs : r.type = "PushData" => r.n \in 1..Len(asm.data)
        BY DEF GapsKept, GapsApart
      <3> QED
        BY SMTT(30), <3>1, Numbers
    <2> QED
      BY <1>1, <2>1, <2>2 DEF GapsKept, FilledInTurn
  <1>4. LoopsWithin'
    BY <1>1, Numbers DEF LoopsWithin
  <1> QED
    BY <1>1, <1>2, <1>3, <1>4, QuietSteps

LEMMA RejectGaps ==
  ASSUME LayoutInv, GapsKept, RejectTag \/ \E r : RejectReference(r)
  PROVE  GapsKept'
  <1>1. /\ asm' = asm /\ k' = k
        /\ UNCHANGED <<sizing, tagPositions, refs>> /\ refs' = refs
        /\ size' = size /\ filled' = filled /\ links' = links
        /\ \/ phase = "items" /\ phase' = "invalidTag"
           \/ phase = "tags" /\ phase' \in {"noSuchTag", "tagTooLarge"}
    BY DEF RejectTag, AtItem, RejectReference
  <1>2. LoopsWithin' /\ RoomLeft'
    BY <1>1 DEF LoopsWithin, RoomLeft
  <1>3. FilledInTurn'
    BY <1>1 DEF GapsKept, FilledInTurn
  <1> QED
    BY <1>1, <1>2, <1>3, QuietSteps

\* The gap of a tag gets the whole position of the tag.
LEMMA ResolveTagGaps ==
  ASSUME LayoutInv, GapsKept, NEW r, ResolveTag(r)
  PROVE  GapsKept'
  <1> DEFINE pos == PositionsFor(r)[r.n]
  <1>1. /\ asm' = asm /\ phase = "tags" /\ phase' = "tags" /\ k' = k
        /\ UNCHANGED <<sizing, tagPositions, refs>> /\ refs' = refs
        /\ size' = size /\ links' = links /\ filled' = Fill({r}, bytesPerTag, pos)
        /\ HasPosition(r) /\ Width(pos) <= bytesPerTag
    BY DEF ResolveTag
  <1>2. r \in refs /\ r.type = "PushTag"
    BY DEF ResolveTag, NextReference, UnresolvedTags
  <1> HIDE DEF pos
  <1>3. /\ DOMAIN filled' = DOMAIN filled \cup {q.at : q \in {r}}
        /\ \A q \in {r} : filled'[q.at] = ToBigEndian(pos, bytesPerTag)
        /\ \A q \in refs \ {r} : /\ q.at \in DOMAIN filled' <=> q.at \in DOMAIN filled
                                 /\ q.at \in DOMAIN filled => filled'[q.at] = filled[q.at]
    <2>1. {r} \in SUBSET refs
      BY <1>2
    <2> QED
      BY <1>1, <2>1, FillFacts DEF GapsKept
  <1>4. SumsGrow'
    BY <1>1, LaterSums
  <1>5. GapsApart'
    <2>1. size' = size + 0 /\ 0 \in Nat
      BY <1>1, Numbers
    <2> QED
      BY <1>1, <2>1, LaterGaps
  <1>6. LoopsWithin'
    BY <1>1 DEF LoopsWithin
  <1>7. (SizesAre32Bit' <=> SizesAre32Bit) /\ (Undercounted' <=> Undercounted)
        /\ ret' = ret /\ SizeOfSubs' = SizeOfSubs /\ DataCounted' = DataCounted
        /\ \A q : TargetSize(q)' = TargetSize(q) /\ PositionsFor(q)' = PositionsFor(q)
    BY <1>1, LaterFacts
  <1>8. RoomLeft'
    BY <1>1, <1>7 DEF GapsKept, RoomLeft
  <1>9. FilledInTurn'
    <2>1. DOMAIN filled' \subseteq {q.at : q \in refs}
      BY <1>2, <1>3 DEF GapsKept, FilledInTurn
    <2>2. ASSUME NEW q \in refs
          PROVE  /\ q.type = "PushSub" => q.at \in DOMAIN filled'
                 /\ q.type = "PushProgramSize" => q.at \notin DOMAIN filled'
      <3>1. CASE q = r
        BY <1>2, <3>1
      <3>2. CASE q # r
        BY <1>1, <1>3, <3>2 DEF GapsKept, FilledInTurn
      <3> QED
        BY <3>1, <3>2
    <2> QED
      BY <1>1, <2>1, <2>2 DEF FilledInTurn
  <1>10. FilledRight'
    <2>1. SUFFICES ASSUME SizesAre32Bit', ~Undercounted', NEW q \in refs', q.at \in DOMAIN filled'
                   PROVE  Held(q)'
      BY DEF FilledRight
    <2>2. SizesAre32Bit /\ ~Undercounted /\ q \in refs
      BY <1>1, <1>7, <2>1
    <2>3. CASE q = r
      <3>1. pos \in Nat /\ pos <= ret
        BY <1>1, <1>2, <2>2, PositionCounted DEF pos
      <3>2. ret <= BytesRequiredIncludingData(ret) /\ BytesRequiredIncludingData(ret) \in Nat
        <4>1. ret \in Nat /\ SizeOfSubs \in Nat /\ asm.aux \in Nat
          BY Numbers
        <4> QED
          BY <4>1 DEF BytesRequiredIncludingData
      <3>3. pos < 16777216 * 256
        <4>1. BytesRequiredIncludingData(ret) < 16777216 * 256
          BY <2>2 DEF SizesAre32Bit
        <4> QED
          BY <3>1, <3>2, <4>1, Numbers
      <3>4. ToBigEndian(pos, bytesPerTag) = pos
        BY <1>1, <3>1, <3>3, Numbers, NotCut
      <3>5. filled'[q.at] = PositionsFor(q)'[q.n]
        BY <1>3, <1>7, <2>3, <3>4 DEF pos
      <3> QED
        BY <1>2, <2>3, <3>5 DEF Held
    <2>4. CASE q # r
      <3>1. q.at \in DOMAIN filled /\ filled'[q.at] = filled[q.at]
        BY <1>3, <2>1, <2>2, <2>4
      <3>2. Held(q)
        BY <2>2, <3>1 DEF GapsKept, FilledRight
      <3>3. q.type = "PushTag" => filled'[q.at] = PositionsFor(q)'[q.n]
        BY <1>7, <3>1, <3>2 DEF Held
      <3>4. q.type = "PushProgramSize" => filled'[q.at] = size'
        BY <1>1, <3>1, <3>2 DEF Held
      <3>5. ASSUME q.type \in {"PushData", "PushSub"} PROVE PlaceHeld(q)'
        <4>1. PlaceHeld(q)
          BY <3>2, <3>5 DEF Held
        <4>2. Behind' = Behind
          BY <1>1 DEF Behind
        <4>3. /\ filled'[q.at] \in Nat /\ filled'[q.at] + TargetSize(q)' + Behind' <= size'
              /\ \A p \in refs' : p.at < filled'[q.at]
              /\ q.type = "PushSub" => {filled'[q.at] + p : p \in asm'.subs[q.n].links} \subseteq links'
          BY <1>1, <1>7, <3>1, <4>1, <4>2 DEF PlaceHeld
        <4>4. ASSUME NEW p \in refs, p.type \in {"PushData", "PushSub"}, p.at \in DOMAIN filled'
              PROVE  \/ filled'[q.at] + TargetSize(q)' <= filled'[p.at]
                     \/ filled'[p.at] + TargetSize(p)' <= filled'[q.at]
                     \/ p.type = q.type /\ p.n = q.n
          <5>1. p # r
            BY <1>2, <4>4
          <5>2. p.at \in DOMAIN filled /\ filled'[p.at] = filled[p.at]
            BY <1>3, <4>4, <5>1
          <5> QED
            BY <1>7, <3>1, <4>1, <4>4, <5>2 DEF PlaceHeld
        <4> QED
          BY <1>1, <4>3, <4>4 DEF PlaceHeld
      <3> QED
        BY <3>3, <3>4, <3>5 DEF Held
    <2> QED
      BY <2>3, <2>4
  <1>11. LinksApart'
    BY <1>1 DEF GapsKept, LinksApart
  <1> QED
    BY <1>4, <1>5, <1>6, <1>8, <1>9, <1>10, <1>11 DEF GapsKept


\* Data is appended where the gaps for it say.
LEMMA AppendDataGaps ==
  ASSUME LayoutInv, GapsKept, AppendData
  PROVE  GapsKept'
  <1>1. /\ asm' = asm /\ phase = "data" /\ phase' = "data" /\ k <= Len(asm.data) /\ k' = k + 1
        /\ UNCHANGED <<sizing, tagPositions, refs>> /\ refs' = refs /\ links' = links
    BY DEF AppendData
  <1>2. k \in 1..Len(asm.data) /\ Len(asm.data) \in Nat /\ asm.data \in Seq(Nat)
    BY <1>1, Numbers
  <1>3. asm.data[k] \in Nat /\ asm.data # << >>
    BY <1>2
  <1> DEFINE here == RefsTo("PushData", k)
             t == IF here = {} THEN 0 ELSE asm.data[k]
  <1>4. t \in Nat /\ t <= asm.data[k]
    BY <1>3
  <1>5. size' = size + t
    <2>1. CASE here = {}
      <3>1. size' = size /\ t = 0 /\ size \in Nat
        BY <2>1, Numbers DEF AppendData
      <3> HIDE DEF t
      <3> QED
        BY <3>1
    <2>2. CASE here # {}
      BY <2>2 DEF AppendData
    <2> QED
      BY <2>1, <2>2
  <1>6. here \in SUBSET refs /\ (\A r \in here : r.type = "PushData" /\ r.n = k)
        /\ (\A r \in refs : r.type = "PushData" /\ r.n = k => r \in here)
    BY DEF RefsTo
  <1>7. /\ here = {} => filled' = filled
        /\ here # {} => filled' = Fill(here, bytesPerDataRef, size) /\ t = asm.data[k]
    BY DEF AppendData
  <1> HIDE DEF here, t
  <1>8. SumsGrow'
    BY <1>1, LaterSums
  <1>9. LoopsWithin'
    BY <1>1, <1>2 DEF LoopsWithin
  <1>10. ~Undercounted => /\ size <= ret + SizeOfSubs
                          /\ size + t + DataCounted <= ret + SizeOfSubs + running[k + 1]
    <2>1. ASSUME ~Undercounted PROVE size + DataCounted <= ret + SizeOfSubs + running[k]
      BY <1>1, <2>1 DEF GapsKept, RoomLeft
    <2>2. /\ k \in 1..(Len(asm.data) + 1) /\ k + 1 \in 1..(Len(asm.data) + 1)
      BY <1>2
    <2>3. /\ running[k] \in Nat /\ running[k] <= DataCounted /\ DataCounted \in Nat
          /\ running[k + 1] \in Nat
      BY <1>1, <2>2, SumsAreNumbers DEF GapsKept
    <2>4. running[k + 1] = running[k] + asm.data[k]
      <3> DEFINE d == Len(asm.data)
                 n == Len(asm.items)
                 l == Len(running)
      <3>1. d \in Nat /\ n \in Nat /\ l = (d + n) + 1 /\ k \in 1..d
        BY <1>1, <1>2, Numbers DEF LayoutInv, WidthsChosen, Parts
      <3> HIDE DEF d, n, l
      <3>2. k \in 1..l /\ k + 1 <= l /\ k <= d
        BY <3>1
      <3>3. running[k + 1] = running[k] + Needed(k)
        BY <3>2 DEF LayoutInv, SumsCounted, l
      <3>4. Needed(k) = asm.data[k]
        BY <3>2 DEF Needed, d
      <3> QED
        BY <3>3, <3>4
    <2>5. size \in Nat /\ ret \in Nat /\ SizeOfSubs \in Nat
      BY Numbers
    <2> QED
      BY <1>3, <1>4, <2>1, <2>3, <2>4, <2>5
  <1>11. RoomLeft'
    <2>1. SUFFICES ASSUME ~Undercounted'
                   PROVE size' + DataCounted' <= ret' + SizeOfSubs' + running'[k']
      BY <1>1 DEF RoomLeft
    <2>2. /\ ~Undercounted /\ ret' = ret /\ SizeOfSubs' = SizeOfSubs /\ DataCounted' = DataCounted
          /\ running' = running
      BY <1>1, <2>1, LaterFacts
    <2> QED
      BY <1>1, <1>5, <1>10, <2>2
  <1>12. GapsApart'
    BY <1>1, <1>4, <1>5, LaterGaps
  <1>13. FilledInTurn'
    <2>1. CASE here = {}
      <3>1. \A r \in refs : r.type = "PushData" /\ r.n < k + 1 => r.n < k
        <4>1. \A r \in refs : r.type = "PushData" => r.n \in 1..Len(asm.data) /\ r.n # k
          BY <1>6, <2>1 DEF GapsKept, GapsApart
        <4> QED
          BY <1>2, <4>1
      <3>2. filled' = filled
        BY <1>7, <2>1
      <3> QED
        BY <1>1, <3>1, <3>2 DEF GapsKept, FilledInTurn
    <2>2. CASE here # {}
      <3>1. /\ DOMAIN filled' = DOMAIN filled \cup {r.at : r \in here}
            /\ \A r \in refs \ here : r.at \in DOMAIN filled' <=> r.at \in DOMAIN filled
        BY <1>6, <1>7, <2>2, FillFacts DEF GapsKept
      <3>2. \A r \in refs : r.type = "PushData" /\ r.n < k + 1 /\ r \notin here => r.n < k
        <4>1. \A r \in refs : r.type = "PushData" => r.n \in 1..Len(asm.data)
          BY DEF GapsKept, GapsApart
        <4> QED
          BY <1>2, <1>6, <4>1
      <3>3. DOMAIN filled' \subseteq {r.at : r \in refs}
        BY <1>6, <3>1 DEF GapsKept, FilledInTurn
      <3>4. ASSUME NEW r \in refs PROVE
              /\ r.type = "PushData" /\ r.n < k + 1 => r.at \in DOMAIN filled'
              /\ r.type \in {"PushSub", "PushTag"} => r.at \in DOMAIN filled'
              /\ r.type = "PushProgramSize" => r.at \notin DOMAIN filled'
        <4>1. CASE r \in here
          BY <1>6, <3>1, <4>1
        <4>2. CASE r \notin here
          BY <1>1, <3>1, <3>2, <4>2 DEF GapsKept, FilledInTurn
        <4> QED
          BY <4>1, <4>2
      <3> QED
        BY <1>1, <3>3, <3>4 DEF FilledInTurn
    <2> QED
      BY <2>1, <2>2
  <1>14. FilledRight'
    <2>1. CASE here = {}
      <3>1. size' = size /\ filled' = filled /\ links' = links
        BY <1>1, <1>5, <1>7, <2>1, Numbers DEF t
      <3>2. FilledRight' <=> FilledRight
        <4>1. (SizesAre32Bit' <=> SizesAre32Bit) /\ (Undercounted' <=> Undercounted)
              /\ \A r : TargetSize(r)' = TargetSize(r) /\ PositionsFor(r)' = PositionsFor(r)
          BY <1>1, LaterFacts
        <4> QED
          BY <1>1, <3>1, <4>1 DEF FilledRight, Held, PlaceHeld, Behind
      <3> QED
        BY <3>2 DEF GapsKept
    <2>2. CASE here # {}
      <3>1. \A r \in here : TargetSize(r) = t
        BY <1>6, <1>7, <2>2 DEF TargetSize
      <3>2. ~Undercounted => size <= BytesRequiredIncludingData(ret)
        <4>1. ret \in Nat /\ SizeOfSubs \in Nat /\ asm.aux \in Nat /\ size \in Nat
          BY Numbers
        <4>2. ret + SizeOfSubs <= BytesRequiredIncludingData(ret)
          BY <4>1 DEF BytesRequiredIncludingData
        <4>3. BytesRequiredIncludingData(ret) \in Nat
          BY <4>1 DEF BytesRequiredIncludingData
        <4> QED
          BY <1>10, <4>1, <4>2, <4>3
      <3>3. links \subseteq links' /\ phase \in {"subs", "data"} /\ phase' = phase
        BY <1>1
      <3>4. filled' = Fill(here, bytesPerDataRef, size) /\ "PushData" \in {"PushSub", "PushData"}
        BY <1>7, <2>2
      <3>5. "PushData" # "PushSub"
        OBVIOUS
      <3> QED
        BY <1>1, <1>3, <1>4, <1>5, <1>6, <3>1, <3>2, <3>3, <3>4, <3>5, Placing DEF GapsKept
    <2> QED
      BY <2>1, <2>2
  <1>15. LinksApart'
    <2>1. \A p \in links : p \in Nat /\ p + 20 <= size'
      BY SMTT(30), <1>4, <1>5, Numbers DEF GapsKept, LinksApart
    <2> QED
      BY <1>1, <2>1 DEF GapsKept, LinksApart
  <1> QED
    BY <1>8, <1>9, <1>11, <1>12, <1>13, <1>14, <1>15 DEF GapsKept

\* At the end the size itself is written.
LEMMA FinishGaps ==
  ASSUME LayoutInv, GapsKept, Finish
  PROVE  GapsKept'
  <1>1. /\ asm' = asm /\ phase = "data" /\ phase' = "done" /\ k > Len(asm.data)
        /\ UNCHANGED <<sizing, tagPositions, refs>> /\ refs' = refs /\ links' = links
        /\ size' = size + asm.aux /\ filled' = Fill(SizeRefs, bytesPerDataRef, size + asm.aux)
    BY DEF Finish
  <1>2. k = Len(asm.data) + 1 /\ Len(asm.data) \in Nat
    BY <1>1, Numbers DEF GapsKept, LoopsWithin
  <1>3. asm.aux \in Nat /\ size \in Nat /\ ret \in Nat /\ SizeOfSubs \in Nat
    BY Numbers
  <1> DEFINE v == size + asm.aux
  <1>4. v \in Nat /\ size <= v
    BY <1>3
  <1>5. ~Undercounted => v <= BytesRequiredIncludingData(ret)
    <2>1. ~Undercounted => size + DataCounted <= ret + SizeOfSubs + running[k]
      BY <1>1 DEF GapsKept, RoomLeft
    <2>2. running[k] = DataCounted
      BY <1>2 DEF DataCounted, CountedBefore
    <2>3. DataCounted \in Nat
      BY <1>1, SumsAreNumbers DEF GapsKept
    <2>4. ~Undercounted => size <= ret + SizeOfSubs
      BY <1>3, <2>1, <2>2, <2>3
    <2>5. ~Undercounted => size + asm.aux <= ret + 1 + asm.aux + SizeOfSubs
      BY <1>3, <2>4
    <2> QED
      BY <2>5 DEF BytesRequiredIncludingData
  <1>6. SizeRefs \in SUBSET refs /\ (\A r \in SizeRefs : r.type = "PushProgramSize")
        /\ (\A r \in refs : r.type = "PushProgramSize" => r \in SizeRefs)
    BY DEF SizeRefs
  <1>7. filled' = Fill(SizeRefs, bytesPerDataRef, v) /\ size' = v
    BY <1>1
  <1> HIDE DEF v
  <1>8. /\ DOMAIN filled' = DOMAIN filled \cup {q.at : q \in SizeRefs}
        /\ \A q \in SizeRefs : filled'[q.at] = ToBigEndian(v, bytesPerDataRef)
        /\ \A q \in refs \ SizeRefs : /\ q.at \in DOMAIN filled' <=> q.at \in DOMAIN filled
                                      /\ q.at \in DOMAIN filled => filled'[q.at] = filled[q.at]
    BY <1>6, <1>7, FillFacts DEF GapsKept
  <1>9. SumsGrow'
    BY <1>1, LaterSums
  <1>10. GapsApart'
    BY <1>1, <1>3, LaterGaps
  <1>11. LoopsWithin' /\ RoomLeft'
    BY <1>1 DEF LoopsWithin, RoomLeft
  <1>12. (SizesAre32Bit' <=> SizesAre32Bit) /\ (Undercounted' <=> Undercounted)
         /\ \A q : TargetSize(q)' = TargetSize(q) /\ PositionsFor(q)' = PositionsFor(q)
    BY <1>1, LaterFacts
  <1>13. FilledInTurn'
    <2>1. DOMAIN filled' \subseteq {q.at : q \in refs}
      BY <1>6, <1>8 DEF GapsKept, FilledInTurn
    <2>2. \A q \in refs : q.type = "PushData" => q.n < k
      <3>1. \A q \in refs : q.type = "PushData" => q.n \in 1..Len(asm.data)
        BY DEF GapsKept, GapsApart
      <3> QED
        BY <1>2, <3>1
    <2>3. ASSUME NEW q \in refs PROVE q.at \in DOMAIN filled'
      <3>1. CASE q.type = "PushProgramSize"
        BY <1>6, <1>8, <3>1
      <3>2. CASE q.type # "PushProgramSize"
        <4>1. q \in refs \ SizeRefs
          BY <1>6, <3>2
        <4>2. q.at \in DOMAIN filled
          BY <1>1, <2>2, <3>2 DEF GapsKept, GapsApart, FilledInTurn
        <4> QED
          BY <1>8, <4>1, <4>2
      <3> QED
        BY <3>1, <3>2
    <2> QED
      BY <1>1, <2>1, <2>3 DEF FilledInTurn
  <1>14. FilledRight'
    <2>1. SUFFICES ASSUME SizesAre32Bit', ~Undercounted', NEW q \in refs', q.at \in DOMAIN filled'
                   PROVE  Held(q)'
      BY DEF FilledRight
    <2>2. SizesAre32Bit /\ ~Undercounted /\ q \in refs
      BY <1>1, <1>12, <2>1
    <2>3. CASE q \in SizeRefs
      <3>1. q.type = "PushProgramSize"
        BY <1>6, <2>3
      <3>2. ToBigEndian(v, bytesPerDataRef) = v
        BY <1>1, <1>4, <1>5, <2>2, PlaceFits DEF GapsKept
      <3>3. filled'[q.at] = size'
        BY <1>7, <1>8, <2>3, <3>2
      <3> QED
        BY <3>1, <3>3 DEF Held
    <2>4. CASE q \notin SizeRefs
      <3>1. q.at \in DOMAIN filled /\ filled'[q.at] = filled[q.at] /\ q.type # "PushProgramSize"
        BY <1>6, <1>8, <2>1, <2>2, <2>4
      <3>2. Held(q)
        BY <2>2, <3>1 DEF GapsKept, FilledRight
      <3>3. q.type = "PushTag" => filled'[q.at] = PositionsFor(q)'[q.n]
        BY <1>12, <3>1, <3>2 DEF Held
      <3>4. ASSUME q.type \in {"PushData", "PushSub"} PROVE PlaceHeld(q)'
        <4>1. PlaceHeld(q)
          BY <3>2, <3>4 DEF Held
        <4>2. Behind' = asm.aux /\ Behind = 0
          BY <1>1 DEF Behind
        <4>3. filled'[q.at] \in Nat /\ filled'[q.at] + TargetSize(q)' + Behind' <= size'
          <5> DEFINE f == filled[q.at]
                     z == TargetSize(q)
          <5>1. z \in Nat
            BY <2>2, <3>4, TargetIsNat DEF GapsKept
          <5>2. f \in Nat /\ f + z + 0 <= size
            BY <4>1, <4>2 DEF PlaceHeld
          <5> HIDE DEF f, z
          <5>3. f + z + asm.aux <= size + asm.aux
            BY <1>3, <5>1, <5>2
          <5> QED
            BY <1>1, <1>12, <3>1, <4>2, <5>2, <5>3 DEF f, z
        <4>4. /\ \A p \in refs' : p.at < filled'[q.at]
              /\ q.type = "PushSub" => {filled'[q.at] + p : p \in asm'.subs[q.n].links} \subseteq links'
          BY <1>1, <3>1, <4>1 DEF PlaceHeld
        <4>5. ASSUME NEW p \in refs, p.type \in {"PushData", "PushSub"}, p.at \in DOMAIN filled'
              PROVE  \/ filled'[q.at] + TargetSize(q)' <= filled'[p.at]
                     \/ filled'[p.at] + TargetSize(p)' <= filled'[q.at]
                     \/ p.type = q.type /\ p.n = q.n
          <5>1. p \in refs \ SizeRefs
            BY <1>6, <4>5
          <5>2. p.at \in DOMAIN filled /\ filled'[p.at] = filled[p.at]
            BY <1>8, <4>5, <5>1
          <5> QED
            BY <1>12, <3>1, <4>1, <4>5, <5>2 DEF PlaceHeld
        <4> QED
          BY <1>1, <4>3, <4>4, <4>5 DEF PlaceHeld
      <3> QED
        BY <3>1, <3>3, <3>4 DEF Held
    <2> QED
      BY <2>3, <2>4
  <1>15. LinksApart'
    <2>1. \A p \in links : p \in Nat /\ p + 20 <= size'
      BY <1>3, <1>4, <1>7 DEF GapsKept, LinksApart
    <2> QED
      BY <1>1, <2>1 DEF GapsKept, LinksApart
  <1> QED
    BY <1>9, <1>10, <1>11, <1>13, <1>14, <1>15 DEF GapsKept

\* Inductive invariant of assemble(): gaps are apart and hold what they are for.
LEMMA GapsInvariant == AsmSpec => [](LayoutInv /\ GapsKept)
  <1>1. AsmInit => GapsKept
    BY InitGaps
  <1>2. ASSUME LayoutInv, LayoutInv', GapsKept, [AsmNext]_asmVars PROVE GapsKept'
    <2>1. CASE CountPart \/ TryWider
      BY <1>2, <2>1, CountingGaps
    <2>2. CASE Estimated
      BY <1>2, <2>2, EstimatedGaps
    <2>3. CASE WriteItem \/ WriteTag
      BY <1>2, <2>3, ItemsGaps
    <2>4. CASE EndItems
      BY <1>2, <2>4, EndItemsGaps
    <2>5. CASE AppendSub
      BY <1>2, <2>5, AppendSubGaps
    <2>6. CASE EndSubs
      BY <1>2, <2>6, EndSubsGaps
    <2>7. CASE EndTags
      BY <1>2, <2>7, EndTagsGaps
    <2>8. CASE AppendData
      BY <1>2, <2>8, AppendDataGaps
    <2>9. CASE Finish
      BY <1>2, <2>9, FinishGaps
    <2>10. CASE RejectTag \/ \E r \in UnresolvedTags : RejectReference(r)
      BY <1>2, <2>10, RejectGaps
    <2>11. ASSUME NEW r \in UnresolvedTags, ResolveTag(r) PROVE GapsKept'
      BY <1>2, <2>11, ResolveTagGaps
    <2>12. CASE UNCHANGED asmVars
      <3>1. /\ asm' = asm /\ phase' = phase /\ k' = k /\ UNCHANGED sizing /\ size' = size
            /\ tagPositions' = tagPositions /\ refs' = refs /\ filled' = filled /\ links' = links
        BY <2>12 DEF asmVars
      <3>2. UNCHANGED <<sizing, tagPositions, refs>>
        BY <3>1
      <3>3. /\ (SizesAre32Bit' <=> SizesAre32Bit) /\ (Undercounted' <=> Undercounted)
            /\ ret' = ret /\ SizeOfSubs' = SizeOfSubs /\ DataCounted' = DataCounted
            /\ SubTotals' = SubTotals /\ running' = running /\ bytesPerDataRef' = bytesPerDataRef
            /\ \A r : TargetSize(r)' = TargetSize(r) /\ PositionsFor(r)' = PositionsFor(r)
        BY <3>1, <3>2, LaterFacts
      <3>4. SumsGrow' /\ LoopsWithin'
        BY <1>2, <3>1, <3>3 DEF GapsKept, SumsGrow, LoopsWithin, BytesRequiredIncludingData
      <3>5. RoomLeft'
        BY <1>2, <3>1, <3>3 DEF GapsKept, RoomLeft, CountedBefore
      <3>6. GapsApart' /\ FilledInTurn' /\ LinksApart'
        BY <1>2, <3>1 DEF GapsKept, GapsApart, FilledInTurn, LinksApart
      <3>7. FilledRight'
        BY <1>2, <3>1, <3>3 DEF GapsKept, FilledRight, Held, PlaceHeld, Behind
      <3> QED
        BY <3>4, <3>5, <3>6, <3>7 DEF GapsKept
    <2> QED
      BY <1>2, <2>1, <2>2, <2>3, <2>4, <2>5, <2>6, <2>7, <2>8, <2>9, <2>10, <2>11, <2>12 DEF AsmNext
  <1> QED
    BY <1>1, <1>2, LayoutInvariant, PTL DEF AsmSpec

\* For every assembly that stays within the numbers the code computes sizes with: when
\* assemble() returns, each reference that was not undercounted holds the place of its
\* target, and no two targets overlap.
THEOREM ReferencesHoldTargets == AsmSpec => [](SizesAre32Bit => ReferencesExact)
  <1>1. ASSUME LayoutInv, GapsKept, SizesAre32Bit PROVE ReferencesExact
    <2>1. SUFFICES ASSUME phase = "done", ~Undercounted
                   PROVE /\ {r.at : r \in refs} = DOMAIN filled
                         /\ \A r \in refs :
                              CASE r.type = "PushTag" -> filled[r.at] = PositionsFor(r)[r.n]
                                [] r.type = "PushProgramSize" -> filled[r.at] = size
                                [] OTHER ->
                                     /\ filled[r.at] + TargetSize(r) <= size - asm.aux
                                     /\ \A q \in refs : filled[r.at] > q.at
                                     /\ \A q \in refs : q.type \in {"PushData", "PushSub"} =>
                                          \/ filled[r.at] + TargetSize(r) <= filled[q.at]
                                          \/ filled[q.at] + TargetSize(q) <= filled[r.at]
                                          \/ q.type = r.type /\ q.n = r.n
      BY DEF ReferencesExact
    <2>2. \A r \in refs : r.type \in {"PushTag", "PushData", "PushSub", "PushProgramSize"}
      BY <1>1 DEF GapsKept, GapsApart
    <2>3. \A r \in refs : r.at \in DOMAIN filled
      BY <1>1, <2>1, <2>2 DEF GapsKept, FilledInTurn
    <2>4. {r.at : r \in refs} = DOMAIN filled
      BY <1>1, <2>3 DEF GapsKept, FilledInTurn
    <2>5. \A r \in refs : Held(r)
      BY <1>1, <2>1, <2>3 DEF GapsKept, FilledRight
    <2>6. \A r \in refs : /\ r.type = "PushTag" => filled[r.at] = PositionsFor(r)[r.n]
                          /\ r.type = "PushProgramSize" => filled[r.at] = size
      BY <2>5 DEF Held
    <2>7. ASSUME NEW r \in refs, r.type \in {"PushData", "PushSub"}
          PROVE  /\ filled[r.at] + TargetSize(r) <= size - asm.aux
                 /\ \A q \in refs : filled[r.at] > q.at
                 /\ \A q \in refs : q.type \in {"PushData", "PushSub"} =>
                      \/ filled[r.at] + TargetSize(r) <= filled[q.at]
                      \/ filled[q.at] + TargetSize(q) <= filled[r.at]
                      \/ q.type = r.type /\ q.n = r.n
      <3>1. PlaceHeld(r)
        BY <2>5, <2>7 DEF Held
      <3>2. filled[r.at] + TargetSize(r) <= size - asm.aux
        <4> DEFINE f == filled[r.at]
                   z == TargetSize(r)
        <4>1. z \in Nat
          BY <1>1, <2>7, TargetIsNat DEF GapsKept
        <4>2. f \in Nat /\ f + z + asm.aux <= size
          BY <2>1, <3>1 DEF PlaceHeld, Behind
        <4>3. size \in Nat /\ asm.aux \in Nat
          BY <1>1, Numbers
        <4> HIDE DEF f, z
        <4>4. f + z <= size - asm.aux
          BY <4>1, <4>2, <4>3
        <4> QED
          BY <4>4 DEF f, z
      <3>3. \A q \in refs : filled[r.at] > q.at
        <4>1. \A q \in refs : q.at < filled[r.at]
          BY <3>1 DEF PlaceHeld
        <4> QED
          BY <4>1
      <3>4. \A q \in refs : q.type \in {"PushData", "PushSub"} =>
              \/ filled[r.at] + TargetSize(r) <= filled[q.at]
              \/ filled[q.at] + TargetSize(q) <= filled[r.at]
              \/ q.type = r.type /\ q.n = r.n
        BY <2>3, <3>1 DEF PlaceHeld
      <3> QED
        BY <3>2, <3>3, <3>4
    <2> QED
      BY <2>2, <2>4, <2>6, <2>7
  <1> QED
    BY <1>1, GapsInvariant, PTL

\* For every such assembly: the link references of appended subassemblies are among those
\* of the whole, where the code refers to them; no 20 bytes to be linked overlap.
THEOREM LinksStayLinkable == AsmSpec => [](SizesAre32Bit => LinksInPlace)
  <1>1. ASSUME LayoutInv, GapsKept, SizesAre32Bit PROVE LinksInPlace
    <2>1. SUFFICES ASSUME phase = "done", ~Undercounted
                   PROVE \A r \in refs : r.type = "PushSub" =>
                           {filled[r.at] + p : p \in asm.subs[r.n].links} \subseteq links
      BY <1>1 DEF LinksInPlace, GapsKept, LinksApart
    <2>2. ASSUME NEW r \in refs, r.type = "PushSub"
          PROVE  {filled[r.at] + p : p \in asm.subs[r.n].links} \subseteq links
      <3>1. r.at \in DOMAIN filled
        BY <1>1, <2>1, <2>2 DEF GapsKept, FilledInTurn
      <3>2. Held(r)
        BY <1>1, <2>1, <3>1 DEF GapsKept, FilledRight
      <3> QED
        BY <2>2, <3>2 DEF Held, PlaceHeld
    <2> QED
      BY <2>2
  <1> QED
    BY <1>1, GapsInvariant, PTL

-----------------------------------------------------------------------------
(* assemble() ends. *)

\* The widths that may still be tried: a number of 32 bits has no more than four bytes.
WidthsLeft == IF tagSize < 4 THEN 4 - tagSize ELSE 0

\* An upper bound for the steps left.  An attempt at a width counts each part, and each
\* item may leave a reference to be resolved.
StepsLeft ==
  CASE phase = "estimate" -> WidthsLeft * (Parts + 1) + (Parts + 1 - Len(running)) + 1
                               + 2 * Len(asm.items) + Len(asm.subs) + Len(asm.data) + 4
    [] phase = "items" -> 2 * (Len(asm.items) + 1 - k) + Cardinality(UnresolvedTags)
                            + Len(asm.subs) + Len(asm.data) + 4
    [] phase = "subs" -> (Len(asm.subs) + 1 - k) + Cardinality(UnresolvedTags)
                           + Len(asm.data) + 3
    [] phase = "tags" -> Cardinality(UnresolvedTags) + Len(asm.data) + 2
    [] phase = "data" -> (Len(asm.data) + 1 - k) + 1
    [] OTHER -> 0

\* Every step leaves fewer: the search for a width and each loop behind it end.
LoopsEnd == [](StepsLeft \in Nat) /\ [][StepsLeft' < StepsLeft]_asmVars

\* The numbers the measure is made of.
InBounds ==
  /\ Len(asm.items) \in Nat /\ Len(asm.subs) \in Nat /\ Len(asm.data) \in Nat /\ Parts \in Nat
  /\ tagSize \in Nat /\ k \in Nat /\ Len(running) \in 1..(Parts + 1)
  /\ IsFiniteSet(UnresolvedTags) /\ Cardinality(UnresolvedTags) \in Nat
  /\ phase = "items" => k \in 1..(Len(asm.items) + 1)
  /\ phase = "subs" => k \in 1..(Len(asm.subs) + 1)
  /\ phase = "data" => k \in 1..(Len(asm.data) + 1)

LEMMA InBoundsHolds == LayoutInv /\ GapsKept /\ IsFiniteSet(refs) => InBounds
  <1> SUFFICES ASSUME LayoutInv, GapsKept, IsFiniteSet(refs) PROVE InBounds
    OBVIOUS
  <1>1. asm \in Assemblies /\ running \in Seq(Nat) /\ Len(running) >= 1 /\ tagSize \in Nat /\ k \in Nat
    BY DEF LayoutInv, Types
  <1>2. Len(asm.items) \in Nat /\ Len(asm.subs) \in Nat /\ Len(asm.data) \in Nat
    BY <1>1, AssembliesAssumption
  <1>3. Parts \in Nat
    BY <1>1, PartsIsNat
  <1>4. Len(running) \in 1..(Parts + 1)
    BY <1>1, <1>3 DEF LayoutInv, SumsCounted
  <1>5. UnresolvedTags \in SUBSET refs
    BY DEF UnresolvedTags
  <1>6. IsFiniteSet(UnresolvedTags) /\ Cardinality(UnresolvedTags) \in Nat
    BY <1>5, FS_Subset, FS_CardinalityType
  <1>7. /\ phase = "items" => k \in 1..(Len(asm.items) + 1)
        /\ phase = "subs" => k \in 1..(Len(asm.subs) + 1)
        /\ phase = "data" => k \in 1..(Len(asm.data) + 1)
    BY DEF LayoutInv, WrittenWithinCount, GapsKept, LoopsWithin
  <1> QED
    BY <1>1, <1>2, <1>3, <1>4, <1>6, <1>7 DEF InBounds

LEMMA OneRoundLess ==
  ASSUME NEW w \in Nat, NEW p \in Nat
  PROVE  (w + 1) * p = w * p + p /\ w * p \in Nat /\ (w + 1) * p \in Nat
  OBVIOUS

LEMMA StepsAreCounted == InBounds => StepsLeft \in Nat
  <1> SUFFICES ASSUME InBounds PROVE StepsLeft \in Nat
    OBVIOUS
  <1> DEFINE n == Len(asm.items)
             s == Len(asm.subs)
             d == Len(asm.data)
             c == Cardinality(UnresolvedTags)
             l == Len(running)
             p == Parts
             m == WidthsLeft * (p + 1)
  <1>1. /\ n \in Nat /\ s \in Nat /\ d \in Nat /\ c \in Nat /\ p \in Nat /\ l \in 1..(p + 1)
        /\ phase = "items" => k \in 1..(n + 1)
        /\ phase = "subs" => k \in 1..(s + 1)
        /\ phase = "data" => k \in 1..(d + 1)
    BY DEF InBounds
  <1>2. m \in Nat
    <2>1. WidthsLeft \in Nat /\ p + 1 \in Nat
      BY <1>1 DEF InBounds, WidthsLeft
    <2> QED
      BY <2>1, OneRoundLess
  <1>3. /\ phase = "estimate" => StepsLeft = m + (p + 1 - l) + 1 + 2 * n + s + d + 4
        /\ phase = "items" => StepsLeft = 2 * (n + 1 - k) + c + s + d + 4
        /\ phase = "subs" => StepsLeft = (s + 1 - k) + c + d + 3
        /\ phase = "tags" => StepsLeft = c + d + 2
        /\ phase = "data" => StepsLeft = (d + 1 - k) + 1
    BY DEF StepsLeft
  <1>4. phase \notin {"estimate", "items", "subs", "tags", "data"} => StepsLeft = 0
    BY DEF StepsLeft
  <1> HIDE DEF n, s, d, c, l, p, m
  <1>5. CASE phase = "estimate"
    BY <1>1, <1>2, <1>3, <1>5
  <1>6. CASE phase # "estimate"
    BY <1>1, <1>3, <1>4, <1>6
  <1> QED
    BY <1>5, <1>6

\* References stay finite: an item leaves one at most.
LEMMA RefsFinite == IsFiniteSet(refs) /\ [AsmNext]_asmVars => IsFiniteSet(refs')
  <1> SUFFICES ASSUME IsFiniteSet(refs), [AsmNext]_asmVars PROVE IsFiniteSet(refs')
    OBVIOUS
  <1>1. CASE WriteItem
    <2>1. refs' = refs \/ \E x : refs' = refs \cup {x}
      BY <1>1 DEF WriteItem
    <2> QED
      BY <2>1, FS_AddElement
  <1>2. CASE ~WriteItem
    <2>1. refs' = refs
      BY <1>2 DEF AsmNext, asmVars, CountPart, TryWider, Estimated, WriteTag, RejectTag, EndItems,
                  AppendSub, EndSubs, ResolveTag, RejectReference, EndTags, AppendData, Finish
    <2> QED
      BY <2>1
  <1> QED
    BY <1>1, <1>2

\* The loop that counts, and the decision behind it.
LEMMA CountingLess ==
  ASSUME InBounds, InBounds', CountPart \/ TryWider \/ Estimated,
         LayoutInv, GapsKept, LayoutInv', GapsKept'
  PROVE  StepsLeft' < StepsLeft
  <1> DEFINE n == Len(asm.items)
             s == Len(asm.subs)
             d == Len(asm.data)
  <1>1. asm' = asm /\ Parts' = Parts /\ phase = "estimate" /\ phase' \in {"estimate", "items"}
    BY DEF CountPart, TryWider, Estimated, Parts
  <1>2. n \in Nat /\ s \in Nat /\ d \in Nat /\ Parts \in Nat /\ tagSize \in Nat
        /\ Len(running) \in 1..(Parts + 1)
    BY DEF InBounds
  <1>3. StepsLeft = WidthsLeft * (Parts + 1) + (Parts + 1 - Len(running)) + 1 + 2 * n + s + d + 4
    BY <1>1 DEF StepsLeft
  <1>4. phase' = "estimate" =>
          StepsLeft' = WidthsLeft' * (Parts + 1) + (Parts + 1 - Len(running')) + 1 + 2 * n + s + d + 4
    BY <1>1 DEF StepsLeft
  <1> HIDE DEF n, s, d
  <1>5. WidthsLeft \in Nat /\ WidthsLeft * (Parts + 1) \in Nat
    <2>1. WidthsLeft \in Nat /\ Parts + 1 \in Nat
      BY <1>2 DEF WidthsLeft
    <2> QED
      BY <2>1, OneRoundLess
  <1>6. CASE CountPart
    <2>1. WidthsLeft' = WidthsLeft /\ Len(running') = Len(running) + 1 /\ phase' = "estimate"
      BY <1>6 DEF CountPart, WidthsLeft, LayoutInv, Types
    <2> QED
      BY <1>2, <1>3, <1>4, <1>5, <2>1
  <1>7. CASE TryWider
    <2>1. Width(ret) <= 4 /\ Width(ret) > tagSize /\ tagSize' = tagSize + 1 /\ running' = <<1>>
          /\ phase' = "estimate" /\ Len(running) > Parts
      BY <1>7 DEF TryWider, Width
    <2>2. tagSize < 4
      BY <1>2, <2>1 DEF Width
    <2>3. WidthsLeft' \in Nat /\ WidthsLeft = WidthsLeft' + 1 /\ Len(running') = 1
      BY <1>2, <2>1, <2>2 DEF WidthsLeft
    <2>4. PICK w \in Nat : w = WidthsLeft'
      BY <2>3
    <2>5. /\ WidthsLeft * (Parts + 1) = w * (Parts + 1) + (Parts + 1)
          /\ w * (Parts + 1) \in Nat
      <3>1. PICK p \in Nat : p = Parts + 1
        BY <1>2
      <3>2. WidthsLeft = w + 1
        BY <2>3, <2>4
      <3>3. (w + 1) * p = w * p + p /\ w * p \in Nat
        BY OneRoundLess
      <3> QED
        BY <3>1, <3>2, <3>3, Zenon
    <2>6. StepsLeft' = w * (Parts + 1) + (Parts + 1 - 1) + 1 + 2 * n + s + d + 4
      BY <1>4, <2>1, <2>3, <2>4
    <2> QED
      BY <1>2, <1>3, <2>1, <2>5, <2>6
  <1>8. CASE Estimated
    <2>1. phase' = "items" /\ k' = 1 /\ refs' = refs
      BY <1>8 DEF Estimated
    <2>2. UnresolvedTags' = {}
      <3>1. refs = {}
        BY <1>1 DEF LayoutInv, NothingYet
      <3> QED
        BY <2>1, <3>1 DEF UnresolvedTags
    <2>3. Cardinality(UnresolvedTags') = 0
      BY <2>2, FS_EmptySet
    <2>4. StepsLeft' = 2 * (n + 1 - 1) + 0 + s + d + 4
      BY <1>1, <2>1, <2>3 DEF StepsLeft, n, s, d
    <2> QED
      BY <1>2, <1>3, <1>5, <2>4
  <1> QED
    BY <1>6, <1>7, <1>8

\* The loop over the items.
LEMMA ItemsLess ==
  ASSUME InBounds, InBounds', WriteItem \/ WriteTag \/ RejectTag \/ EndItems
  PROVE  StepsLeft' < StepsLeft
  <1> DEFINE n == Len(asm.items)
             s == Len(asm.subs)
             d == Len(asm.data)
             c == Cardinality(UnresolvedTags)
  <1>1. asm' = asm /\ phase = "items" /\ filled' = filled
    BY DEF WriteItem, WriteTag, RejectTag, EndItems, AtItem
  <1>2. n \in Nat /\ s \in Nat /\ d \in Nat /\ k \in 1..(n + 1) /\ c \in Nat
    BY <1>1 DEF InBounds
  <1>3. StepsLeft = 2 * (n + 1 - k) + c + s + d + 4
    BY <1>1 DEF StepsLeft
  <1>4. CASE WriteItem \/ WriteTag
    <2>1. k' = k + 1 /\ phase' = "items" /\ k <= n
      BY <1>1, <1>4 DEF WriteItem, WriteTag, AtItem
    <2>2. UnresolvedTags' = UnresolvedTags \/ \E x : UnresolvedTags' = UnresolvedTags \cup {x}
      <3>1. refs' = refs \/ \E x : refs' = refs \cup {x}
        BY <1>4 DEF WriteItem, WriteTag
      <3> QED
        BY <1>1, <3>1 DEF UnresolvedTags
    <2>3. Cardinality(UnresolvedTags') \in Nat /\ Cardinality(UnresolvedTags') <= c + 1
      <3>1. IsFiniteSet(UnresolvedTags)
        BY DEF InBounds
      <3> QED
        BY <1>2, <2>2, <3>1, FS_AddElement
    <2>4. StepsLeft' = 2 * (n + 1 - (k + 1)) + Cardinality(UnresolvedTags') + s + d + 4
      BY <1>1, <2>1 DEF StepsLeft
    <2> HIDE DEF n, s, d, c
    <2> QED
      BY <1>2, <1>3, <2>1, <2>3, <2>4
  <1>5. CASE RejectTag
    <2>1. StepsLeft' = 0
      BY <1>5 DEF RejectTag, StepsLeft
    <2> HIDE DEF n, s, d, c
    <2> QED
      BY <1>2, <1>3, <2>1
  <1>6. CASE EndItems
    <2>1. k' = 1 /\ phase' = "subs" /\ UnresolvedTags' = UnresolvedTags
      BY <1>6 DEF EndItems, UnresolvedTags
    <2>2. StepsLeft' = (s + 1 - 1) + c + d + 3
      BY <1>1, <2>1 DEF StepsLeft
    <2> HIDE DEF n, s, d, c
    <2> QED
      BY <1>2, <1>3, <2>2
  <1> QED
    BY <1>4, <1>5, <1>6

\* No gap is emptied again.
LEMMA NoneUnresolvedAgain ==
  ASSUME InBounds, refs' = refs, DOMAIN filled \subseteq DOMAIN filled'
  PROVE  /\ UnresolvedTags' \subseteq UnresolvedTags
         /\ Cardinality(UnresolvedTags') \in Nat
         /\ Cardinality(UnresolvedTags') <= Cardinality(UnresolvedTags)
  <1>1. UnresolvedTags' \in SUBSET UnresolvedTags
    BY DEF UnresolvedTags
  <1> QED
    BY <1>1, FS_Subset, FS_CardinalityType DEF InBounds

\* The loop over the subassemblies.
LEMMA SubsLess ==
  ASSUME InBounds, InBounds', AppendSub \/ EndSubs
  PROVE  StepsLeft' < StepsLeft
  <1> DEFINE s == Len(asm.subs)
             d == Len(asm.data)
             c == Cardinality(UnresolvedTags)
             e == Cardinality(UnresolvedTags')
  <1>1. asm' = asm /\ phase = "subs" /\ refs' = refs
    BY DEF AppendSub, EndSubs
  <1>2. DOMAIN filled \subseteq DOMAIN filled'
    BY DEF AppendSub, EndSubs, Fill
  <1>3. s \in Nat /\ d \in Nat /\ k \in 1..(s + 1) /\ c \in Nat
    BY <1>1 DEF InBounds
  <1>4. e \in Nat /\ e <= c
    BY <1>1, <1>2, NoneUnresolvedAgain
  <1>5. StepsLeft = (s + 1 - k) + c + d + 3
    BY <1>1 DEF StepsLeft
  <1>6. CASE AppendSub
    <2>1. k' = k + 1 /\ phase' = "subs" /\ k <= s
      BY <1>6 DEF AppendSub
    <2>2. StepsLeft' = (s + 1 - (k + 1)) + e + d + 3
      BY <1>1, <2>1 DEF StepsLeft
    <2> HIDE DEF s, d, c, e
    <2> QED
      BY <1>3, <1>4, <1>5, <2>1, <2>2
  <1>7. CASE EndSubs
    <2>1. phase' = "tags"
      BY <1>7 DEF EndSubs
    <2>2. StepsLeft' = e + d + 2
      BY <1>1, <2>1 DEF StepsLeft
    <2> HIDE DEF s, d, c, e
    <2> QED
      BY <1>3, <1>4, <1>5, <2>2
  <1> QED
    BY <1>6, <1>7

\* The loop over the references to tags.
LEMMA TagsLess ==
  ASSUME InBounds, InBounds',
         EndTags \/ \E r \in UnresolvedTags : ResolveTag(r) \/ RejectReference(r)
  PROVE  StepsLeft' < StepsLeft
  <1> DEFINE d == Len(asm.data)
             c == Cardinality(UnresolvedTags)
             e == Cardinality(UnresolvedTags')
  <1>1. asm' = asm /\ phase = "tags" /\ refs' = refs
    BY DEF EndTags, ResolveTag, RejectReference
  <1>2. d \in Nat /\ c \in Nat
    BY DEF InBounds
  <1>3. StepsLeft = c + d + 2
    BY <1>1 DEF StepsLeft
  <1>4. ASSUME NEW r \in UnresolvedTags, ResolveTag(r) PROVE StepsLeft' < StepsLeft
    <2>1. DOMAIN filled' = DOMAIN filled \cup {r.at} /\ phase' = "tags"
      BY <1>4 DEF ResolveTag, Fill
    <2>2. UnresolvedTags' \in SUBSET (UnresolvedTags \ {r})
      BY <1>1, <2>1 DEF UnresolvedTags
    <2>3. IsFiniteSet(UnresolvedTags \ {r}) /\ Cardinality(UnresolvedTags \ {r}) = c - 1
      BY <1>4, FS_RemoveElement DEF InBounds
    <2>4. e \in Nat /\ e <= c - 1
      BY <2>2, <2>3, FS_Subset, FS_CardinalityType
    <2>5. StepsLeft' = e + d + 2
      BY <1>1, <2>1 DEF StepsLeft
    <2> HIDE DEF d, c, e
    <2> QED
      BY <1>2, <1>3, <2>4, <2>5
  <1>5. ASSUME NEW r \in UnresolvedTags, RejectReference(r) PROVE StepsLeft' < StepsLeft
    <2>1. StepsLeft' = 0
      BY <1>5 DEF RejectReference, StepsLeft
    <2> HIDE DEF d, c
    <2> QED
      BY <1>2, <1>3, <2>1
  <1>6. CASE EndTags
    <2>1. StepsLeft' = (d + 1 - 1) + 1
      BY <1>1, <1>6 DEF EndTags, StepsLeft
    <2> HIDE DEF d, c
    <2> QED
      BY <1>2, <1>3, <2>1
  <1> QED
    BY <1>4, <1>5, <1>6

\* The loop over the data.
LEMMA DataLess ==
  ASSUME InBounds, InBounds', AppendData \/ Finish
  PROVE  StepsLeft' < StepsLeft
  <1> DEFINE d == Len(asm.data)
  <1>1. asm' = asm /\ phase = "data"
    BY DEF AppendData, Finish
  <1>2. d \in Nat /\ k \in 1..(d + 1)
    BY <1>1 DEF InBounds
  <1>3. StepsLeft = (d + 1 - k) + 1
    BY <1>1 DEF StepsLeft
  <1>4. CASE AppendData
    <2>1. StepsLeft' = (d + 1 - (k + 1)) + 1 /\ k <= d
      BY <1>1, <1>4 DEF AppendData, StepsLeft
    <2> HIDE DEF d
    <2> QED
      BY <1>2, <1>3, <2>1
  <1>5. CASE Finish
    <2>1. StepsLeft' = 0
      BY <1>5 DEF Finish, StepsLeft
    <2> HIDE DEF d
    <2> QED
      BY <1>2, <1>3, <2>1
  <1> QED
    BY <1>4, <1>5

\* For every assembly: assemble() makes a bounded number of steps.  The width tried grows
\* at most to four bytes, every loop counts up, and each reference is resolved once.
THEOREM EveryLoopEnds == AsmSpec => LoopsEnd
  <1>1. AsmInit => IsFiniteSet(refs)
    BY FS_EmptySet DEF AsmInit
  <1>2. IsFiniteSet(refs) /\ [AsmNext]_asmVars => IsFiniteSet(refs)'
    BY RefsFinite
  <1>3. InBounds' /\ InBounds /\ LayoutInv /\ GapsKept /\ LayoutInv' /\ GapsKept'
        /\ [AsmNext]_asmVars => [StepsLeft' < StepsLeft]_asmVars
    BY CountingLess, ItemsLess, SubsLess, TagsLess, DataLess DEF AsmNext
  <1> QED
    BY <1>1, <1>2, <1>3, InBoundsHolds, StepsAreCounted, GapsInvariant, PTL DEF AsmSpec, LoopsEnd

=============================================================================
