------------------------------ MODULE Assemble ------------------------------
(***************************************************************************)
(* Assembly::assemble (libevmasm/Assembly.cpp): items are written one      *)
(* after the other, references as gaps of a width decided beforehand from  *)
(* an estimate of the size, and the gaps are filled once positions are     *)
(* known.                                                                  *)
(*                                                                         *)
(* Only sizes and positions matter, so bytes are not modelled.  An         *)
(* assembly is a record                                                    *)
(*   items   [type, n, sub]: n is the number of operations in a row for    *)
(*           "Operation", the bytes of the constant for "Push", the tag,   *)
(*           data item or subassembly it is about for the others; sub is   *)
(*           the subassembly of a "PushTag", or 0                          *)
(*   data    the sizes of m_data, in the order of their hashes             *)
(*   subs    what the subassemblies were assembled to: the size, the       *)
(*           positions of their tags and of their link references          *)
(*   aux     the size of m_auxiliaryData                                   *)
(***************************************************************************)
EXTENDS Naturals, Sequences

CONSTANT Assemblies

Item == [type : {"Operation", "PushString", "Push", "PushTag", "PushData", "PushSub",
                 "PushSubSize", "PushProgramSize", "PushLibraryAddress",
                 "PushDeployTimeAddress", "Tag"},
         n : Nat, sub : Nat]

\* The 20 bytes behind each link reference of a subassembly are its own.
IsSub(s) ==
  /\ s.size \in Nat /\ s.links \subseteq Nat
  /\ \A t \in DOMAIN s.tags : s.tags[t] \in Nat
  /\ \A p \in s.links : p + 20 <= s.size
  /\ \A p, q \in s.links : p # q => p + 20 <= q \/ q + 20 <= p

\* newData, newSub and appendSubroutine enter what the items they return refer to.
ASSUME AssembliesAssumption ==
  \A a \in Assemblies :
    /\ a.items \in Seq(Item) /\ a.data \in Seq(Nat) /\ a.aux \in Nat
    /\ Len(a.subs) \in Nat /\ \A i \in 1..Len(a.subs) : IsSub(a.subs[i])
    /\ \A j \in 1..Len(a.items) :
         /\ a.items[j].type = "PushData" => a.items[j].n \in 1..Len(a.data)
         /\ a.items[j].type \in {"PushSub", "PushSubSize"} => a.items[j].n \in 1..Len(a.subs)

VARIABLES asm,            \* the assembly
          phase,          \* which loop of assemble() runs, or how it ended
          k,              \* its position
          tagSize,        \* bytesRequired: the width tried
          running,        \* bytesRequired: the values of ret so far
          bytesRequiredForCode, bytesPerTag, bytesPerDataRef,
          size,           \* bytecode.size()
          tagPositions,   \* m_tagPositionsInBytecode, where not -1
          refs,           \* tagRef, dataRef, subRef and sizeRef
          filled,         \* position of a gap -> the value written to it
          links           \* the positions of linkReferences

sizing == <<tagSize, running, bytesRequiredForCode, bytesPerTag, bytesPerDataRef>>
asmVars == <<asm, phase, k, sizing, size, tagPositions, refs, filled, links>>

\* dev::bytesRequired of a 32 bit number.
Width(n) == IF n = 0 THEN 0 ELSE IF n < 256 THEN 1 ELSE IF n < 65536 THEN 2
            ELSE IF n < 16777216 THEN 3 ELSE 4

AtLeastOne(n) == IF n = 0 THEN 1 ELSE n

\* Mutant: tags are counted without the byte of the push instruction.
BytesRequiredOfOperand(i, addressLength) ==
  CASE i.type = "Operation" -> i.n
    [] i.type = "Tag" -> 1
    [] i.type = "PushString" -> 1 + 32
    [] i.type = "Push" -> 1 + AtLeastOne(i.n)
    [] i.type \in {"PushSubSize", "PushProgramSize"} -> 1 + 4
    [] i.type \in {"PushTag", "PushData", "PushSub"} -> addressLength
    [] i.type \in {"PushLibraryAddress", "PushDeployTimeAddress"} -> 1 + 20

\* AssemblyItem::bytesRequired
BytesRequired(i, addressLength) ==
  CASE i.type = "Operation" -> i.n
    [] i.type = "Tag" -> 1
    [] i.type = "PushString" -> 1 + 32
    [] i.type = "Push" -> 1 + AtLeastOne(i.n)
    [] i.type \in {"PushSubSize", "PushProgramSize"} -> 1 + 4
    [] i.type \in {"PushTag", "PushData", "PushSub"} -> 1 + addressLength
    [] i.type \in {"PushLibraryAddress", "PushDeployTimeAddress"} -> 1 + 20

\* The bytes assemble() writes for the item.
Written(i) ==
  CASE i.type = "Operation" -> i.n
    [] i.type = "Tag" -> 1
    [] i.type = "PushString" -> 1 + 32
    [] i.type = "Push" -> 1 + AtLeastOne(i.n)
    [] i.type = "PushSubSize" -> 1 + AtLeastOne(Width(asm.subs[i.n].size))
    [] i.type = "PushTag" -> 1 + bytesPerTag
    [] i.type \in {"PushData", "PushSub", "PushProgramSize"} -> 1 + bytesPerDataRef
    [] i.type \in {"PushLibraryAddress", "PushDeployTimeAddress"} -> 1 + 20

With(f, x, v) == [y \in DOMAIN f \cup {x} |-> IF y = x THEN v ELSE f[y]]

TagPositionsOf(subs) == UNION {{subs[s].tags[t] : t \in DOMAIN subs[s].tags} : s \in 1..Len(subs)}

SubTagPositions == TagPositionsOf(asm.subs)

\* The widths tried start at the greatest position of a tag in a subassembly.
AsmInit ==
  /\ asm \in Assemblies
  /\ phase = "estimate" /\ k = 1
  /\ tagSize \in {1} \cup SubTagPositions
  /\ tagSize >= 1 /\ \A p \in SubTagPositions : p <= tagSize
  /\ running = <<1>>
  /\ bytesRequiredForCode = 0 /\ bytesPerTag = 0 /\ bytesPerDataRef = 0
  /\ size = 0
  /\ tagPositions = [t \in {} |-> 0]
  /\ refs = {} /\ links = {}
  /\ filled = [p \in {} |-> 0]

-----------------------------------------------------------------------------
(* Assembly::bytesRequired *)

Parts == Len(asm.data) + Len(asm.items)
Needed(j) ==
  IF j <= Len(asm.data) THEN asm.data[j] ELSE BytesRequired(asm.items[j - Len(asm.data)], tagSize)
ret == running[Len(running)]

CountPart ==
  /\ phase = "estimate" /\ Len(running) <= Parts
  /\ running' = Append(running, ret + Needed(Len(running)))
  /\ UNCHANGED <<asm, phase, k, tagSize, bytesRequiredForCode, bytesPerTag, bytesPerDataRef,
                 size, tagPositions, refs, filled, links>>

\* Mutant: the same width is tried again.
TrySameWidth ==
  /\ phase = "estimate" /\ Len(running) > Parts
  /\ Width(ret) > tagSize
  /\ running' = <<1>>
  /\ UNCHANGED <<asm, phase, k, tagSize, bytesRequiredForCode, bytesPerTag, bytesPerDataRef,
                 size, tagPositions, refs, filled, links>>

TryWider ==
  /\ phase = "estimate" /\ Len(running) > Parts
  /\ Width(ret) > tagSize
  /\ tagSize' = tagSize + 1
  /\ running' = <<1>>
  /\ UNCHANGED <<asm, phase, k, bytesRequiredForCode, bytesPerTag, bytesPerDataRef,
                 size, tagPositions, refs, filled, links>>

\* The sizes of the first j subassemblies.
SubTotals[j \in 0..Len(asm.subs)] == IF j = 0 THEN 0 ELSE SubTotals[j - 1] + asm.subs[j].size
SizeOfSubs == SubTotals[Len(asm.subs)]

\* Mutant: the auxiliary data is not counted.
IncludingSubsOnly(code) == code + 1 + SizeOfSubs

BytesRequiredIncludingData(code) == code + 1 + asm.aux + SizeOfSubs

Estimated ==
  /\ phase = "estimate" /\ Len(running) > Parts
  /\ Width(ret) <= tagSize
  /\ bytesRequiredForCode' = ret
  /\ bytesPerTag' = Width(ret)
  /\ bytesPerDataRef' = Width(BytesRequiredIncludingData(ret))
  /\ phase' = "items" /\ k' = 1
  /\ UNCHANGED <<asm, tagSize, running, size, tagPositions, refs, filled, links>>

-----------------------------------------------------------------------------
(* The loop over the items. *)

This == asm.items[k]
AtItem == phase = "items" /\ k <= Len(asm.items)

\* An item that is no tag.  The first one gives the invalid jump destination, tag 0,
\* its position.
WriteItem ==
  /\ AtItem /\ This.type # "Tag"
  /\ tagPositions' = IF 0 \in DOMAIN tagPositions THEN tagPositions ELSE With(tagPositions, 0, size)
  /\ refs' = IF This.type \in {"PushTag", "PushData", "PushSub", "PushProgramSize"}
             THEN refs \cup {[at |-> size + 1, type |-> This.type, n |-> This.n, sub |-> This.sub]}
             ELSE refs
  /\ links' = IF This.type = "PushLibraryAddress" THEN links \cup {size + 1} ELSE links
  /\ size' = size + Written(This)
  /\ k' = k + 1
  /\ UNCHANGED <<asm, phase, sizing, filled>>

WriteTag ==
  /\ AtItem /\ This.type = "Tag"
  /\ This.n # 0 /\ This.sub = 0 /\ This.n \notin DOMAIN tagPositions
  /\ tagPositions' = With(tagPositions, This.n, size)
  /\ size' = size + 1
  /\ k' = k + 1
  /\ UNCHANGED <<asm, phase, sizing, refs, filled, links>>

RejectTag ==
  /\ AtItem /\ This.type = "Tag"
  /\ This.n = 0 \/ This.sub # 0 \/ This.n \in DOMAIN tagPositions
  /\ phase' = "invalidTag"
  /\ UNCHANGED <<asm, k, sizing, size, tagPositions, refs, filled, links>>

\* Subassemblies and data follow behind an INVALID.
EndItems ==
  /\ phase = "items" /\ k > Len(asm.items)
  /\ size' = IF asm.subs # << >> \/ asm.data # << >> \/ asm.aux > 0 THEN size + 1 ELSE size
  /\ phase' = "subs" /\ k' = 1
  /\ UNCHANGED <<asm, sizing, tagPositions, refs, filled, links>>

-----------------------------------------------------------------------------
(* The gaps. *)

RefsTo(type, n) == {r \in refs : r.type = type /\ r.n = n}

\* The numbers a gap of some width can hold, from 0 on.
Capacity(width) ==
  CASE width = 0 -> 1 [] width = 1 -> 256 [] width = 2 -> 65536 [] width = 3 -> 16777216
    [] OTHER -> 16777216 * 256

\* toBigEndian keeps the bytes that fit.
ToBigEndian(value, width) == value % Capacity(width)

Fill(here, width, value) ==
  [p \in DOMAIN filled \cup {r.at : r \in here} |->
     IF \E r \in here : r.at = p THEN ToBigEndian(value, width) ELSE filled[p]]

\* Mutant: link references of a subassembly keep their positions.
AppendSubUnshifted ==
  /\ phase = "subs" /\ k <= Len(asm.subs)
  /\ IF RefsTo("PushSub", k) = {} THEN UNCHANGED <<filled, size, links>>
     ELSE /\ filled' = Fill(RefsTo("PushSub", k), bytesPerDataRef, size)
          /\ links' = links \cup asm.subs[k].links
          /\ size' = size + asm.subs[k].size
  /\ k' = k + 1
  /\ UNCHANGED <<asm, phase, sizing, tagPositions, refs>>

\* A subassembly nothing refers to is left out; LinkerObject::append shifts the link
\* references of the others.
AppendSub ==
  /\ phase = "subs" /\ k <= Len(asm.subs)
  /\ IF RefsTo("PushSub", k) = {} THEN UNCHANGED <<filled, size, links>>
     ELSE /\ filled' = Fill(RefsTo("PushSub", k), bytesPerDataRef, size)
          /\ links' = links \cup {p + size : p \in asm.subs[k].links}
          /\ size' = size + asm.subs[k].size
  /\ k' = k + 1
  /\ UNCHANGED <<asm, phase, sizing, tagPositions, refs>>

EndSubs ==
  /\ phase = "subs" /\ k > Len(asm.subs)
  /\ phase' = "tags"
  /\ UNCHANGED <<asm, k, sizing, size, tagPositions, refs, filled, links>>

UnresolvedTags == {r \in refs : r.type = "PushTag" /\ r.at \notin DOMAIN filled}

\* tagRef is ordered by position.
NextReference(r) == r \in UnresolvedTags /\ \A q \in UnresolvedTags : r.at <= q.at

PositionsFor(r) == IF r.sub = 0 THEN tagPositions ELSE asm.subs[r.sub].tags

HasPosition(r) == (r.sub = 0 \/ r.sub <= Len(asm.subs)) /\ r.n \in DOMAIN PositionsFor(r)

ResolveTag(r) ==
  /\ phase = "tags" /\ NextReference(r)
  /\ HasPosition(r)
  /\ Width(PositionsFor(r)[r.n]) <= bytesPerTag
  /\ filled' = Fill({r}, bytesPerTag, PositionsFor(r)[r.n])
  /\ UNCHANGED <<asm, phase, k, sizing, size, tagPositions, refs, links>>

\* The assertions on a reference to a tag.
RejectReference(r) ==
  /\ phase = "tags" /\ NextReference(r)
  /\ \/ ~HasPosition(r) /\ phase' = "noSuchTag"
     \/ HasPosition(r) /\ Width(PositionsFor(r)[r.n]) > bytesPerTag /\ phase' = "tagTooLarge"
  /\ UNCHANGED <<asm, k, sizing, size, tagPositions, refs, filled, links>>

EndTags ==
  /\ phase = "tags" /\ UnresolvedTags = {}
  /\ phase' = "data" /\ k' = 1
  /\ UNCHANGED <<asm, sizing, size, tagPositions, refs, filled, links>>

AppendData ==
  /\ phase = "data" /\ k <= Len(asm.data)
  /\ IF RefsTo("PushData", k) = {} THEN UNCHANGED <<filled, size>>
     ELSE /\ filled' = Fill(RefsTo("PushData", k), bytesPerDataRef, size)
          /\ size' = size + asm.data[k]
  /\ k' = k + 1
  /\ UNCHANGED <<asm, phase, sizing, tagPositions, refs, links>>

SizeRefs == {r \in refs : r.type = "PushProgramSize"}

Finish ==
  /\ phase = "data" /\ k > Len(asm.data)
  /\ size' = size + asm.aux
  /\ filled' = Fill(SizeRefs, bytesPerDataRef, size + asm.aux)
  /\ phase' = "done"
  /\ UNCHANGED <<asm, k, sizing, tagPositions, refs, links>>

AsmNext ==
  \/ CountPart \/ TryWider \/ Estimated
  \/ WriteItem \/ WriteTag \/ RejectTag \/ EndItems
  \/ AppendSub \/ EndSubs
  \/ \E r \in UnresolvedTags : ResolveTag(r) \/ RejectReference(r)
  \/ EndTags \/ AppendData \/ Finish

\* assemble() runs until it returns or throws.
AsmSpec == AsmInit /\ [][AsmNext]_asmVars /\ WF_asmVars(AsmNext)

-----------------------------------------------------------------------------
\* References to data and subassemblies are counted with the width tried for tags, and
\* written with a width that also counts subassemblies and auxiliary data.
Undercounted ==
  bytesPerDataRef > tagSize /\ \E r \in refs : r.type \in {"PushData", "PushSub"}

\* Every tag, the tags of subassemblies included, fits the width chosen before positions
\* are known: the assertion "Tag too large for reserved space." fails only where
\* references to data or subassemblies are wider than they were counted.
TagsFit == phase = "tagTooLarge" => Undercounted

\* The bytes the target of a reference occupies.
TargetSize(r) == IF r.type = "PushData" THEN asm.data[r.n] ELSE asm.subs[r.n].size

\* When assemble() returns, each reference holds where its target really is: a tag its
\* position, the program size the size, and data and subassemblies places in the code
\* behind all references that do not overlap.  toBigEndian would cut a position that
\* does not fit without notice.
ReferencesExact ==
  phase = "done" /\ ~Undercounted =>
    /\ {r.at : r \in refs} = DOMAIN filled
    /\ \A r \in refs :
         CASE r.type = "PushTag" -> filled[r.at] = PositionsFor(r)[r.n]
           [] r.type = "PushProgramSize" -> filled[r.at] = size
           [] OTHER ->
                /\ filled[r.at] + TargetSize(r) <= size - asm.aux
                /\ \A q \in refs : filled[r.at] > q.at
                /\ \A q \in refs : q.type \in {"PushData", "PushSub"} =>
                     \/ filled[r.at] + TargetSize(r) <= filled[q.at]
                     \/ filled[q.at] + TargetSize(q) <= filled[r.at]
                     \/ q.type = r.type /\ q.n = r.n

\* A subassembly that was appended can be linked where it is: its link references are
\* those of the whole, moved to where the code refers to it.  No 20 bytes to be linked
\* overlap with others or with a reference that was filled.
LinksInPlace ==
  phase = "done" /\ ~Undercounted =>
    /\ \A r \in refs : r.type = "PushSub" =>
         {filled[r.at] + p : p \in asm.subs[r.n].links} \subseteq links
    /\ \A p \in links :
         /\ p + 20 <= size
         /\ \A q \in links : p # q => p + 20 <= q \/ q + 20 <= p
         /\ \A r \in refs : p + 20 <= r.at \/ r.at < p

\* assemble() returns or throws: the search for a width ends.
AssembleEnds == <>(phase \notin {"estimate", "items", "subs", "tags", "data"})

=============================================================================
