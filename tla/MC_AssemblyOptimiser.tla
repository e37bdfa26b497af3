------------------------ MODULE MC_AssemblyOptimiser ------------------------
(***************************************************************************)
(* Programs for AssemblyOptimiser:                                         *)
(*  - every short sequence over alphabets that cover the methods of the    *)
(*    peephole optimiser, on values and on jumps and tags;                 *)
(*  - straight code made of phrases that store, load, hash and compute;    *)
(*  - a dispatcher that jumps to some of three blocks (as the words on the *)
(*    stack decide), and the blocks.  Two of the bodies are the same code  *)
(*    once constants have been added, two are loops, one only jumps on and *)
(*    one falls through.                                                   *)
(***************************************************************************)
EXTENDS AssemblyOptimiser

DataAlphabet ==
  {Push(0), Push(3), Op("POP"), Op("DUP1"), Op("SWAP1"), Op("SWAP2"), Op("ADD"), Op("SUB"),
   Op("NOT"), Op("AND"), Op("LT"), Op("SGT"), Op("SSTORE"), Op("ADDMOD"), Op("CALLER")}

ControlAlphabet ==
  {Push(7), Push(2), PushTag(Local, 3), PushTag(Local, 4), Tag(3), Tag(4), Op("JUMP"),
   Op("JUMPI"), Op("STOP"), Op("POP"), Op("AND"), Op("SSTORE"), Op("CALLER")}

Core == {Push(0), Op("POP"), Op("SWAP1"), Op("NOT"), Op("AND"), PushTag(Local, 3), Tag(3), Op("JUMPI")}

TagsOnce(s) ==
  \A j, k \in 1..Len(s) : s[j].type = "Tag" /\ s[j] = s[k] => j = k

Sequences ==
  {s \in (UNION {[1..n -> DataAlphabet] \cup [1..n -> ControlAlphabet] : n \in 1..3}) \cup [1..4 -> Core] : TagsOnce(s)}

Phrases ==
  {<<Push(1), Push(0), Op("SSTORE")>>, <<Op("DUP1"), Push(1), Op("SSTORE")>>, <<Push(0), Op("SLOAD")>>,
   <<Op("DUP2"), Op("SLOAD"), Op("DUP2"), Op("SSTORE")>>,
   <<Op("DUP1"), Push(0), Op("MSTORE")>>, <<Push(5), Push(1), Op("MSTORE")>>, <<Push(3), Op("MLOAD")>>,
   <<Push(0), Op("MLOAD"), Op("SWAP1")>>, <<Push(3), Push(0), Op("KECCAK256")>>, <<Push(3), Op("SWAP1"), Op("MSTORE")>>,
   <<Op("DUP2"), Op("ADD"), Push(2), Op("ADD")>>, <<Op("SWAP2"), Op("SUB"), Op("ISZERO")>>,
   <<Push(1), Op("SUB"), Op("DUP1"), Op("EQ")>>}

Endings == {<<Op("JUMPI")>>, <<Push(0), Op("SWAP1"), Op("RETURN"), Op("MSIZE"), Op("SSTORE")>>,
            <<Op("SELFDESTRUCT"), Op("SSTORE")>>, <<Op("INVALID"), Op("POP")>>, <<Op("MSIZE"), Push(2), Op("SSTORE")>>,
            <<Push(0), Op("MUL"), Push(7), Op("JUMPI"), Op("STOP")>>}

StraightCode == {p \o q \o r : p, q, r \in Phrases} \cup {p \o q \o e : p, q \in Phrases, e \in Endings}

Blocks == 1..3

Bodies(t) ==
  {<<Push(1), Push(2), Op("ADD"), Push(0), Op("SSTORE"), Op("STOP")>>,
   <<Push(3), Push(0), Op("SSTORE"), Op("STOP")>>,
   <<PushTag(Local, t), Op("JUMPI"), Push(1), Push(0), Op("SSTORE"), Op("STOP")>>,
   <<PushTag(Local, t), Op("JUMP")>>,
   <<PushTag(Local, (t % 3) + 1), Op("JUMP")>>,
   <<Push(1), Op("POP")>>}

Dispatch(S) ==
  LET jump(t) == IF t \in S THEN <<PushTag(Local, t), Op("JUMPI")>> ELSE << >>
  IN  jump(1) \o jump(2) \o jump(3) \o <<Op("STOP")>>

Dispatchers ==
  {Dispatch(S) \o <<Tag(1)>> \o b1 \o <<Tag(2)>> \o b2 \o <<Tag(3)>> \o b3 :
     S \in {{1, 2, 3}, {2, 3}}, b1 \in Bodies(1), b2 \in Bodies(2), b3 \in Bodies(3)}

OutsideSets == {{}, {2}, {3}, {2, 3}}

Task(code, outsideSets, switches) ==
  {[code |-> code, outside |-> S, enabled |-> b] : S \in {T \in outsideSets : T \subseteq TagsIn(code)}, b \in switches}

\* Tags can be seen in what the short sequences leave on the stack, so they are not
\* deduplicated.
SomeTasks ==
  (UNION {Task(p, {{}, TagsIn(p)}, {FALSE}) : p \in Sequences})
  \cup (UNION {Task(p, {{}}, {TRUE}) : p \in StraightCode})
  \cup (UNION {Task(p, OutsideSets, BOOLEAN) : p \in Dispatchers})

\* Two hashes of the same words that are taken of different lengths
TwoHashes ==
  {[code |-> <<Push(n), Push(0), Op("KECCAK256"), Push(k), Push(0), Op("KECCAK256")>>,
    outside |-> {}, enabled |-> TRUE] : n \in {1, 3, 4}, k \in {1, 2, 3}}

\* No word is one of the tags 3 and 4: only a pushed tag is jumped to.
SomeStacks == {<<1, 1, 1, 2>>, <<0, 1, 0, 2, 1>>, <<0, 0, 2, 0>>}

=============================================================================
