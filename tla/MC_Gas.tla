------------------------------- MODULE MC_Gas -------------------------------
(***************************************************************************)
(* Code for GasMeter: constants of all shapes, alone and repeated, and     *)
(* code of phrases that store, load, hash and jump, from its start, for a  *)
(* selector and for an internal function.                                  *)
(***************************************************************************)
EXTENDS GasMeter

\* Powers of two, numbers next to them, their complements, sums of two and numbers
\* without a gap.
Constants ==
  LET powers == {2^n : n \in {2, 5, 9, 14, 18, 23}}
      near == powers \cup {p - 1 : p \in powers} \cup {p + 3 : p \in powers}
  IN  near \cup {AllOnes - v : v \in near} \cup {p + q : p, q \in powers \ {2^23}} \cup {5592405, 11184810}

Repeated(v, n) == Concat([k \in 1..n |-> <<Push(v), Op("XOR")>>])

Alone == [kind |-> "start"]
ConstantTasks ==
  {[code |-> Repeated(v, n) \o Repeated(v + 1, 1), isCreation |-> c, runs |-> r, entry |-> Alone] :
     v \in Constants \ {AllOnes}, n \in {1, 7}, c \in BOOLEAN, r \in {1, 200}}

Phrases ==
  {<<Push(5), Op("SLOAD"), Push(1), Op("SSTORE")>>, <<Push(1), Push(5), Op("SSTORE")>>,
   <<Push(0), Push(1), Op("SSTORE")>>, <<Op("DUP1"), Op("DUP1"), Op("SSTORE")>>,
   <<Push(9), Push(0), Op("MSTORE")>>, <<Push(30), Op("MLOAD")>>, <<Op("DUP1"), Op("MLOAD")>>,
   <<Push(50), Push(2), Op("KECCAK256")>>, <<Push(5), Push(2), Op("EXP")>>,
   <<Op("CALLDATASIZE"), Push(2), Op("EXP")>>}

Jumps3 ==
  {<<Op("DUP1"), PushTag(Local, 1), Op("JUMPI")>>, <<PushTag(Local, 1), Op("JUMP")>>,
   <<Op("DUP1"), Op("ISZERO"), PushTag(Local, 2), Op("JUMPI")>>, <<Push(1), PushTag(Local, 2), Op("JUMPI")>>}

Branching ==
  {p \o j \o q \o <<Tag(1)>> \o r \o <<Tag(2), Op("STOP")>> : p, q, r \in Phrases, j \in Jumps3}
  \cup {<<Tag(1)>> \o p \o j \o <<Op("STOP"), Tag(2)>> \o q \o <<Push(40), Push(7), Op("RETURN")>> : p, q \in Phrases, j \in Jumps3}

\* Two paths that meet
Joining ==
  {<<Op("DUP1"), PushTag(Local, 1), Op("JUMPI")>> \o p \o <<PushTag(Local, 2), Op("JUMP"), Tag(1)>> \o q
     \o <<PushTag(Local, 2), Op("JUMP"), Tag(2)>> \o r : p, q, r \in Phrases}

\* The dispatch to two functions, the second of which calls an internal one.
Dispatcher(p, q) ==
  <<Push((WordBits - SelectorBits) \div ByteBits), Op("CALLDATASIZE"), Op("LT"), PushTag(Local, 3), Op("JUMPI"),
    Push(2^SelectorBits), Push(0), Op("CALLDATALOAD"), Op("DIV"),
    Op("DUP1"), Push(1), Op("EQ"), PushTag(Local, 1), Op("JUMPI"),
    Op("DUP1"), Push(2), Op("EQ"), PushTag(Local, 2), Op("JUMPI"),
    Tag(3), Push(0), Op("DUP1"), Op("REVERT"), Tag(1)>> \o p \o <<Op("STOP"), Tag(2), PushTag(Local, 5), Push(6), Push(7), PushTag(Local, 4), Op("JUMP"),
    Tag(5), Op("STOP"), Tag(4)>> \o q \o <<Op("SWAP2"), Op("JUMP")>>

Entries ==
  {[kind |-> "selector", selector |-> s] : s \in 1..3} \cup {[kind |-> "function", tag |-> 4, parameters |-> 2]}

SomeEstimates ==
  ConstantTasks
  \cup {[code |-> c, isCreation |-> FALSE, runs |-> 200, entry |-> Alone] : c \in Branching \cup Joining}
  \cup {[code |-> Dispatcher(p, q), isCreation |-> FALSE, runs |-> 200, entry |-> e] : p, q \in Phrases, e \in Entries}

SomeInputs == {[stack |-> s, input |-> 5] : s \in {<<1, 1, 3>>, <<0, 4, 2>>, <<7, 30, 0, 1>>}}

=============================================================================
