------------------------------ MODULE RuleList -----------------------------
(***************************************************************************)
(* The simplification rules both optimisers share (libevmasm/RuleList.h).  *)
(*                                                                         *)
(* A pattern is an expression whose leaves may be the match groups A, B, C *)
(* (constants) and X, Y (anything).  The action of a rule is a pattern     *)
(* too; a node of kind "val" in it is computed when the rule is applied,   *)
(* from the constants that were matched.  The loops over 256 bits and the  *)
(* mask of 160 bits follow WordBits and AddressBits.                       *)
(***************************************************************************)
EXTENDS Instructions, SequencesExt

CONSTANT AddressBits
ASSUME AddressAssumption == AddressBits \in 1..WordBits

Pattern(k, f, n, args) == [k |-> k, n |-> n, f |-> f, args |-> args]
Number(n) == Pattern("lit", "", n, << >>)
Operation(f, args) == Pattern("op", f, 0, args)
Computed(f, args) == Pattern("val", f, 0, args)
Group(k, name) == Pattern(k, name, 0, << >>)

A == Group("const", "A")
B == Group("const", "B")
C == Group("const", "C")
X == Group("any", "X")
Y == Group("any", "Y")

Rule(pattern, action, removesNonConstants) ==
  [pattern |-> pattern, action |-> action, removes |-> removesNonConstants]
Keeps(pattern, action) == Rule(pattern, action, FALSE)
Removes(pattern, action) == Rule(pattern, action, TRUE)

\* What the rules compute from constants, with unbounded integers where the code uses
\* bigint.
ConstantArithmetic(f, a) ==
  LET bytes == WordBytes
      testBit == a[1] * ByteBits + ByteBits - 1
      mask == 2^testBit - 1
  IN  CASE f \in {"DIV", "MOD", "SDIV", "SMOD"} /\ a[2] = 0 -> 0
        [] f = "DIV" /\ a[2] # 0 -> Quotient(a[1], a[2])
        [] f = "MOD" /\ a[2] # 0 -> Remainder(a[1], a[2])
        [] f = "SDIV" /\ a[2] # 0 -> Unsigned(Quotient(Signed(a[1]), Signed(a[2])))
        [] f = "SMOD" /\ a[2] # 0 -> Unsigned(Remainder(Signed(a[1]), Signed(a[2])))
        [] f = "BYTE" -> IF a[1] >= bytes THEN 0
                         ELSE And(a[2] \div 2^(ByteBits * (bytes - 1 - a[1])), 2^ByteBits - 1)
        [] f = "SIGNEXTEND" -> IF a[1] >= bytes - 1 THEN a[2]
                               ELSE IF Bit(a[2], testBit) = 1 THEN Or(a[2], AllOnes - mask)
                               ELSE And(a[2], mask)
        [] f = "SHL" -> IF a[1] > WordBits - 1 THEN 0 ELSE Unsigned(a[2] * 2^a[1])
        [] f = "SHR" -> IF a[1] > WordBits - 1 THEN 0 ELSE a[2] \div 2^a[1]
        [] OTHER -> Compute(f, a)

OnConstants(f, args) == Keeps(Operation(f, args), Computed(f, args))
AnyOrder(f, x, y, action, rule(_, _)) ==
  <<rule(Operation(f, <<x, y>>), action), rule(Operation(f, <<y, x>>), action)>>

\* simplificationRuleListPart1, arithmetic on constants
ConstantRules ==
  [k \in 1..20 |-> OnConstants(<<"ADD", "MUL", "SUB", "DIV", "SDIV", "MOD", "SMOD", "EXP", "LT", "GT", "SLT",
                                 "SGT", "EQ", "AND", "OR", "XOR", "BYTE", "SIGNEXTEND", "SHL", "SHR">>[k], <<A, B>>)]
  \o <<OnConstants("NOT", <<A>>), OnConstants("ISZERO", <<A>>), OnConstants("ADDMOD", <<A, B, C>>),
       OnConstants("MULMOD", <<A, B, C>>), Keeps(Operation("MULMOD", <<A, B, C>>), Computed("MUL", <<A, B>>))>>

\* simplificationRuleListPart1, invariants involving known constants
NeutralRules ==
  LET zero == Number(0)  one == Number(1)  ones == Number(AllOnes)
      negated == Operation("SUB", <<zero, X>>)
      keeps(p, a) == Keeps(p, a)
      removes(p, a) == Removes(p, a)
  IN  AnyOrder("ADD", X, zero, X, keeps) \o <<Keeps(Operation("SUB", <<X, zero>>), X)>>
      \o AnyOrder("MUL", X, zero, zero, removes) \o AnyOrder("MUL", X, one, X, keeps)
      \o AnyOrder("MUL", X, ones, negated, keeps)
      \o AnyOrder("DIV", X, zero, zero, removes) \o <<Keeps(Operation("DIV", <<X, one>>), X)>>
      \o AnyOrder("SDIV", X, zero, zero, removes) \o <<Keeps(Operation("SDIV", <<X, one>>), X)>>
      \o AnyOrder("AND", X, ones, X, keeps) \o AnyOrder("AND", X, zero, zero, removes)
      \o AnyOrder("OR", X, zero, X, keeps) \o AnyOrder("OR", X, ones, ones, removes)
      \o AnyOrder("XOR", X, zero, X, keeps) \o AnyOrder("MOD", X, zero, zero, removes)
      \o AnyOrder("EQ", X, zero, Operation("ISZERO", <<X>>), keeps)

\* simplificationRuleListPart1, operations involving an expression and itself, and logical
\* instruction combinations
SelfRules ==
  LET removes(p, a) == Removes(p, a)
      self(f, action) == Removes(Operation(f, <<X, X>>), action)
      absorbed(outer, inner, action) ==
        AnyOrder(outer, X, Operation(inner, <<X, Y>>), action, removes)
        \o AnyOrder(outer, X, Operation(inner, <<Y, X>>), action, removes)
  IN  <<self("AND", X), self("OR", X), self("EQ", Number(1))>>
      \o [k \in 1..7 |-> self(<<"XOR", "SUB", "LT", "SLT", "GT", "SGT", "MOD">>[k], Number(0))]
      \o <<Keeps(Operation("NOT", <<Operation("NOT", <<X>>)>>), X)>>
      \o absorbed("XOR", "XOR", Y) \o absorbed("OR", "AND", X) \o absorbed("AND", "OR", X)
      \o AnyOrder("AND", X, Operation("NOT", <<X>>), Number(0), removes)
      \o AnyOrder("OR", X, Operation("NOT", <<X>>), Number(AllOnes), removes)

\* simplificationRuleListPart2 up to the associative operations
SpecialRules ==
  LET mask == Number(2^AddressBits - 1)
      keeps(p, a) == Keeps(p, a)
      iszero(p) == Operation("ISZERO", <<p>>)
      compare(k) == Operation(<<"EQ", "LT", "SLT", "GT", "SGT">>[k], <<X, Y>>)
      address(k) == Operation(<<"ADDRESS", "CALLER", "ORIGIN", "COINBASE">>[k], << >>)
  IN  [k \in 1..WordBits |-> Keeps(Operation("MOD", <<X, Number(2^(k - 1))>>),
                                   Operation("AND", <<X, Number(2^(k - 1) - 1)>>))]
      \o FlattenSeq([k \in 1..4 |-> AnyOrder("AND", address(k), mask, address(k), keeps)])
      \o [k \in 1..5 |-> Keeps(iszero(iszero(compare(k))), compare(k))]
      \o <<Keeps(iszero(iszero(iszero(X))), iszero(X)),
           Keeps(iszero(Operation("XOR", <<X, Y>>)), Operation("EQ", <<X, Y>>))>>

\* simplificationRuleListPart2: constants move outwards
AssociativeRules ==
  LET of(f, xa) ==
        LET inner == Operation(f, xa)
            folded == Operation(f, <<X, Computed(f, <<A, B>>)>>)
        IN  <<Keeps(Operation(f, <<inner, B>>), folded),
              Keeps(Operation(f, <<inner, Y>>), Operation(f, <<Operation(f, <<X, Y>>), A>>)),
              Keeps(Operation(f, <<B, inner>>), folded),
              Keeps(Operation(f, <<Y, inner>>), Operation(f, <<Operation(f, <<Y, X>>), A>>))>>
      each(f) == of(f, <<X, A>>) \o of(f, <<A, X>>)
  IN  each("ADD") \o each("MUL") \o each("AND") \o each("OR") \o each("XOR")

\* Mutant of SubtractionRules: the constant of the inner sum keeps its sign
SubtractionRulesSameSign ==
  LET sum(p, q) == Operation("ADD", <<p, q>>)
      minus(p, q) == Operation("SUB", <<p, q>>)
  IN  <<Keeps(minus(X, sum(Y, A)), sum(minus(X, Y), A))>>

SubtractionRules ==
  LET sum(p, q) == Operation("ADD", <<p, q>>)
      minus(p, q) == Operation("SUB", <<p, q>>)
      negative == Computed("SUB", <<Number(0), A>>)
  IN  <<Keeps(minus(X, A), sum(X, negative)),
        Keeps(minus(sum(X, A), Y), sum(minus(X, Y), A)),
        Keeps(minus(sum(A, X), Y), sum(minus(X, Y), A)),
        Keeps(minus(X, sum(Y, A)), sum(minus(X, Y), negative)),
        Keeps(minus(X, sum(A, Y)), sum(minus(X, Y), negative))>>

\* simplificationRuleList.  The order among rules for one instruction decides which applies.
SimplificationRules ==
  ConstantRules \o NeutralRules \o SelfRules \o SpecialRules \o AssociativeRules \o SubtractionRules

----------------------------------------------------------------------------
\* Reference: the value of a pattern when the groups have these values.

RECURSIVE ValueOf(_, _), EvaluationOrder(_)

ValueOf(p, groups) ==
  CASE p.k = "lit" -> p.n
    [] p.k \in {"const", "any"} -> groups[p.f]
    [] p.k = "val" -> ConstantArithmetic(p.f, [j \in 1..Len(p.args) |-> ValueOf(p.args[j], groups)])
    [] p.k = "op" /\ p.args = << >> -> groups["address"]
    [] OTHER -> Compute(p.f, [j \in 1..Len(p.args) |-> ValueOf(p.args[j], groups)])

\* The arbitrary operations of a pattern in the order of their evaluation
EvaluationOrder(p) ==
  IF p.k = "any" \/ (p.k = "op" /\ p.args = << >>) THEN <<p.f>>
  ELSE IF p.k = "val" THEN << >>
  ELSE FlattenSeq([j \in 1..Len(p.args) |-> EvaluationOrder(p.args[Len(p.args) + 1 - j])])

RECURSIVE GroupsIn(_)
GroupsIn(p) ==
  CASE p.k \in {"const", "any"} -> {p.f}
    [] p.k = "op" /\ p.args = << >> -> {"address"}
    [] OTHER -> UNION {GroupsIn(p.args[j]) : j \in 1..Len(p.args)}

\* The rule with this number keeps the value of the expression; unless it is marked as
\* removing non-constant parts, which the optimisers then require to be movable, it also
\* keeps what is evaluated and in which order (RuleList.h:311, "should never change the
\* order of evaluation of arbitrary operations").  A rule that can never be the first to
\* match because an earlier one has the same pattern is harmless whatever it says, as the
\* second one for MULMOD, which ignores the modulus.
RuleIsSound(k) ==
  LET rule == SimplificationRules[k]
      groups == GroupsIn(rule.pattern)
      possible(v) == "address" \in groups => v["address"] < 2^AddressBits
      same(v) == ValueOf(rule.pattern, v) = ValueOf(rule.action, v)
  IN  \/ \E j \in 1..(k - 1) : SimplificationRules[j].pattern = rule.pattern
      \/ /\ \A v \in [groups -> Words] : possible(v) => same(v)
         /\ rule.removes \/ EvaluationOrder(rule.pattern) = EvaluationOrder(rule.action)

=============================================================================
